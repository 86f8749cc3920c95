------------------------------ MODULE OrgReset ------------------------------
(***************************************************************************)
(* `reset`: undo earlier migrations of one export directory.  The operator *)
(* confirms organizations; the built-in profile, gate and permission       *)
(* template of each become the defaults again; then every custom one goes, *)
(* with the groups, the projects the earlier runs recorded and the         *)
(* portfolios of the mapping.  A failing call is counted and passed over.  *)
(*                                                                         *)
(* A task lists what an organization has and acts on that list later: an   *)
(* administrator of the organization may act in between.  SonarQube Cloud  *)
(* refuses to delete what is a current default.                            *)
(***************************************************************************)
EXTENDS Naturals, FiniteSets

CONSTANTS
    Org,
    Entity,    \* the profiles, gates, templates and groups of all organizations
    OrgOf, KindOf,  \* of an entity
    BuiltIn,   \* the entities an organization was born with
    Slot,      \* what a default is chosen for: a language, the gate, a qualifier
    SlotOrg, SlotKind,
    Fits,      \* Fits[s]: the entities that can be the default of slot s
    NoEntity,
    Project, Target,  \* Target[p]: the organization projects.csv sends p to
    Portfolio, \* the names portfolios.csv lists
    Worlds,    \* what the organizations may look like: defaults a migration left
               \* behind, entities of the built-in's name, who holds the keys
               \* before the migration, portfolios there are
    Selections, \* the sets of organizations an operator confirms
    MaxAdmin,  \* bound: steps of the administrator
    MaxResets  \* bound: reset commands

Absent == "absent"

\* An organization is born with one permission template and has one default
\* gate; the default of a slot is of the slot's organization and kind.
ASSUME EntityAssumption ==
    /\ BuiltIn \subseteq Entity
    /\ OrgOf \in [Entity -> Org]
    /\ KindOf \in [Entity -> {"profile", "gate", "template", "group"}]
    /\ \A d, e \in BuiltIn : KindOf[d] = "template" /\ KindOf[e] = "template"
                              /\ OrgOf[d] = OrgOf[e] => d = e
    /\ SlotKind \in [Slot -> {"profile", "gate", "template"}]
    /\ \A r, s \in Slot : SlotKind[r] = "gate" /\ SlotKind[s] = "gate"
                           /\ SlotOrg[r] = SlotOrg[s] => r = s
    /\ \A s \in Slot : Fits[s] \subseteq {e \in Entity : OrgOf[e] = SlotOrg[s] /\ KindOf[e] = SlotKind[s]}
ASSUME WorldAssumption ==
    /\ Target \in [Project -> Org] /\ Absent \notin Org
    /\ Selections \subseteq SUBSET Org
    /\ MaxAdmin \in Nat /\ MaxResets \in Nat
    /\ \A w \in Worlds :
         /\ w.default \in [Slot -> Entity] /\ \A s \in Slot : w.default[s] \in Fits[s]
         /\ w.named \subseteq Entity /\ w.folios \subseteq Portfolio
         /\ w.home \in [Project -> Org \cup {Absent}]

VARIABLES
    stage,     \* migrating, idle, resetting, done, failed or aborted
    resets,    \* reset commands issued
    confirmed, \* ResetConfirmedOrgs
    live, default, named, \* the organizations: entities, defaults, names
    home,      \* home[p]: the organization that holds the key of p
    made,      \* history: projects a migration created
    records,   \* createProjects' rows over all earlier runs
    folios,    \* portfolios of the enterprise, by name
    pc, snap,  \* per <<task, org>>: progress, and the list it works from
    interrupted,
    unreset,   \* resetPermissionTemplates' "failed" records
    blind,     \* history: organizations whose templates it could not list
    rows,      \* getCreatedProjects' rows
    folioRows, \* createPortfolios' rows
    failures,  \* what the counters hold: failed calls, defaults nobody could
               \* replace, refusals of a current default
    admin      \* steps of the administrator

cloudVars == <<live, default, named, home, folios>>
runVars   == <<pc, snap, interrupted, unreset, rows, folioRows, failures>>
ovars == <<stage, resets, confirmed, cloudVars, made, records, runVars, blind, admin>>

-----------------------------------------------------------------------------
(* The plan: resetTargets and their dependencies, in layers *)

Tasks == {"resetDefaultProfiles", "resetDefaultGates", "resetPermissionTemplates",
          "deleteProfiles", "deleteGates", "deleteTemplates", "deleteGroups",
          "getCreatedProjects", "deleteProjects", "createPortfolios", "deletePortfolios"}

Dependencies(t) ==
    CASE t = "deleteProfiles"  -> {"resetDefaultProfiles"}
      [] t = "deleteGates"     -> {"resetDefaultGates"}
      [] t = "deleteTemplates" -> {"resetPermissionTemplates"}
      [] t = "deleteProjects"  -> {"getCreatedProjects"}
      [] t = "deletePortfolios" -> {"createPortfolios"}
      [] OTHER -> {}

Wide   == {"getCreatedProjects", "deleteProjects", "createPortfolios", "deletePortfolios"}
Proc   == ((Tasks \ Wide) \X Org) \cup (Wide \X {"enterprise"})
NoSnap == [live |-> {}, default |-> {}]

\* errgroup: the tasks of a phase side by side, a phase behind the one before.
\* createPortfolios runs with the deletes, for getEnterprises is before it.
Phase == [t \in Tasks |->
    IF Dependencies(t) = {} /\ t # "createPortfolios" THEN 1
    ELSE IF t = "deletePortfolios" THEN 3 ELSE 2]
Upto(n) == {q \in Proc : Phase[q[1]] =< n}

Open(t) == \A q \in Upto(Phase[t] - 1) : pc[q] = "done"

-----------------------------------------------------------------------------
ResetTypeOK ==
    /\ stage \in {"migrating", "idle", "resetting", "done", "failed", "aborted"}
    /\ resets \in 0 .. MaxResets
    /\ confirmed \subseteq Org
    /\ live \subseteq Entity /\ named \subseteq Entity
    /\ default \in [Slot -> Entity]
    /\ home \in [Project -> Org \cup {Absent}]
    /\ made \subseteq Project
    /\ records \subseteq [project : Project, ok : BOOLEAN]
    /\ folios \subseteq Portfolio /\ folioRows \subseteq Portfolio
    /\ pc \in [Proc -> {"idle", "listed", "done"}]
    /\ \A q \in Proc : snap[q].live \subseteq Entity /\ snap[q].default \subseteq Slot \X Entity
    /\ interrupted \in BOOLEAN /\ failures \subseteq {"call", "missing", "refused"}
    /\ unreset \subseteq Org /\ blind \subseteq Org
    /\ rows \subseteq Project
    /\ admin \in 0 .. MaxAdmin

ResetInit ==
    /\ stage = "migrating" /\ resets = 0 /\ confirmed = {}
    /\ live = Entity
    /\ made = {} /\ records = {}
    /\ \E w \in Worlds :
         default = w.default /\ named = w.named /\ home = w.home /\ folios = w.folios
    /\ pc = [q \in Proc |-> "idle"] /\ snap = [q \in Proc |-> NoSnap]
    /\ interrupted = FALSE /\ unreset = {} /\ rows = {} /\ folioRows = {}
    /\ failures = {} /\ blind = {}
    /\ admin = 0

-----------------------------------------------------------------------------
(* The migration that went before: createProjects *)

\* "Already exists" is recorded as if created when the key is in the target
\* organization, as failed when another organization holds it.
CreateProjects ==
    /\ stage = "migrating"
    /\ stage' = "idle"
    /\ home' = [p \in Project |-> IF home[p] = Absent THEN Target[p] ELSE home[p]]
    /\ made' = {p \in Project : home[p] = Absent}
    /\ records' = {[project |-> p, ok |-> home'[p] = Target[p]] : p \in Project}
    /\ UNCHANGED <<resets, confirmed, live, default, named, folios, runVars, blind, admin>>

-----------------------------------------------------------------------------
(* The command *)

\* Variant: every row keeps its organization.
KeepsAll(o) == FALSE

\* loadCSVToJSONL rewrites an organization nobody confirmed to SKIPPED.
ShouldSkipOrg(o) == o \notin confirmed

\* The operator types keys of the listed organizations; an unknown key is an
\* error, no key an abort, and the executor never runs without a key.  A row of
\* an organization to skip is done before it starts.
Confirm(orgs) ==
    /\ stage \in {"idle", "failed"}
    /\ resets < MaxResets
    /\ resets' = resets + 1
    /\ confirmed' = orgs
    /\ stage' = IF orgs = {} THEN "aborted" ELSE "resetting"
    /\ pc' = [q \in Proc |-> IF q[1] \notin Wide /\ ShouldSkipOrg(q[2])' THEN "done" ELSE "idle"]
    /\ snap' = [q \in Proc |-> NoSnap]
    /\ interrupted' = FALSE /\ unreset' = {} /\ rows' = {} /\ folioRows' = {}
    /\ failures' = {}
    /\ UNCHANGED <<cloudVars, made, records, blind, admin>>

Goes(q) == pc' = [pc EXCEPT ![q] = "done"]
Clear(q) == snap' = [snap EXCEPT ![q] = NoSnap]
Counts(kinds) == failures' = failures \cup kinds
If(cond, kind) == IF cond THEN {kind} ELSE {}

TaskKind(t) ==
    CASE t \in {"resetDefaultProfiles", "deleteProfiles"} -> "profile"
      [] t \in {"resetDefaultGates", "deleteGates"} -> "gate"
      [] t \in {"resetPermissionTemplates", "deleteTemplates"} -> "template"
      [] t = "deleteGroups" -> "group"
      [] OTHER -> "none"
Resets  == {"resetDefaultProfiles", "resetDefaultGates", "resetPermissionTemplates"}
Deletes == {"deleteProfiles", "deleteGates", "deleteTemplates", "deleteGroups"}

Of(o, k)  == {e \in live : OrgOf[e] = o /\ KindOf[e] = k}
Slots(o, k) == {s \in Slot : SlotOrg[s] = o /\ SlotKind[s] = k}

\* deleteTemplates leaves an organization alone when resetPermissionTemplates
\* recorded that it found no built-in there.
Spared(q) == q[1] = "deleteTemplates" /\ q[2] \in unreset

SpareOrg(q) ==
    /\ pc[q] = "idle" /\ Spared(q)
    /\ Goes(q)
    /\ UNCHANGED <<stage, resets, confirmed, cloudVars, made, records, snap, interrupted,
                   unreset, rows, folioRows, failures, blind, admin>>

\* The listing call, on success and on failure.
List(q) ==
    /\ pc[q] = "idle" /\ ~Spared(q)
    /\ q[1] \in Resets \cup Deletes
    /\ LET k == TaskKind(q[1])
       IN  snap' = [snap EXCEPT ![q] = [live |-> Of(q[2], k),
              default |-> {<<s, default[s]>> : s \in Slots(q[2], k)}]]
    /\ pc' = [pc EXCEPT ![q] = "listed"]
    /\ UNCHANGED <<stage, resets, confirmed, cloudVars, made, records, interrupted, unreset,
                   rows, folioRows, failures, blind, admin>>

ListFails(q) ==
    /\ pc[q] = "idle" /\ ~Spared(q)
    /\ q[1] \in Resets \cup Deletes
    /\ Goes(q) /\ Counts({"call"})
    /\ blind' = IF q[1] = "resetPermissionTemplates" THEN blind \cup {q[2]} ELSE blind
    /\ UNCHANGED <<stage, resets, confirmed, cloudVars, made, records, snap, interrupted,
                   unreset, rows, folioRows, admin>>

\* isBuiltInGate and isBuiltInProfile go by the flag, then by the name; a
\* template has no flag.
IsBuiltIn(e) == (e \in BuiltIn /\ KindOf[e] \in {"profile", "gate"}) \/ e \in named

-----------------------------------------------------------------------------
(* The defaults: the calls of one organization are independent of each     *)
(* other, so the set of those that fail is chosen at once.                 *)

\* Variant: the call that promotes the built-in is left out.
NotPromoted(s, built) == default

Promoted(s, built) == [default EXCEPT ![s] = IF built \in live THEN built ELSE @]

\* Languages whose default is custom get a built-in one.
ResetDefaultProfiles(q) ==
    /\ q[1] = "resetDefaultProfiles" /\ pc[q] = "listed"
    /\ \E fails \in SUBSET Slots(q[2], "profile") :
         LET wants == {d[1] : d \in {d \in snap[q].default : ~IsBuiltIn(d[2])}}
             built(s) == {e \in snap[q].live \cap Fits[s] : IsBuiltIn(e)}
             missed == {s \in wants : built(s) = {} \/ s \in fails}
         IN /\ fails \subseteq wants
            /\ \E pick \in [wants -> Entity \cup {NoEntity}] :
                 /\ \A s \in wants : IF built(s) = {} THEN pick[s] = NoEntity
                                     ELSE pick[s] \in built(s)
                 /\ default' = [s \in Slot |->
                       IF s \in wants \ missed /\ pick[s] \in live THEN pick[s] ELSE default[s]]
            /\ Counts(If(\E s \in wants : built(s) = {}, "missing") \cup If(fails # {}, "call"))
    /\ Goes(q) /\ Clear(q)
    /\ UNCHANGED <<stage, resets, confirmed, live, named, home, folios, made, records,
                   interrupted, unreset, rows, folioRows, blind, admin>>

\* The first built-in of the list, unless it is the default already.
ResetDefaultGates(q) ==
    /\ q[1] = "resetDefaultGates" /\ pc[q] = "listed"
    /\ LET built == {e \in snap[q].live : IsBuiltIn(e)}
       IN  \/ /\ built = {}
              /\ Counts({"missing"}) /\ UNCHANGED default
           \/ \E e \in built :
                \/ /\ \A s \in Slots(q[2], "gate") : <<s, e>> \in snap[q].default
                   /\ UNCHANGED <<default, failures>>
                \/ /\ \E s \in Slots(q[2], "gate") :
                        <<s, e>> \notin snap[q].default /\ default' = Promoted(s, e)
                   /\ UNCHANGED failures
                \/ Counts({"call"}) /\ UNCHANGED default
    /\ Goes(q) /\ Clear(q)
    /\ UNCHANGED <<stage, resets, confirmed, live, named, home, folios, made, records,
                   interrupted, unreset, rows, folioRows, blind, admin>>

\* Variant: no record is left when the built-in is not found.
NoRecord(o) == unreset

FailedRecord(o) == unreset \cup {o}

\* No template of the built-in's name: a failed record for deleteTemplates.
\* Otherwise every qualifier gets it.
ResetPermissionTemplates(q) ==
    /\ q[1] = "resetPermissionTemplates" /\ pc[q] = "listed"
    /\ LET built == {e \in snap[q].live : IsBuiltIn(e)}
       IN  IF built = {}
             THEN Counts({"missing"}) /\ unreset' = FailedRecord(q[2]) /\ UNCHANGED default
             ELSE \E e \in built, fails \in SUBSET Slots(q[2], "template") :
                    /\ default' = [s \in Slot |->
                          IF s \in Slots(q[2], "template") \ fails /\ e \in live THEN e ELSE default[s]]
                    /\ Counts(If(fails # {}, "call"))
                    /\ UNCHANGED unreset
    /\ Goes(q) /\ Clear(q)
    /\ UNCHANGED <<stage, resets, confirmed, live, named, home, folios, made, records,
                   interrupted, rows, folioRows, blind, admin>>

-----------------------------------------------------------------------------
(* The sweeps *)

\* Every listed entity but the kept ones.  A current default is refused, one
\* that is gone already is an error of its own except for a group.
Sweep(q, kept) ==
    /\ pc[q] = "listed"
    /\ LET called  == snap[q].live \ kept
           refused == {e \in called : \E s \in Slot : default[s] = e}
       IN  \E fails \in SUBSET called :
             /\ live' = live \ (called \ (fails \cup refused))
             /\ Counts(If(fails # {}, "call") \cup If(refused # {}, "refused"))
    /\ Goes(q) /\ Clear(q)
    /\ UNCHANGED <<stage, resets, confirmed, default, named, home, folios, made, records,
                   interrupted, unreset, rows, folioRows, blind, admin>>

BuiltInListed(q) == {e \in snap[q].live : IsBuiltIn(e)}

DeleteProfiles(q) == q[1] = "deleteProfiles" /\ Sweep(q, BuiltInListed(q))
DeleteGates(q)    == q[1] = "deleteGates" /\ Sweep(q, BuiltInListed(q))

\* The default group of an organization has a flag.
DefaultGroup(q) == snap[q].live \cap BuiltIn
DeleteGroups(q) == q[1] = "deleteGroups" /\ Sweep(q, DefaultGroup(q))

\* isCurrentDefaultTemplate is a second net under the name.
DeleteTemplates(q) ==
    /\ q[1] = "deleteTemplates"
    /\ Sweep(q, BuiltInListed(q) \cup {d[2] : d \in snap[q].default})

IsCreated(r) == r.ok

\* The rows of all earlier runs, by key, in the confirmed organizations.
GetCreatedProjects(q) ==
    /\ pc[q] = "idle" /\ q[1] = "getCreatedProjects"
    /\ rows' = {r.project : r \in {r \in records :
                  IsCreated(r) /\ ~ShouldSkipOrg(Target[r.project])}}
    /\ Goes(q)
    /\ UNCHANGED <<stage, resets, confirmed, cloudVars, made, records, snap, interrupted,
                   unreset, folioRows, failures, blind, admin>>

\* By key alone: the organization is not part of the call.
DeleteProjects(q) ==
    /\ pc[q] = "idle" /\ q[1] = "deleteProjects"
    /\ \E fails \in SUBSET rows :
         /\ home' = [p \in Project |-> IF p \in rows \ fails THEN Absent ELSE home[p]]
         /\ Counts(If(\E p \in rows : p \in fails \/ home[p] = Absent, "call"))
    /\ Goes(q)
    /\ UNCHANGED <<stage, resets, confirmed, live, default, named, folios, made, records,
                   snap, interrupted, unreset, rows, folioRows, blind, admin>>

\* A portfolio of the name is taken over when the listing showed it, created
\* when not; a name that exists is refused.
CreatePortfolios(q) ==
    /\ pc[q] = "idle" /\ q[1] = "createPortfolios"
    /\ \E listed \in {folios, {}}, fails \in SUBSET Portfolio :
         LET created == Portfolio \ (listed \cup fails \cup folios)
         IN  /\ fails \cap listed = {}
             /\ folios' = folios \cup created
             /\ folioRows' = (listed \cap Portfolio) \cup created
             /\ Counts(If(Portfolio # folioRows', "call"))
    /\ Goes(q)
    /\ UNCHANGED <<stage, resets, confirmed, live, default, named, home, made, records,
                   snap, interrupted, unreset, rows, blind, admin>>

\* The enterprise is not among those listed: an error that ends the run.
EnterpriseUnknown(q) ==
    /\ pc[q] = "idle" /\ q[1] = "createPortfolios"
    /\ interrupted' = TRUE
    /\ UNCHANGED <<stage, resets, confirmed, cloudVars, made, records, pc, snap,
                   unreset, rows, folioRows, failures, blind, admin>>

DeletePortfolios(q) ==
    /\ pc[q] = "idle" /\ q[1] = "deletePortfolios"
    /\ \E fails \in SUBSET folioRows :
         /\ folios' = folios \ (folioRows \ fails)
         /\ Counts(If(fails # {}, "call"))
    /\ Goes(q)
    /\ UNCHANGED <<stage, resets, confirmed, live, default, named, home, made, records,
                   snap, interrupted, unreset, rows, folioRows, blind, admin>>

\* The context is cancelled: what has not started does not start.
InterruptReset ==
    /\ stage = "resetting" /\ ~interrupted
    /\ interrupted' = TRUE
    /\ UNCHANGED <<stage, resets, confirmed, cloudVars, made, records, pc, snap,
                   unreset, rows, folioRows, failures, blind, admin>>

EndReset ==
    /\ stage = "resetting"
    /\ \A q \in Proc : pc[q] # "listed"
    /\ \/ /\ \A q \in Proc : pc[q] = "done"
          /\ stage' = "done"
       \/ /\ \E q \in Proc : pc[q] = "idle"
          /\ interrupted
          /\ stage' = "failed"
    /\ UNCHANGED <<resets, confirmed, cloudVars, made, records, runVars, blind, admin>>

\* An administrator of an organization at work beside the reset.
Promote(s, e) ==
    /\ stage = "resetting" /\ admin < MaxAdmin
    /\ e \in live \cap Fits[s] /\ default[s] # e
    /\ default' = Promoted(s, e)
    /\ admin' = admin + 1
    /\ UNCHANGED <<stage, resets, confirmed, live, named, home, folios, made, records,
                   runVars, blind>>

-----------------------------------------------------------------------------
DeleteStep(q) ==
    /\ stage = "resetting" /\ pc[q] # "done"
    /\ pc[q] = "idle" => Open(q[1]) /\ ~interrupted
    /\ \/ SpareOrg(q) \/ List(q) \/ ListFails(q)
       \/ ResetDefaultProfiles(q) \/ ResetDefaultGates(q) \/ ResetPermissionTemplates(q)
       \/ DeleteProfiles(q) \/ DeleteGates(q) \/ DeleteTemplates(q) \/ DeleteGroups(q)
       \/ GetCreatedProjects(q) \/ DeleteProjects(q)
       \/ CreatePortfolios(q) \/ EnterpriseUnknown(q) \/ DeletePortfolios(q)

Environment ==
    \/ CreateProjects
    \/ \E orgs \in Selections : Confirm(orgs)
    \/ InterruptReset
    \/ \E s \in Slot, e \in Entity : Promote(s, e)

ResetNext == Environment \/ EndReset \/ \E q \in Proc : DeleteStep(q)

ResetSpec     == ResetInit /\ [][ResetNext]_ovars

-----------------------------------------------------------------------------
(* Properties *)

\* No step of a reset changes what an organization nobody confirmed holds, nor
\* a project another organization holds.
UnconfirmedUntouched ==
    [][stage = "resetting" /\ admin' = admin =>
        /\ \A e \in live \ live' : OrgOf[e] \in confirmed
        /\ \A s \in Slot : default'[s] # default[s] => SlotOrg[s] \in confirmed
        /\ \A p \in Project : home'[p] # home[p] => home[p] \in confirmed]_ovars

\* A template an organization was born with, whatever it is called by now and
\* whatever is the default, goes only when its organization's templates could
\* not be listed, a custom one bears its name, or an administrator interferes.
BuiltInSurvives ==
    \A e \in BuiltIn : e \notin live =>
        /\ KindOf[e] = "template"
        /\ \/ OrgOf[e] \in blind
           \/ admin > 0
           \/ \E c \in named \ BuiltIn : OrgOf[c] = OrgOf[e] /\ KindOf[c] = "template"

\* A reset that ends with no call failed, no built-in missing and nobody
\* interfering leaves the confirmed organizations with what looks built-in, the
\* default group, and no project or portfolio of the migration: no current
\* default was still in the way when the sweeps came.
CleanResetIsClean ==
    stage = "done" /\ failures \subseteq {"refused"} /\ admin = 0 =>
        /\ \A e \in live : OrgOf[e] \in confirmed =>
              e \in BuiltIn \/ IsBuiltIn(e)
        /\ \A r \in records : r.ok /\ Target[r.project] \in confirmed =>
              home[r.project] = Absent
        /\ folios \cap Portfolio = {}

\* A reset takes away what the migration made and nothing else.
ResetInv == ResetTypeOK /\ BuiltInSurvives /\ CleanResetIsClean

\* Only projects a migration created are deleted.
OnlyCreatedDeleted ==
    [][stage = "resetting" =>
        \A p \in Project : home'[p] # home[p] => p \in made]_ovars

\* deleteTemplates deletes nothing where resetPermissionTemplates could not
\* find the built-in.
UnfoundIsSpared ==
    [][\A e \in live \ live' : KindOf[e] = "template" =>
        ~(OrgOf[e] \in blind)]_ovars
=============================================================================
