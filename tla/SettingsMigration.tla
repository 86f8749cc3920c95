------------------------- MODULE SettingsMigration -------------------------
(***************************************************************************)
(* The migration of settings: setGlobalSettings and setProjectSettings,    *)
(* two tasks of one phase that write the same settings of the same         *)
(* projects and never speak to each other.                                 *)
(*                                                                         *)
(* SonarQube Cloud defines a key for organizations, for projects, or for   *)
(* both.  setGlobalSettings writes the customized globals of the source to *)
(* the organizations, and to every project when an organization refuses    *)
(* the key after all.  setProjectSettings first writes the settings that   *)
(* projects have of their own, then the globals that Cloud defines for     *)
(* projects only.  Each task fetches the definitions for itself, and goes  *)
(* on without those it could not fetch.  A project that was just created   *)
(* is unknown to other endpoints for a while: writes of globals, not of    *)
(* the settings of projects, are repeated until it is known.               *)
(***************************************************************************)
EXTENDS Integers, Sequences, FiniteSets, FiniteSetsExt

CONSTANTS
    Proj,         \* migrated projects
    OrgSeq,       \* the target organizations, sorted
    HomeOf,       \* [Proj -> organization]
    Key,          \* settings that are neither internal nor of SonarQube Server only
    Scenarios,    \* what the source holds and the target accepts
    MaxAttempts,  \* projectIndexingRetryMaxAttempts (8 in the code)
    MaxOutages    \* bound: calls that fail for a passing reason

Orgs == {OrgSeq[i] : i \in DOMAIN OrgSeq}

ASSUME SettingsAssumption ==
    /\ OrgSeq \in Seq(Orgs) /\ IsFiniteSet(Proj) /\ IsFiniteSet(Key)
    /\ HomeOf \in [Proj -> Orgs]
    /\ MaxAttempts \in Nat \ {0} /\ MaxOutages \in Nat

Tasks == {"globals", "projects"}

VARIABLES
    setup,      \* the scenario of this behaviour
    orgValue,   \* Cloud, per organization and key: "default" or "global"
    ownValue,   \* Cloud, per project and key: "unset", "global" or "own"
    known,      \* Cloud: projects its settings endpoints know by now
    step,       \* per task: "org defs", "project defs", then its passes, then "end"
    defs,       \* per task: organizations whose definitions it fetched, by scope
    walk,       \* globals, per key: the walk over the organizations
    outcome,    \* globals, per key and organization: what its record says
    job,        \* projects, per project and key: the write of the current pass
    covered,    \* projects: pairs that projects set for themselves
    rejected,   \* projects: keys refused for a project
    failures,   \* failures counted, <<task, project or organization, key>>
    outages,    \* calls that failed for a passing reason
    refusals    \* ghost: writes of a key that organizations refused

svars == <<setup, orgValue, ownValue, known, step, defs, walk, outcome, job,
           covered, rejected, failures, outages, refusals>>

Unhandled == "unset"
Outcome == {Unhandled, "applied", "fanned out", "project only", "not on cloud", "failed"}

ProjectsOf(o) == {p \in Proj : HomeOf[p] = o}

\* Definitions as a task knows them: a list it could not fetch is empty.
ForOrg(t, o, k) == o \in defs[t].org /\ k \in setup.atOrg
ForProject(t, o, k) == o \in defs[t].project /\ k \in setup.atProject

HasRecord(p, k) == setup.record[p][k] # "none"
NoJob == [at |-> "done", tries |-> 0]
Waiting == [at |-> "waiting", tries |-> 0]

SettingsTypeOK ==
    /\ setup \in Scenarios
    /\ orgValue \in [Orgs -> [Key -> {"default", "global"}]]
    /\ ownValue \in [Proj -> [Key -> {"unset", "global", "own"}]]
    /\ known \subseteq Proj
    /\ step \in [globals : {"org defs", "project defs", "walks", "end"},
                 projects : {"org defs", "project defs", "records", "propagation", "end"}]
    /\ defs \in [Tasks -> [org : SUBSET Orgs, project : SUBSET Orgs]]
    /\ \A k \in Key :
          /\ walk[k].org \in 1..Len(OrgSeq) + 1
          /\ walk[k].rejected \in BOOLEAN
          /\ walk[k].fan \subseteq Proj /\ walk[k].to \in walk[k].fan \cup {"none"}
          /\ walk[k].tries \in 0..MaxAttempts - 1
    /\ outcome \in [Key -> [Orgs -> Outcome]]
    /\ job \in [Proj -> [Key -> [at : {"waiting", "calling", "done"}, tries : 0..MaxAttempts - 1]]]
    /\ covered \subseteq Proj \X Key
    /\ rejected \subseteq Key
    /\ failures \subseteq Tasks \X (Proj \cup Orgs) \X Key
    /\ outages \in 0..MaxOutages

SettingsInit ==
    /\ setup \in Scenarios
    /\ orgValue = [o \in Orgs |-> [k \in Key |-> "default"]]
    /\ ownValue = [p \in Proj |-> [k \in Key |-> "unset"]]
    /\ known \in SUBSET Proj
    /\ step = [t \in Tasks |-> "org defs"]
    /\ defs = [t \in Tasks |-> [org |-> {}, project |-> {}]]
    /\ walk = [k \in Key |-> [org |-> IF k \in setup.custom THEN 1 ELSE Len(OrgSeq) + 1,
                              rejected |-> FALSE, fan |-> {}, to |-> "none", tries |-> 0]]
    /\ outcome = [k \in Key |-> [o \in Orgs |-> Unhandled]]
    /\ job = [p \in Proj |-> [k \in Key |-> IF HasRecord(p, k) THEN Waiting ELSE NoJob]]
    /\ covered = {} /\ rejected = {} /\ failures = {}
    /\ outages = 0
    /\ refusals = [k \in Key |-> 0]

-----------------------------------------------------------------------------
(* SonarQube Cloud.                                                        *)

\* The project becomes known to the endpoints for settings.
Learn(p) ==
    /\ p \notin known
    /\ known' = known \cup {p}
    /\ UNCHANGED <<setup, orgValue, ownValue, step, defs, walk, outcome, job, covered,
                   rejected, failures, outages, refusals>>

\* What a write of a project's setting answers, and what it may leave behind:
\* a call that fails for a passing reason may have taken effect.
CallAnswers == {"ok", "error", "refused", "unknown project"}
Answers(p, k) ==
    IF p \notin known THEN {"unknown project"}
    ELSE IF k \notin setup.projectTakes THEN {"refused"}
    ELSE {"ok"} \cup (IF outages < MaxOutages THEN {"error"} ELSE {})

Write(p, k, value, answer) ==
    /\ answer \in Answers(p, k)
    /\ LET written == [ownValue EXCEPT ![p][k] = value] IN
       ownValue' \in CASE answer = "ok" -> {written}
                       [] answer = "error" -> {ownValue, written}
                       [] OTHER -> {ownValue}
    /\ outages' = outages + (IF answer = "error" THEN 1 ELSE 0)

\* retryOnProjectNotFound: only the answer of a project that is not known yet
\* makes another attempt.
Retries(tries, answer) == answer = "unknown project" /\ tries + 1 < MaxAttempts

NextTry(tries) == tries + 1

-----------------------------------------------------------------------------
(* Definitions.                                                            *)

\* loadSettingDefinitionsForOrgs
FetchOrgDefs(t) ==
    /\ step[t] = "org defs"
    /\ \E lost \in SUBSET Orgs :
          /\ outages + Cardinality(lost) <= MaxOutages
          /\ outages' = outages + Cardinality(lost)
          /\ defs' = [defs EXCEPT ![t].org = Orgs \ lost]
    /\ step' = [step EXCEPT ![t] = "project defs"]
    /\ UNCHANGED <<setup, orgValue, ownValue, known, walk, outcome, job, covered,
                   rejected, failures, refusals>>

\* loadProjectScopedSettingDefinitionsForOrgs: the definitions of an
\* organization are asked for one of its projects, which may not be known
\* before the attempts are used up.
DefsFetched(not) == {o \in Orgs \ not : ProjectsOf(o) # {}}
FetchProjectDefs(t) ==
    /\ step[t] = "project defs"
    /\ \E late, lost \in SUBSET {o \in Orgs : ProjectsOf(o) # {}} :
          /\ \A o \in late : ProjectsOf(o) \ known # {}
          /\ \A o \in DefsFetched(late \cup lost) : ProjectsOf(o) \cap known # {}
          /\ late \cap lost = {}
          /\ outages + Cardinality(lost) <= MaxOutages
          /\ outages' = outages + Cardinality(lost)
          /\ defs' = [defs EXCEPT ![t].project = DefsFetched(late \cup lost)]
    /\ step' = [step EXCEPT ![t] = IF t = "globals" THEN "walks" ELSE "records"]
    /\ UNCHANGED <<setup, orgValue, ownValue, known, walk, outcome, job, covered,
                   rejected, failures, refusals>>

-----------------------------------------------------------------------------
(* setGlobalSettings: one goroutine per customized global walks the        *)
(* organizations.                                                          *)

At(k) == OrgSeq[walk[k].org]
Walking(k) == step["globals"] = "walks" /\ walk[k].org <= Len(OrgSeq)

Overridden(p, k) == HasRecord(p, k)

CountRow(t, where, k) == failures' = failures \cup {<<t, where, k>>}

\* The walk leaves the organization with this outcome.
LeaveOrg(k, said, memo) ==
    /\ outcome' = [outcome EXCEPT ![k][At(k)] = said]
    /\ walk' = [walk EXCEPT ![k] = [org |-> @.org + 1, rejected |-> memo,
                                    fan |-> {}, to |-> "none", tries |-> 0]]

\* handleMissingOrgDef
MissingOrgDef(k) ==
    /\ Walking(k) /\ walk[k].fan = {}
    /\ ~ForOrg("globals", At(k), k)
    /\ LeaveOrg(k, IF ForProject("globals", At(k), k) THEN "project only" ELSE "not on cloud",
                walk[k].rejected)
    /\ UNCHANGED <<setup, orgValue, ownValue, known, step, defs, job, covered, rejected,
                   failures, outages, refusals>>

\* fanOutGlobalToProjects leaves a project that overrides the key to the
\* other task.
FanTargets(k) == {p \in ProjectsOf(At(k)) : ~Overridden(p, k)}

\* fanOutOutcome, after a refusal of this organization or of an earlier one.
StartFanOut(k) ==
    IF ~ForProject("globals", At(k), k)
    THEN LeaveOrg(k, "failed", TRUE) /\ CountRow("globals", At(k), k)
    ELSE IF FanTargets(k) = {}
    THEN LeaveOrg(k, "failed", TRUE) /\ UNCHANGED failures
    ELSE /\ walk' = [walk EXCEPT ![k].fan = FanTargets(k), ![k].rejected = TRUE]
         /\ UNCHANGED <<outcome, failures>>

KeepsMemo(k) == walk[k].rejected

\* Whether an earlier organization refused the key.
RefusedBefore(k) == KeepsMemo(k)

\* handleCachedOrgRejection
CachedRejection(k) ==
    /\ Walking(k) /\ walk[k].fan = {}
    /\ ForOrg("globals", At(k), k) /\ RefusedBefore(k)
    /\ StartFanOut(k)
    /\ UNCHANGED <<setup, orgValue, ownValue, known, step, defs, job, covered, rejected,
                   outages, refusals>>

\* handleFreshOrgApply
FreshOrgApply(k) ==
    /\ Walking(k) /\ walk[k].fan = {}
    /\ ForOrg("globals", At(k), k) /\ ~RefusedBefore(k)
    /\ LET written == [orgValue EXCEPT ![At(k)][k] = "global"] IN
       \/ /\ k \notin setup.orgTakes
          /\ StartFanOut(k)
          /\ refusals' = [refusals EXCEPT ![k] = @ + 1]
          /\ UNCHANGED <<orgValue, outages>>
       \/ /\ k \in setup.orgTakes
          /\ orgValue' = written
          /\ LeaveOrg(k, "applied", FALSE)
          /\ UNCHANGED <<outages, failures, refusals>>
       \/ /\ k \in setup.orgTakes /\ outages < MaxOutages
          /\ orgValue' \in {orgValue, written}
          /\ outages' = outages + 1
          /\ LeaveOrg(k, "failed", FALSE)
          /\ CountRow("globals", At(k), k)
          /\ UNCHANGED refusals
    /\ UNCHANGED <<setup, ownValue, known, step, defs, job, covered, rejected>>

\* One call of fanOutGlobalToProjects, in the order of a Go map; the walk
\* stays with a project until its attempts are over.
FanOutCall(k) ==
    /\ Walking(k)
    /\ \E p \in walk[k].fan, answer \in CallAnswers :
          /\ walk[k].to \in {p, "none"}
          /\ Write(p, k, "global", answer)
          /\ IF Retries(walk[k].tries, answer)
             THEN /\ walk' = [walk EXCEPT ![k].tries = NextTry(@), ![k].to = p]
                  /\ UNCHANGED <<outcome, failures>>
             ELSE /\ IF answer = "ok" THEN UNCHANGED failures ELSE CountRow("globals", p, k)
                  /\ IF walk[k].fan = {p}
                     THEN LeaveOrg(k, "fanned out", walk[k].rejected)
                     ELSE /\ walk' = [walk EXCEPT ![k].fan = @ \ {p}, ![k].tries = 0, ![k].to = "none"]
                          /\ UNCHANGED outcome
    /\ UNCHANGED <<setup, orgValue, known, step, defs, job, covered, rejected, refusals>>

GlobalsEnd ==
    /\ step["globals"] = "walks"
    /\ \A k \in Key : ~Walking(k)
    /\ step' = [step EXCEPT !["globals"] = "end"]
    /\ UNCHANGED <<setup, orgValue, ownValue, known, defs, walk, outcome, job, covered,
                   rejected, failures, outages, refusals>>

-----------------------------------------------------------------------------
(* setProjectSettings: first the settings that projects have of their own, *)
(* one goroutine per record, then the globals that only projects take.     *)

LeftAtDefault(p, k) == setup.record[p][k] = "as inherited"

Fail(p, k) == CountRow("projects", p, k)
SetJob(p, k, at, tries) == job' = [job EXCEPT ![p][k] = [at |-> at, tries |-> tries]]

\* markCovered, before the call.
ForgetsCover(p, k) == covered

Covers(p, k) == covered \cup {<<p, k>>}

\* apply, up to the call: skipKey and markCovered.
BeginRecord(p, k) ==
    /\ step["projects"] = "records" /\ job[p][k].at = "waiting"
    /\ \/ /\ LeftAtDefault(p, k)
          /\ SetJob(p, k, "done", 0)
          /\ UNCHANGED <<covered, failures>>
       \/ /\ ~LeftAtDefault(p, k) /\ k \in rejected
          /\ SetJob(p, k, "done", 0) /\ Fail(p, k)
          /\ UNCHANGED covered
       \/ /\ ~LeftAtDefault(p, k) /\ k \notin rejected
          /\ SetJob(p, k, "calling", 0)
          /\ covered' = Covers(p, k)
          /\ UNCHANGED failures
    /\ UNCHANGED <<setup, orgValue, ownValue, known, step, defs, walk, outcome, rejected,
                   outages, refusals>>

\* A refusal abandons the key for the projects that were not asked yet.
Learned(k, answer) == IF answer = "refused" THEN rejected \cup {k} ELSE rejected

Tally(p, k, answer) == IF answer = "ok" THEN UNCHANGED failures ELSE Fail(p, k)

\* apply, the call and record: one attempt, whatever the answer.
EndRecord(p, k) ==
    /\ step["projects"] = "records" /\ job[p][k].at = "calling"
    /\ \E answer \in CallAnswers :
          /\ Write(p, k, "own", answer)
          /\ rejected' = Learned(k, answer)
          /\ Tally(p, k, answer)
    /\ SetJob(p, k, "done", 0)
    /\ UNCHANGED <<setup, orgValue, known, step, defs, walk, outcome, covered, refusals>>

PassOver == \A p \in Proj, k \in Key : job[p][k].at = "done"

\* readCustomizedSQSGlobals leaves out a key without a declared default;
\* bucketPropagatableGlobals leaves the keys that organizations take to the
\* other task.
Propagates(o, k) == /\ k \in setup.custom \cap setup.declared
                    /\ ForProject("projects", o, k) /\ ~ForOrg("projects", o, k)

StartPropagation ==
    /\ step["projects"] = "records" /\ PassOver
    /\ step' = [step EXCEPT !["projects"] = "propagation"]
    /\ job' = [p \in Proj |-> [k \in Key |->
                  IF Propagates(HomeOf[p], k) THEN Waiting ELSE NoJob]]
    /\ UNCHANGED <<setup, orgValue, ownValue, known, defs, walk, outcome, covered, rejected,
                   failures, outages, refusals>>

\* enqueuePropagations and skipPropagation
BeginPropagation(p, k) ==
    /\ step["projects"] = "propagation" /\ job[p][k].at = "waiting"
    /\ \/ /\ <<p, k>> \in covered
          /\ SetJob(p, k, "done", 0)
          /\ UNCHANGED failures
       \/ /\ <<p, k>> \notin covered /\ k \in rejected
          /\ SetJob(p, k, "done", 0) /\ Fail(p, k)
       \/ /\ <<p, k>> \notin covered /\ k \notin rejected
          /\ SetJob(p, k, "calling", 0)
          /\ UNCHANGED failures
    /\ UNCHANGED <<setup, orgValue, ownValue, known, step, defs, walk, outcome, covered,
                   rejected, outages, refusals>>

\* propagateOne: one attempt of its call.
PropagationCall(p, k) ==
    /\ step["projects"] = "propagation" /\ job[p][k].at = "calling"
    /\ \E answer \in CallAnswers :
          /\ Write(p, k, "global", answer)
          /\ rejected' = Learned(k, answer)
          /\ IF Retries(job[p][k].tries, answer)
             THEN /\ SetJob(p, k, "calling", NextTry(job[p][k].tries))
                  /\ UNCHANGED failures
             ELSE /\ SetJob(p, k, "done", 0)
                  /\ Tally(p, k, answer)
    /\ UNCHANGED <<setup, orgValue, known, step, defs, walk, outcome, covered, refusals>>

ProjectsEnd ==
    /\ step["projects"] = "propagation" /\ PassOver
    /\ step' = [step EXCEPT !["projects"] = "end"]
    /\ UNCHANGED <<setup, orgValue, ownValue, known, defs, walk, outcome, job, covered,
                   rejected, failures, outages, refusals>>

-----------------------------------------------------------------------------
GlobalsStep ==
    \/ FetchOrgDefs("globals")
    \/ FetchProjectDefs("globals")
    \/ \E k \in Key : MissingOrgDef(k) \/ CachedRejection(k) \/ FreshOrgApply(k) \/ FanOutCall(k)
    \/ GlobalsEnd

ProjectsStep ==
    \/ FetchOrgDefs("projects")
    \/ FetchProjectDefs("projects")
    \/ \E p \in Proj, k \in Key : BeginRecord(p, k) \/ EndRecord(p, k)
    \/ StartPropagation
    \/ \E p \in Proj, k \in Key : BeginPropagation(p, k) \/ PropagationCall(p, k)
    \/ ProjectsEnd

SettingsNext == GlobalsStep \/ ProjectsStep \/ \E p \in Proj : Learn(p)

SettingsSpec == SettingsInit /\ [][SettingsNext]_svars

-----------------------------------------------------------------------------
(* Properties.                                                             *)

Ended == step = [t \in Tasks |-> "end"]
OwnSetting(p, k) == setup.record[p][k] = "own"

\* What the project works with on Cloud.
Effective(p, k) == IF ownValue[p][k] = "unset" THEN orgValue[HomeOf[p]][k] ELSE ownValue[p][k]

\* A setting that a project has of its own never gives way to the global one,
\* whichever of the two tasks comes first and whichever write fails
\* (markCovered, overrideCovered, tasks_associate.go:591-594).
OverrideWins ==
    \A p \in Proj, k \in Key : OwnSetting(p, k) => ownValue[p][k] # "global"

Reported(p, k) ==
    \/ <<"globals", p, k>> \in failures \/ <<"projects", p, k>> \in failures
    \/ <<"globals", HomeOf[p], k>> \in failures

AllDefined(o) == \A t \in Tasks : o \in defs[t].org /\ o \in defs[t].project

\* When both tasks are over and had all definitions, each project works with
\* its own setting, or with the customized global that Cloud has a place for,
\* or a failure was counted for it: between two tasks that divide the keys by
\* what each of them fetched, no setting falls through.
NothingLostSilently ==
    Ended => \A p \in Proj, k \in Key :
        \/ Reported(p, k)
        \/ /\ OwnSetting(p, k) => Effective(p, k) = "own"
           /\ /\ setup.record[p][k] = "none" /\ AllDefined(HomeOf[p])
              /\ k \in setup.custom \cap setup.declared
              /\ k \in setup.atOrg \cup setup.atProject
              => Effective(p, k) = "global"

\* A project is pinned to a global value only where the organization could not
\* hold it: otherwise the project would no longer follow its organization
\* (bucketPropagatableGlobals; tasks_associate.go:556-560 on pinned overrides).
PinnedOnlyWithoutOrg ==
    \A p \in Proj, k \in Key :
        ownValue[p][k] = "global" /\ HomeOf[p] \in defs["projects"].org
        => orgValue[HomeOf[p]][k] = "default"

\* A key that one organization refused is not tried on another: the refusal
\* is a property of the key (tasks_setglobalsettings.go:875-881).
RefusedOnce == \A k \in Key : refusals[k] <= 1

\* Between the two tasks every value lands at its level: a project's own one
\* wins, a global one is pinned to a project only in need, nothing that was
\* refused is asked again, and nothing is lost without a failure counted.
SettingsInv ==
    /\ SettingsTypeOK /\ OverrideWins /\ PinnedOnlyWithoutOrg /\ RefusedOnce
    /\ NothingLostSilently

\* NOT true of the code.  The comment on fanOutGlobalToProjects says of the
\* projects it skips: "setProjectSettings applies their specific value via its
\* per-record loop".  That loop skips a record that repeats what the project
\* inherits, which the fan-out takes for an override all the same.
SkippedIsAppliedThere ==
    Ended => \A p \in Proj, k \in Key :
        outcome[k][HomeOf[p]] = "fanned out" /\ Overridden(p, k) /\ ~Reported(p, k)
        => ownValue[p][k] # "unset"

=============================================================================
