--------------------------- MODULE MigrationReport ---------------------------
(***************************************************************************)
(* How the report of a migration sorts the objects of one of its sections  *)
(* into succeeded, near perfect, partial, failed and skipped.  The report  *)
(* reads what the run left: the records of its tasks, the rows of          *)
(* importProjectData (several per branch when the run was resumed) and the *)
(* log of its requests, and moves objects from bucket to bucket in a fixed *)
(* order of passes.                                                        *)
(***************************************************************************)
EXTENDS Naturals, Sequences, FiniteSets

CONSTANTS
    Object,      \* the objects of the section
    NameOf,      \* NameOf[s][o]: the name o bears in section s
    GoesTo,      \* GoesTo[o]: the organization it goes to
    NoObject,    \* a row the log gives a name but no object
    BranchName, MainName, \* the branches of a project
    Importing,   \* the projects whose branches are imported
    Evidence,    \* Evidence[s]: what may have befallen the objects of s
    MaxRows      \* bound: rows of importProjectData

Section == {"projects", "portfolios", "gates", "profiles", "groups", "templates"}
Bucket  == {"succeeded", "nearPerfect", "partial", "failed", "skipped"}

\* What may befall an object.  An object of none of the first four was created.
\*   refused, conflict   the create failed; conflict: with "already exists"
\*   unmapped, builtin   not created: no organization chosen, built in
\*   recovered           "already exists", and the object was looked up
\*   yellowOp, orangeOp  a follow-up call failed (tags; permissions, webhooks;
\*                       a global permission; the default template; the update
\*                       of a portfolio)
\*   config              a call of a gate's or profile's configuration failed
\*   yellow, orange      what a task noted: conditions remapped or dropped,
\*                       rules changed or lost, subportfolios combined or
\*                       flattened; a new code period replaced
\*   override            a new code period of a branch, which Cloud lacks
\*   mismatch, syncError of the issues or hotspots of a project
\*   unbound             the DevOps binding was not possible
\*   empty               a portfolio without projects
Event == {"refused", "conflict", "unmapped", "builtin", "recovered", "yellowOp",
          "orangeOp", "config", "yellow", "orange", "override", "mismatch",
          "syncError", "unbound", "empty"}

\* What becomes of the create of an object: one of these, or it is made at once.
Fates == {"refused", "conflict", "unmapped", "builtin", "recovered"}

ASSUME ReportAssumption ==
    /\ NoObject \notin Object
    /\ MainName \in BranchName
    /\ Importing \subseteq Object
    /\ MaxRows \in Nat
    /\ \A s \in Section : Evidence[s] \subseteq [Object -> SUBSET Event]
    /\ \A s \in Section : \A e \in Evidence[s], o \in Object :
          /\ \A x, y \in e[o] \cap Fates : x = y
          /\ "unmapped" \in e[o] => s # "portfolios"
          /\ "builtin" \in e[o] => s \in {"gates", "profiles", "groups"}
          /\ "config" \in e[o] => s \in {"gates", "profiles"}

VARIABLES
    section, pass, \* the section collected, and how far the passes are
    befell,         \* befell[o]: the events of o
    written,        \* the rows of importProjectData, in order
    report          \* report[b]: the rows of bucket b

rvars == <<section, pass, befell, written, report>>

\* The words of a row: events, and how a create or the branches of a project ended.
Word == Event \cup {"error", "exists", "updateFailed", "trimmed",
                    "success", "failed", "skipped", "neverAnalysed"}

ReportRow == [name : {NameOf[s][o] : s \in Section, o \in Object},
        org : {GoesTo[o] : o \in Object}, id : Object \cup {NoObject}, lines : SUBSET Word]

Name(o) == NameOf[section][o]
Made == {o \in Object : befell[o] \cap {"refused", "conflict", "unmapped", "builtin"} = {}}
With(e) == {o \in Object : e \in befell[o]}
RowOf(o, id, lines) == [name |-> Name(o), org |-> GoesTo[o], id |-> id, lines |-> lines]
Add(r, lines) == [r EXCEPT !.lines = @ \cup lines]

-----------------------------------------------------------------------------
(* Rows of importProjectData *)

\* "trimmed": a success whose report had files in unsupported languages left
\* out; "bare": skipped without an error, a project never analysed.
RowStatus == {"success", "trimmed", "up_to_date", "capped", "no_data", "failed", "skipped", "bare"}

SameBranch(j, k) == written[j].of = written[k].of /\ written[j].branch = written[k].branch

\* Variant: the first row of a branch counts.
FirstOfBranch(p) ==
    {k \in DOMAIN written : written[k].of = p /\ ~ \E j \in 1 .. k - 1 : SameBranch(j, k)}

\* resolveProjectDataRows: the last row of a branch says where it ended up.
LastOfBranch(p) ==
    {k \in DOMAIN written :
        written[k].of = p /\ ~ \E j \in k + 1 .. Len(written) : SameBranch(j, k)}

EndedAs(p) == {written[k].status : k \in LastOfBranch(p)}

\* collectProjectData: one outcome of a project's branches.
DataOutcome(p) ==
    LET ended == EndedAs(p) IN
    IF ended = {} THEN "none"
    ELSE IF "failed" \in ended THEN "failed"
    ELSE IF "skipped" \in ended THEN "skipped"
    ELSE IF "bare" \in ended THEN "neverAnalysed"
    ELSE IF ended \cap {"success", "trimmed", "up_to_date"} # {} THEN "success"
    ELSE IF "capped" \in ended THEN "skipped" ELSE "neverAnalysed"

Degrades(s) == s \notin {"success", "trimmed", "up_to_date", "capped", "no_data"}

\* What a later attempt may write after status s: a finished branch is only
\* ever written again by an attempt that is cancelled.
MayFollow(s, t) == s \in {"success", "trimmed", "up_to_date"} => t = "skipped"

RecordBranch(p, b, s) ==
    /\ pass = "running" /\ section = "projects"
    /\ p \in Made \cap Importing
    /\ Len(written) < MaxRows
    /\ s = "bare" => b = MainName
    /\ s \in {"capped", "no_data"} => b # MainName
    /\ \A k \in LastOfBranch(p) : written[k].branch = b => MayFollow(written[k].status, s)
    /\ written' = Append(written, [of |-> p, branch |-> b, status |-> s])
    /\ UNCHANGED <<section, pass, befell, report>>

-----------------------------------------------------------------------------
(* collectSection: what every section begins with *)

CollectSucceeded == {RowOf(o, o, {}) : o \in Made}

\* Portfolios belong to no organization.  Built-in gates and profiles are known
\* from the extract, built-in groups by a pass of their own.
CollectSkipped ==
    {RowOf(o, o, {"unmapped"}) : o \in With("unmapped")}
    \cup IF section \in {"gates", "profiles"}
           THEN {RowOf(o, o, {"builtin"}) : o \in With("builtin")} ELSE {}

Logged(e, words) == {RowOf(o, NoObject, {words}) : o \in With(e)}
CollectFailed ==
    Logged("refused", "error") \cup Logged("conflict", "exists") \cup Logged("recovered", "exists")

\* Variant: the name alone identifies what was created.
RecoveredByName(f, s) == f.name = s.name /\ "exists" \in f.lines

Recovered(f, s) == f.name = s.name /\ f.org = s.org /\ "exists" \in f.lines

DropFailuresAlreadySucceeded(failed, succeeded) ==
    {f \in failed : ~ \E s \in succeeded : Recovered(f, s)}

\* createProjects says itself that the key belongs to another organization; its
\* record replaces what the log says of a project of that name.
CollectExplicitFailures == {RowOf(o, o, {"conflict"}) : o \in With("conflict")}
MergeExplicitProjectFailures(failed) ==
    {f \in failed : \A e \in CollectExplicitFailures : e.name # f.name} \cup CollectExplicitFailures

\* One row per name, for all organizations; the object is one that was created
\* under the name, the organization that of one of the failures.
CollectPartial(rows) ==
    /\ {r.name : r \in rows} = {Name(o) : o \in With("config")}
    /\ \A r \in rows :
         /\ \A q \in rows : q.name = r.name => q = r
         /\ r.lines = {"config"}
         /\ r.id \in Made /\ Name(r.id) = r.name
         /\ \E o \in With("config") : Name(o) = r.name /\ GoesTo[o] = r.org

PartialCandidates == {[name |-> Name(id), org |-> GoesTo[o], id |-> id, lines |-> {"config"}] :
                         o \in With("config"), id \in Made}

CollectSection ==
    /\ pass = "running"
    /\ pass' = "collected"
    /\ \E partial \in SUBSET PartialCandidates :
         /\ CollectPartial(partial)
         /\ LET failed == DropFailuresAlreadySucceeded(CollectFailed, CollectSucceeded) IN
            report' = [succeeded |-> CollectSucceeded, nearPerfect |-> {}, partial |-> partial,
                       failed |-> IF section = "projects"
                                    THEN MergeExplicitProjectFailures(failed) ELSE failed,
                       skipped |-> CollectSkipped]
    /\ UNCHANGED <<section, befell, written>>

Pass(from, to) == pass = from /\ pass' = to /\ UNCHANGED <<section, befell, written>>

-----------------------------------------------------------------------------
(* Projects: CollectSummary *)

\* attachProjectData, on the only bucket that has rows yet.
AttachProjectData ==
    /\ section = "projects" /\ Pass("collected", "data")
    /\ report' = [report EXCEPT !.succeeded =
                    {Add(r, {DataOutcome(r.id)} \ {"none"}) : r \in @}]

\* applyNCDFallbackPartials
ApplyNCDFallback ==
    /\ section = "projects" /\ Pass("data", "ncd")
    /\ LET hit == {r \in report.succeeded : r.id \in With("orange")} IN
       report' = [report EXCEPT !.succeeded = @ \ hit,
                                !.partial = @ \cup {Add(r, {"orange"}) : r \in hit}]

\* applyNCDBranchOverridePartials: a project that is partial already gets the
\* line, and is not listed again.
ApplyNCDBranchOverride ==
    /\ section = "projects" /\ Pass("ncd", "override")
    /\ LET hit == {r \in report.succeeded : r.id \in With("override")} IN
       report' = [report EXCEPT
         !.succeeded = @ \ hit,
         !.partial = {Add(r, IF r.id \in With("override") THEN {"override"} ELSE {}) : r \in @}
                       \cup {Add(r, {"override"}) : r \in hit}]

\* A failure sends its project to a bucket and may add a line.
Sends(bucket, line) == [bucket |-> bucket, line |-> line]
\* collectProjectSyncSkips: nothing is said of the sync of a project whose data
\* did not come over.
DataSkipped(p) == DataOutcome(p) \in {"skipped", "failed", "neverAnalysed"}

SyncSkips(p) ==
    {Sends("partial", "noLine") : s \in {t \in EndedAs(p) :
                                      Degrades(t) /\ DataOutcome(p) # "neverAnalysed"}}
    \cup {Sends("nearPerfect", "noLine") : s \in EndedAs(p) \cap {"no_data"}}
    \cup IF DataSkipped(p) THEN {}
         ELSE {Sends("nearPerfect", "noLine") : e \in befell[p] \cap {"mismatch"}}
              \cup {Sends("partial", "syncError") : e \in befell[p] \cap {"syncError"}}

\* classifyProjectFailure, collectProjectBindingOutcomes and
\* collectUnsupportedLanguageExclusions
FailuresOf(p) ==
    {Sends("nearPerfect", e) : e \in befell[p] \cap {"yellowOp"}}
    \cup {Sends("partial", e) : e \in befell[p] \cap {"orangeOp", "unbound"}}
    \cup {Sends("partial", "trimmed") : s \in EndedAs(p) \cap {"trimmed"}}
    \cup SyncSkips(p)

Lines(failures) == {f.line : f \in failures} \ {"noLine"}
Worst(failures) ==
    IF \E f \in failures : f.bucket = "partial" THEN "partial" ELSE "nearPerfect"

\* applyProjectFailures looks at the projects still in Succeeded.
ApplyProjectFailures ==
    /\ section = "projects" /\ Pass("override", "done")
    /\ LET hit == {r \in report.succeeded : FailuresOf(r.id) # {}}
           moved(b) == {Add(r, Lines(FailuresOf(r.id))) :
                           r \in {q \in hit : Worst(FailuresOf(q.id)) = b}}
       IN  report' = [report EXCEPT !.succeeded = @ \ hit,
                                    !.nearPerfect = @ \cup moved("nearPerfect"),
                                    !.partial = @ \cup moved("partial")]

-----------------------------------------------------------------------------
(* Portfolios *)

\* applyPortfolioClassifications
ApplyPortfolioClassifications ==
    /\ section = "portfolios" /\ Pass("collected", "classified")
    /\ LET hit(e) == {r \in report.succeeded : r.id \in With(e)} IN
       report' = [report EXCEPT
         !.succeeded = @ \ (hit("yellow") \cup hit("orange")),
         !.nearPerfect = @ \cup {Add(r, {"yellow"}) : r \in hit("yellow") \ hit("orange")},
         !.partial = @ \cup {Add(r, {"orange"}) : r \in hit("orange")}]

\* applyEmptyPortfolioSkips: by name, out of every bucket but Failed.
ApplyEmptyPortfolioSkips ==
    /\ section = "portfolios" /\ Pass("classified", "filled")
    /\ LET filter(rows) == {r \in rows : r.name \notin {Name(o) : o \in With("empty")}} IN
       report' = [report EXCEPT
         !.succeeded = filter(@), !.nearPerfect = filter(@), !.partial = filter(@),
         !.skipped = @ \cup {RowOf(o, o, {"empty"}) : o \in With("empty")}]

\* applyPortfolioFailures takes a portfolio whose update failed out of Partial
\* too, but puts into Failed those of Succeeded only.
ApplyPortfolioFailures ==
    /\ section = "portfolios" /\ Pass("filled", "done")
    /\ LET broken == {r \in UNION {report[b] : b \in Bucket} : r.id \in With("orangeOp")} IN
       report' = IF report.succeeded = {} THEN report
                 ELSE [report EXCEPT
                        !.succeeded = @ \ broken,
                        !.partial = @ \ broken,
                        !.failed = @ \cup {Add(r, {"updateFailed"}) :
                                              r \in report.succeeded \cap broken}]

-----------------------------------------------------------------------------
(* Gates, profiles, groups and templates *)

\* A created object with a note goes to the bucket of the note; the rows that
\* were in Partial before get the lines of their object's note.
Noted ==
    LET hit == {r \in report.succeeded : befell[r.id] \cap {"yellow", "orange"} # {}}
        note(r) == befell[r.id] \cap {"yellow", "orange"}
        dropped == {r \in hit : "orange" \in befell[r.id]}
    IN  [report EXCEPT
           !.succeeded = @ \ hit,
           !.nearPerfect = @ \cup {Add(r, note(r)) : r \in hit \ dropped},
           !.partial = {Add(r, note(r)) : r \in @} \cup {Add(r, note(r)) : r \in dropped}]

ApplyGateMappingNotes ==
    section = "gates" /\ Pass("collected", "done") /\ report' = Noted

ApplyProfileFindings ==
    section = "profiles" /\ Pass("collected", "done") /\ report' = Noted

\* applyGlobalGroupPermFailures and applyTemplateDefaultFailures know the
\* object by its name alone.
ByName(e) == {r \in report.succeeded : r.name \in {Name(o) : o \in With(e) \cap Made}}

\* appendBuiltInGroupSkips, then the failed permissions.
ApplyGlobalGroupPermFailures ==
    /\ section = "groups" /\ Pass("collected", "done")
    /\ report' = [report EXCEPT
         !.skipped = @ \cup {RowOf(o, o, {"builtin"}) : o \in With("builtin")},
         !.succeeded = @ \ ByName("orangeOp"),
         !.partial = @ \cup {Add(r, {"orangeOp"}) : r \in ByName("orangeOp")}]

ApplyTemplateDefaultFailures ==
    /\ section = "templates" /\ Pass("collected", "done")
    /\ report' = [report EXCEPT
         !.succeeded = @ \ ByName("yellowOp"),
         !.nearPerfect = @ \cup {Add(r, {"yellowOp"}) : r \in ByName("yellowOp")}]

-----------------------------------------------------------------------------
Blank == [b \in Bucket |-> {}]

ReportInit ==
    /\ section \in Section
    /\ befell \in Evidence[section]
    /\ pass = "running" /\ written = << >> /\ report = Blank

ReportNext ==
    \/ \E p \in Importing, b \in BranchName, s \in RowStatus : RecordBranch(p, b, s)
    \/ CollectSection
    \/ AttachProjectData \/ ApplyNCDFallback \/ ApplyNCDBranchOverride \/ ApplyProjectFailures
    \/ ApplyPortfolioClassifications \/ ApplyEmptyPortfolioSkips \/ ApplyPortfolioFailures
    \/ ApplyGateMappingNotes \/ ApplyProfileFindings
    \/ ApplyGlobalGroupPermFailures \/ ApplyTemplateDefaultFailures

ReportSpec == ReportInit /\ [][ReportNext]_rvars
-----------------------------------------------------------------------------
(* Properties *)

ReportTypeOK ==
    /\ section \in Section /\ befell \in [Object -> SUBSET Event]
    /\ pass \in {"running", "collected", "data", "ncd", "override", "classified",
                  "filled", "done"}
    /\ written \in Seq([of : Importing, branch : BranchName, status : RowStatus])
    /\ report \in [Bucket -> SUBSET ReportRow]

Done(s) == pass = "done" /\ section = s
Speaks(r, o) ==
    \/ r.id = o
    \/ r.id = NoObject /\ r.name = Name(o) /\ r.org = GoesTo[o]
Listings(o) == {l \in Bucket \X UNION {report[b] : b \in Bucket} :
                   l[2] \in report[l[1]] /\ Speaks(l[2], o)}
In(b, o) == \E r \in report[b] : r.id = o

\* The log gives names, which need not be an object's own: projects of any two
\* organizations may be called alike, and profiles of two languages.  What it says
\* of o is then taken for a failure another record explains, or recovered from.
Eclipsed(o) == \E q \in Object \ {o} : Name(q) = Name(o) /\
    \/ section = "projects" /\ "refused" \in befell[o] /\ "conflict" \in befell[q]
    \/ section # "projects" /\ "conflict" \in befell[o] /\ q \in Made /\ GoesTo[q] = GoesTo[o]

\* No other object that goes to its organization is called as o is.
Unmistakable(o) == \A q \in Object \ {o} : Name(q) = Name(o) => GoesTo[q] # GoesTo[o]

\* However its create went, and whatever passes move it, every object of the
\* section is in the report, but for one that is eclipsed.  The exception is the
\* portfolio of PortfolioStays.
NothingVanishes ==
    pass = "done" /\ section # "portfolios" =>
        \A o \in Object : Listings(o) # {} \/ Eclipsed(o)

\* No object counts twice.  Gates and profiles are the exception: see
\* GateIsListedOnce; and an empty portfolio that could not be created, which is
\* in Failed and in Skipped.
ListedOnce ==
    \A s \in Section \ {"gates", "profiles"} : Done(s) =>
        \A o \in Object : Unmistakable(o) /\ (o \in Made \/ "empty" \notin befell[o]) =>
            Cardinality(Listings(o)) =< 1

\* A gate or profile that lost a condition or a rule, or one of whose calls
\* failed, is partial under its name at least once.
LossIsShown ==
    \A s \in {"gates", "profiles"} : Done(s) =>
        \A o \in Made : befell[o] \cap {"config", "orange"} # {} =>
            \E r \in report.partial : r.name = Name(o)

ReportIsWhole == ReportTypeOK /\ NothingVanishes /\ ListedOnce /\ LossIsShown

\* The statuses the branches of p were left with.
LeftWith(p) ==
    {written[k].status : k \in {i \in DOMAIN written :
        /\ written[i].of = p
        /\ i = CHOOSE m \in DOMAIN written :
                 /\ SameBranch(m, i)
                 /\ \A j \in DOMAIN written : SameBranch(j, i) => j =< m}}

\* What the migration of p lost, taken together, in no order.
Arrived(p) ==
    /\ LeftWith(p) \cap {"failed", "skipped", "bare"} = {}
    /\ LeftWith(p) \subseteq {"capped", "no_data"} => LeftWith(p) = {}
MuchLost(p) ==
    \/ befell[p] \cap {"orange", "override", "orangeOp", "unbound"} # {}
    \/ LeftWith(p) \cap {"failed", "skipped", "trimmed"} # {}
    \/ "syncError" \in befell[p] /\ Arrived(p)
LittleLost(p) ==
    \/ "yellowOp" \in befell[p]
    \/ "no_data" \in LeftWith(p)
    \/ "mismatch" \in befell[p] /\ Arrived(p)

\* The order of the passes and of the rows does not matter: a project is partial
\* if anything much was lost, near perfect if only little was, and succeeded if
\* nothing was, as far as its branches were left in the end.
VerdictIsWorst ==
    Done("projects") => \A p \in Made :
        CASE MuchLost(p)   -> In("partial", p)
          [] LittleLost(p) /\ ~MuchLost(p) -> In("nearPerfect", p)
          [] OTHER         -> In("succeeded", p)

\* NOT true of the code: a portfolio that is taken out of Partial because its
\* update failed is put into Failed.
PortfolioStays ==
    Done("portfolios") => \A o \in Made : Listings(o) # {}

\* NOT true of the code: a gate one of whose calls failed is listed as partial,
\* and not as succeeded or near perfect too.
GateIsListedOnce ==
    Done("gates") => \A o \in Made : Cardinality(Listings(o)) =< 1

\* NOT true of the code: a project's row has a line for every operation that
\* failed.  A project that is partial for its new code period gets none.
EveryFailureHasItsLine ==
    Done("projects") => \A p \in Made : \A b \in Bucket : \A r \in report[b] :
        r.id = p => befell[p] \cap {"yellowOp", "orangeOp", "unbound"} \subseteq r.lines
=============================================================================
