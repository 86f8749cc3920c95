------------------------- MODULE ImportProjectData -------------------------
(***************************************************************************)
(* The importProjectData task of the migrate phase                         *)
(* (go/internal/migrate/tasks_projectdata.go and history.go) together with *)
(* the part of SonarQube Cloud it drives: the branch list of a target      *)
(* project and the Compute Engine (CE) that processes submitted reports.   *)
(*                                                                         *)
(* A run admits projects through a gate, and imports the branches of each  *)
(* admitted project: the main branch first (Phase 1), then the others in   *)
(* parallel (Phase 2), every branch inside the run-wide branch gate.  A    *)
(* branch optionally replays its analysis history, builds a report while   *)
(* holding a build slot, submits it and polls the CE task.  Each outcome   *)
(* is appended to a JSONL store that survives a crash and that a resumed   *)
(* run reads to learn which branches are complete.                         *)
(*                                                                         *)
(* The projects modelled migrate no short-lived branch (the option         *)
(* use_slb_for_reference_branch_new_code is off, its default), so          *)
(* shortLivedPatternGuard and dropLongLivedBeforeShort are no-ops.         *)
(***************************************************************************)
EXTENDS Naturals, Sequences, FiniteSets

CONSTANTS
  Project,        \* target projects the run migrates (cloud_project_key)
  Branch,         \* branch names
  NoBranch,       \* not a branch name
  Branches,       \* Branches[p]: what resolveProjectBranches selected for p
  SrcMain,        \* SrcMain[p]: the source's main branch, always selected
  DefaultMain,    \* name under which Cloud creates a project's main branch
  FirstDates,     \* FirstDates[p][b]: date of b's last analysis, 0 = never
  HistoryDates,   \* dates of the extracted analysis snapshots
  Unbuildable,    \* pairs <<p, b>> for which buildBranchReport returns a skip
  ProjectLimit,   \* slots of the per-project gate
  BranchLimit,    \* slots of the run-wide branch gate
  BuildLimit,     \* capacity of BuildSem
  Faults          \* faults the environment may produce, a subset of FaultKind

\* Bounds on what would be unbounded: runs started, and source dates.
CONSTANTS MaxAttempts, MaxDate

FaultKind == {"crash", "cancel", "list", "rename", "reject", "submit",
              "duplicate"}

ASSUME ConstantsAssumption ==
  /\ IsFiniteSet(Project)
  /\ IsFiniteSet(Branch)
  /\ NoBranch \notin Branch
  /\ DefaultMain \in Branch
  /\ SrcMain \in [Project -> Branch]
  /\ Branches \in [Project -> SUBSET Branch]
  /\ \A p \in Project : SrcMain[p] \in Branches[p]
  /\ FirstDates \in [Project -> [Branch -> 0 .. MaxDate]]
  /\ HistoryDates \subseteq 1 .. MaxDate
  /\ Unbuildable \subseteq Project \X Branch
  /\ ProjectLimit \in Nat \ {0}
  /\ BranchLimit \in Nat \ {0}
  /\ BuildLimit \in Nat \ {0}
  /\ MaxAttempts \in Nat
  /\ MaxDate \in Nat
  /\ Faults \subseteq FaultKind

VARIABLES
  run,        \* "down" before a start and after a crash, "running", "finished"
  attempt,    \* how many runs were started
  cancelled,  \* the run's context is done
  srcDate,    \* date of the last analysis of each branch in the extract
  completed,  \* loadCompletedBranches of this run: set of <<project, branch>>
  projPc,     \* where the goroutine of a project is
  brPc,       \* where the import of a branch is
  snap,       \* the target branch list a project read when it started
  hist,       \* history dates a branch has still to replay
  queue,      \* reports the CE has accepted and not processed yet
  verdict,    \* status of the CE task a branch polls
  tMain,      \* name of a target project's main branch
  tDate,      \* date of a target branch's newest analysis, 0 = no analysis
  tSrc,       \* source branch whose current snapshot that analysis carries
  rows        \* rows of the importProjectData store, per project and branch

runVars    == <<run, attempt, cancelled, srcDate, completed>>
targetVars == <<tMain, tDate, tSrc>>
vars == <<runVars, projPc, brPc, snap, hist, queue, verdict, targetVars, rows>>

-----------------------------------------------------------------------------
Status == {"success", "up_to_date", "failed", "skipped", "no_data",
           "cancelled", "main_failed"}
Complete == {"success", "up_to_date"}
Row == [status : Status, attempt : Nat]

Snapshot == [main : Branch \cup {NoBranch}, dates : [Branch -> Nat]]
UnknownTarget == [main |-> NoBranch, dates |-> [b \in Branch |-> 0]]

\* A report in the CE: polled says that a live goroutine waits for it, full
\* that it is a current snapshot and not a historical placeholder.
Report == [proj : Project, src : Branch, date : Nat, full : BOOLEAN,
           polled : BOOLEAN]

\* Places of a branch import; it holds a slot of the branch gate in Gated
\* and of BuildSem in Building, and is over in Over.
Gated    == {"ready", "history", "historyPoll", "build", "submit", "poll"}
Building == {"submit"}
Over     == {"ok", "error"}
BranchPlace == Gated \cup Over \cup {"idle"}
\* A project holds a slot of the project gate in Admitted.
Admitted == {"admitted", "main", "rename", "fanout"}
ProjectPlace == Admitted \cup {"waiting", "dropped", "done"}

TypeOK ==
  /\ run \in {"down", "running", "finished"}
  /\ attempt \in Nat
  /\ cancelled \in BOOLEAN
  /\ srcDate \in [Project -> [Branch -> Nat]]
  /\ completed \subseteq Project \X Branch
  /\ projPc \in [Project -> ProjectPlace]
  /\ brPc \in [Project -> [Branch -> BranchPlace]]
  /\ snap \in [Project -> Snapshot]
  /\ hist \in [Project -> [Branch -> SUBSET HistoryDates]]
  /\ queue \subseteq Report
  /\ verdict \in [Project -> [Branch -> {"none", "SUCCESS", "FAILED"}]]
  /\ tMain \in [Project -> Branch]
  /\ tDate \in [Project -> [Branch -> Nat]]
  /\ tSrc \in [Project -> [Branch -> Branch \cup {NoBranch}]]
  /\ rows \in [Project -> [Branch -> Seq(Row)]]

-----------------------------------------------------------------------------
IsMain(p, b) == b = SrcMain[p]
NonMain(p) == Branches[p] \ {SrcMain[p]}

\* A report of a branch that was never analyzed is stamped with "now", which
\* is later than every date of the source and than every earlier run.
Now == MaxDate + attempt
SubmitDate(p, b) == IF srcDate[p][b] = 0 THEN Now ELSE srcDate[p][b]

\* Where on the target a branch's reports go.  A main report carries no
\* branch characteristics: it lands on the main branch whatever its name is.
TargetName(p, b) == IF IsMain(p, b) THEN tMain[p] ELSE b

\* The name importAndRecordBranch looks up in TargetAnalysisDates.
LookupName(p, b) ==
  IF IsMain(p, b) /\ snap[p].main # NoBranch THEN snap[p].main ELSE b

\* Variant: any analysis of the branch counts, whatever its date.
TargetAnalyzed(p, b) ==
  srcDate[p][b] # 0 /\ snap[p].dates[LookupName(p, b)] # 0

TargetUpToDate(p, b) ==
  /\ srcDate[p][b] # 0
  /\ snap[p].dates[LookupName(p, b)] # 0
  /\ snap[p].dates[LookupName(p, b)] >= srcDate[p][b]

\* Variant: a point on the instant of the regular import is replayed too.
HistoryUpToImport(p, b) ==
  {d \in HistoryDates :
      /\ srcDate[p][b] # 0 => d <= srcDate[p][b]
      /\ d > snap[p].dates[LookupName(p, b)]}

ReplayableHistory(p, b) ==
  {d \in HistoryDates :
      /\ srcDate[p][b] # 0 => d < srcDate[p][b]
      /\ d > snap[p].dates[LookupName(p, b)]}

RowStatuses(p, b) == {rows[p][b][i].status : i \in DOMAIN rows[p][b]}

LoadCompleted ==
  {u \in Project \X Branch : RowStatuses(u[1], u[2]) \cap Complete # {}}

ProjectHolders == {p \in Project : projPc[p] \in Admitted}
BranchHolders == {u \in Project \X Branch : brPc[u[1]][u[2]] \in Gated}
BuildHolders == {u \in Project \X Branch : brPc[u[1]][u[2]] \in Building}

BranchSlotFree == Cardinality(BranchHolders) < BranchLimit

Goto(p, b, place) == brPc' = [brPc EXCEPT ![p][b] = place]
GotoProject(p, place) == projPc' = [projPc EXCEPT ![p] = place]
Record(p, b, status) ==
  rows' = [rows EXCEPT ![p][b] =
             Append(@, [status |-> status, attempt |-> attempt])]

-----------------------------------------------------------------------------
(***************************************************************************)
(* The run: start, resume, cancellation, crash, end.                       *)
(***************************************************************************)
Init ==
  /\ run = "down" /\ attempt = 0 /\ cancelled = FALSE
  /\ srcDate = FirstDates
  /\ completed = {}
  /\ projPc = [p \in Project |-> "waiting"]
  /\ brPc = [p \in Project |-> [b \in Branch |-> "idle"]]
  /\ snap = [p \in Project |-> UnknownTarget]
  /\ hist = [p \in Project |-> [b \in Branch |-> {}]]
  /\ queue = {}
  /\ verdict = [p \in Project |-> [b \in Branch |-> "none"]]
  /\ tMain = [p \in Project |-> DefaultMain]
  /\ tDate = [p \in Project |-> [b \in Branch |-> 0]]
  /\ tSrc = [p \in Project |-> [b \in Branch |-> NoBranch]]
  /\ rows = [p \in Project |-> [b \in Branch |-> << >>]]

\* The memory of a process that has just started: no goroutine of the task.
FreshProcess ==
  /\ cancelled' = FALSE
  /\ projPc' = [p \in Project |-> "waiting"]
  /\ brPc' = [p \in Project |-> [b \in Branch |-> "idle"]]
  /\ snap' = [p \in Project |-> UnknownTarget]
  /\ hist' = [p \in Project |-> [b \in Branch |-> {}]]
  /\ verdict' = [p \in Project |-> [b \in Branch |-> "none"]]

Start ==
  /\ run \in {"down", "finished"}
  /\ attempt < MaxAttempts
  /\ run' = "running"
  /\ attempt' = attempt + 1
  /\ FreshProcess
  /\ UNCHANGED <<queue, targetVars>>

\* A run on the directory of an earlier one (--run_id): its rows are read.
Resume ==
  /\ attempt > 0
  /\ Start
  /\ completed' = LoadCompleted
  /\ UNCHANGED <<srcDate, rows>>

\* A run on a new directory, after a new extract of a source in which some
\* analyzed branches may have been analyzed again.
StartNew ==
  /\ Start
  /\ completed' = {}
  /\ rows' = [p \in Project |-> [b \in Branch |-> << >>]]
  /\ \E moved \in {{}} \cup {Project \X {b} : b \in Branch} :
       srcDate' = [p \in Project |-> [b \in Branch |->
                     IF <<p, b>> \in moved /\ srcDate[p][b] \in 1 .. MaxDate - 1
                     THEN srcDate[p][b] + 1 ELSE srcDate[p][b]]]

\* The process dies: what it held in memory is lost, its reports are not.
Crash ==
  /\ "crash" \in Faults
  /\ run = "running"
  /\ run' = "down"
  /\ completed' = {}
  /\ queue' = {[t EXCEPT !.polled = FALSE] : t \in queue}
  /\ FreshProcess
  /\ UNCHANGED <<attempt, srcDate, targetVars, rows>>

Cancel ==
  /\ "cancel" \in Faults
  /\ run = "running" /\ ~cancelled
  /\ cancelled' = TRUE
  /\ UNCHANGED <<run, attempt, srcDate, completed, projPc, brPc, snap, hist,
                 queue, verdict, targetVars, rows>>

\* g.Wait returns: every project that was admitted is over.
Finish ==
  /\ run = "running"
  /\ \A p \in Project : projPc[p] \in {"done", "dropped"}
  /\ run' = "finished"
  /\ UNCHANGED <<attempt, cancelled, srcDate, completed, projPc, brPc, snap,
                 hist, queue, verdict, targetVars, rows>>

-----------------------------------------------------------------------------
(***************************************************************************)
(* A project: admission, branch list, Phase 1, rename, Phase 2.            *)
(***************************************************************************)
\* The loops of both fan-outs walk their items in a fixed order; which project
\* or branch is admitted next is left open here.
AdmitProject(p) ==
  /\ run = "running" /\ projPc[p] = "waiting"
  /\ Cardinality(ProjectHolders) < ProjectLimit
  /\ GotoProject(p, "admitted")
  /\ UNCHANGED <<runVars, brPc, snap, hist, queue, verdict, targetVars, rows>>

\* gate.Acquire fails: the admission loop stops, whatever it has left.
StopAdmitting ==
  /\ run = "running" /\ cancelled
  /\ \E p \in Project : projPc[p] = "waiting"
  /\ projPc' = [p \in Project |->
       IF projPc[p] = "waiting" THEN "dropped" ELSE projPc[p]]
  /\ UNCHANGED <<runVars, brPc, snap, hist, queue, verdict, targetVars, rows>>

ImportProjectDataOne(p) ==
  /\ run = "running" /\ projPc[p] = "admitted"
  /\ \/ /\ cancelled
        /\ GotoProject(p, "dropped")
        /\ UNCHANGED snap
     \/ /\ ~cancelled
        /\ GotoProject(p, "main")
        /\ \/ snap' = [snap EXCEPT ![p] = [main |-> tMain[p], dates |-> tDate[p]]]
           \/ "list" \in Faults /\ UNCHANGED snap
  /\ UNCHANGED <<runVars, brPc, hist, queue, verdict, targetVars, rows>>

GatedImportMain(p) ==
  /\ run = "running" /\ projPc[p] = "main" /\ brPc[p][SrcMain[p]] = "idle"
  /\ \/ BranchSlotFree /\ Goto(p, SrcMain[p], "ready") /\ UNCHANGED rows
     \/ /\ cancelled
        /\ Goto(p, SrcMain[p], "error")
        /\ Record(p, SrcMain[p], "cancelled")
  /\ UNCHANGED <<runVars, projPc, snap, hist, queue, verdict, targetVars>>

\* Variants: the skipped branches get no row; main gets one more.
ForgetPhase1Skips(p) ==
  /\ run = "running" /\ projPc[p] = "main" /\ brPc[p][SrcMain[p]] = "error"
  /\ GotoProject(p, "done")
  /\ UNCHANGED <<runVars, brPc, snap, hist, queue, verdict, targetVars, rows>>

RecordAllSkips(p) ==
  /\ run = "running" /\ projPc[p] = "main" /\ brPc[p][SrcMain[p]] = "error"
  /\ rows' = [rows EXCEPT ![p] = [b \in Branch |->
       IF b \in Branches[p]
       THEN Append(rows[p][b], [status |-> "main_failed", attempt |-> attempt])
       ELSE rows[p][b]]]
  /\ GotoProject(p, "done")
  /\ UNCHANGED <<runVars, brPc, snap, hist, queue, verdict, targetVars>>

\* Main was not imported: one row for every branch that is not attempted.
RecordPhase1Skips(p) ==
  /\ run = "running" /\ projPc[p] = "main" /\ brPc[p][SrcMain[p]] = "error"
  /\ rows' = [rows EXCEPT ![p] = [b \in Branch |->
       IF b \in NonMain(p)
       THEN Append(rows[p][b],
              [status |-> IF cancelled THEN "cancelled" ELSE "main_failed",
               attempt |-> attempt])
       ELSE rows[p][b]]]
  /\ GotoProject(p, "done")
  /\ UNCHANGED <<runVars, brPc, snap, hist, queue, verdict, targetVars>>

\* Variant: Phase 2 follows whatever became of main.
EndPhase1Anyhow(p) ==
  /\ run = "running" /\ projPc[p] = "main" /\ brPc[p][SrcMain[p]] \in Over
  /\ GotoProject(p, "rename")
  /\ UNCHANGED <<runVars, brPc, snap, hist, queue, verdict, targetVars, rows>>

EndPhase1(p) ==
  /\ run = "running" /\ projPc[p] = "main" /\ brPc[p][SrcMain[p]] = "ok"
  /\ GotoProject(p, "rename")
  /\ UNCHANGED <<runVars, brPc, snap, hist, queue, verdict, targetVars, rows>>

\* Cloud renames the main branch only to a name no other branch has.
RenameMain(p, new) ==
  /\ tDate[p][new] = 0
  /\ LET old == tMain[p] IN
       /\ tMain' = [tMain EXCEPT ![p] = new]
       /\ tDate' = [tDate EXCEPT ![p][new] = tDate[p][old], ![p][old] = 0]
       /\ tSrc' = [tSrc EXCEPT ![p][new] = tSrc[p][old], ![p][old] = NoBranch]

RenameSCMainBranchToSource(p) ==
  /\ run = "running" /\ projPc[p] = "rename"
  /\ \/ /\ ~cancelled /\ tMain[p] # SrcMain[p]
        /\ RenameMain(p, SrcMain[p])
     \/ /\ \/ cancelled \/ "rename" \in Faults
           \/ tMain[p] = SrcMain[p] \/ tDate[p][SrcMain[p]] # 0
        /\ UNCHANGED targetVars
  /\ GotoProject(p, "fanout")
  /\ UNCHANGED <<runVars, brPc, snap, hist, queue, verdict, rows>>

\* The fan-out loop of Phase 2 takes a slot for b, or accounts for b.
AdmitBranch(p, b) ==
  /\ run = "running" /\ projPc[p] = "fanout"
  /\ b \in NonMain(p) /\ brPc[p][b] = "idle"
  /\ \/ BranchSlotFree /\ Goto(p, b, "ready") /\ UNCHANGED rows
     \/ cancelled /\ Goto(p, b, "error") /\ Record(p, b, "cancelled")
  /\ UNCHANGED <<runVars, projPc, snap, hist, queue, verdict, targetVars>>

FinishProject(p) ==
  /\ run = "running" /\ projPc[p] = "fanout"
  /\ \A b \in NonMain(p) : brPc[p][b] \in Over
  /\ GotoProject(p, "done")
  /\ UNCHANGED <<runVars, brPc, snap, hist, queue, verdict, targetVars, rows>>

-----------------------------------------------------------------------------
(***************************************************************************)
(* A branch: skip, up to date, history replay, build, submit, poll.        *)
(***************************************************************************)
EndBranch(p, b, place, status) ==
  /\ Goto(p, b, place)
  /\ Record(p, b, status)

\* The goroutine of a non-main branch looks at the context first; Phase 1
\* calls importAndRecordBranch at once.
CancelledBeforeImport(p, b) ==
  /\ run = "running" /\ brPc[p][b] = "ready"
  /\ cancelled /\ ~IsMain(p, b)
  /\ EndBranch(p, b, "error", "cancelled")
  /\ UNCHANGED <<runVars, projPc, snap, hist, queue, verdict, targetVars>>

ImportAndRecordBranch(p, b) ==
  /\ run = "running" /\ brPc[p][b] = "ready"
  /\ IsMain(p, b) \/ ~cancelled
  /\ \/ /\ <<p, b>> \in completed
        /\ Goto(p, b, "ok")
        /\ UNCHANGED <<hist, rows>>
     \/ /\ <<p, b>> \notin completed
        /\ TargetUpToDate(p, b)
        /\ EndBranch(p, b, "ok", "up_to_date")
        /\ UNCHANGED hist
     \/ /\ <<p, b>> \notin completed
        /\ ~TargetUpToDate(p, b)
        /\ Goto(p, b, "history")
        /\ hist' = [hist EXCEPT ![p][b] = ReplayableHistory(p, b)]
        /\ UNCHANGED rows
  /\ UNCHANGED <<runVars, projPc, snap, queue, verdict, targetVars>>

\* The POST to the CE, which the transport repeats when its answer is lost:
\* the CE then has two tasks and the caller polls the second.
ReportOf(p, b, date, full, polled) ==
  [proj |-> p, src |-> b, date |-> date, full |-> full, polled |-> polled]

SubmitReport(p, b, date, full) ==
  /\ ~cancelled
  /\ \/ queue' = queue \cup {ReportOf(p, b, date, full, TRUE)}
     \/ /\ "duplicate" \in Faults
        /\ queue' = queue \cup {ReportOf(p, b, date, full, polled) :
                                  polled \in BOOLEAN}

\* The handshake, the upload or any other call of a submission fails; the
\* upload may have reached the CE and only its answer be lost.
SubmitFails(p, b, date, full) ==
  /\ cancelled \/ "submit" \in Faults
  /\ \/ UNCHANGED queue
     \/ queue' = queue \cup {ReportOf(p, b, date, full, FALSE)}

\* The points are replayed oldest first; a failure gives up all the others.
ReplayHistoryPoint(p, b) ==
  /\ run = "running" /\ brPc[p][b] = "history"
  /\ \E d \in hist[p][b] :
       /\ \A e \in hist[p][b] : d <= e
       /\ \/ /\ SubmitReport(p, b, d, FALSE)
             /\ hist' = [hist EXCEPT ![p][b] = @ \ {d}]
             /\ Goto(p, b, "historyPoll")
          \/ /\ SubmitFails(p, b, d, FALSE)
             /\ hist' = [hist EXCEPT ![p][b] = {}]
             /\ Goto(p, b, "build")
  /\ UNCHANGED <<runVars, projPc, snap, verdict, targetVars, rows>>

EndHistory(p, b) ==
  /\ run = "running" /\ brPc[p][b] = "history" /\ hist[p][b] = {}
  /\ Goto(p, b, "build")
  /\ UNCHANGED <<runVars, projPc, snap, hist, queue, verdict, targetVars, rows>>

\* Nobody waits any more for the task of a branch whose poll was cancelled.
Abandon(p, b) ==
  {IF t.proj = p /\ t.src = b THEN [t EXCEPT !.polled = FALSE] ELSE t :
      t \in queue}

PollHistoryPoint(p, b) ==
  /\ run = "running" /\ brPc[p][b] = "historyPoll"
  /\ \/ /\ verdict[p][b] = "SUCCESS"
        /\ Goto(p, b, "history")
        /\ UNCHANGED <<hist, queue>>
     \/ /\ verdict[p][b] = "FAILED" \/ cancelled
        /\ Goto(p, b, "build")
        /\ hist' = [hist EXCEPT ![p][b] = {}]
        /\ queue' = Abandon(p, b)
  /\ verdict' = [verdict EXCEPT ![p][b] = "none"]
  /\ UNCHANGED <<runVars, projPc, snap, targetVars, rows>>

AcquireBuildSem(p, b) ==
  /\ run = "running" /\ brPc[p][b] = "build"
  /\ \/ /\ Cardinality(BuildHolders) < BuildLimit
        /\ Goto(p, b, "submit")
        /\ UNCHANGED rows
     \/ cancelled /\ EndBranch(p, b, "error", "failed")
  /\ UNCHANGED <<runVars, projPc, snap, hist, queue, verdict, targetVars>>

\* buildBranchReport and the submission, inside one build slot.
BuildAndSubmit(p, b) ==
  /\ run = "running" /\ brPc[p][b] = "submit"
  /\ \/ /\ <<p, b>> \in Unbuildable
        /\ \E status \in {"skipped", "no_data"} :
             /\ IsMain(p, b) => status = "skipped"
             /\ EndBranch(p, b, "ok", status)
        /\ UNCHANGED queue
     \/ /\ <<p, b>> \notin Unbuildable
        /\ SubmitReport(p, b, SubmitDate(p, b), TRUE)
        /\ Goto(p, b, "poll")
        /\ UNCHANGED rows
     \/ /\ <<p, b>> \notin Unbuildable
        /\ SubmitFails(p, b, SubmitDate(p, b), TRUE)
        /\ EndBranch(p, b, "error", "failed")
  /\ UNCHANGED <<runVars, projPc, snap, hist, verdict, targetVars>>

\* Variant: only SUCCESS and the context end the poll.
PollUntilSuccess(p, b) ==
  /\ run = "running" /\ brPc[p][b] = "poll"
  /\ \/ verdict[p][b] = "SUCCESS" /\ EndBranch(p, b, "ok", "success")
     \/ cancelled /\ EndBranch(p, b, "error", "failed")
  /\ queue' = Abandon(p, b)
  /\ verdict' = [verdict EXCEPT ![p][b] = "none"]
  /\ UNCHANGED <<runVars, projPc, snap, hist, targetVars>>

PollCETask(p, b) ==
  /\ run = "running" /\ brPc[p][b] = "poll"
  /\ \/ verdict[p][b] = "SUCCESS" /\ EndBranch(p, b, "ok", "success")
     \/ verdict[p][b] = "FAILED" /\ EndBranch(p, b, "error", "failed")
     \/ cancelled /\ EndBranch(p, b, "error", "failed")
  /\ queue' = Abandon(p, b)
  /\ verdict' = [verdict EXCEPT ![p][b] = "none"]
  /\ UNCHANGED <<runVars, projPc, snap, hist, targetVars>>

-----------------------------------------------------------------------------
(***************************************************************************)
(* The Compute Engine (external).  It processes the reports of a project   *)
(* in any order, refuses a report that is not newer than the branch's      *)
(* newest analysis, and refuses a branch report until a main analysis      *)
(* anchors the project.  What it does with a branch report that names the  *)
(* current main branch is unknown: it may refuse it or analyze it.         *)
(***************************************************************************)
Anchored(p) == tDate[p][tMain[p]] > 0

CEAccepts(t) ==
  /\ t.date > tDate[t.proj][TargetName(t.proj, t.src)]
  /\ IsMain(t.proj, t.src) \/ Anchored(t.proj)

CEMayRefuse(t) ==
  \/ ~CEAccepts(t)
  \/ "reject" \in Faults
  \/ ~IsMain(t.proj, t.src) /\ t.src = tMain[t.proj]

Answer(t, answer) ==
  verdict' = IF t.polled
             THEN [verdict EXCEPT ![t.proj][t.src] = answer]
             ELSE verdict

ProcessReport(t) ==
  /\ queue' = queue \ {t}
  /\ \/ /\ CEAccepts(t)
        /\ LET name == TargetName(t.proj, t.src) IN
             /\ tDate' = [tDate EXCEPT ![t.proj][name] = t.date]
             /\ tSrc' = [tSrc EXCEPT ![t.proj][name] =
                           IF t.full THEN t.src ELSE NoBranch]
        /\ Answer(t, "SUCCESS")
     \/ /\ CEMayRefuse(t)
        /\ UNCHANGED <<tDate, tSrc>>
        /\ Answer(t, "FAILED")
  /\ UNCHANGED <<runVars, projPc, brPc, snap, hist, tMain, rows>>

-----------------------------------------------------------------------------
ProjectStep(p) ==
  \/ AdmitProject(p)
  \/ ImportProjectDataOne(p)
  \/ GatedImportMain(p)
  \/ RecordPhase1Skips(p)
  \/ EndPhase1(p)
  \/ RenameSCMainBranchToSource(p)
  \/ FinishProject(p)

BranchStep(p, b) ==
  \/ AdmitBranch(p, b)
  \/ CancelledBeforeImport(p, b)
  \/ ImportAndRecordBranch(p, b)
  \/ ReplayHistoryPoint(p, b)
  \/ PollHistoryPoint(p, b)
  \/ EndHistory(p, b)
  \/ AcquireBuildSem(p, b)
  \/ BuildAndSubmit(p, b)
  \/ PollCETask(p, b)

ComputeEngine == \E t \in queue : ProcessReport(t)

\* No operator starts another run.
Stopped == run # "running" /\ attempt = MaxAttempts /\ UNCHANGED vars

Next ==
  \/ Resume \/ StartNew \/ Crash \/ Cancel \/ Finish
  \/ StopAdmitting
  \/ \E p \in Project : ProjectStep(p)
  \/ \E p \in Project : \E b \in Branches[p] : BranchStep(p, b)
  \/ ComputeEngine
  \/ Stopped

Spec == Init /\ [][Next]_vars

\* Goroutines are scheduled, and every report is eventually processed.
Fairness ==
  /\ WF_vars(Finish)
  /\ WF_vars(StopAdmitting)
  /\ \A p \in Project : WF_vars(ProjectStep(p))
  /\ \A p \in Project : \A b \in Branches[p] : WF_vars(BranchStep(p, b))
  /\ WF_vars(ComputeEngine)

FairSpec == Spec /\ Fairness

-----------------------------------------------------------------------------
(***************************************************************************)
(* Properties.                                                             *)
(***************************************************************************)

\* The target carries b's current snapshot, at the date of the extract.
Held(p, b) ==
  \E name \in Branch : tSrc[p][name] = b /\ tDate[p][name] >= srcDate[p][b]

\* A row that says a branch is migrated ("success", or "up_to_date": the
\* target already held it) is true, whatever crashed, was repeated, was
\* resumed or was renamed since.
CompleteRowsAreMigrated ==
  \A p \in Project : \A b \in Branches[p] :
    RowStatuses(p, b) \cap Complete # {} => Held(p, b)

\* No branch report is in the Compute Engine before a main analysis anchors
\* its project (Phase 1 is a hard barrier), also after a crash and a resume.
BranchReportsAreAnchored ==
  \A t \in queue : IsMain(t.proj, t.src) \/ Anchored(t.proj)

\* Everything a run believes or does on the strength of an imported main
\* branch: the phases after the barrier, a row or a list entry that says main
\* is migrated, a successful poll of main, and work on any other branch.
ReliesOnMain(p) ==
  LET main == SrcMain[p] IN
    \/ projPc[p] \in {"rename", "fanout"}
    \/ brPc[p][main] = "ok"
    \/ verdict[p][main] = "SUCCESS"
    \/ RowStatuses(p, main) \cap Complete # {}
    \/ <<p, main>> \in completed
    \/ snap[p].dates[LookupName(p, main)] # 0
    \/ \E b \in NonMain(p) : brPc[p][b] \in Gated
    \/ \E t \in queue : t.proj = p /\ ~IsMain(p, t.src)

\* The barrier as an inductive invariant: a run that relies on the main
\* branch of a project finds a main analysis on the target, in every run that
\* reads the rows, the branch list or the reports an earlier one left.
MainIsTheAnchor == \A p \in Project : ReliesOnMain(p) => Anchored(p)

\* When Phase 2 of a project is over, every selected branch has a row of this
\* run or is complete since an earlier one: nothing vanishes from the report.
NoBranchVanishes ==
  \A p \in Project : projPc[p] = "done" =>
    \A b \in Branches[p] :
      \/ <<p, b>> \in completed
      \/ \E i \in DOMAIN rows[p][b] : rows[p][b][i].attempt = attempt

\* buildBranchReport of every main branch yields a report.
MainsBuildable == \A p \in Project : <<p, SrcMain[p]>> \notin Unbuildable

\* A run writes at most one row for a branch, on whichever of the many paths
\* (gate refused, context done, main failed, imported) its import ends.
OneRowPerRun ==
  \A p \in Project : \A b \in Branch :
    \A i, j \in DOMAIN rows[p][b] :
      rows[p][b][i].attempt = rows[p][b][j].attempt => i = j

\* The rows of a run account for its branches, each once: none is left out of
\* the report and none is told of twice.
BranchesAreAccounted == NoBranchVanishes /\ OneRowPerRun

\* The report a run waits for is refused as too old only when the target
\* already carries the branch: neither the replay of the branch's history nor
\* a report repeated or left by an earlier run can cost it its snapshot.
TooOldMeansHeld ==
  \A t \in queue :
    (/\ t.full /\ t.polled
     /\ t.date <= tDate[t.proj][TargetName(t.proj, t.src)])
    => Held(t.proj, t.src)

\* A run that starts ends, or its process dies.
EveryRunEnds == (run = "running") ~> (run # "running")

\* An already complete branch gets no further row: a resume never downgrades
\* it.  (The comment of loadCompletedBranches.)
CompleteBranchGetsNoRow ==
  [][\A u \in completed :
       completed' = completed => rows'[u[1]][u[2]] = rows[u[1]][u[2]]]_vars

=============================================================================
