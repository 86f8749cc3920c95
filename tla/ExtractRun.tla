----------------------------- MODULE ExtractRun ----------------------------
(***************************************************************************)
(* A run of extract (go/internal/extract): phases of tasks, most of which  *)
(* make a request per project, up to Slots at a time over all tasks.  A    *)
(* project whose request fails is skipped from then on and listed at the   *)
(* end of the run; MaxConsecutive failures with no success between them    *)
(* are an outage, which takes the failures back and stops the run.  Task   *)
(* output and done markers are on disk at once, the list of failed         *)
(* projects when a run ends; the next run resumes from the disk.           *)
(*                                                                         *)
(* Each section that holds e.mu is one action.  A project's rows count the *)
(* times a task wrote them.                                                *)
(***************************************************************************)
EXTENDS Integers, Sequences, FiniteSets

CONSTANTS Projects,
          Plan,             \* the phases: a sequence of sets of tasks
          PerProject,       \* the tasks that fan out over the projects
          MaxConsecutive,   \* maxConsecutiveProjectFailures
          Slots,            \* cap(e.Sem)
          Denied,           \* projects a request may be refused for (403, 404)
          MaxRuns,          \* bound: runs in this extract directory
          MaxCrashes        \* bound: processes killed

Tasks == UNION {Plan[i] : i \in DOMAIN Plan}

ASSUME ExtractAssumption ==
  /\ Plan \in Seq(SUBSET Tasks) /\ Plan # <<>> /\ PerProject \subseteq Tasks
  /\ MaxConsecutive \in Nat \ {0} /\ Slots \in Nat \ {0}
  /\ Denied \subseteq Projects
  /\ MaxRuns \in Nat /\ MaxCrashes \in Nat

VARIABLES
  pc,             \* "off", "running", "stopped", "complete" or "crashed"
  phase,          \* index of the phase under way
  status,         \* of each task: waiting, running, failing, failed, finished
  todo,           \* per task, projects it has yet to ask for
  asking,         \* per task, projects with a request in flight
  stopping,       \* pairs <<task, project>> whose failure reached MaxConsecutive
  failedProjects, \* e.failedProjects
  skippedProjects,\* e.skippedProjects
  failStreak, streakKeys, doneInStreak, outage,
  done,           \* disk: done markers
  rows,           \* disk: rows of each project each task has written
  failedFile,     \* disk: failed_projects.json
  refused,        \* projects a request was ever refused for (history)
  counted,        \* the failures the last outage was declared on (history)
  runs, crashes

workVars == <<phase, status, todo, asking, stopping>>
streakVars == <<failStreak, streakKeys, doneInStreak, outage>>
diskVars == <<done, rows, failedFile>>
history == <<refused, counted, runs, crashes>>
vars == <<pc, workVars, failedProjects, skippedProjects, streakVars, diskVars, history>>

\* Every request holds a slot of e.Sem until its outcome is dealt with.
InFlight == {a \in Tasks \X Projects : a[2] \in asking[a[1]]} \union stopping

IsSkipped(p) == p \in failedProjects \union skippedProjects

NoWork == [t \in Tasks |-> {}]
Waiting == [t \in Tasks |-> "waiting"]
NoRows == [p \in Projects |-> 0]

Init == /\ pc = "off"
        /\ phase = 1 /\ status = Waiting /\ todo = NoWork /\ asking = NoWork /\ stopping = {}
        /\ failedProjects = {} /\ skippedProjects = {}
        /\ failStreak = 0 /\ streakKeys = {} /\ doneInStreak = {} /\ outage = FALSE
        /\ done = {} /\ rows = [t \in Tasks |-> NoRows] /\ failedFile = {}
        /\ refused = {} /\ counted = {} /\ runs = 0 /\ crashes = 0

\* Variant: partial output of an unfinished task is kept.
KeepUnfinished == rows

\* DiscardUnfinished, for every task without a done marker.
DiscardUnfinished == [t \in Tasks |-> IF t \in done THEN rows[t] ELSE NoRows]

\* restoreFailedProjects
RestoreFailed == failedFile

\* RunExtract up to its phases: prepareResume, a new executor.
Start == /\ pc \in {"off", "stopped", "crashed"}
         /\ runs < MaxRuns
         /\ runs' = runs + 1
         /\ pc' = "running"
         /\ phase' = 1 /\ status' = Waiting /\ todo' = NoWork /\ asking' = NoWork
         /\ stopping' = {} /\ skippedProjects' = {}
         /\ failStreak' = 0 /\ streakKeys' = {} /\ doneInStreak' = {} /\ outage' = FALSE
         /\ failedProjects' = RestoreFailed
         /\ rows' = DiscardUnfinished
         /\ counted' = {}
         /\ UNCHANGED <<done, failedFile, refused, crashes>>

InPhase(t) == pc = "running" /\ t \in Plan[phase]

\* g.Go: a task the resumed plan still holds starts, its items filtered once.
StartTask(t) == /\ InPhase(t) /\ status[t] = "waiting" /\ t \notin done
                /\ Cardinality({u \in Tasks : status[u] \in {"running", "failing"}}) < Slots
                /\ status' = [status EXCEPT ![t] = "running"]
                /\ todo' = [todo EXCEPT ![t] = IF t \in PerProject
                                               THEN {p \in Projects : ~IsSkipped(p)} ELSE {}]
                /\ UNCHANGED <<pc, phase, asking, stopping, failedProjects, skippedProjects,
                               streakVars, diskVars, history>>

\* runWithSem: a slot, then the second look at the skipped projects.
Ask(t, p) == /\ InPhase(t) /\ status[t] = "running" /\ p \in todo[t]
             /\ Cardinality(InFlight) < Slots
             /\ todo' = [todo EXCEPT ![t] = @ \ {p}]
             /\ asking' = IF IsSkipped(p) THEN asking ELSE [asking EXCEPT ![t] = @ \union {p}]
             /\ UNCHANGED <<pc, phase, status, stopping, failedProjects, skippedProjects,
                            streakVars, diskVars, history>>

Answered(t, p) == InPhase(t) /\ p \in asking[t] /\ asking' = [asking EXCEPT ![t] = @ \ {p}]

\* recordProjectSuccess
EndStreak == /\ failStreak' = 0
             /\ IF failStreak = 0 THEN UNCHANGED <<streakKeys, doneInStreak>>
                ELSE streakKeys' = {} /\ doneInStreak' = {}

\* The rows are written, and recordProjectSuccess ends a run of failures.
Succeed(t, p) == /\ Answered(t, p)
                 /\ rows' = [rows EXCEPT ![t][p] = @ + 1]
                 /\ EndStreak
                 /\ UNCHANGED <<pc, phase, status, todo, stopping, failedProjects, skippedProjects,
                                outage, done, failedFile, history>>

\* A 403 or 404: the project is skipped, in this run, if the item has its key;
\* where the request itself deals with it, that counts as a success.
Refuse(t, p) == /\ Answered(t, p)
                /\ p \in Denied
                /\ skippedProjects' \in {skippedProjects, skippedProjects \union {p}}
                /\ refused' = refused \union {p}
                /\ EndStreak \/ UNCHANGED <<failStreak, streakKeys, doneInStreak>>
                /\ UNCHANGED <<pc, phase, status, todo, stopping, failedProjects, outage,
                               diskVars, counted, runs, crashes>>

\* The context a goroutine of task t works under is done.
Cancelled(t) == status[t] = "failing" \/ \E u \in Plan[phase] : status[u] = "failed"

\* recordProjectFailure: a project counts once; enough in a row announce an outage.
Fail(t, p) == /\ Answered(t, p) /\ ~Cancelled(t)
              /\ IF p \in failedProjects
                 THEN UNCHANGED <<failedProjects, failStreak, streakKeys, stopping, counted>>
                 ELSE /\ failedProjects' = failedProjects \union {p}
                      /\ streakKeys' = streakKeys \union {p}
                      /\ failStreak' = failStreak + 1
                      /\ IF failStreak' >= MaxConsecutive
                         THEN stopping' = stopping \union {<<t, p>>} /\ counted' = counted \union streakKeys'
                         ELSE UNCHANGED <<stopping, counted>>
              /\ UNCHANGED <<pc, phase, status, todo, skippedProjects, doneInStreak, outage,
                             diskVars, refused, runs, crashes>>

ClearDone == done \ doneInStreak

\* endOutage, in a later section than the failure that called for it; then the error.
EndOutage(t, p) == /\ pc = "running" /\ <<t, p>> \in stopping
                   /\ stopping' = stopping \ {<<t, p>>}
                   /\ outage' = TRUE
                   /\ failedProjects' = failedProjects \ streakKeys
                   /\ done' = ClearDone
                   /\ streakKeys' = {} /\ doneInStreak' = {}
                   /\ status' = [status EXCEPT ![t] = "failing"]
                   /\ UNCHANGED <<pc, phase, todo, asking, skippedProjects, failStreak,
                                  rows, failedFile, history>>

\* An error that is no single project's, or that of a cancelled context.
FatalError(t) == /\ InPhase(t) /\ status[t] \in {"running", "failing"}
                 /\ todo' = [todo EXCEPT ![t] = {}]
                 /\ \/ \E p \in Projects : Answered(t, p)
                    \/ /\ status[t] = "running"
                       /\ t \notin PerProject \/ (Cancelled(t) /\ todo[t] # {})
                       /\ UNCHANGED asking
                 /\ status' = [status EXCEPT ![t] = "failing"]
                 /\ UNCHANGED <<pc, phase, stopping, failedProjects, skippedProjects,
                                streakVars, diskVars, history>>

NothingInFlight(t) == asking[t] = {} /\ \A p \in Projects : <<t, p>> \notin stopping

\* Variant: a task that finishes during a run of failures is not noted.
NoteNothing(t) == doneInStreak

NoteDone(t) == IF failStreak > 0 THEN doneInStreak \union {t} ELSE doneInStreak

\* The task returned nil: markTaskDone.
FinishTask(t) == /\ InPhase(t) /\ status[t] = "running"
                 /\ todo[t] = {} /\ NothingInFlight(t)
                 /\ status' = [status EXCEPT ![t] = "finished"]
                 /\ done' = IF outage THEN done ELSE done \union {t}
                 /\ doneInStreak' = IF outage THEN doneInStreak ELSE NoteDone(t)
                 /\ UNCHANGED <<pc, phase, todo, asking, stopping, failedProjects, skippedProjects,
                                failStreak, streakKeys, outage, rows, failedFile, history>>

\* Variant: a task that failed starts over.
StartOver(t) == /\ InPhase(t) /\ status[t] = "failing" /\ NothingInFlight(t)
                /\ status' = [status EXCEPT ![t] = "waiting"]
                /\ rows' = [rows EXCEPT ![t] = NoRows]
                /\ UNCHANGED <<pc, phase, todo, asking, stopping, failedProjects, skippedProjects,
                               streakVars, done, failedFile, history>>

\* The task returned an error: the context of its phase is cancelled.
FailTask(t) == /\ InPhase(t) /\ status[t] = "failing" /\ NothingInFlight(t)
               /\ status' = [status EXCEPT ![t] = "failed"]
               /\ UNCHANGED <<pc, phase, todo, asking, stopping, failedProjects, skippedProjects,
                              streakVars, diskVars, history>>

\* g.Wait of the phase returns: every task has returned.
PhaseOver == \A t \in Plan[phase] : t \in done \/ status[t] \in {"finished", "failed"}

SomeFailed == \E t \in Plan[phase] : status[t] = "failed"

NextPhase == /\ pc = "running" /\ PhaseOver /\ ~SomeFailed /\ phase < Len(Plan)
             /\ phase' = phase + 1
             /\ UNCHANGED <<pc, status, todo, asking, stopping, failedProjects, skippedProjects,
                            streakVars, diskVars, history>>

\* Both exits of RunExtract: keepFailedProjects writes the list.
EndRun == /\ pc = "running" /\ PhaseOver
          /\ pc' = IF SomeFailed THEN "stopped" ELSE "complete"
          /\ SomeFailed \/ phase = Len(Plan)
          /\ failedFile' = failedProjects
          /\ UNCHANGED <<workVars, failedProjects, skippedProjects, streakVars, done, rows, history>>

\* The process is killed; what the last run would leave behind nobody reads.
Crash == /\ pc = "running" /\ crashes < MaxCrashes /\ runs < MaxRuns
         /\ crashes' = crashes + 1
         /\ pc' = "crashed"
         /\ UNCHANGED <<workVars, failedProjects, skippedProjects, streakVars, diskVars,
                        refused, counted, runs>>

\* The directory is used no more.
Leave == /\ pc = "complete" \/ (pc = "stopped" /\ runs = MaxRuns)
         /\ UNCHANGED vars

Work(t) == \/ StartTask(t) \/ FatalError(t) \/ FinishTask(t) \/ FailTask(t)
           \/ \E p \in Projects : Ask(t, p) \/ Succeed(t, p) \/ Refuse(t, p) \/ Fail(t, p)
                                  \/ EndOutage(t, p)

Next == \/ Start \/ NextPhase \/ EndRun \/ Crash \/ Leave
        \/ \E t \in Tasks : Work(t)

Spec == Init /\ [][Next]_vars

\* Some goroutine that can run does; a request is answered or times out.
FairSpec == Spec /\ WF_vars(NextPhase \/ EndRun \/ \E t \in Tasks : Work(t))
-----------------------------------------------------------------------------
\* Types of all variables.
TypeOK ==
  /\ pc \in {"off", "running", "stopped", "complete", "crashed"}
  /\ phase \in 1 .. Len(Plan)
  /\ status \in [Tasks -> {"waiting", "running", "failing", "failed", "finished"}]
  /\ todo \in [Tasks -> SUBSET Projects] /\ asking \in [Tasks -> SUBSET Projects]
  /\ stopping \subseteq Tasks \X Projects
  /\ failedProjects \subseteq Projects /\ skippedProjects \subseteq Projects
  /\ failStreak \in Nat /\ streakKeys \subseteq Projects
  /\ doneInStreak \subseteq Tasks /\ outage \in BOOLEAN
  /\ done \subseteq Tasks /\ rows \in [Tasks -> [Projects -> Nat]]
  /\ failedFile \subseteq Projects /\ refused \subseteq Projects /\ counted \subseteq Projects
  /\ runs \in Nat /\ crashes \in Nat

(***************************************************************************)
(* As long as no process is killed: when no run is under way, a task       *)
(* marked done holds every project's rows, once, but for those of projects *)
(* listed as failed or refused by the server.                              *)
(***************************************************************************)
Written(t, p) == rows[t][p] = 1
DoneTasksAreWhole ==
  crashes = 0 /\ pc # "running" =>
    \A t \in done \intersect PerProject, p \in Projects \ (failedFile \union refused) : Written(t, p)

(***************************************************************************)
(* What keeps it true while runs fail: a done task lacks only projects     *)
(* that are skipped, and one an outage would take back lacks them only if  *)
(* the outage would take the task back as well.                            *)
(***************************************************************************)
LacksOnlySkipped ==
  crashes = 0 /\ pc = "running" =>
    \A t \in done \intersect PerProject, p \in Projects \ refused :
      Written(t, p) \/ (p \in failedProjects /\ (p \in streakKeys => t \in doneInStreak))

(***************************************************************************)
(* "A resumed extract is never silently incomplete" (MIGRATE.md): the      *)
(* extract handed on has every task done, and every project's rows but     *)
(* those of projects listed or refused.                                    *)
(***************************************************************************)
NeverSilentlyIncomplete ==
  pc = "complete" =>
    /\ Tasks \subseteq done
    /\ \A t \in PerProject, p \in Projects \ (failedFile \union refused) : Written(t, p)

\* So it is, through failures, outages and resumed runs, if no process was killed.
CompleteIsWhole == crashes = 0 => NeverSilentlyIncomplete

(***************************************************************************)
(* Through failures, crashes and resumed runs no task writes a project's   *)
(* rows twice, not even where half a task's output was on disk already.    *)
(***************************************************************************)
WrittenOnce == \A t \in Tasks, p \in Projects : rows[t][p] <= 1

(***************************************************************************)
(* "Those projects are not recorded as failed" (TROUBLESHOOTING.md, and    *)
(* the error of skipFailedProject): a run that stopped on an outage lists  *)
(* none of the failures it was declared on.                                *)
(***************************************************************************)
OutageListsNothing == pc = "stopped" /\ outage => failedFile \intersect counted = {}

\* A run of extract ends, whichever requests fail and whenever its context is cancelled.
EveryExtractEnds == pc = "running" ~> pc # "running"
=============================================================================
