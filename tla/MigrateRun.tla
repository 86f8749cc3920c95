----------------------------- MODULE MigrateRun -----------------------------
(***************************************************************************)
(* The engine of `migrate`: a plan of phases over tasks that depend on     *)
(* each other, tasks of a phase running side by side, the items of a task  *)
(* running side by side, and the rows each task leaves in its directory    *)
(* for the tasks behind it and for a later attempt (--run_id).             *)
(*                                                                         *)
(* A run directory outlives the process.  An attempt ends done, failed,    *)
(* or cut by a crash, and the next one is fresh (an empty directory) or a  *)
(* resume (tasks whose directory exists are dropped from the plan).        *)
(*                                                                         *)
(* Three shapes of task: a loader turns a mapping CSV into rows, a creator *)
(* creates one entity per row on SonarQube Cloud, an applier configures or *)
(* imports the entities created.                                           *)
(***************************************************************************)
EXTENDS Naturals, FiniteSets, Sequences

CONSTANTS
    Task,       \* the names in the registry
    Dep,        \* Dep[t]: TaskDef.Dependencies
    Source,     \* Source[t]: the task whose rows t iterates, NoTask for a loader
    NoTask,
    Creator,    \* the tasks that create entities; an applier iterates one's rows
    Reentrant,  \* the tasks with a resume of their own (importProjectData)
    Item,       \* the rows of the mapping CSV
    Taken,      \* the sets of items whose key another organization may hold
    Goals,      \* the target sets a command line may ask for
    Exclusions, \* the sets of tasks an --objects filter may exclude
    Width,      \* maxConcurrentTasksPerPhase
    Fanout,     \* items of one task in flight
    MaxAttempts \* bound: attempts, fresh or resumed

ASSUME TaskAssumption ==
    /\ IsFiniteSet(Task)
    /\ Dep \in [Task -> SUBSET Task]
    /\ NoTask \notin Task
    /\ Source \in [Task -> Task \cup {NoTask}]
    /\ Creator \subseteq Task
    /\ Reentrant \subseteq Task
    /\ Creator \cap Reentrant = {}
    /\ \A t \in Creator : Source[t] # NoTask
    /\ \A t \in Creator : Source[Source[t]] = NoTask
    /\ \A t \in Task : Source[t] = NoTask \/ t \in Creator \/ Source[t] \in Creator
    /\ Goals \subseteq SUBSET Task
    /\ Exclusions \subseteq SUBSET Task
\* A task declares what it reads, itself or through what it depends on.
ASSUME SourceAssumption ==
    \A t \in Task : Source[t] # NoTask =>
        \A closed \in SUBSET Task :
            Dep[t] \cup UNION {Dep[u] : u \in closed} \subseteq closed => Source[t] \in closed
ASSUME BoundAssumption ==
    /\ Width \in Nat \ {0}
    /\ Fanout \in Nat \ {0}
    /\ MaxAttempts \in Nat

VARIABLES
    run,       \* none, running, done, failed or crashed
    attempt,   \* attempts started so far
    resumed,   \* the present attempt took up an earlier directory
    goal, excluded, \* the command line of the present run directory
    phases,    \* what is still to run of each phase
    st,        \* st[t]: idle, queued, running, ok or failed
    todo,      \* todo[t]: the rows not yet handed to a goroutine
    job,       \* job[t]: the items in flight, with the stage each has reached
    erred,     \* tasks whose item loop has an error to return
    faulty,    \* tasks whose counter holds an actionable failure
    cancelled, \* the context the tasks of the phase share is cancelled
    dir,       \* the task directories of the run directory
    next,      \* next[t]: the open writer's chunk index
    files,     \* files[t]: the chunks on disk
    cloud,     \* cloud[i]: absent, ours, or foreign (another organization)
    applied,   \* <<t, i>>: applier t did its work on entity i
    dropped,   \* history: tasks the last resume left out of its plan
    completed  \* history: tasks that ended without error on this directory

procVars == <<phases, st, todo, job, erred, faulty, cancelled, next>>
diskVars == <<dir, files>>
planVars == <<attempt, resumed, goal, excluded>>
histVars == <<dropped, completed>>
vars == <<run, planVars, procVars, diskVars, cloud, applied, histVars>>

Loader  == {t \in Task : Source[t] = NoTask}
Applier == Task \ (Loader \cup Creator)
Row     == [chunk : Nat \ {0}, item : Item, ok : BOOLEAN, attempt : Nat]
Job     == [item : Item, stage : {"admitted", "write", "indexed"},
            ok : BOOLEAN, chunk : Nat]

-----------------------------------------------------------------------------
(* The plan *)

\* ResolveDependenciesExcluding: the least set that holds the targets and all
\* they need, an excluded task standing for one already satisfied.
Resolved(tasks, targets, out) ==
    (targets \cup UNION {Dep[t] : t \in tasks}) \ out \subseteq tasks

Needed(targets, out) ==
    {t \in Task : \A tasks \in SUBSET Task : Resolved(tasks, targets, out) => t \in tasks}

\* Variant: one dependency is enough.
ReadyOnAny(tasks, out, done) ==
    {t \in tasks \ done : Dep[t] \ out = {} \/ (Dep[t] \ out) \cap done # {}}

\* PlanPhasesExcluding: a phase holds what is ready once the phases before it
\* ran; Below[k] is what the first k phases hold.
Ready(tasks, out, done) ==
    {t \in tasks \ done : Dep[t] \ out \subseteq done}

Below(tasks, out) ==
    LET below[k \in Nat] ==
          IF k = 0 THEN {} ELSE below[k - 1] \cup Ready(tasks, out, below[k - 1])
    IN  below

Plan(targets, out) ==
    LET tasks == Needed(targets, out)
    IN  [n \in 1 .. Cardinality(tasks) |-> Ready(tasks, out, Below(tasks, out)[n - 1])]

Scheduled(plan) == UNION {plan[n] : n \in DOMAIN plan}

\* An empty selection and a cycle are errors before anything runs.
Plannable(targets, out) ==
    /\ Needed(targets, out) # {}
    /\ Scheduled(Plan(targets, out)) = Needed(targets, out)

\* filterCompleted: a directory is taken for a finished task, except for the
\* tasks that decide per branch what is left to do.
Kept(t) == t \in Reentrant \/ t \notin dir
FilterCompleted(plan) == [n \in DOMAIN plan |-> {t \in plan[n] : Kept(t)}]

-----------------------------------------------------------------------------
(* Chunks *)

\* The highest chunk index in a task directory, 0 when there is none.
HighestChunk(rows) ==
    IF rows = {} THEN 0
    ELSE CHOOSE n \in {r.chunk : r \in rows} : \A r \in rows : r.chunk =< n

\* Variant: every writer starts at the first chunk.
SeedAtZero(t) == 0

SeedIndex(t) == HighestChunk(files[t])

NextIndex(t) == next[t] + 1

\* A reader goes through the chunks in index order and the last row of an item
\* wins.
IsLast(rows, r) == \A q \in rows : q.item = r.item => q.chunk =< r.chunk

\* Variant: a record of a failure passes for an item.
UsableIfRecorded(rows, i) == \E r \in rows : r.item = i

\* A record a creator wrote to say the entity was not created is not an item
\* for the tasks behind it.
Usable(rows, i) == \E r \in rows : r.item = i /\ r.ok /\ IsLast(rows, r)

-----------------------------------------------------------------------------
TypeOK ==
    /\ run \in {"none", "running", "done", "failed", "crashed"}
    /\ attempt \in 0 .. MaxAttempts
    /\ resumed \in BOOLEAN
    /\ goal \subseteq Task /\ excluded \subseteq Task
    /\ phases \in Seq(SUBSET Task)
    /\ st \in [Task -> {"idle", "queued", "running", "ok", "failed"}]
    /\ todo \in [Task -> SUBSET Item]
    /\ job \in [Task -> SUBSET Job]
    /\ erred \subseteq Task /\ faulty \subseteq Task
    /\ cancelled \in BOOLEAN
    /\ dir \subseteq Task
    /\ next \in [Task -> Nat]
    /\ files \in [Task -> SUBSET Row]
    /\ cloud \in [Item -> {"absent", "ours", "foreign"}]
    /\ applied \subseteq Task \X Item
    /\ dropped \subseteq Task /\ completed \subseteq Task

NoProcess ==
    /\ st = [t \in Task |-> "idle"]
    /\ todo = [t \in Task |-> {}]
    /\ job = [t \in Task |-> {}]
    /\ erred = {} /\ faulty = {}
    /\ cancelled = FALSE
    /\ next = [t \in Task |-> 0]

\* A new process starts with nothing in memory.
NewProcess ==
    /\ st' = [t \in Task |-> "idle"]
    /\ todo' = [t \in Task |-> {}]
    /\ job' = [t \in Task |-> {}]
    /\ erred' = {} /\ faulty' = {}
    /\ cancelled' = FALSE
    /\ next' = [t \in Task |-> 0]

Init ==
    /\ run = "none" /\ attempt = 0 /\ resumed = FALSE
    /\ goal = {} /\ excluded = {}
    /\ phases = << >>
    /\ NoProcess
    /\ dir = {} /\ files = [t \in Task |-> {}]
    /\ \E held \in Taken : cloud = [i \in Item |-> IF i \in held THEN "foreign" ELSE "absent"]
    /\ applied = {}
    /\ dropped = {} /\ completed = {}

-----------------------------------------------------------------------------
(* Attempts *)

\* An explicit --target_task leaves the exclusions out of the choice of tasks,
\* never out of the plan; here the two always agree.
StartFresh(targets, out) ==
    /\ run # "running"
    /\ attempt < MaxAttempts
    /\ attempt' = attempt + 1
    /\ resumed' = FALSE
    /\ goal' = targets /\ excluded' = out
    /\ dir' = {} /\ files' = [t \in Task |-> {}]
    /\ applied' = {}
    /\ dropped' = {} /\ completed' = {}
    /\ NewProcess
    /\ IF Plannable(targets, out)
         THEN run' = "running" /\ phases' = Plan(targets, out)
         ELSE run' = "failed"  /\ phases' = << >>
    /\ UNCHANGED cloud

Resume ==
    /\ run \in {"failed", "crashed"}
    /\ attempt < MaxAttempts
    /\ Plannable(goal, excluded)
    /\ attempt' = attempt + 1
    /\ resumed' = TRUE
    /\ run' = "running"
    /\ phases' = FilterCompleted(Plan(goal, excluded))
    /\ dropped' = Needed(goal, excluded) \ Scheduled(phases')
    /\ NewProcess
    /\ UNCHANGED <<goal, excluded, diskVars, cloud, applied, completed>>

\* The process dies: what is in memory goes, what is on disk stays.
Crash ==
    /\ run = "running"
    /\ run' = "crashed"
    /\ phases' = << >>
    /\ NewProcess
    /\ UNCHANGED <<planVars, diskVars, cloud, applied, histVars>>

\* The operator interrupts: the context of the whole run is cancelled.
Interrupt ==
    /\ run = "running"
    /\ ~cancelled
    /\ \E t \in Task : st[t] \in {"queued", "running"}
    /\ cancelled' = TRUE
    /\ UNCHANGED <<run, planVars, phases, st, todo, job, erred, faulty, next,
                   diskVars, cloud, applied, histVars>>

-----------------------------------------------------------------------------
(* Phases and tasks: runPhase *)

Current == {t \in Task : st[t] # "idle"}

\* The phases run in their order; one that has nothing left is passed over.
IsUpcoming(n) == phases[n] # {} /\ \A m \in 1 .. n - 1 : phases[m] = {}

BeginPhase ==
    /\ run = "running"
    /\ Current = {}
    /\ \E n \in DOMAIN phases :
         /\ IsUpcoming(n)
         /\ st' = [t \in Task |-> IF t \in phases[n] THEN "queued" ELSE "idle"]
    /\ UNCHANGED <<run, planVars, phases, todo, job, erred, faulty, cancelled, next,
                   diskVars, cloud, applied, histVars>>

Input(t) == IF t \in Loader THEN Item ELSE {r.item : r \in files[Source[t]]}

\* A task reads its input, then its writer creates the directory and takes the
\* chunk index up where the directory left off.
StartTask(t) ==
    /\ run = "running"
    /\ st[t] = "queued"
    /\ Cardinality({u \in Task : st[u] = "running"}) < Width
    /\ st' = [st EXCEPT ![t] = "running"]
    /\ todo' = [todo EXCEPT ![t] = Input(t)]
    /\ dir' = dir \cup {t}
    /\ next' = [next EXCEPT ![t] = SeedIndex(t)]
    /\ UNCHANGED <<run, planVars, phases, job, erred, faulty, cancelled,
                   files, cloud, applied, histVars>>

EndTask(t) ==
    /\ st[t] = "running"
    /\ todo[t] = {} /\ job[t] = {}
    /\ IF t \in erred
         THEN /\ st' = [st EXCEPT ![t] = "failed"]
              /\ cancelled' = TRUE
              /\ UNCHANGED completed
         ELSE /\ st' = [st EXCEPT ![t] = "ok"]
              /\ completed' = completed \cup {t}
              /\ UNCHANGED cancelled
    /\ UNCHANGED <<run, planVars, phases, todo, job, erred, faulty, next,
                   diskVars, cloud, applied, dropped>>

\* The errgroup waits for every task, however it ended.
Ended(t) == st[t] \in {"ok", "failed"}

EndPhase ==
    /\ run = "running"
    /\ Current # {}
    /\ \A t \in Current : Ended(t)
    /\ IF \E t \in Current : st[t] = "failed"
         THEN run' = "failed" /\ UNCHANGED phases
         ELSE run' = run /\ phases' = [n \in DOMAIN phases |-> phases[n] \ Current]
    /\ st' = [t \in Task |-> "idle"]
    /\ UNCHANGED <<planVars, todo, job, erred, faulty, cancelled, next,
                   diskVars, cloud, applied, histVars>>

Finish ==
    /\ run = "running"
    /\ Current = {}
    /\ Scheduled(phases) = {}
    /\ run' = "done"
    /\ UNCHANGED <<planVars, procVars, diskVars, cloud, applied, histVars>>

-----------------------------------------------------------------------------
(* Items: forEachMigrateItemImpl *)

Stopped(t) == cancelled \/ t \in erred

\* A loader's rows go out line by line in one chunk.
LoadLine(t, i) ==
    /\ t \in Loader /\ st[t] = "running" /\ i \in todo[t]
    /\ todo' = [todo EXCEPT ![t] = @ \ {i}]
    /\ files' = [files EXCEPT ![t] = @ \cup
           {[chunk |-> NextIndex(t), item |-> i, ok |-> TRUE, attempt |-> attempt]}]
    /\ UNCHANGED <<run, planVars, phases, st, job, erred, faulty, cancelled, next,
                   dir, cloud, applied, histVars>>

Admit(t, i) ==
    /\ t \notin Loader /\ st[t] = "running" /\ i \in todo[t]
    /\ ~Stopped(t)
    /\ Cardinality(job[t]) < Fanout
    /\ todo' = [todo EXCEPT ![t] = @ \ {i}]
    /\ job' = [job EXCEPT ![t] = @ \cup
           {[item |-> i, stage |-> "admitted", ok |-> FALSE, chunk |-> 0]}]
    /\ UNCHANGED <<run, planVars, phases, st, erred, faulty, cancelled, next,
                   diskVars, cloud, applied, histVars>>

\* Variant: the gate's error is lost once the goroutines have ended well.
LoopErrorsLost(t) == erred

\* A gate that cannot admit because of the cancellation ends the loop, and the
\* task returns the gate's error when its goroutines have none.
LoopErrors(t) == erred \cup {t}

StopAdmitting(t) ==
    /\ t \notin Loader /\ st[t] = "running" /\ todo[t] # {}
    /\ Stopped(t)
    /\ todo' = [todo EXCEPT ![t] = {}]
    /\ erred' = LoopErrors(t)
    /\ UNCHANGED <<run, planVars, phases, st, job, faulty, cancelled, next,
                   diskVars, cloud, applied, histVars>>

\* The goroutine looks at the context once, before its work; an item in flight
\* when the context is cancelled may have passed that look, so the steps below
\* stay possible.
GiveUp(t, j) ==
    /\ j \in job[t] /\ j.stage = "admitted"
    /\ Stopped(t)
    /\ job' = [job EXCEPT ![t] = @ \ {j}]
    /\ erred' = erred \cup {t}
    /\ UNCHANGED <<run, planVars, phases, st, todo, faulty, cancelled, next,
                   diskVars, cloud, applied, histVars>>

Drop(t, j)         == job' = [job EXCEPT ![t] = @ \ {j}]
Advance(t, j, new) == job' = [job EXCEPT ![t] = (@ \ {j}) \cup {new}]

\* createProjects: POST, then on "already exists" a look whether the entity is
\* in the target organization.  Recorded, or recorded as failed when it is not.
MayRecord(i) == cloud'[i] = "ours"

Create(t, j) ==
    /\ t \in Creator /\ j \in job[t] /\ j.stage = "admitted"
    /\ cloud' = [cloud EXCEPT ![j.item] = IF @ = "absent" THEN "ours" ELSE @]
    /\ Advance(t, j, [j EXCEPT !.stage = "write", !.ok = MayRecord(j.item)])
    /\ faulty' = IF MayRecord(j.item) THEN faulty ELSE faulty \cup {t}
    /\ UNCHANGED <<run, planVars, phases, st, todo, erred, cancelled, next,
                   diskVars, applied, histVars>>

\* The call fails, its effect done or not: counted, no row, the loop goes on.
CreateFails(t, j) ==
    /\ t \in Creator /\ j \in job[t] /\ j.stage = "admitted"
    /\ \/ UNCHANGED cloud
       \/ cloud' = [cloud EXCEPT ![j.item] = IF @ = "absent" THEN "ours" ELSE @]
    /\ Drop(t, j)
    /\ faulty' = faulty \cup {t}
    /\ UNCHANGED <<run, planVars, phases, st, todo, erred, cancelled, next,
                   diskVars, applied, histVars>>

\* An applier passes over the records of what was not created, and over what
\* an earlier attempt of the same directory finished.
PassOver(t, j) ==
    /\ t \in Applier /\ j \in job[t] /\ j.stage = "admitted"
    /\ \/ ~Usable(files[Source[t]], j.item)
       \/ t \in Reentrant /\ Usable(files[t], j.item)
    /\ Drop(t, j)
    /\ UNCHANGED <<run, planVars, phases, st, todo, erred, faulty, cancelled, next,
                   diskVars, cloud, applied, histVars>>

Workable(t, i) ==
    /\ Usable(files[Source[t]], i)
    /\ t \in Reentrant => ~Usable(files[t], i)

\* Only the tasks with a resume of their own record what they did.
Outcome(t, j, good) ==
    IF t \in Reentrant THEN Advance(t, j, [j EXCEPT !.stage = "write", !.ok = good])
                       ELSE Drop(t, j)

Apply(t, j) ==
    /\ t \in Applier /\ j \in job[t] /\ j.stage = "admitted"
    /\ Workable(t, j.item)
    /\ applied' = applied \cup {<<t, j.item>>}
    /\ Outcome(t, j, TRUE)
    /\ UNCHANGED <<run, planVars, phases, st, todo, erred, faulty, cancelled, next,
                   diskVars, cloud, histVars>>

ApplyFails(t, j) ==
    /\ t \in Applier /\ j \in job[t] /\ j.stage = "admitted"
    /\ Workable(t, j.item)
    /\ Outcome(t, j, FALSE)
    /\ faulty' = faulty \cup {t}
    /\ UNCHANGED <<run, planVars, phases, st, todo, erred, cancelled, next,
                   diskVars, cloud, applied, histVars>>

\* WriteChunk takes its index first and creates the file second: two writers
\* of one task interleave between the two.
TakeIndex(t, j) ==
    /\ j \in job[t] /\ j.stage = "write"
    /\ next' = [next EXCEPT ![t] = @ + 1]
    /\ Advance(t, j, [j EXCEPT !.stage = "indexed", !.chunk = NextIndex(t)])
    /\ UNCHANGED <<run, planVars, phases, st, todo, erred, faulty, cancelled,
                   diskVars, cloud, applied, histVars>>

\* os.Create truncates a file of the same name.
WriteRow(t, j) ==
    /\ j \in job[t] /\ j.stage = "indexed"
    /\ files' = [files EXCEPT ![t] = {r \in @ : r.chunk # j.chunk} \cup
           {[chunk |-> j.chunk, item |-> j.item, ok |-> j.ok, attempt |-> attempt]}]
    /\ Drop(t, j)
    /\ UNCHANGED <<run, planVars, phases, st, todo, erred, faulty, cancelled, next,
                   dir, cloud, applied, histVars>>

WriteFails(t, j) ==
    /\ j \in job[t] /\ j.stage = "indexed"
    /\ Drop(t, j)
    /\ erred' = erred \cup {t}
    /\ UNCHANGED <<run, planVars, phases, st, todo, faulty, cancelled, next,
                   diskVars, cloud, applied, histVars>>

-----------------------------------------------------------------------------
ItemStep(t) ==
    \/ \E i \in Item : LoadLine(t, i) \/ Admit(t, i)
    \/ StopAdmitting(t)
    \/ \E j \in job[t] :
         \/ GiveUp(t, j)
         \/ Create(t, j) \/ CreateFails(t, j)
         \/ PassOver(t, j) \/ Apply(t, j) \/ ApplyFails(t, j)
         \/ TakeIndex(t, j) \/ WriteRow(t, j) \/ WriteFails(t, j)

TaskStep(t) == StartTask(t) \/ ItemStep(t) \/ EndTask(t)

Engine == BeginPhase \/ EndPhase \/ Finish

Operator ==
    \/ \E targets \in Goals, out \in Exclusions : StartFresh(targets, out)
    \/ Resume
    \/ Interrupt
    \/ Crash

Next == Operator \/ Engine \/ \E t \in Task : TaskStep(t)

Spec == Init /\ [][Next]_vars

-----------------------------------------------------------------------------
(* Properties *)

\* A row that says an entity was created is about one that exists in the
\* target organization: not one of another organization that answered
\* "already exists", not a create that failed.
RowsAreReal ==
    \A t \in Creator : \A r \in files[t] : r.ok => cloud[r.item] = "ours"

\* No applier configures or imports an entity the migration does not own,
\* whatever rows and earlier attempts it works from.
NeverTouchesForeign == \A p \in applied : cloud[p[2]] = "ours"

\* A task runs once all it depends on has ended without error in this attempt,
\* was excluded on the command line, or was left out by the resume.
DependenciesFirst ==
    \A t \in Task : st[t] = "running" =>
        Dep[t] \ (excluded \cup dropped) \subseteq completed

\* Every task works on what the tasks before it left: they have run, and their
\* rows are true.
EngineInv == TypeOK /\ DependenciesFirst /\ RowsAreReal

\* The last row of an entity is of the latest attempt that wrote one: no
\* attempt writes over or ahead of the chunks of an earlier one.
NewestRowIsRead ==
    \A t \in Reentrant : \A last, r \in files[t] :
        last.item = r.item /\ IsLast(files[t], last) => r.attempt =< last.attempt

\* Chunks written stay as they are for as long as the directory does.
ChunksAreKept ==
    [][\A t \in Task : t \in dir' => files[t] \subseteq files'[t]]_vars

\* An attempt on a fresh directory that ends done, with no failure counted, has
\* done the work of every task on every entity, where no --objects filter left
\* out what the task rests on: an interrupt, an error of one goroutine or a full
\* disk cannot end in a run that looks whole.
CleanRunIsWhole ==
    run = "done" /\ ~resumed /\ faulty = {} =>
        \A t \in Applier \cap Needed(goal, excluded) : \A i \in Item :
            Needed({t}, {}) \cap excluded = {} => <<t, i>> \in applied

\* What a resume leaves out had been completed.
DroppedWereCompleted == dropped \subseteq completed
=============================================================================
