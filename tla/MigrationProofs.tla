--------------------------- MODULE MigrationProofs ----------------------------
(***************************************************************************)
(* What is proved, for any value of the constants, of the three parts that *)
(* MCMigration checks in one run and that share no state: the tasks of a   *)
(* migration, its report, and the reset of organizations with the guard of *)
(* short-lived branches.                                                   *)
(*                                                                         *)
(* Whatever tasks depend on each other and however attempts end:           *)
(* - the rows of the creators are about entities of the target             *)
(*   organization, and only those are configured;                          *)
(* - no writer overwrites a chunk, and the row that is read for an item is *)
(*   of the latest attempt that wrote one;                                 *)
(* - a task starts with all it depends on behind it;                       *)
(* - a fresh attempt that ends done and clean left nothing undone.         *)
(* And whatever befell the objects of a section, the report of the run     *)
(* lists each where it belongs.                                            *)
(*                                                                         *)
(* The types come first, then the inductive invariants: Owned and Chunked, *)
(* which hold for any order of phases, InPlan, which is about the phases,  *)
(* and Whole, which needs all of them.  The report follows, pass by pass,  *)
(* with an invariant of its own, ReportInv.                                *)
(*                                                                         *)
(* For any organizations, whatever earlier runs left behind and whatever   *)
(* fails: a reset touches nothing of an organization nobody confirmed      *)
(* (Confined: lists, rows and tasks stay within the confirmed ones), and   *)
(* it takes away what the migration made and nothing else (Shaped: types   *)
(* and phases; Swept: what each task has seen and done).  Then the pattern *)
(* of short-lived branches, which an import alters and puts back.          *)
(***************************************************************************)
EXTENDS MigrateRun, MigrationReport, OrgReset, BranchGuard, LoopFacts

Typed ==
    /\ attempt \in Nat
    /\ st \in [Task -> {"idle", "queued", "running", "ok", "failed"}]
    /\ todo \in [Task -> SUBSET Item]
    /\ job \in [Task -> SUBSET Job]
    /\ \A t \in Task : \A j \in job[t] : j.stage = "indexed" => j.chunk # 0
    /\ next \in [Task -> Nat]
    /\ files \in [Task -> SUBSET Row]
    /\ \A t \in Task : IsFiniteSet(files[t])
    /\ cloud \in [Item -> {"absent", "ours", "foreign"}]
    /\ applied \subseteq Task \X Item

-----------------------------------------------------------------------------
(* Types *)

\* A directory has a highest chunk, whatever was written into it.
LEMMA HighestChunkBounds ==
    ASSUME NEW entries \in SUBSET Row, IsFiniteSet(entries)
    PROVE  /\ HighestChunk(entries) \in Nat
           /\ \A r \in entries : r.chunk =< HighestChunk(entries)
<1>1. CASE entries = {}
      BY <1>1 DEF HighestChunk
<1>2. CASE entries # {}
  <2> DEFINE chunks == {r.chunk : r \in entries}
             Highest(n) == \A r \in entries : r.chunk =< n
  <2>1. chunks \in SUBSET Nat /\ chunks \in SUBSET Int /\ chunks # {}
        BY <1>2 DEF Row
  <2>2. IsFiniteSet(chunks)
    <3> DEFINE chunkOf == [r \in entries |-> r.chunk]
    <3>1. chunkOf \in Surjection(entries, chunks)
          BY DEF Surjection
    <3> HIDE DEF chunkOf, chunks
    <3>. QED BY <3>1, FS_Surjection
  <2>3. \E n \in chunks : \A m \in chunks : m =< n
    <3> HIDE DEF chunks
    <3>. QED BY <2>1, <2>2, GreatestElement
  <2>4. \E n \in chunks : Highest(n)
        BY <2>3
  <2>5. HighestChunk(entries) = CHOOSE n \in chunks : Highest(n)
        BY <1>2 DEF HighestChunk
  <2>6. HighestChunk(entries) \in chunks /\ Highest(HighestChunk(entries))
    <3> HIDE DEF chunks, Highest
    <3>. QED BY <2>4, <2>5
  <2>. QED BY <2>1, <2>6
<1>. QED BY <1>1, <1>2

LEMMA InputIsItems == ASSUME Typed, NEW t \in Task PROVE Input(t) \subseteq Item
<1>1. CASE t \in Loader
      BY <1>1 DEF Input
<1>2. CASE t \notin Loader
  <2>1. Source[t] \in Task
        BY <1>2, TaskAssumption DEF Loader
  <2>. QED BY <1>2, <2>1 DEF Input, Typed, Row
<1>. QED BY <1>1, <1>2

LEMMA InitTyped == Init => Typed
<1>1. IsFiniteSet({})
      BY FS_EmptySet
<1>. QED BY <1>1 DEF Init, NoProcess, Typed

\* What the steps of an attempt's process do not touch.
LEMMA QuietTyped ==
    ASSUME Typed, UNCHANGED <<attempt, job, next, files, cloud, applied>>,
           st' \in [Task -> {"idle", "queued", "running", "ok", "failed"}],
           todo' \in [Task -> SUBSET Item]
    PROVE  Typed'
BY DEF Typed

LEMMA NewProcessTyped ==
    ASSUME Typed, NewProcess, attempt' \in Nat, UNCHANGED cloud,
           \/ UNCHANGED <<files, applied>>
           \/ files' = [t \in Task |-> {}] /\ applied' = {}
    PROVE  Typed'
<1>1. IsFiniteSet({})
      BY FS_EmptySet
<1>. QED BY <1>1 DEF Typed, NewProcess

\* A step on the items of one task.
LEMMA JobTyped ==
    ASSUME Typed, NEW t \in Task, NEW jobs \in SUBSET Job, job' = [job EXCEPT ![t] = jobs],
           \A j \in jobs : j.stage = "indexed" => j.chunk # 0,
           next' \in [Task -> Nat],
           todo' \in [Task -> SUBSET Item],
           cloud' \in [Item -> {"absent", "ours", "foreign"}],
           applied' \subseteq Task \X Item,
           UNCHANGED <<attempt, st, files>>
    PROVE  Typed'
BY DEF Typed

LEMMA DropTyped ==
    ASSUME Typed, NEW t \in Task, NEW j \in job[t], Drop(t, j),
           UNCHANGED <<attempt, st, todo, next, files, applied>>,
           cloud' \in [Item -> {"absent", "ours", "foreign"}]
    PROVE  Typed'
<1>1. job[t] \ {j} \in SUBSET Job /\ \A k \in job[t] \ {j} : k.stage = "indexed" => k.chunk # 0
      BY DEF Typed
<1>2. job' = [job EXCEPT ![t] = job[t] \ {j}]
      BY DEF Drop
<1>. QED BY <1>1, <1>2, JobTyped DEF Typed

LEMMA AdvanceTyped ==
    ASSUME Typed, NEW t \in Task, NEW j \in job[t], NEW new \in Job, Advance(t, j, new),
           new.stage = "indexed" => new.chunk # 0,
           next' \in [Task -> Nat],
           UNCHANGED <<attempt, st, todo, files>>,
           applied' \subseteq Task \X Item,
           cloud' \in [Item -> {"absent", "ours", "foreign"}]
    PROVE  Typed'
<1> DEFINE jobs == (job[t] \ {j}) \cup {new}
<1>1. jobs \in SUBSET Job /\ \A k \in jobs : k.stage = "indexed" => k.chunk # 0
      BY DEF Typed
<1>2. job' = [job EXCEPT ![t] = jobs]
      BY DEF Advance
<1>3. todo' \in [Task -> SUBSET Item]
      BY DEF Typed
<1> HIDE DEF jobs
<1>. QED BY <1>1, <1>2, <1>3, JobTyped

\* A row more in one directory.
LEMMA RowTyped ==
    ASSUME Typed, NEW t \in Task, NEW kept \in SUBSET files[t], NEW entry \in Row
    PROVE  /\ [files EXCEPT ![t] = kept \cup {entry}] \in [Task -> SUBSET Row]
           /\ \A u \in Task : IsFiniteSet([files EXCEPT ![t] = kept \cup {entry}][u])
<1>1. kept \cup {entry} \in SUBSET Row
      BY DEF Typed
<1>2. IsFiniteSet(kept)
      BY FS_Subset DEF Typed
<1>3. IsFiniteSet(kept \cup {entry})
      BY <1>2, FS_AddElement
<1>. QED BY <1>1, <1>3 DEF Typed

LEMMA OperatorTyped == Typed /\ Operator => Typed'
<1>1. ASSUME Typed, NEW targets \in Goals, NEW out \in Exclusions, StartFresh(targets, out)
      PROVE Typed'
      BY <1>1, NewProcessTyped DEF StartFresh, Typed
<1>2. ASSUME Typed, Resume PROVE Typed'
      BY <1>2, NewProcessTyped DEF Resume, diskVars, Typed
<1>3. ASSUME Typed, Interrupt PROVE Typed'
      BY <1>3, QuietTyped DEF Interrupt, planVars, diskVars, Typed
<1>4. ASSUME Typed, Crash PROVE Typed'
      BY <1>4, NewProcessTyped DEF Crash, planVars, diskVars, Typed
<1>. QED BY <1>1, <1>2, <1>3, <1>4 DEF Operator

LEMMA EngineTyped == Typed /\ Engine => Typed'
<1>1. ASSUME Typed, BeginPhase PROVE Typed'
      BY <1>1, QuietTyped DEF BeginPhase, planVars, diskVars, Typed
<1>2. ASSUME Typed, EndPhase PROVE Typed'
      BY <1>2, QuietTyped DEF EndPhase, planVars, diskVars, Typed
<1>3. ASSUME Typed, Finish PROVE Typed'
      BY <1>3, QuietTyped DEF Finish, procVars, planVars, diskVars, Typed
<1>. QED BY <1>1, <1>2, <1>3 DEF Engine

LEMMA StartTaskTyped == ASSUME Typed, NEW t \in Task, StartTask(t) PROVE Typed'
<1>1. SeedIndex(t) \in Nat
      BY HighestChunkBounds DEF SeedIndex, Typed
<1>2. Input(t) \subseteq Item
      BY InputIsItems
<1>3. /\ next' = [next EXCEPT ![t] = SeedIndex(t)]
      /\ todo' = [todo EXCEPT ![t] = Input(t)]
      /\ st' = [st EXCEPT ![t] = "running"]
      /\ UNCHANGED <<attempt, job, files, cloud, applied>>
      BY DEF StartTask, planVars
<1>. QED BY <1>1, <1>2, <1>3 DEF Typed

LEMMA EndTaskTyped == ASSUME Typed, NEW t \in Task, EndTask(t) PROVE Typed'
<1>1. st' \in [Task -> {"idle", "queued", "running", "ok", "failed"}]
      BY DEF EndTask, Typed
<1>. QED BY <1>1, QuietTyped DEF EndTask, planVars, diskVars, Typed

LEMMA LoadLineTyped ==
    ASSUME Typed, NEW t \in Task, NEW i \in Item, LoadLine(t, i) PROVE Typed'
<1> DEFINE line == [chunk |-> NextIndex(t), item |-> i, ok |-> TRUE, attempt |-> attempt]
<1>1. line \in Row
      BY DEF NextIndex, Row, Typed
<1>2. /\ files' = [files EXCEPT ![t] = files[t] \cup {line}]
      /\ todo' = [todo EXCEPT ![t] = @ \ {i}]
      /\ UNCHANGED <<attempt, st, job, next, cloud, applied>>
      BY DEF LoadLine, planVars
<1> HIDE DEF line
<1>. QED BY <1>1, <1>2, RowTyped DEF Typed

LEMMA AdmitTyped ==
    ASSUME Typed, NEW t \in Task, NEW i \in Item, Admit(t, i) PROVE Typed'
<1> DEFINE new == [item |-> i, stage |-> "admitted", ok |-> FALSE, chunk |-> 0]
<1>1. new \in Job /\ new.stage # "indexed"
      BY DEF Job
<1>2. job' = [job EXCEPT ![t] = job[t] \cup {new}]
      BY DEF Admit
<1> HIDE DEF new
<1>3. /\ job[t] \cup {new} \in SUBSET Job
      /\ \A j \in job[t] \cup {new} : j.stage = "indexed" => j.chunk # 0
      BY <1>1 DEF Typed
<1>4. todo' \in [Task -> SUBSET Item] /\ UNCHANGED <<attempt, st, next, files, cloud, applied>>
      BY DEF Admit, planVars, diskVars, Typed
<1>. QED BY <1>2, <1>3, <1>4, JobTyped DEF Typed

LEMMA CreateTyped ==
    ASSUME Typed, NEW t \in Task, NEW j \in job[t], Create(t, j) PROVE Typed'
<1> DEFINE new == [j EXCEPT !.stage = "write", !.ok = MayRecord(j.item)]
<1>1. j \in Job
      BY DEF Typed
<1>2. MayRecord(j.item) \in BOOLEAN
      BY DEF MayRecord
<1>3. new \in Job /\ new.stage # "indexed"
      BY <1>1, <1>2 DEF Job
<1>4. cloud' \in [Item -> {"absent", "ours", "foreign"}]
      BY <1>1 DEF Create, Typed, Job
<1>5. Advance(t, j, new) /\ UNCHANGED <<attempt, st, todo, next, files, applied>>
      BY DEF Create, planVars, diskVars
<1> HIDE DEF new
<1>. QED BY <1>3, <1>4, <1>5, AdvanceTyped DEF Typed

LEMMA CreateFailsTyped ==
    ASSUME Typed, NEW t \in Task, NEW j \in job[t], CreateFails(t, j) PROVE Typed'
<1>1. j.item \in Item
      BY DEF Typed, Job
<1>2. cloud' \in [Item -> {"absent", "ours", "foreign"}]
      BY <1>1 DEF CreateFails, Typed
<1>. QED BY <1>2, DropTyped DEF CreateFails, planVars, diskVars

LEMMA OutcomeTyped ==
    ASSUME Typed, NEW t \in Task, NEW j \in job[t], NEW good \in BOOLEAN, Outcome(t, j, good),
           applied' \subseteq Task \X Item,
           UNCHANGED <<attempt, st, todo, next, files, cloud>>
    PROVE  Typed'
<1>1. CASE t \in Reentrant
  <2> DEFINE new == [j EXCEPT !.stage = "write", !.ok = good]
  <2>1. j \in Job
        BY DEF Typed
  <2>2. new \in Job /\ new.stage # "indexed"
        BY <2>1 DEF Job
  <2>3. Advance(t, j, new)
        BY <1>1 DEF Outcome
  <2> HIDE DEF new
  <2>. QED BY <2>2, <2>3, AdvanceTyped DEF Typed
<1>2. CASE t \notin Reentrant
  <2>1. job' = [job EXCEPT ![t] = job[t] \ {j}]
        BY <1>2 DEF Outcome, Drop
  <2>2. job[t] \ {j} \in SUBSET Job /\ \A k \in job[t] \ {j} : k.stage = "indexed" => k.chunk # 0
        BY DEF Typed
  <2>. QED BY <2>1, <2>2, JobTyped DEF Typed
<1>. QED BY <1>1, <1>2

LEMMA ApplyTyped ==
    ASSUME Typed, NEW t \in Task, NEW j \in job[t], Apply(t, j) PROVE Typed'
<1>1. j.item \in Item
      BY DEF Typed, Job
<1>2. applied' \subseteq Task \X Item
      BY <1>1 DEF Apply, Typed
<1>. QED BY <1>2, OutcomeTyped DEF Apply, planVars, diskVars

LEMMA ApplyFailsTyped ==
    ASSUME Typed, NEW t \in Task, NEW j \in job[t], ApplyFails(t, j) PROVE Typed'
<1>1. applied' \subseteq Task \X Item
      BY DEF ApplyFails, Typed
<1>. QED BY <1>1, OutcomeTyped DEF ApplyFails, planVars, diskVars

LEMMA TakeIndexTyped ==
    ASSUME Typed, NEW t \in Task, NEW j \in job[t], TakeIndex(t, j) PROVE Typed'
<1> DEFINE new == [j EXCEPT !.stage = "indexed", !.chunk = NextIndex(t)]
<1>1. NextIndex(t) \in Nat \ {0}
      BY DEF NextIndex, Typed
<1>0. j \in Job
      BY DEF Typed
<1>2. new \in Job /\ new.chunk # 0
      BY <1>0, <1>1 DEF Job
<1>3. Advance(t, j, new) /\ UNCHANGED <<attempt, st, todo, files, cloud, applied>>
      BY DEF TakeIndex, planVars, diskVars
<1>4. next' \in [Task -> Nat]
      BY DEF TakeIndex, Typed
<1> HIDE DEF new
<1>. QED BY <1>2, <1>3, <1>4, AdvanceTyped DEF Typed

LEMMA WriteRowTyped ==
    ASSUME Typed, NEW t \in Task, NEW j \in job[t], WriteRow(t, j) PROVE Typed'
<1> DEFINE entry == [chunk |-> j.chunk, item |-> j.item, ok |-> j.ok, attempt |-> attempt]
           kept == {r \in files[t] : r.chunk # j.chunk}
<1>1. entry \in Row
      BY DEF WriteRow, Row, Typed, Job
<1>2. kept \in SUBSET files[t]
      OBVIOUS
<1>3. /\ files' = [files EXCEPT ![t] = kept \cup {entry}]
      /\ job' = [job EXCEPT ![t] = job[t] \ {j}]
      /\ UNCHANGED <<attempt, st, todo, next, cloud, applied>>
      BY DEF WriteRow, Drop, planVars
<1> HIDE DEF entry, kept
<1>4. files' \in [Task -> SUBSET Row] /\ \A u \in Task : IsFiniteSet(files'[u])
      BY <1>1, <1>2, <1>3, RowTyped
<1>. QED BY <1>3, <1>4 DEF Typed

LEMMA ItemStepTyped == ASSUME Typed, NEW t \in Task, ItemStep(t) PROVE Typed'
<1>1. ASSUME NEW i \in Item, LoadLine(t, i) \/ Admit(t, i) PROVE Typed'
      BY <1>1, LoadLineTyped, AdmitTyped
<1>2. CASE StopAdmitting(t)
  <2>1. todo' \in [Task -> SUBSET Item]
        BY <1>2 DEF StopAdmitting, Typed
  <2>. QED BY <1>2, <2>1, QuietTyped DEF StopAdmitting, planVars, diskVars, Typed
<1>3. ASSUME NEW j \in job[t], Create(t, j) \/ CreateFails(t, j) PROVE Typed'
      BY <1>3, CreateTyped, CreateFailsTyped
<1>4. ASSUME NEW j \in job[t], Apply(t, j) \/ ApplyFails(t, j) PROVE Typed'
      BY <1>4, ApplyTyped, ApplyFailsTyped
<1>5. ASSUME NEW j \in job[t], TakeIndex(t, j) \/ WriteRow(t, j) PROVE Typed'
      BY <1>5, TakeIndexTyped, WriteRowTyped
<1>6. ASSUME NEW j \in job[t], GiveUp(t, j) \/ PassOver(t, j) \/ WriteFails(t, j) PROVE Typed'
      BY <1>6, DropTyped DEF GiveUp, PassOver, WriteFails, Drop, planVars, diskVars, Typed
<1>. QED BY <1>1, <1>2, <1>3, <1>4, <1>5, <1>6 DEF ItemStep

LEMMA NextTyped == Typed /\ [Next]_vars => Typed'
<1> SUFFICES ASSUME Typed, [Next]_vars PROVE Typed'
    OBVIOUS
<1>1. CASE Operator
      BY <1>1, OperatorTyped
<1>2. CASE Engine
      BY <1>2, EngineTyped
<1>3. ASSUME NEW t \in Task, TaskStep(t) PROVE Typed'
      BY <1>3, StartTaskTyped, ItemStepTyped, EndTaskTyped DEF TaskStep
<1>4. CASE UNCHANGED vars
      BY <1>4, QuietTyped DEF vars, planVars, procVars, diskVars, Typed
<1>. QED BY <1>1, <1>2, <1>3, <1>4 DEF Next

LEMMA AlwaysTyped == Spec => []Typed
BY InitTyped, NextTyped, PTL DEF Spec

-----------------------------------------------------------------------------
(* Whose entities the rows are about *)

\* What a creator is about to write down as created is created.
JobsAreReal == \A t \in Creator : \A j \in job[t] : j.ok => cloud[j.item] = "ours"

Owned == JobsAreReal /\ RowsAreReal /\ NeverTouchesForeign

\* An entity that is ours stays ours: a create makes an absent one ours and
\* leaves the others.
OursStay == \A i \in Item : cloud[i] = "ours" => cloud'[i] = "ours"

LEMMA CloudKept == ASSUME UNCHANGED cloud PROVE OursStay
BY DEF OursStay

LEMMA CreateKeepsOurs ==
    ASSUME Typed, NEW i \in Item,
           cloud' = [cloud EXCEPT ![i] = IF @ = "absent" THEN "ours" ELSE @]
    PROVE  OursStay
BY DEF Typed, OursStay

\* With the entities of what is written, in flight and done among ours, a step
\* has to account for what it adds.
LEMMA OwnedStep ==
    ASSUME Typed, Owned, OursStay,
           \A t \in Creator : \A j \in job'[t] : j \in job[t] \/ (j.ok => cloud'[j.item] = "ours"),
           \A t \in Creator : \A r \in files'[t] : r \in files[t] \/ (r.ok => cloud'[r.item] = "ours"),
           \A p \in applied' : p \in applied \/ cloud'[p[2]] = "ours"
    PROVE  Owned'
<1>1. \A t \in Creator : \A j \in job[t] : j.item \in Item
      BY TaskAssumption DEF Typed, Job
<1>2. \A t \in Creator : \A r \in files[t] : r.item \in Item
      BY TaskAssumption DEF Typed, Row
<1>3. \A p \in applied : p[2] \in Item
      BY DEF Typed
<1>4. JobsAreReal'
      BY <1>1 DEF Owned, JobsAreReal, OursStay
<1>5. RowsAreReal'
      BY <1>2 DEF Owned, RowsAreReal, OursStay
<1>6. NeverTouchesForeign'
      BY <1>3 DEF Owned, NeverTouchesForeign, OursStay
<1>. QED BY <1>4, <1>5, <1>6 DEF Owned

LEMMA InitOwned == Init => Owned
BY TaskAssumption DEF Init, NoProcess, Owned, JobsAreReal, RowsAreReal, NeverTouchesForeign

LEMMA QuietOwned ==
    ASSUME Typed, Owned, UNCHANGED <<cloud, files, applied, job>> PROVE Owned'
BY OwnedStep, CloudKept

\* A new process has nothing in flight, on the old directory or an empty one.
LEMMA NewProcessOwned ==
    ASSUME Typed, Owned, NewProcess, UNCHANGED cloud,
           \/ UNCHANGED <<files, applied>>
           \/ files' = [t \in Task |-> {}] /\ applied' = {}
    PROVE  Owned'
<1>1. \A t \in Creator : job'[t] = {} /\ (files'[t] = files[t] \/ files'[t] = {})
      BY TaskAssumption DEF NewProcess
<1>2. \A p \in applied' : p \in applied
      OBVIOUS
<1>. QED BY <1>1, <1>2, OwnedStep, CloudKept

LEMMA DropOwned ==
    ASSUME Typed, Owned, OursStay, NEW t \in Task, NEW j \in job[t], Drop(t, j),
           UNCHANGED <<files, applied>>
    PROVE  Owned'
<1>1. \A u \in Creator : \A k \in job'[u] : k \in job[u]
      BY TaskAssumption DEF Drop, Typed
<1>. QED BY <1>1, OwnedStep

LEMMA AdvanceOwned ==
    ASSUME Typed, Owned, OursStay, NEW t \in Task, NEW j \in job[t], NEW new,
           Advance(t, j, new), UNCHANGED <<files, applied>>,
           t \in Creator => (new.ok => cloud'[new.item] = "ours")
    PROVE  Owned'
<1>1. \A u \in Creator : \A k \in job'[u] : k \in job[u] \/ (u = t /\ k = new)
      BY TaskAssumption DEF Advance, Typed
<1>. QED BY <1>1, OwnedStep

LEMMA AdmitOwned ==
    ASSUME Typed, Owned, NEW t \in Task, NEW i \in Item, Admit(t, i) PROVE Owned'
<1> DEFINE new == [item |-> i, stage |-> "admitted", ok |-> FALSE, chunk |-> 0]
<1>1. ~new.ok
      OBVIOUS
<1>2. job' = [job EXCEPT ![t] = job[t] \cup {new}] /\ UNCHANGED <<cloud, files, applied>>
      BY DEF Admit, diskVars
<1> HIDE DEF new
<1>3. \A u \in Creator : \A k \in job'[u] : k \in job[u] \/ ~k.ok
      BY <1>1, <1>2, TaskAssumption DEF Typed
<1>. QED BY <1>2, <1>3, OwnedStep, CloudKept

LEMMA LoadLineOwned ==
    ASSUME Typed, Owned, NEW t \in Task, NEW i \in Item, LoadLine(t, i) PROVE Owned'
<1>1. t \notin Creator
      BY TaskAssumption DEF LoadLine, Loader
<1>2. \A u \in Creator : files'[u] = files[u]
      BY <1>1, TaskAssumption DEF LoadLine, Typed
<1>3. UNCHANGED <<cloud, applied, job>>
      BY DEF LoadLine
<1>. QED BY <1>2, <1>3, OwnedStep, CloudKept

\* Create records an entity as created only when it is ours after the call.
LEMMA CreateOwned ==
    ASSUME Typed, Owned, NEW t \in Task, NEW j \in job[t], Create(t, j) PROVE Owned'
<1> DEFINE good == MayRecord(j.item)
           new == [j EXCEPT !.stage = "write", !.ok = good]
<1>1. j \in Job /\ j.item \in Item
      BY DEF Typed, Job
<1>2. good \in BOOLEAN /\ (good => cloud'[j.item] = "ours")
      BY DEF MayRecord
<1>3. /\ Advance(t, j, new)
      /\ cloud' = [cloud EXCEPT ![j.item] = IF @ = "absent" THEN "ours" ELSE @]
      /\ UNCHANGED <<files, applied>>
      BY DEF Create, diskVars
<1> HIDE DEF good
<1>4. new.ok = good /\ new.item = j.item
      BY <1>1, <1>2 DEF Job
<1> HIDE DEF new
<1>. QED BY <1>1, <1>2, <1>3, <1>4, AdvanceOwned, CreateKeepsOurs

LEMMA CreateFailsOwned ==
    ASSUME Typed, Owned, NEW t \in Task, NEW j \in job[t], CreateFails(t, j) PROVE Owned'
<1>1. j.item \in Item
      BY DEF Typed, Job
<1>2. OursStay
      BY <1>1, CreateKeepsOurs, CloudKept DEF CreateFails
<1>. QED BY <1>2, DropOwned DEF CreateFails, diskVars

\* Only what a creator recorded as created is worked on.
LEMMA WorkableIsOurs ==
    ASSUME Owned, NEW t \in Applier, NEW i, Workable(t, i) PROVE cloud[i] = "ours"
<1>1. Source[t] \in Creator
      BY TaskAssumption DEF Applier, Loader
<1>2. PICK r \in files[Source[t]] : r.item = i /\ r.ok
      BY DEF Workable, Usable
<1>. QED BY <1>1, <1>2 DEF Owned, RowsAreReal

\* What an applier has in flight says nothing of an entity.
LEMMA OutcomeOwned ==
    ASSUME Typed, Owned, NEW t \in Applier, NEW j \in job[t], NEW good, Outcome(t, j, good),
           UNCHANGED <<cloud, files>>,
           \A p \in applied' : p \in applied \/ cloud'[p[2]] = "ours"
    PROVE  Owned'
<1>1. t \in Task /\ t \notin Creator
      BY DEF Applier
<1>2. \A u \in Creator : job'[u] = job[u]
      BY <1>1, TaskAssumption DEF Outcome, Advance, Drop, Typed
<1>. QED BY <1>2, OwnedStep, CloudKept

LEMMA ApplyOwned ==
    ASSUME Typed, Owned, NEW t \in Task, NEW j \in job[t], Apply(t, j) PROVE Owned'
<1>1. t \in Applier /\ Workable(t, j.item)
      BY DEF Apply
<1>2. cloud[j.item] = "ours"
      BY <1>1, WorkableIsOurs
<1>3. Outcome(t, j, TRUE) /\ UNCHANGED <<cloud, files>> /\ applied' = applied \cup {<<t, j.item>>}
      BY DEF Apply, diskVars
<1>4. \A p \in applied' : p \in applied \/ cloud'[p[2]] = "ours"
      BY <1>2, <1>3
<1>. QED BY <1>1, <1>3, <1>4, OutcomeOwned

LEMMA TakeIndexOwned ==
    ASSUME Typed, Owned, NEW t \in Task, NEW j \in job[t], TakeIndex(t, j) PROVE Owned'
<1> DEFINE new == [j EXCEPT !.stage = "indexed", !.chunk = NextIndex(t)]
<1>1. j \in Job
      BY DEF Typed
<1>2. new.ok = j.ok /\ new.item = j.item
      BY <1>1 DEF Job
<1>3. Advance(t, j, new) /\ UNCHANGED <<cloud, files, applied>>
      BY DEF TakeIndex, diskVars
<1>4. t \in Creator => (j.ok => cloud'[j.item] = "ours")
      BY <1>3 DEF Owned, JobsAreReal
<1> HIDE DEF new
<1>. QED BY <1>2, <1>3, <1>4, AdvanceOwned, CloudKept

LEMMA WriteRowOwned ==
    ASSUME Typed, Owned, NEW t \in Task, NEW j \in job[t], WriteRow(t, j) PROVE Owned'
<1> DEFINE entry == [chunk |-> j.chunk, item |-> j.item, ok |-> j.ok, attempt |-> attempt]
           kept == {r \in files[t] : r.chunk # j.chunk}
<1>1. entry.item = j.item /\ entry.ok = j.ok
      OBVIOUS
<1>2. kept \in SUBSET files[t]
      OBVIOUS
<1>3. /\ files' = [files EXCEPT ![t] = kept \cup {entry}]
      /\ job' = [job EXCEPT ![t] = job[t] \ {j}]
      /\ UNCHANGED <<cloud, applied>>
      BY DEF WriteRow, Drop
<1> HIDE DEF entry, kept
<1>4. \A u \in Creator : \A r \in files'[u] : r \in files[u] \/ (u = t /\ r = entry)
      BY <1>2, <1>3, TaskAssumption DEF Typed
<1>5. \A u \in Creator : \A k \in job'[u] : k \in job[u]
      BY <1>3, TaskAssumption DEF Typed
<1>6. t \in Creator => (j.ok => cloud'[j.item] = "ours")
      BY <1>3 DEF Owned, JobsAreReal
<1>. QED BY <1>1, <1>3, <1>4, <1>5, <1>6, OwnedStep, CloudKept

LEMMA ItemStepOwned == ASSUME Typed, Owned, NEW t \in Task, ItemStep(t) PROVE Owned'
<1>1. ASSUME NEW i \in Item, LoadLine(t, i) \/ Admit(t, i) PROVE Owned'
      BY <1>1, LoadLineOwned, AdmitOwned
<1>2. CASE StopAdmitting(t)
      BY <1>2, QuietOwned DEF StopAdmitting, diskVars
<1>3. ASSUME NEW j \in job[t], Create(t, j) \/ CreateFails(t, j) PROVE Owned'
      BY <1>3, CreateOwned, CreateFailsOwned
<1>4. ASSUME NEW j \in job[t], Apply(t, j) PROVE Owned'
      BY <1>4, ApplyOwned
<1>5. ASSUME NEW j \in job[t], ApplyFails(t, j) PROVE Owned'
      BY <1>5, OutcomeOwned DEF ApplyFails, diskVars
<1>6. ASSUME NEW j \in job[t], TakeIndex(t, j) \/ WriteRow(t, j) PROVE Owned'
      BY <1>6, TakeIndexOwned, WriteRowOwned
<1>7. ASSUME NEW j \in job[t], GiveUp(t, j) \/ PassOver(t, j) \/ WriteFails(t, j) PROVE Owned'
      BY <1>7, DropOwned, CloudKept DEF GiveUp, PassOver, WriteFails, Drop, diskVars
<1>. QED BY <1>1, <1>2, <1>3, <1>4, <1>5, <1>6, <1>7 DEF ItemStep

LEMMA NextOwned == Typed /\ Owned /\ [Next]_vars => Owned'
<1> SUFFICES ASSUME Typed, Owned, [Next]_vars PROVE Owned'
    OBVIOUS
<1>1. ASSUME NEW targets \in Goals, NEW out \in Exclusions, StartFresh(targets, out)
      PROVE Owned'
      BY <1>1, NewProcessOwned DEF StartFresh
<1>2. CASE Resume
      BY <1>2, NewProcessOwned DEF Resume, diskVars
<1>3. CASE Interrupt
      BY <1>3, QuietOwned DEF Interrupt, diskVars
<1>4. CASE Crash
      BY <1>4, NewProcessOwned DEF Crash, diskVars
<1>5. CASE Engine
      BY <1>5, QuietOwned DEF Engine, BeginPhase, EndPhase, Finish, procVars, diskVars
<1>6. ASSUME NEW t \in Task, TaskStep(t) PROVE Owned'
  <2>1. CASE StartTask(t)
        BY <2>1, QuietOwned DEF StartTask
  <2>2. CASE EndTask(t)
        BY <2>2, QuietOwned DEF EndTask, diskVars
  <2>3. CASE ItemStep(t)
        BY <2>3, ItemStepOwned
  <2>. QED BY <1>6, <2>1, <2>2, <2>3 DEF TaskStep
<1>7. CASE UNCHANGED vars
      BY <1>7, QuietOwned DEF vars, procVars, diskVars
<1>. QED BY <1>1, <1>2, <1>3, <1>4, <1>5, <1>6, <1>7 DEF Next, Operator

LEMMA AlwaysOwned == Spec => []Owned
BY AlwaysTyped, InitOwned, NextOwned, PTL DEF Spec

\* A row that says an entity was created is about one of the target
\* organization, for every plan, every crash and every number of attempts
\* (createProjects: "already exists" is looked up before it is recorded).
THEOREM RecordedEntitiesAreReal == Spec => []RowsAreReal
<1>1. Owned => RowsAreReal
      BY DEF Owned
<1>. QED BY <1>1, AlwaysOwned, PTL

\* No applier works on an entity of another organization, from the rows of
\* whatever attempt it reads them.
THEOREM ForeignEntitiesAreSpared == Spec => []NeverTouchesForeign
<1>1. Owned => NeverTouchesForeign
      BY DEF Owned
<1>. QED BY <1>1, AlwaysOwned, PTL

-----------------------------------------------------------------------------
(* Chunks *)

\* No item is in flight but in a running task, and none of a loader.
Flight == /\ \A t \in Task : st[t] # "running" => job[t] = {}
          /\ \A t \in Loader : job[t] = {}

\* What a goroutine holds an index for: no file has it, no other goroutine has
\* it, and what was written above it is of this attempt.
Reserved(t, j) ==
    /\ j.chunk =< next[t]
    /\ \A k \in job[t] : k.stage = "indexed" /\ k.chunk = j.chunk => k = j
    /\ \A r \in files[t] : r.chunk # j.chunk
    /\ \A r \in files[t] : r.chunk > j.chunk => r.attempt = attempt

\* What is written stays below the writer's index, but for the lines of the
\* loader's open chunk.
BelowIndex(t, r) ==
    \/ r.chunk =< next[t]
    \/ t \in Loader /\ r.chunk = next[t] + 1 /\ r.attempt = attempt

\* Attempts write in the order of chunks.
InOrder(entries) == \A q, r \in entries : q.chunk =< r.chunk => q.attempt =< r.attempt

Chunked ==
    /\ Flight
    /\ \A t \in Task : \A j \in job[t] : j.stage = "indexed" => Reserved(t, j)
    /\ \A t \in Task : st[t] = "running" => \A r \in files[t] : BelowIndex(t, r)
    /\ \A t \in Task : \A r \in files[t] : r.attempt =< attempt
    /\ \A t \in Task : InOrder(files[t])

LEMMA InitChunked == Init => Chunked
BY DEF Init, NoProcess, Chunked, Flight, InOrder, Loader

\* A process that starts, goes or waits: nothing in flight or all as it was.
LEMMA NewProcessChunked ==
    ASSUME Typed, Chunked, NewProcess, attempt' \in {attempt, attempt + 1},
           files' = files \/ files' = [t \in Task |-> {}]
    PROVE  Chunked'
<1>1. \A t \in Task : /\ job'[t] = {} /\ st'[t] = "idle"
                      /\ files'[t] = files[t] \/ files'[t] = {}
      BY DEF NewProcess
<1>2. \A t \in Task : \A r \in files[t] : r.attempt \in Nat /\ r.attempt =< attempt
      BY DEF Typed, Row, Chunked
<1>3. attempt \in Nat
      BY DEF Typed
<1>. QED BY <1>1, <1>2, <1>3 DEF Chunked, Flight, InOrder, Loader

LEMMA QuietChunked ==
    ASSUME Typed, Chunked, UNCHANGED <<attempt, job, next, files>>,
           \A t \in Task : st'[t] # "running" => job[t] = {},
           \A t \in Task : st'[t] = "running" => st[t] = "running"
    PROVE  Chunked'
BY DEF Chunked, Flight, Reserved, BelowIndex, InOrder

LEMMA StartTaskChunked ==
    ASSUME Typed, Chunked, NEW t \in Task, StartTask(t) PROVE Chunked'
<1>1. /\ SeedIndex(t) \in Nat
      /\ \A r \in files[t] : r.chunk =< SeedIndex(t)
      BY HighestChunkBounds DEF SeedIndex, Typed
<1>2. /\ st' = [st EXCEPT ![t] = "running"]
      /\ next' = [next EXCEPT ![t] = SeedIndex(t)]
      /\ UNCHANGED <<attempt, job, files>>
      BY DEF StartTask, planVars
<1>3. job[t] = {}
      BY DEF StartTask, Chunked, Flight
<1>4. /\ next'[t] = SeedIndex(t) /\ st'[t] = "running"
      /\ \A u \in Task \ {t} : next'[u] = next[u] /\ st'[u] = st[u]
      BY <1>2 DEF Typed
<1>5. Flight'
      BY <1>2, <1>4 DEF Chunked, Flight
<1>6. \A u \in Task : \A j \in job'[u] : j.stage = "indexed" => Reserved(u, j)'
      BY <1>2, <1>3, <1>4 DEF Chunked, Reserved
<1>7. \A u \in Task : st'[u] = "running" => \A r \in files'[u] : BelowIndex(u, r)'
      BY <1>1, <1>2, <1>4 DEF Chunked, BelowIndex
<1>. QED BY <1>2, <1>5, <1>6, <1>7 DEF Chunked

\* Items leave, or come in and move without an index.
LEMMA JobChunked ==
    ASSUME Typed, Chunked, NEW t \in Task, t \notin Loader, st[t] = "running",
           NEW jobs, job' = [job EXCEPT ![t] = jobs],
           \A j \in jobs : j \in job[t] \/ j.stage # "indexed",
           UNCHANGED <<attempt, st, next, files>>
    PROVE  Chunked'
<1>1. job'[t] = jobs /\ \A u \in Task \ {t} : job'[u] = job[u]
      BY DEF Typed
<1>2. Flight'
      BY <1>1 DEF Chunked, Flight, Loader
<1>3. \A u \in Task : \A j \in job'[u] : j.stage = "indexed" => Reserved(u, j)'
      BY <1>1 DEF Chunked, Reserved
<1>. QED BY <1>2, <1>3 DEF Chunked, BelowIndex, InOrder

LEMMA InFlight ==
    ASSUME Chunked, NEW t \in Task, NEW j \in job[t]
    PROVE  t \notin Loader /\ st[t] = "running"
BY DEF Chunked, Flight

LEMMA DropChunked ==
    ASSUME Typed, Chunked, NEW t \in Task, NEW j \in job[t], Drop(t, j),
           UNCHANGED <<attempt, st, next, files>>
    PROVE  Chunked'
<1>1. job' = [job EXCEPT ![t] = job[t] \ {j}]
      BY DEF Drop
<1>2. t \notin Loader /\ st[t] = "running"
      BY InFlight
<1>3. \A k \in job[t] \ {j} : k \in job[t] \/ k.stage # "indexed"
      OBVIOUS
<1>. QED BY <1>1, <1>2, <1>3, JobChunked

LEMMA AdvanceChunked ==
    ASSUME Typed, Chunked, NEW t \in Task, NEW j \in job[t], NEW new,
           Advance(t, j, new), new.stage # "indexed",
           UNCHANGED <<attempt, st, next, files>>
    PROVE  Chunked'
<1>1. job' = [job EXCEPT ![t] = (job[t] \ {j}) \cup {new}]
      BY DEF Advance
<1>2. \A k \in (job[t] \ {j}) \cup {new} : k \in job[t] \/ k.stage # "indexed"
      OBVIOUS
<1>. QED BY <1>1, <1>2, InFlight, JobChunked

LEMMA CreateChunked ==
    ASSUME Typed, Chunked, NEW t \in Task, NEW j \in job[t], Create(t, j) PROVE Chunked'
<1> DEFINE new == [j EXCEPT !.stage = "write", !.ok = MayRecord(j.item)]
<1>1. j \in Job /\ MayRecord(j.item) \in BOOLEAN
      BY DEF Typed, MayRecord
<1>2. new.stage # "indexed"
      BY <1>1 DEF Job
<1>3. Advance(t, j, new) /\ UNCHANGED <<attempt, st, next, files>>
      BY DEF Create, planVars, diskVars
<1> HIDE DEF new
<1>. QED BY <1>2, <1>3, AdvanceChunked

LEMMA OutcomeChunked ==
    ASSUME Typed, Chunked, NEW t \in Task, NEW j \in job[t], NEW good \in BOOLEAN,
           Outcome(t, j, good), UNCHANGED <<attempt, st, next, files>>
    PROVE  Chunked'
<1> DEFINE new == [j EXCEPT !.stage = "write", !.ok = good]
<1>1. j \in Job
      BY DEF Typed
<1>2. new.stage # "indexed"
      BY <1>1 DEF Job
<1>3. Advance(t, j, new) \/ Drop(t, j)
      BY DEF Outcome
<1> HIDE DEF new
<1>. QED BY <1>2, <1>3, AdvanceChunked, DropChunked

LEMMA AdmitChunked ==
    ASSUME Typed, Chunked, NEW t \in Task, NEW i \in Item, Admit(t, i) PROVE Chunked'
<1> DEFINE new == [item |-> i, stage |-> "admitted", ok |-> FALSE, chunk |-> 0]
<1>1. new.stage # "indexed"
      OBVIOUS
<1>2. /\ job' = [job EXCEPT ![t] = job[t] \cup {new}]
      /\ t \notin Loader /\ st[t] = "running"
      /\ UNCHANGED <<attempt, st, next, files>>
      BY DEF Admit, planVars, diskVars
<1> HIDE DEF new
<1>3. \A j \in job[t] \cup {new} : j \in job[t] \/ j.stage # "indexed"
      BY <1>1
<1>. QED BY <1>2, <1>3, JobChunked

\* The next index is above all that is written and held.
LEMMA TakeIndexChunked ==
    ASSUME Typed, Chunked, NEW t \in Task, NEW j \in job[t], TakeIndex(t, j) PROVE Chunked'
<1> DEFINE new == [j EXCEPT !.stage = "indexed", !.chunk = NextIndex(t)]
<1>1. j \in Job /\ NextIndex(t) \in Nat /\ next[t] \in Nat /\ NextIndex(t) = next[t] + 1
      BY DEF Typed, NextIndex
<1>2. new.chunk = next[t] + 1
      BY <1>1 DEF Job
<1>3. /\ job' = [job EXCEPT ![t] = (job[t] \ {j}) \cup {new}]
      /\ next' = [next EXCEPT ![t] = next[t] + 1]
      /\ UNCHANGED <<attempt, st, files>>
      BY DEF TakeIndex, Advance, planVars, diskVars
<1> HIDE DEF new
<1>4. /\ job'[t] = (job[t] \ {j}) \cup {new} /\ next'[t] = next[t] + 1
      /\ \A u \in Task \ {t} : job'[u] = job[u] /\ next'[u] = next[u]
      BY <1>3 DEF Typed
<1>5. t \notin Loader /\ st[t] = "running"
      BY InFlight
<1>6. \A r \in files[t] : r.chunk \in Nat /\ r.chunk =< next[t]
      BY <1>5 DEF Chunked, BelowIndex, Typed, Row
<1>7. \A k \in job[t] : k.stage = "indexed" => k.chunk \in Nat /\ k.chunk =< next[t]
      BY DEF Chunked, Reserved, Typed, Job
<1>8. Flight'
      BY <1>3, <1>4, <1>5 DEF Chunked, Flight
<1>9. \A u \in Task : \A k \in job'[u] : k.stage = "indexed" => Reserved(u, k)'
  <2> SUFFICES ASSUME NEW u \in Task, NEW k \in job'[u], k.stage = "indexed"
               PROVE  Reserved(u, k)'
      OBVIOUS
  <2>1. CASE u # t
        BY <2>1, <1>3, <1>4 DEF Chunked, Reserved
  <2>2. CASE u = t /\ k = new
    <3>1. k.chunk =< next'[u]
          BY <2>2, <1>1, <1>2, <1>4
    <3>2. \A m \in job'[u] : m.stage = "indexed" /\ m.chunk = k.chunk => m = k
          BY <2>2, <1>1, <1>2, <1>4, <1>7
    <3>3. \A r \in files'[u] : r.chunk # k.chunk /\ ~(r.chunk > k.chunk)
          BY <2>2, <1>1, <1>2, <1>3, <1>6
    <3>. QED BY <3>1, <3>2, <3>3 DEF Reserved
  <2>3. CASE u = t /\ k # new
    <3>1. k \in job[t] /\ Reserved(t, k)
          BY <2>3, <1>4 DEF Chunked
    <3>2. k.chunk \in Nat /\ k.chunk =< next[t]
          BY <3>1, <1>7
    <3>3. k.chunk =< next'[u]
          BY <2>3, <3>2, <1>1, <1>4
    <3>4. \A m \in job'[u] : m.stage = "indexed" /\ m.chunk = k.chunk => m = k
          BY <2>3, <3>1, <3>2, <1>1, <1>2, <1>4 DEF Reserved
    <3>. QED BY <2>3, <3>1, <3>3, <3>4, <1>3 DEF Reserved
  <2>. QED BY <2>1, <2>2, <2>3
<1>10. \A u \in Task : st'[u] = "running" => \A r \in files'[u] : BelowIndex(u, r)'
  <2> SUFFICES ASSUME NEW u \in Task, st'[u] = "running", NEW r \in files'[u]
               PROVE  BelowIndex(u, r)'
      OBVIOUS
  <2>1. CASE u = t
        BY <2>1, <1>1, <1>3, <1>4, <1>6 DEF BelowIndex
  <2>2. CASE u # t
        BY <2>2, <1>3, <1>4 DEF Chunked, BelowIndex
  <2>. QED BY <2>1, <2>2
<1>. QED BY <1>3, <1>8, <1>9, <1>10 DEF Chunked

\* A write takes nothing away: no file has the index the goroutine holds.
LEMMA WriteRowAdds ==
    ASSUME Typed, Chunked, NEW t \in Task, NEW j \in job[t], WriteRow(t, j)
    PROVE  LET entry == [chunk |-> j.chunk, item |-> j.item, ok |-> j.ok, attempt |-> attempt]
           IN  files' = [files EXCEPT ![t] = files[t] \cup {entry}]
<1> DEFINE entry == [chunk |-> j.chunk, item |-> j.item, ok |-> j.ok, attempt |-> attempt]
<1>1. \A r \in files[t] : r.chunk # j.chunk
      BY DEF WriteRow, Chunked, Reserved
<1>2. {r \in files[t] : r.chunk # j.chunk} = files[t]
      BY <1>1
<1>. QED BY <1>2 DEF WriteRow

LEMMA WriteRowChunked ==
    ASSUME Typed, Chunked, NEW t \in Task, NEW j \in job[t], WriteRow(t, j) PROVE Chunked'
<1> DEFINE entry == [chunk |-> j.chunk, item |-> j.item, ok |-> j.ok, attempt |-> attempt]
<1>1. entry.chunk = j.chunk /\ entry.attempt = attempt
      OBVIOUS
<1>2. files' = [files EXCEPT ![t] = files[t] \cup {entry}]
      BY WriteRowAdds
<1>3. job' = [job EXCEPT ![t] = job[t] \ {j}] /\ UNCHANGED <<attempt, st, next>>
      BY DEF WriteRow, Drop, planVars
<1> HIDE DEF entry
<1>4. /\ job'[t] = job[t] \ {j} /\ files'[t] = files[t] \cup {entry}
      /\ \A u \in Task \ {t} : job'[u] = job[u] /\ files'[u] = files[u]
      BY <1>2, <1>3 DEF Typed
<1>5. Reserved(t, j) /\ j.stage = "indexed"
      BY DEF WriteRow, Chunked
<1>6. /\ j.chunk \in Nat /\ next[t] \in Nat /\ attempt \in Nat
      /\ \A k \in job[t] : k.chunk \in Nat
      /\ \A r \in files[t] : r.chunk \in Nat /\ r.attempt \in Nat
      BY DEF Typed, Job, Row
<1>7. Flight'
      BY <1>3, <1>4 DEF Chunked, Flight
<1>8. \A u \in Task : \A k \in job'[u] : k.stage = "indexed" => Reserved(u, k)'
  <2> SUFFICES ASSUME NEW u \in Task, NEW k \in job'[u], k.stage = "indexed"
               PROVE  Reserved(u, k)'
      OBVIOUS
  <2>1. CASE u # t
        BY <2>1, <1>3, <1>4 DEF Chunked, Reserved
  <2>2. CASE u = t
    <3>1. k \in job[t] /\ k # j /\ Reserved(t, k)
          BY <2>2, <1>4 DEF Chunked
    <3>2. k.chunk # j.chunk
          BY <3>1, <1>5 DEF Reserved
    <3>. QED BY <2>2, <3>1, <3>2, <1>1, <1>3, <1>4 DEF Reserved
  <2>. QED BY <2>1, <2>2
<1>9. \A u \in Task : st'[u] = "running" => \A r \in files'[u] : BelowIndex(u, r)'
      BY <1>1, <1>3, <1>4, <1>5 DEF Chunked, BelowIndex, Reserved
<1>10. \A u \in Task : \A r \in files'[u] : r.attempt =< attempt'
      BY <1>1, <1>3, <1>4, <1>6 DEF Chunked
<1>11. InOrder(files'[t])
  <2>1. \A r \in files[t] : /\ j.chunk =< r.chunk => r.attempt = attempt
                            /\ r.attempt =< attempt
        BY <1>5, <1>6 DEF Reserved, Chunked
  <2>. QED BY <2>1, <1>1, <1>4, <1>6 DEF Chunked, InOrder
<1>12. \A u \in Task : InOrder(files'[u])
      BY <1>4, <1>11 DEF Chunked
<1>. QED BY <1>7, <1>8, <1>9, <1>10, <1>12 DEF Chunked

\* The lines of a loader share the chunk above its index.
LEMMA LoadLineChunked ==
    ASSUME Typed, Chunked, NEW t \in Task, NEW i \in Item, LoadLine(t, i) PROVE Chunked'
<1> DEFINE line == [chunk |-> NextIndex(t), item |-> i, ok |-> TRUE, attempt |-> attempt]
<1>1. line.chunk = next[t] + 1 /\ line.attempt = attempt
      BY DEF NextIndex
<1>2. /\ files' = [files EXCEPT ![t] = files[t] \cup {line}]
      /\ t \in Loader /\ st[t] = "running"
      /\ UNCHANGED <<attempt, st, job, next>>
      BY DEF LoadLine, planVars
<1> HIDE DEF line
<1>3. files'[t] = files[t] \cup {line} /\ \A u \in Task \ {t} : files'[u] = files[u]
      BY <1>2 DEF Typed
<1>4. job[t] = {}
      BY <1>2 DEF Chunked, Flight
<1>5. /\ next[t] \in Nat /\ attempt \in Nat
      /\ \A r \in files[t] : r.chunk \in Nat /\ r.attempt \in Nat
      BY DEF Typed, Row
<1>6. Flight'
      BY <1>2 DEF Chunked, Flight
<1>7. \A u \in Task : \A k \in job'[u] : k.stage = "indexed" => Reserved(u, k)'
      BY <1>2, <1>3, <1>4 DEF Chunked, Reserved
<1>8. \A u \in Task : st'[u] = "running" => \A r \in files'[u] : BelowIndex(u, r)'
      BY <1>1, <1>2, <1>3 DEF Chunked, BelowIndex
<1>9. \A u \in Task : \A r \in files'[u] : r.attempt =< attempt'
      BY <1>1, <1>2, <1>3, <1>5 DEF Chunked
<1>10. InOrder(files'[t])
  <2>1. \A r \in files[t] : /\ next[t] + 1 =< r.chunk => r.attempt = attempt
                            /\ r.attempt =< attempt
        BY <1>2, <1>5 DEF Chunked, BelowIndex
  <2>. QED BY <2>1, <1>1, <1>3, <1>5 DEF Chunked, InOrder
<1>11. \A u \in Task : InOrder(files'[u])
      BY <1>3, <1>10 DEF Chunked
<1>. QED BY <1>6, <1>7, <1>8, <1>9, <1>11 DEF Chunked

LEMMA ItemStepChunked == ASSUME Typed, Chunked, NEW t \in Task, ItemStep(t) PROVE Chunked'
<1>1. ASSUME NEW i \in Item, LoadLine(t, i) \/ Admit(t, i) PROVE Chunked'
      BY <1>1, LoadLineChunked, AdmitChunked
<1>2. CASE StopAdmitting(t)
      BY <1>2, QuietChunked DEF StopAdmitting, planVars, diskVars, Chunked, Flight
<1>3. ASSUME NEW j \in job[t], Create(t, j) PROVE Chunked'
      BY <1>3, CreateChunked
<1>4. ASSUME NEW j \in job[t], Apply(t, j) \/ ApplyFails(t, j) PROVE Chunked'
      BY <1>4, OutcomeChunked DEF Apply, ApplyFails, planVars, diskVars
<1>5. ASSUME NEW j \in job[t], TakeIndex(t, j) \/ WriteRow(t, j) PROVE Chunked'
      BY <1>5, TakeIndexChunked, WriteRowChunked
<1>6. ASSUME NEW j \in job[t],
             GiveUp(t, j) \/ CreateFails(t, j) \/ PassOver(t, j) \/ WriteFails(t, j)
      PROVE  Chunked'
      BY <1>6, DropChunked DEF GiveUp, CreateFails, PassOver, WriteFails, Drop, planVars, diskVars
<1>. QED BY <1>1, <1>2, <1>3, <1>4, <1>5, <1>6 DEF ItemStep

LEMMA NextChunked == Typed /\ Chunked /\ [Next]_vars => Chunked'
<1> SUFFICES ASSUME Typed, Chunked, [Next]_vars PROVE Chunked'
    OBVIOUS
<1>1. ASSUME NEW targets \in Goals, NEW out \in Exclusions, StartFresh(targets, out)
      PROVE Chunked'
      BY <1>1, NewProcessChunked DEF StartFresh
<1>2. CASE Resume
      BY <1>2, NewProcessChunked DEF Resume, diskVars
<1>3. CASE Interrupt
      BY <1>3, QuietChunked DEF Interrupt, planVars, diskVars, Chunked, Flight
<1>4. CASE Crash
      BY <1>4, NewProcessChunked DEF Crash, planVars, diskVars
<1>5. CASE BeginPhase
  <2>1. \A t \in Task : st'[t] # "running" /\ st[t] = "idle"
        BY <1>5 DEF BeginPhase, Current
  <2>. QED BY <1>5, <2>1, QuietChunked DEF BeginPhase, planVars, diskVars, Chunked, Flight
<1>6. CASE EndPhase
  <2>1. \A t \in Task : st'[t] # "running" /\ st[t] # "running"
        BY <1>6 DEF EndPhase, Current, Ended
  <2>. QED BY <1>6, <2>1, QuietChunked DEF EndPhase, planVars, diskVars, Chunked, Flight
<1>7. CASE Finish
      BY <1>7, QuietChunked DEF Finish, procVars, planVars, diskVars, Chunked, Flight
<1>8. ASSUME NEW t \in Task, TaskStep(t) PROVE Chunked'
  <2>1. CASE StartTask(t)
        BY <2>1, StartTaskChunked
  <2>2. CASE EndTask(t)
    <3>1. /\ job[t] = {} /\ st'[t] # "running"
          /\ \A u \in Task \ {t} : st'[u] = st[u]
          BY <2>2 DEF EndTask, Typed
    <3>. QED BY <2>2, <3>1, QuietChunked DEF EndTask, planVars, diskVars, Chunked, Flight
  <2>3. CASE ItemStep(t)
        BY <2>3, ItemStepChunked
  <2>. QED BY <1>8, <2>1, <2>2, <2>3 DEF TaskStep
<1>9. CASE UNCHANGED vars
      BY <1>9, QuietChunked DEF vars, planVars, procVars, diskVars, Chunked, Flight
<1>. QED BY <1>1, <1>2, <1>3, <1>4, <1>5, <1>6, <1>7, <1>8, <1>9 DEF Next, Operator, Engine

LEMMA AlwaysChunked == Spec => []Chunked
BY AlwaysTyped, InitChunked, NextChunked, PTL DEF Spec

\* The last row of an item is of the latest attempt that wrote one, for any
\* number of attempts and however the goroutines of a task interleave between
\* taking an index and creating the file (ChunkWriter.WriteChunk).
THEOREM TheNewestRowIsRead == Spec => []NewestRowIsRead
<1>1. Typed /\ Chunked => NewestRowIsRead
  <2> SUFFICES ASSUME Typed, Chunked, NEW t \in Reentrant, NEW last \in files[t],
                      NEW r \in files[t], last.item = r.item, IsLast(files[t], last)
               PROVE  r.attempt =< last.attempt
      BY DEF NewestRowIsRead
  <2>1. t \in Task
        BY TaskAssumption
  <2>2. r.chunk =< last.chunk
        BY DEF IsLast
  <2>. QED BY <2>1, <2>2 DEF Chunked, InOrder
<1>. QED BY <1>1, AlwaysTyped, AlwaysChunked, PTL

\* No step takes a row away while the directory stays: os.Create truncates no
\* file of this attempt or an earlier one.
THEOREM WrittenChunksAreKept == Spec => ChunksAreKept
<1>1. Typed /\ Chunked /\ [Next]_vars =>
        [\A t \in Task : t \in dir' => files[t] \subseteq files'[t]]_vars
  <2> SUFFICES ASSUME Typed, Chunked, Next, NEW t \in Task, t \in dir'
               PROVE  files[t] \subseteq files'[t]
      OBVIOUS
  <2>1. ASSUME NEW targets \in Goals, NEW out \in Exclusions, StartFresh(targets, out)
        PROVE files[t] \subseteq files'[t]
        BY <2>1 DEF StartFresh
  <2>2. ASSUME Resume \/ Interrupt \/ Crash \/ Engine PROVE files[t] \subseteq files'[t]
        BY <2>2 DEF Resume, Interrupt, Crash, Engine, BeginPhase, EndPhase, Finish, diskVars
  <2>3. ASSUME NEW u \in Task, StartTask(u) \/ EndTask(u) \/ StopAdmitting(u)
        PROVE files[t] \subseteq files'[t]
        BY <2>3 DEF StartTask, EndTask, StopAdmitting, diskVars
  <2>4. ASSUME NEW u \in Task, NEW i \in Item, LoadLine(u, i) \/ Admit(u, i)
        PROVE files[t] \subseteq files'[t]
        BY <2>4 DEF LoadLine, Admit, diskVars, Typed
  <2>5. ASSUME NEW u \in Task, NEW j \in job[u], WriteRow(u, j)
        PROVE files[t] \subseteq files'[t]
        BY <2>5, WriteRowAdds DEF Typed
  <2>6. ASSUME NEW u \in Task, NEW j \in job[u],
               \/ GiveUp(u, j) \/ Create(u, j) \/ CreateFails(u, j)
               \/ PassOver(u, j) \/ Apply(u, j) \/ ApplyFails(u, j)
               \/ TakeIndex(u, j) \/ WriteFails(u, j)
        PROVE files[t] \subseteq files'[t]
        BY <2>6 DEF GiveUp, Create, CreateFails, PassOver, Apply, ApplyFails, TakeIndex,
                    WriteFails, diskVars
  <2>. QED BY <2>1, <2>2, <2>3, <2>4, <2>5, <2>6 DEF Next, Operator, TaskStep, ItemStep
<1>. QED BY <1>1, AlwaysTyped, AlwaysChunked, PTL DEF Spec, ChunksAreKept
-----------------------------------------------------------------------------
(* The plan *)

\* What the targets need, holds all its members need.
LEMMA NeededIsResolved ==
    ASSUME NEW targets \in SUBSET Task, NEW out
    PROVE  Needed(targets, out) \in SUBSET Task /\ Resolved(Needed(targets, out), targets, out)
<1> DEFINE all == Needed(targets, out)
<1>1. all \in SUBSET Task
      BY DEF Needed
<1>2. ASSUME NEW d \in targets \cup UNION {Dep[t] : t \in all}, d \notin out PROVE d \in all
  <2>1. d \in Task
        BY <1>1, <1>2, TaskAssumption
  <2>2. ASSUME NEW tasks \in SUBSET Task, Resolved(tasks, targets, out) PROVE d \in tasks
    <3>1. all \subseteq tasks
          BY <2>2 DEF Needed
    <3>. QED BY <1>2, <2>2, <3>1 DEF Resolved
  <2>. QED BY <2>1, <2>2 DEF Needed
<1>. QED BY <1>1, <1>2 DEF Resolved

\* The first phases' tasks are defined phase by phase: of all the families of
\* sets that each hold what is ready after the one before, the least is one that
\* holds nothing else.
LEMMA BelowStep ==
    ASSUME NEW tasks, NEW out
    PROVE  /\ Below(tasks, out)[0] = {}
           /\ \A k \in Nat : Below(tasks, out)[k + 1] =
                 Below(tasks, out)[k] \cup Ready(tasks, out, Below(tasks, out)[k])
<1> DEFINE step(done) == done \cup Ready(tasks, out, done)
           Families == {h \in [Nat -> SUBSET tasks] : \A k \in Nat : step(h[k]) \subseteq h[k + 1]}
           least == [k \in Nat |-> {t \in tasks : \A h \in Families : t \in h[k]}]
           whole == [k \in Nat |-> IF k = 0 THEN {} ELSE tasks]
<1>1. \A a, b \in SUBSET tasks : a \subseteq b => step(a) \subseteq step(b)
      BY DEF Ready
<1>2. \A a \in SUBSET tasks : step(a) \in SUBSET tasks
      BY DEF Ready
<1>3. whole \in Families
  <2>1. whole \in [Nat -> SUBSET tasks]
        OBVIOUS
  <2>2. \A k \in Nat : whole[k + 1] = tasks
        OBVIOUS
  <2> HIDE DEF whole, step
  <2>. QED BY <1>2, <2>1, <2>2
<1>4. least \in [Nat -> SUBSET tasks] /\ \A h \in Families : \A k \in Nat : least[k] \subseteq h[k]
      OBVIOUS
<1> HIDE DEF step
<1>5. \A k \in Nat : step(least[k]) \subseteq least[k + 1]
  <2> SUFFICES ASSUME NEW k \in Nat, NEW t \in step(least[k]) PROVE t \in least[k + 1]
      OBVIOUS
  <2>1. k + 1 \in Nat /\ t \in tasks
        BY <1>2, <1>4
  <2>2. ASSUME NEW h \in Families PROVE t \in h[k + 1]
        BY <1>1, <1>4
  <2>. QED BY <2>1, <2>2
<1>6. least[0] = {}
  <2>1. whole[0] = {}
        OBVIOUS
  <2> HIDE DEF Families, least, whole
  <2>. QED BY <1>3, <1>4, <2>1
<1>7. \A k \in Nat : least[k + 1] = step(least[k])
  <2> TAKE k \in Nat
  <2> DEFINE tight == [least EXCEPT ![k + 1] = step(least[k])]
  <2>1. /\ k + 1 \in Nat /\ k + 1 # k
        /\ step(least[k]) \in SUBSET tasks /\ step(least[k]) \subseteq least[k + 1]
    <3>1. k + 1 \in Nat /\ k + 1 # k
          OBVIOUS
    <3> HIDE DEF least, Families
    <3>. QED BY <1>2, <1>4, <1>5, <3>1
  <2>2. tight \in [Nat -> SUBSET tasks] /\ tight[k + 1] = step(least[k])
    <3> HIDE DEF least
    <3>. QED BY <1>4, <2>1
  <2>3. \A n \in Nat : tight[n] \subseteq least[n] /\ (n # k + 1 => tight[n] = least[n])
    <3> HIDE DEF least
    <3>. QED BY <1>4, <2>1
  <2>4. ASSUME NEW n \in Nat PROVE step(tight[n]) \subseteq tight[n + 1]
    <3> HIDE DEF least, tight, Families
    <3>1. n + 1 \in Nat /\ step(tight[n]) \subseteq step(least[n]) /\ step(least[n]) \subseteq least[n + 1]
          BY <1>1, <1>4, <1>5, <2>2, <2>3
    <3>2. CASE n = k
          BY <2>1, <2>2, <2>3, <3>2
    <3>3. CASE n # k
      <4>1. n + 1 # k + 1
            BY <3>3
      <4>. QED BY <2>3, <3>1, <4>1
    <3>. QED BY <3>2, <3>3
  <2>5. tight \in Families
    <3> HIDE DEF tight, least
    <3>. QED BY <2>2, <2>4
  <2>6. least[k + 1] \subseteq tight[k + 1]
    <3> HIDE DEF tight, least, Families
    <3>. QED BY <1>4, <2>1, <2>5
  <2>. QED BY <2>1, <2>2, <2>6
<1> HIDE DEF least
<1>8. least = [k \in Nat |-> IF k = 0 THEN {} ELSE least[k - 1] \cup Ready(tasks, out, least[k - 1])]
  <2>1. ASSUME NEW k \in Nat
        PROVE  least[k] = IF k = 0 THEN {} ELSE least[k - 1] \cup Ready(tasks, out, least[k - 1])
    <3>1. CASE k = 0
          BY <1>6, <3>1
    <3>2. CASE k # 0
      <4>1. k - 1 \in Nat /\ (k - 1) + 1 = k
            BY <3>2
      <4>2. least[k] = step(least[k - 1])
            BY <1>7, <4>1
      <4>. QED BY <3>2, <4>2 DEF step
    <3>. QED BY <3>1, <3>2
  <2>. QED BY <1>4, <2>1
<1>9. Below(tasks, out) = [k \in Nat |->
         IF k = 0 THEN {} ELSE Below(tasks, out)[k - 1] \cup Ready(tasks, out, Below(tasks, out)[k - 1])]
  <2> HIDE DEF Ready
  <2>. QED BY <1>8 DEF Below
<1> DEFINE below == Below(tasks, out)
<1>10. below[0] = {}
  <2> HIDE DEF below
  <2>1. below = [k \in Nat |-> IF k = 0 THEN {} ELSE below[k - 1] \cup Ready(tasks, out, below[k - 1])]
        BY <1>9 DEF below
  <2>. QED BY <2>1
<1>11. ASSUME NEW k \in Nat PROVE below[k + 1] = below[k] \cup Ready(tasks, out, below[k])
  <2> HIDE DEF below
  <2>1. below = [n \in Nat |-> IF n = 0 THEN {} ELSE below[n - 1] \cup Ready(tasks, out, below[n - 1])]
        BY <1>9 DEF below
  <2>2. k + 1 \in Nat /\ k + 1 # 0 /\ (k + 1) - 1 = k
        OBVIOUS
  <2>3. below[k + 1] = below[(k + 1) - 1] \cup Ready(tasks, out, below[(k + 1) - 1])
        BY <2>1, <2>2
  <2>. QED BY <2>2, <2>3
<1>. QED BY <1>10, <1>11 DEF below

LEMMA BelowGrows ==
    ASSUME NEW tasks, NEW out, NEW n \in Nat, NEW d \in Below(tasks, out)[n]
    PROVE  \E m \in 1 .. n : d \in Ready(tasks, out, Below(tasks, out)[m - 1])
<1> DEFINE below == Below(tasks, out)
           Without == {m \in 0 .. n : d \notin below[m]}
<1>1. below[0] = {} /\ \A k \in Nat : below[k + 1] = below[k] \cup Ready(tasks, out, below[k])
      BY BelowStep
<1> HIDE DEF below
<1>2. Without \in SUBSET Int /\ Without # {} /\ IsFiniteSet(Without)
  <2>1. Without \in SUBSET (0 .. n) /\ 0 \in Without
        BY <1>1
  <2>2. 0 .. n \subseteq Int
        OBVIOUS
  <2>3. IsFiniteSet(0 .. n)
    <3>1. 0 \in Int /\ n \in Int
          OBVIOUS
    <3>. QED BY <3>1, FS_Interval
  <2> HIDE DEF Without
  <2>. QED BY <2>1, <2>2, <2>3, FS_Subset
<1>3. PICK m \in Without : \A k \in Without : k =< m
  <2> HIDE DEF Without
  <2>. QED BY <1>2, GreatestElement
<1>4. m \in 0 .. n /\ d \notin below[m] /\ m # n
      BY DEF below
<1>5. m + 1 \in 1 .. n /\ (m + 1) - 1 = m /\ m \in Nat /\ ~(m + 1 =< m)
      BY <1>4
<1>6. m + 1 \notin Without
      BY <1>3, <1>5
<1>7. d \in below[m + 1]
      BY <1>5, <1>6
<1>8. d \in Ready(tasks, out, below[m])
      BY <1>1, <1>4, <1>5, <1>7
<1>. QED BY <1>5, <1>8 DEF below

\* What a task of a plan waits for is in a phase before its own.
LEMMA PlanIsOrdered ==
    ASSUME NEW targets, NEW out
    PROVE  LET plan == Plan(targets, out)
           IN  /\ plan \in Seq(SUBSET Task)
               /\ DOMAIN plan \subseteq Nat
               /\ Scheduled(plan) \subseteq Needed(targets, out)
               /\ \A n \in DOMAIN plan : \A t \in plan[n] : \A d \in Dep[t] \ out :
                     \E m \in DOMAIN plan : m < n /\ d \in plan[m]
<1> DEFINE tasks == Needed(targets, out)
           count == Cardinality(tasks)
           plan == Plan(targets, out)
           below == Below(tasks, out)
<1>1. tasks \in SUBSET Task /\ count \in Nat
  <2>1. tasks \in SUBSET Task
        BY DEF Needed
  <2>2. IsFiniteSet(tasks)
        BY <2>1, TaskAssumption, FS_Subset
  <2>. QED BY <2>1, <2>2, FS_CardinalityType
<1>2. plan = [n \in 1 .. count |-> Ready(tasks, out, below[n - 1])]
      BY DEF Plan
<1> HIDE DEF plan, below, tasks, count
<1>3. \A done : Ready(tasks, out, done) \subseteq tasks
      BY DEF Ready
<1>4. plan \in [1 .. count -> SUBSET Task] /\ \A n \in 1 .. count : plan[n] \subseteq tasks
      BY <1>1, <1>2, <1>3
<1>5. plan \in Seq(SUBSET Task) /\ DOMAIN plan \subseteq Nat /\ Scheduled(plan) \subseteq tasks
      BY <1>1, <1>4 DEF Scheduled
<1>6. ASSUME NEW n \in 1 .. count, NEW t \in plan[n], NEW d \in Dep[t] \ out
      PROVE  \E m \in 1 .. count : m < n /\ d \in plan[m]
  <2>1. d \in below[n - 1]
        BY <1>2, <1>6 DEF Ready
  <2>2. n - 1 \in Nat /\ n - 1 < n /\ n =< count
        BY <1>1
  <2>3. PICK m \in 1 .. n - 1 : d \in Ready(tasks, out, below[m - 1])
        BY <2>1, <2>2, BelowGrows DEF below
  <2>4. m \in 1 .. count /\ m < n
        BY <1>1, <2>2
  <2>. QED BY <1>2, <2>3, <2>4
<1>7. \A n \in DOMAIN plan : \A t \in plan[n] : \A d \in Dep[t] \ out :
         \E m \in DOMAIN plan : m < n /\ d \in plan[m]
      BY <1>4, <1>6
<1>. QED BY <1>5, <1>7 DEF plan, tasks

-----------------------------------------------------------------------------
(* The order of the tasks *)

\* The types of what the engine decides by.
PlanTyped ==
    /\ run \in {"none", "running", "done", "failed", "crashed"}
    /\ attempt \in 0 .. MaxAttempts
    /\ resumed \in BOOLEAN
    /\ goal \in SUBSET Task /\ excluded \in SUBSET Task
    /\ phases \in Seq(SUBSET Task)
    /\ erred \subseteq Task /\ faulty \subseteq Task
    /\ cancelled \in BOOLEAN
    /\ dir \subseteq Task
    /\ dropped \subseteq Task /\ completed \subseteq Task

\* What a task still to run waits for is over, left out, or in a phase before.
PhasesAreOrdered ==
    \A n \in DOMAIN phases : \A t \in phases[n] :
        \A d \in Dep[t] \ (excluded \cup dropped \cup completed) :
            \E m \in DOMAIN phases : m < n /\ d \in phases[m]

\* The tasks at work are those of the first phase that is left.
CurrentIsUpcoming ==
    Current # {} => \E n \in DOMAIN phases : IsUpcoming(n) /\ Current = phases[n]

OkIsCompleted == \A t \in Task : st[t] = "ok" => t \in completed

InPlan == PlanTyped /\ PhasesAreOrdered /\ CurrentIsUpcoming /\ OkIsCompleted

\* What is done for an item changes neither the plan nor the state of a task.
LEMMA ItemStepFrame ==
    ASSUME PlanTyped, NEW t \in Task, ItemStep(t)
    PROVE  /\ UNCHANGED <<run, attempt, resumed, goal, excluded, phases, st, dir>>
           /\ UNCHANGED <<dropped, completed, cancelled>>
           /\ erred \subseteq erred' /\ erred' \subseteq erred \cup {t}
           /\ faulty \subseteq faulty' /\ faulty' \subseteq faulty \cup {t}
<1> USE DEF planVars, diskVars, histVars
<1>1. ASSUME NEW i \in Item, LoadLine(t, i)
      PROVE  /\ UNCHANGED <<run, attempt, resumed, goal, excluded, phases, st, dir>>
             /\ UNCHANGED <<dropped, completed, cancelled, erred, faulty>>
      BY <1>1 DEF LoadLine
<1>2. ASSUME NEW i \in Item, Admit(t, i)
      PROVE  /\ UNCHANGED <<run, attempt, resumed, goal, excluded, phases, st, dir>>
             /\ UNCHANGED <<dropped, completed, cancelled, erred, faulty>>
      BY <1>2 DEF Admit
<1>3. CASE StopAdmitting(t)
      BY <1>3 DEF StopAdmitting, LoopErrors
<1>4. ASSUME NEW j \in job[t], GiveUp(t, j) \/ WriteFails(t, j)
      PROVE  /\ UNCHANGED <<run, attempt, resumed, goal, excluded, phases, st, dir>>
             /\ UNCHANGED <<dropped, completed, cancelled, faulty>> /\ erred' = erred \cup {t}
      BY <1>4 DEF GiveUp, WriteFails
<1>5. ASSUME NEW j \in job[t], Create(t, j) \/ CreateFails(t, j) \/ ApplyFails(t, j)
      PROVE  /\ UNCHANGED <<run, attempt, resumed, goal, excluded, phases, st, dir>>
             /\ UNCHANGED <<dropped, completed, cancelled, erred>>
             /\ faulty' \in {faulty, faulty \cup {t}}
      BY <1>5 DEF Create, CreateFails, ApplyFails
<1>6. ASSUME NEW j \in job[t], PassOver(t, j) \/ Apply(t, j) \/ TakeIndex(t, j) \/ WriteRow(t, j)
      PROVE  /\ UNCHANGED <<run, attempt, resumed, goal, excluded, phases, st, dir>>
             /\ UNCHANGED <<dropped, completed, cancelled, erred, faulty>>
      BY <1>6 DEF PassOver, Apply, TakeIndex, WriteRow
<1>. QED BY <1>1, <1>2, <1>3, <1>4, <1>5, <1>6 DEF ItemStep

LEMMA InitInPlan == Init => InPlan
<1> SUFFICES ASSUME Init PROVE InPlan
    OBVIOUS
<1>1. phases = << >> /\ DOMAIN phases = {} /\ phases \in Seq(SUBSET Task)
      BY DEF Init
<1>2. 0 \in 0 .. MaxAttempts
      BY BoundAssumption
<1>3. st = [t \in Task |-> "idle"] /\ Current = {}
      BY DEF Init, NoProcess, Current
<1>4. PlanTyped
      BY <1>1, <1>2 DEF Init, NoProcess, PlanTyped
<1>. QED BY <1>1, <1>3, <1>4 DEF InPlan, PhasesAreOrdered, CurrentIsUpcoming, OkIsCompleted

\* A process begins with no task at work.
LEMMA NewProcessInPlan ==
    ASSUME NewProcess, PlanTyped', PhasesAreOrdered' PROVE InPlan'
<1>1. st' = [t \in Task |-> "idle"]
      BY DEF NewProcess
<1>2. Current' = {}
      BY <1>1 DEF Current
<1>. QED BY <1>1, <1>2 DEF InPlan, CurrentIsUpcoming, OkIsCompleted

LEMMA NoPhasesAreOrdered == ASSUME phases' = << >> PROVE PhasesAreOrdered' /\ phases' \in Seq(SUBSET Task)
BY DEF PhasesAreOrdered

LEMMA StartFreshInPlan ==
    ASSUME PlanTyped, NEW targets \in Goals, NEW out \in Exclusions, StartFresh(targets, out)
    PROVE  InPlan'
<1>1. targets \in SUBSET Task /\ out \in SUBSET Task
      BY TaskAssumption
<1>2. PhasesAreOrdered' /\ phases' \in Seq(SUBSET Task)
  <2>1. CASE Plannable(targets, out)
    <3>1. phases' = Plan(targets, out) /\ excluded' = out
          BY <2>1 DEF StartFresh
    <3>. QED BY <3>1, PlanIsOrdered DEF PhasesAreOrdered
  <2>2. CASE ~Plannable(targets, out)
    <3>1. phases' = << >>
          BY <2>2 DEF StartFresh
    <3>. QED BY <3>1, NoPhasesAreOrdered
  <2>. QED BY <2>1, <2>2
<1>3. attempt' \in 0 .. MaxAttempts
      BY BoundAssumption DEF StartFresh, PlanTyped
<1>4. PlanTyped'
      BY <1>1, <1>2, <1>3 DEF StartFresh, NewProcess, PlanTyped
<1>. QED BY <1>2, <1>4, NewProcessInPlan DEF StartFresh

LEMMA ResumeInPlan == ASSUME PlanTyped, Resume PROVE InPlan'
<1> DEFINE plan == Plan(goal, excluded)
           kept == FilterCompleted(plan)
<1>1. /\ plan \in Seq(SUBSET Task) /\ DOMAIN plan \subseteq Nat
      /\ Scheduled(plan) \subseteq Needed(goal, excluded) /\ Needed(goal, excluded) \in SUBSET Task
      /\ \A n \in DOMAIN plan : \A t \in plan[n] : \A d \in Dep[t] \ excluded :
            \E m \in DOMAIN plan : m < n /\ d \in plan[m]
      BY PlanIsOrdered, NeededIsResolved DEF PlanTyped
<1>2. /\ phases' = kept /\ dropped' = Needed(goal, excluded) \ Scheduled(kept)
      /\ UNCHANGED <<goal, excluded, dir, files, completed>>
      BY DEF Resume, diskVars
<1> HIDE DEF plan
<1>3. /\ kept \in Seq(SUBSET Task) /\ DOMAIN kept = DOMAIN plan
      /\ \A n \in DOMAIN plan : kept[n] = {t \in plan[n] : Kept(t)}
  <2>1. Len(plan) \in Nat /\ DOMAIN plan = 1 .. Len(plan) /\ \A n \in 1 .. Len(plan) : plan[n] \in SUBSET Task
        BY <1>1
  <2>2. kept = [n \in 1 .. Len(plan) |-> {t \in plan[n] : Kept(t)}]
        BY <2>1 DEF FilterCompleted
  <2>. QED BY <2>1, <2>2
<1> HIDE DEF kept
<1>4. PhasesAreOrdered'
  <2> SUFFICES ASSUME NEW n \in DOMAIN kept, NEW t \in kept[n],
                      NEW d \in Dep[t] \ (excluded \cup dropped' \cup completed)
               PROVE  \E m \in DOMAIN kept : m < n /\ d \in kept[m]
      BY <1>2 DEF PhasesAreOrdered
  <2>1. PICK m \in DOMAIN plan : m < n /\ d \in plan[m]
        BY <1>1, <1>3
  <2>2. d \in Scheduled(kept)
        BY <1>1, <1>2, <2>1 DEF Scheduled
  <2>3. Kept(d)
        BY <1>3, <2>2 DEF Scheduled
  <2>. QED BY <1>3, <2>1, <2>3
<1>5. attempt' \in 0 .. MaxAttempts
      BY BoundAssumption DEF Resume, PlanTyped
<1>6. PlanTyped'
      BY <1>1, <1>2, <1>3, <1>5 DEF Resume, NewProcess, PlanTyped
<1>. QED BY <1>4, <1>6, NewProcessInPlan DEF Resume

LEMMA CrashInPlan == ASSUME PlanTyped, Crash PROVE InPlan'
<1>1. PhasesAreOrdered' /\ phases' \in Seq(SUBSET Task)
      BY NoPhasesAreOrdered DEF Crash
<1>2. PlanTyped'
      BY <1>1 DEF Crash, NewProcess, PlanTyped, planVars, diskVars, histVars
<1>. QED BY <1>1, <1>2, NewProcessInPlan DEF Crash

\* Neither the plan nor what is at work changes.
LEMMA QuietInPlan ==
    ASSUME InPlan, PlanTyped', Current' = Current, completed \subseteq completed',
           \A t \in Task : st'[t] = "ok" => t \in completed',
           UNCHANGED <<phases, excluded, dropped>>
    PROVE  InPlan'
<1>1. PhasesAreOrdered'
      BY DEF InPlan, PhasesAreOrdered
<1>2. CurrentIsUpcoming'
      BY DEF InPlan, CurrentIsUpcoming, IsUpcoming
<1>. QED BY <1>1, <1>2 DEF InPlan, OkIsCompleted

LEMMA EngineInPlan == ASSUME Typed, InPlan, Engine PROVE InPlan'
<1>1. CASE BeginPhase
  <2>1. PICK n \in DOMAIN phases :
            IsUpcoming(n) /\ st' = [t \in Task |-> IF t \in phases[n] THEN "queued" ELSE "idle"]
        BY <1>1 DEF BeginPhase
  <2>2. phases[n] \subseteq Task
        BY DEF InPlan, PlanTyped
  <2>3. Current' = phases[n] /\ phases' = phases
        BY <1>1, <2>1, <2>2 DEF BeginPhase, Current
  <2>4. CurrentIsUpcoming'
        BY <2>1, <2>3 DEF CurrentIsUpcoming, IsUpcoming
  <2>5. OkIsCompleted'
        BY <2>1 DEF OkIsCompleted
  <2>6. PlanTyped' /\ PhasesAreOrdered'
        BY <1>1 DEF BeginPhase, InPlan, PlanTyped, PhasesAreOrdered, planVars, diskVars, histVars
  <2>. QED BY <2>4, <2>5, <2>6 DEF InPlan
<1>2. CASE EndPhase
  <2>1. st' = [t \in Task |-> "idle"] /\ Current' = {}
        BY <1>2 DEF EndPhase, Current
  <2>2. CurrentIsUpcoming' /\ OkIsCompleted'
        BY <2>1 DEF CurrentIsUpcoming, OkIsCompleted
  <2>3. UNCHANGED <<attempt, resumed, goal, excluded, erred, faulty, cancelled, dir, dropped, completed>>
        BY <1>2 DEF EndPhase, planVars, diskVars, histVars
  <2>4. PhasesAreOrdered' /\ phases' \in Seq(SUBSET Task) /\ run' \in {"running", "failed"}
    <3>1. CASE \E t \in Current : st[t] = "failed"
      <4>1. run' = "failed" /\ phases' = phases
            BY <1>2, <3>1 DEF EndPhase
      <4>. QED BY <2>3, <4>1 DEF InPlan, PlanTyped, PhasesAreOrdered
    <3>2. CASE ~ \E t \in Current : st[t] = "failed"
      <4>1. run' = "running" /\ phases' = [n \in DOMAIN phases |-> phases[n] \ Current]
            BY <1>2, <3>2 DEF EndPhase
      <4>2. Current \subseteq completed
            BY <1>2, <3>2 DEF EndPhase, Ended, InPlan, OkIsCompleted, Current
      <4>3. /\ phases' \in Seq(SUBSET Task) /\ DOMAIN phases' = DOMAIN phases
            /\ \A n \in DOMAIN phases : phases'[n] = phases[n] \ Current
        <5>1. /\ Len(phases) \in Nat /\ DOMAIN phases = 1 .. Len(phases)
              /\ \A n \in 1 .. Len(phases) : phases[n] \in SUBSET Task
              BY DEF InPlan, PlanTyped
        <5>2. phases' = [n \in 1 .. Len(phases) |-> phases[n] \ Current]
              BY <4>1, <5>1
        <5>. QED BY <5>1, <5>2
      <4>4. PhasesAreOrdered'
        <5> SUFFICES ASSUME NEW n \in DOMAIN phases, NEW t \in phases'[n],
                            NEW d \in Dep[t] \ (excluded \cup dropped \cup completed)
                     PROVE  \E m \in DOMAIN phases : m < n /\ d \in phases'[m]
            BY <2>3, <4>3 DEF PhasesAreOrdered
        <5>1. PICK m \in DOMAIN phases : m < n /\ d \in phases[m]
              BY <4>3 DEF InPlan, PhasesAreOrdered
        <5>2. d \notin Current
              BY <4>2
        <5>. QED BY <4>3, <5>1, <5>2
      <4>. QED BY <4>1, <4>3, <4>4
    <3>. QED BY <3>1, <3>2
  <2>5. PlanTyped'
        BY <2>3, <2>4 DEF InPlan, PlanTyped
  <2>. QED BY <2>2, <2>4, <2>5 DEF InPlan
<1>3. CASE Finish
  <2>1. UNCHANGED <<attempt, resumed, goal, excluded, phases, erred, faulty, cancelled, dir, dropped>>
        BY <1>3 DEF Finish, planVars, procVars, diskVars, histVars
  <2>2. run' = "done" /\ UNCHANGED <<st, completed>>
        BY <1>3 DEF Finish, planVars, procVars, diskVars, histVars
  <2>3. PlanTyped'
        BY <2>1, <2>2 DEF InPlan, PlanTyped
  <2>. QED BY <2>1, <2>2, <2>3, QuietInPlan DEF InPlan, OkIsCompleted, Current
<1>. QED BY <1>1, <1>2, <1>3 DEF Engine

LEMMA TaskStepInPlan == ASSUME Typed, InPlan, NEW t \in Task, TaskStep(t) PROVE InPlan'
<1>1. CASE StartTask(t)
  <2>1. UNCHANGED <<run, attempt, resumed, goal, excluded, phases, erred, faulty, cancelled, dropped, completed>>
        BY <1>1 DEF StartTask, planVars, histVars
  <2>2. st[t] = "queued" /\ st' = [st EXCEPT ![t] = "running"] /\ dir' = dir \cup {t}
        BY <1>1 DEF StartTask
  <2>3. PlanTyped'
        BY <2>1, <2>2 DEF InPlan, PlanTyped
  <2>4. Current' = Current /\ \A u \in Task : st'[u] = "ok" => st[u] = "ok"
        BY <2>2 DEF Current, Typed
  <2>. QED BY <2>1, <2>3, <2>4, QuietInPlan DEF InPlan, OkIsCompleted
<1>2. CASE EndTask(t)
  <2>1. UNCHANGED <<run, attempt, resumed, goal, excluded, phases, erred, faulty, dir, dropped>>
        BY <1>2 DEF EndTask, planVars, diskVars
  <2>2. /\ st[t] = "running"
        /\ \/ st' = [st EXCEPT ![t] = "failed"] /\ cancelled' = TRUE /\ completed' = completed
           \/ st' = [st EXCEPT ![t] = "ok"] /\ cancelled' = cancelled /\ completed' = completed \cup {t}
        BY <1>2 DEF EndTask
  <2>3. PlanTyped'
        BY <2>1, <2>2 DEF InPlan, PlanTyped
  <2>4. Current' = Current
        BY <2>2 DEF Current, Typed
  <2>5. \A u \in Task : st'[u] = "ok" => u \in completed'
        BY <2>2 DEF Typed, InPlan, OkIsCompleted
  <2>. QED BY <2>1, <2>2, <2>3, <2>4, <2>5, QuietInPlan
<1>3. CASE ItemStep(t)
  <2>1. PlanTyped
        BY DEF InPlan
  <2>2. PlanTyped' /\ UNCHANGED <<phases, st, excluded, dropped, completed>>
        BY <1>3, <2>1, ItemStepFrame DEF PlanTyped
  <2>. QED BY <2>2, QuietInPlan DEF InPlan, OkIsCompleted, Current
<1>. QED BY <1>1, <1>2, <1>3 DEF TaskStep

LEMMA NextInPlan == Typed /\ InPlan /\ [Next]_vars => InPlan'
<1> SUFFICES ASSUME Typed, InPlan, [Next]_vars PROVE InPlan'
    OBVIOUS
<1>0. PlanTyped
      BY DEF InPlan
<1>1. ASSUME NEW targets \in Goals, NEW out \in Exclusions, StartFresh(targets, out) PROVE InPlan'
      BY <1>0, <1>1, StartFreshInPlan
<1>2. CASE Resume
      BY <1>0, <1>2, ResumeInPlan
<1>3. CASE Interrupt
  <2>1. UNCHANGED <<run, attempt, resumed, goal, excluded, phases, erred, faulty, dir, dropped>>
        BY <1>3 DEF Interrupt, planVars, diskVars, histVars
  <2>2. cancelled' = TRUE /\ UNCHANGED <<st, completed>>
        BY <1>3 DEF Interrupt, histVars
  <2>3. PlanTyped'
        BY <1>0, <2>1, <2>2 DEF PlanTyped
  <2>. QED BY <2>1, <2>2, <2>3, QuietInPlan DEF InPlan, OkIsCompleted, Current
<1>4. CASE Crash
      BY <1>0, <1>4, CrashInPlan
<1>5. CASE Engine
      BY <1>5, EngineInPlan
<1>6. ASSUME NEW t \in Task, TaskStep(t) PROVE InPlan'
      BY <1>6, TaskStepInPlan
<1>7. CASE UNCHANGED vars
  <2>1. UNCHANGED <<run, attempt, resumed, goal, excluded, phases, erred, faulty, cancelled, dir, dropped>>
        BY <1>7 DEF vars, planVars, procVars, diskVars, histVars
  <2>2. UNCHANGED <<st, completed>>
        BY <1>7 DEF vars, procVars, histVars
  <2>3. PlanTyped'
        BY <1>0, <2>1, <2>2 DEF PlanTyped
  <2>. QED BY <2>1, <2>2, <2>3, QuietInPlan DEF InPlan, OkIsCompleted, Current
<1>. QED BY <1>1, <1>2, <1>3, <1>4, <1>5, <1>6, <1>7 DEF Next, Operator

LEMMA AlwaysInPlan == Spec => []InPlan
BY AlwaysTyped, InitInPlan, NextInPlan, PTL DEF Spec

\* A task at work has all it waits for behind it.
LEMMA CurrentIsReady ==
    ASSUME InPlan, NEW t \in Current
    PROVE  Dep[t] \ (excluded \cup dropped) \subseteq completed
<1>1. PICK n \in DOMAIN phases : IsUpcoming(n) /\ t \in phases[n]
      BY DEF InPlan, CurrentIsUpcoming
<1>2. ASSUME NEW d \in Dep[t] \ (excluded \cup dropped), d \notin completed PROVE FALSE
  <2>1. PICK m \in DOMAIN phases : m < n /\ d \in phases[m]
        BY <1>1, <1>2 DEF InPlan, PhasesAreOrdered
  <2>2. DOMAIN phases = 1 .. Len(phases) /\ Len(phases) \in Nat
        BY DEF InPlan, PlanTyped
  <2>3. m \in 1 .. n - 1
        BY <2>1, <2>2
  <2>. QED BY <1>1, <2>1, <2>3 DEF IsUpcoming
<1>. QED BY <1>2

(***************************************************************************)
(* For every registry, plan, filter and schedule a task starts with all it *)
(* depends on behind it, and the rows it then reads are true (the phases   *)
(* of PlanPhasesExcluding, the resume's filterCompleted).                  *)
(***************************************************************************)
THEOREM TasksFindWhatTheyNeed == Spec => []EngineInv
<1>1. Typed /\ InPlan /\ Owned => EngineInv
  <2> SUFFICES ASSUME Typed, InPlan, Owned PROVE EngineInv
      OBVIOUS
  <2>1. TypeOK
        BY DEF Typed, InPlan, PlanTyped, TypeOK
  <2>2. DependenciesFirst
        BY CurrentIsReady DEF DependenciesFirst, Current
  <2>. QED BY <2>1, <2>2 DEF Owned, EngineInv
<1>. QED BY <1>1, AlwaysTyped, AlwaysInPlan, AlwaysOwned, PTL
-----------------------------------------------------------------------------
(* What a clean attempt has done *)

\* The present directory has seen one attempt, and that one no failure so far.
Clean == ~resumed /\ faulty = {} /\ run \in {"running", "done"}

\* The filter left out nothing a task rests on.
Intact(t) == Needed({t}, {}) \cap excluded = {}

Did(t, i)    == IF t \in Applier THEN <<t, i>> \in applied ELSE \E r \in files[t] : r.item = i
InHand(t, i) == i \in todo[t] \/ \E j \in job[t] : j.item = i

AtRest == run # "running" => Current = {}

\* Every task needed is still in the plan or has ended well, after all it
\* depends on.
NothingLeftOut ==
    ~resumed =>
        /\ dropped = {}
        /\ \A t \in completed : Dep[t] \ excluded \subseteq completed
        /\ run = "running" => Needed(goal, excluded) \subseteq completed \cup Scheduled(phases)
        /\ run = "done" => Needed(goal, excluded) \subseteq completed

GoodRow(t, r) == r.ok /\ (t \in Applier => <<t, r.item>> \in applied)
GoodJob(t, j) == j.stage # "admitted" => j.ok /\ (t \in Applier => <<t, j.item>> \in applied)

\* What was written, and what is about to be, went well.
AllWentWell ==
    Clean => \A t \in Task : (\A r \in files[t] : GoodRow(t, r)) /\ (\A j \in job[t] : GoodJob(t, j))

\* No item is lost on its way through a task: at work, it is in hand or done,
\* and behind it, done.
Covered ==
    Clean => \A t \in Task : Intact(t) =>
        /\ st[t] = "running" /\ t \notin erred => \A i \in Item : InHand(t, i) \/ Did(t, i)
        /\ t \in completed => \A i \in Item : Did(t, i)

Whole == AtRest /\ NothingLeftOut /\ AllWentWell /\ Covered

\* Of the rows of an item the last is the one that counts; when all went well
\* any row will do.
LEMMA GoodRowsAreUsable ==
    ASSUME NEW entries \in SUBSET Row, IsFiniteSet(entries), \A r \in entries : r.ok,
           NEW i, \E r \in entries : r.item = i
    PROVE  Usable(entries, i)
<1> DEFINE itsRows == {r \in entries : r.item = i}
           chunks == {r.chunk : r \in itsRows}
<1>1. itsRows \in SUBSET entries /\ IsFiniteSet(itsRows) /\ itsRows # {}
      BY FS_Subset
<1>2. chunks \in SUBSET Int /\ chunks # {}
      BY <1>1 DEF Row
<1>3. IsFiniteSet(chunks)
  <2> DEFINE chunkOf == [r \in itsRows |-> r.chunk]
  <2>1. chunkOf \in Surjection(itsRows, chunks)
        BY DEF Surjection
  <2> HIDE DEF chunkOf, chunks, itsRows
  <2>. QED BY <1>1, <2>1, FS_Surjection
<1>4. PICK n \in chunks : \A m \in chunks : m =< n
  <2> HIDE DEF chunks
  <2>. QED BY <1>2, <1>3, GreatestElement
<1>5. PICK r \in itsRows : r.chunk = n
      BY <1>4
<1>6. IsLast(entries, r)
      BY <1>4, <1>5 DEF IsLast
<1>. QED BY <1>5, <1>6 DEF Usable

\* A task rests on the one it reads, and on all that one rests on.
LEMMA SourceIsNeeded ==
    ASSUME NEW t \in Task, Source[t] # NoTask
    PROVE  Source[t] \in Needed({t}, {}) /\ Needed({Source[t]}, {}) \subseteq Needed({t}, {})
<1> DEFINE all == Needed({t}, {})
<1>1. all \in SUBSET Task /\ Resolved(all, {t}, {})
      BY NeededIsResolved
<1> HIDE DEF all
<1>2. t \in all /\ UNION {Dep[u] : u \in all} \subseteq all
      BY <1>1 DEF Resolved
<1>3. Dep[t] \cup UNION {Dep[u] : u \in all} \subseteq all
      BY <1>2
<1>4. Source[t] \in all
      BY <1>1, <1>3, SourceAssumption
<1>5. Resolved(all, {Source[t]}, {})
      BY <1>2, <1>4 DEF Resolved
<1>6. Needed({Source[t]}, {}) \subseteq all
      BY <1>1, <1>5 DEF Needed
<1>. QED BY <1>4, <1>6 DEF all

LEMMA IntactSource ==
    ASSUME NEW t \in Task, Source[t] # NoTask, Intact(t) PROVE Source[t] \in Task /\ Intact(Source[t])
BY SourceIsNeeded, TaskAssumption DEF Intact

\* The task it reads has ended before a task starts.
LEMMA SourceIsCompleted ==
    ASSUME InPlan, NothingLeftOut, ~resumed, NEW t \in Current, Intact(t), Source[t] # NoTask
    PROVE  Source[t] \in completed
<1> DEFINE all == Needed({t}, {})
           past == completed \cap all
<1>1. t \in Task /\ all \in SUBSET Task /\ Resolved(all, {t}, {})
      BY NeededIsResolved DEF Current
<1>2. all \cap excluded = {}
      BY DEF Intact
<1> HIDE DEF all
<1>3. t \in all /\ \A u \in all : Dep[u] \subseteq all
      BY <1>1 DEF Resolved
<1>4. Dep[t] \subseteq completed
  <2>1. Dep[t] \ (excluded \cup dropped) \subseteq completed /\ dropped = {}
        BY CurrentIsReady DEF NothingLeftOut
  <2>. QED BY <1>2, <1>3, <2>1
<1>5. \A u \in past : Dep[u] \subseteq past
      BY <1>2, <1>3 DEF NothingLeftOut
<1>6. past \in SUBSET Task /\ Dep[t] \cup UNION {Dep[u] : u \in past} \subseteq past
      BY <1>1, <1>3, <1>4, <1>5
<1>7. Source[t] \in past
  <2> HIDE DEF past
  <2>. QED BY <1>1, <1>6, SourceAssumption
<1>. QED BY <1>7

\* Every item has a usable row for the tasks behind a clean one.
LEMMA SourceIsWhole ==
    ASSUME Typed, InPlan, Whole, Clean, NEW t \in Current, Intact(t), Source[t] # NoTask
    PROVE  \A i \in Item : /\ \E r \in files[Source[t]] : r.item = i
                           /\ Usable(files[Source[t]], i)
<1> DEFINE s == Source[t]
<1>1. t \in Task /\ s \in Task /\ Intact(s) /\ s \in completed
      BY IntactSource, SourceIsCompleted DEF Current, Whole, Clean
<1>2. s \notin Applier
      BY <1>1, TaskAssumption DEF Applier, Loader
<1>3. \A i \in Item : \E r \in files[s] : r.item = i
      BY <1>1, <1>2 DEF Whole, Covered, Did
<1>4. files[s] \in SUBSET Row /\ IsFiniteSet(files[s]) /\ \A r \in files[s] : r.ok
      BY <1>1 DEF Typed, Whole, AllWentWell, GoodRow
<1> HIDE DEF s
<1>5. \A i \in Item : Usable(files[s], i)
      BY <1>3, <1>4, GoodRowsAreUsable
<1>. QED BY <1>3, <1>5 DEF s

\* A step on the items of one task adds to what is written and done, and what
\* it adds went well; an item it takes out of hand is done.
LEMMA WorkKeepsWhole ==
    ASSUME Typed, Whole, NEW t \in Task,
           UNCHANGED <<run, resumed, goal, excluded, phases, st, dropped, completed>>,
           faulty \subseteq faulty', erred \subseteq erred',
           \A u \in Task \ {t} : todo'[u] = todo[u] /\ job'[u] = job[u] /\ files'[u] = files[u],
           files[t] \subseteq files'[t], applied \subseteq applied',
           Clean' => \A r \in files'[t] \ files[t] : GoodRow(t, r)',
           Clean' => \A j \in job'[t] \ job[t] : GoodJob(t, j)',
           Clean /\ Intact(t) /\ st[t] = "running" /\ faulty' = {} /\ t \notin erred' =>
               \A i \in Item : InHand(t, i) => InHand(t, i)' \/ Did(t, i)'
    PROVE  Whole'
<1>1. AtRest' /\ NothingLeftOut'
      BY DEF Whole, AtRest, NothingLeftOut, Current
<1>2. Clean' => Clean /\ faulty' = {}
      BY DEF Clean
<1>3. \A u \in Task : Intact(u)' = Intact(u)
      BY DEF Intact
<1>4. \A u \in Task, i \in Item : Did(u, i) => Did(u, i)'
      BY DEF Did
<1>5. AllWentWell'
  <2> SUFFICES ASSUME Clean', NEW u \in Task
               PROVE  (\A r \in files'[u] : GoodRow(u, r)') /\ (\A j \in job'[u] : GoodJob(u, j)')
      BY DEF AllWentWell
  <2>1. (\A r \in files[u] : GoodRow(u, r)) /\ (\A j \in job[u] : GoodJob(u, j))
        BY <1>2 DEF Whole, AllWentWell
  <2>2. (\A r \in files[u] : GoodRow(u, r)') /\ (\A j \in job[u] : GoodJob(u, j)')
        BY <2>1 DEF GoodRow, GoodJob
  <2>. QED BY <2>2
<1>6. Covered'
  <2> SUFFICES ASSUME Clean', NEW u \in Task, Intact(u)
               PROVE  /\ st[u] = "running" /\ u \notin erred' =>
                             \A i \in Item : InHand(u, i)' \/ Did(u, i)'
                      /\ u \in completed => \A i \in Item : Did(u, i)'
      BY <1>3 DEF Covered
  <2>1. u \in completed => \A i \in Item : Did(u, i)'
        BY <1>2, <1>4 DEF Whole, Covered
  <2>2. ASSUME st[u] = "running", u \notin erred', NEW i \in Item PROVE InHand(u, i)' \/ Did(u, i)'
    <3>1. InHand(u, i) \/ Did(u, i)
          BY <1>2, <2>2 DEF Whole, Covered
    <3>2. u # t => (InHand(u, i)' <=> InHand(u, i))
          BY DEF InHand
    <3>. QED BY <1>2, <1>4, <2>2, <3>1, <3>2
  <2>. QED BY <2>1, <2>2
<1>. QED BY <1>1, <1>5, <1>6 DEF Whole

\* An item that leaves unfinished leaves a failure or an error behind.
LEMMA DropKeepsWhole ==
    ASSUME Typed, Whole, NEW t \in Task, NEW j \in job[t], Drop(t, j),
           UNCHANGED <<run, resumed, goal, excluded, phases, st, dropped, completed>>,
           UNCHANGED <<todo, files>>, applied \subseteq applied',
           faulty \subseteq faulty', erred \subseteq erred',
           \/ t \in faulty' \/ t \in erred'
           \/ Clean /\ Intact(t) => Did(t, j.item)'
    PROVE  Whole'
<1>1. job'[t] = job[t] \ {j} /\ \A u \in Task \ {t} : job'[u] = job[u]
      BY DEF Drop, Typed
<1>2. \A i \in Item : InHand(t, i) => InHand(t, i)' \/ i = j.item
      BY <1>1 DEF InHand
<1>3. Clean /\ Intact(t) /\ st[t] = "running" /\ faulty' = {} /\ t \notin erred' =>
          \A i \in Item : InHand(t, i) => InHand(t, i)' \/ Did(t, i)'
      BY <1>2
<1>. QED BY <1>1, <1>3, WorkKeepsWhole

LEMMA AdvanceKeepsWhole ==
    ASSUME Typed, Whole, NEW t \in Task, NEW j \in job[t], NEW new, Advance(t, j, new),
           new.item = j.item,
           UNCHANGED <<run, resumed, goal, excluded, phases, st, dropped, completed>>,
           UNCHANGED <<todo, files, erred>>, applied \subseteq applied', faulty \subseteq faulty',
           Clean' => GoodJob(t, new)'
    PROVE  Whole'
<1>1. job'[t] = (job[t] \ {j}) \cup {new} /\ \A u \in Task \ {t} : job'[u] = job[u]
      BY DEF Advance, Typed
<1>2. \A i \in Item : InHand(t, i) => InHand(t, i)'
      BY <1>1 DEF InHand
<1>. QED BY <1>1, <1>2, WorkKeepsWhole

LEMMA OutcomeKeepsWhole ==
    ASSUME Typed, Whole, NEW t \in Applier, NEW j \in job[t], NEW good \in BOOLEAN,
           Outcome(t, j, good),
           UNCHANGED <<run, resumed, goal, excluded, phases, st, dropped, completed>>,
           UNCHANGED <<todo, files, erred>>, applied \subseteq applied', faulty \subseteq faulty',
           \/ good = TRUE /\ <<t, j.item>> \in applied'
           \/ t \in faulty'
    PROVE  Whole'
<1>1. t \in Task /\ j \in Job
      BY DEF Applier, Typed
<1>2. CASE t \in Reentrant
  <2> DEFINE new == [j EXCEPT !.stage = "write", !.ok = good]
  <2>1. Advance(t, j, new)
        BY <1>2 DEF Outcome
  <2>2. new.item = j.item /\ new.ok = good
        BY <1>1 DEF Job
  <2> HIDE DEF new
  <2>3. Clean' => GoodJob(t, new)'
        BY <1>1, <2>2 DEF Clean, GoodJob
  <2>. QED BY <1>1, <2>1, <2>2, <2>3, AdvanceKeepsWhole
<1>3. CASE t \notin Reentrant
  <2>1. Drop(t, j)
        BY <1>3 DEF Outcome
  <2>2. t \in faulty' \/ Did(t, j.item)'
        BY DEF Did
  <2>. QED BY <1>1, <2>1, <2>2, DropKeepsWhole
<1>. QED BY <1>2, <1>3

\* A line of the mapping becomes a row.
LEMMA LoadLineWhole ==
    ASSUME Typed, Whole, NEW t \in Task, NEW i \in Item, LoadLine(t, i) PROVE Whole'
<1>1. /\ UNCHANGED <<run, resumed, goal, excluded, phases, st, dropped, completed>>
      /\ UNCHANGED <<job, erred, faulty, applied>>
      BY DEF LoadLine, planVars, histVars
<1>2. /\ todo'[t] = todo[t] \ {i}
      /\ \A u \in Task \ {t} : todo'[u] = todo[u] /\ files'[u] = files[u]
      BY DEF LoadLine, Typed
<1>3. t \notin Applier
      BY DEF LoadLine, Applier
<1>4. PICK line : line.item = i /\ line.ok /\ files'[t] = files[t] \cup {line}
  <2> DEFINE entry == [chunk |-> NextIndex(t), item |-> i, ok |-> TRUE, attempt |-> attempt]
  <2>1. entry.item = i /\ entry.ok /\ files'[t] = files[t] \cup {entry}
        BY DEF LoadLine, Typed
  <2> HIDE DEF entry
  <2>. QED BY <2>1
<1>5. GoodRow(t, line)'
      BY <1>3, <1>4 DEF GoodRow
<1>6. Did(t, i)'
      BY <1>3, <1>4 DEF Did
<1>7. \A k \in Item : InHand(t, k) => InHand(t, k)' \/ k = i
      BY <1>1, <1>2 DEF InHand
<1>. QED BY <1>1, <1>2, <1>4, <1>5, <1>6, <1>7, WorkKeepsWhole

\* An item admitted stays in hand.
LEMMA AdmitWhole ==
    ASSUME Typed, Whole, NEW t \in Task, NEW i \in Item, Admit(t, i) PROVE Whole'
<1>1. /\ UNCHANGED <<run, resumed, goal, excluded, phases, st, dropped, completed>>
      /\ UNCHANGED <<files, erred, faulty, applied>>
      BY DEF Admit, planVars, diskVars, histVars
<1>2. PICK new : /\ new.item = i /\ new.stage = "admitted"
                 /\ job'[t] = job[t] \cup {new}
  <2> DEFINE begun == [item |-> i, stage |-> "admitted", ok |-> FALSE, chunk |-> 0]
  <2>1. /\ begun.item = i /\ begun.stage = "admitted"
        /\ job'[t] = job[t] \cup {begun}
        BY DEF Admit, Typed
  <2> HIDE DEF begun
  <2>. QED BY <2>1
<1>3. /\ todo'[t] = todo[t] \ {i} /\ GoodJob(t, new)'
      /\ \A u \in Task \ {t} : todo'[u] = todo[u] /\ job'[u] = job[u]
      BY <1>2 DEF Admit, Typed, GoodJob
<1>4. \A k \in Item : InHand(t, k) => InHand(t, k)'
      BY <1>2, <1>3 DEF InHand
<1>. QED BY <1>1, <1>2, <1>3, <1>4, WorkKeepsWhole

LEMMA CreateWhole ==
    ASSUME Typed, Whole, NEW t \in Task, NEW j \in job[t], Create(t, j) PROVE Whole'
<1>1. /\ UNCHANGED <<run, resumed, goal, excluded, phases, st, dropped, completed>>
      /\ UNCHANGED <<todo, files, erred, applied>>
      /\ faulty' = IF MayRecord(j.item) THEN faulty ELSE faulty \cup {t}
      /\ t \in Creator
      BY DEF Create, planVars, diskVars, histVars
<1>2. j \in Job /\ MayRecord(j.item) \in BOOLEAN /\ t \notin Applier
      BY <1>1 DEF Typed, MayRecord, Applier
<1>3. PICK new : new.item = j.item /\ new.ok = MayRecord(j.item) /\ Advance(t, j, new)
  <2> DEFINE ending == [j EXCEPT !.stage = "write", !.ok = MayRecord(j.item)]
  <2>1. ending.item = j.item /\ ending.ok = MayRecord(j.item) /\ Advance(t, j, ending)
        BY <1>2 DEF Job, Create
  <2> HIDE DEF ending
  <2>. QED BY <2>1
<1>4. Clean' => GoodJob(t, new)'
      BY <1>1, <1>2, <1>3 DEF Clean, GoodJob
<1>. QED BY <1>1, <1>3, <1>4, AdvanceKeepsWhole

\* What it passes over it did before: the task it reads left no failure behind.
LEMMA PassOverWhole ==
    ASSUME Typed, InPlan, Chunked, Whole, NEW t \in Task, NEW j \in job[t], PassOver(t, j)
    PROVE  Whole'
<1>1. /\ UNCHANGED <<run, resumed, goal, excluded, phases, st, dropped, completed>>
      /\ UNCHANGED <<todo, files, erred, faulty, applied>>
      /\ t \in Applier /\ Drop(t, j)
      BY DEF PassOver, planVars, diskVars, histVars
<1>2. t \in Current /\ Source[t] # NoTask /\ j.item \in Item
      BY <1>1, InFlight DEF Current, Applier, Loader, Typed, Job
<1>3. ASSUME Clean, Intact(t) PROVE Did(t, j.item)'
  <2>1. Usable(files[t], j.item)
        BY <1>2, <1>3, SourceIsWhole DEF PassOver
  <2>2. PICK r \in files[t] : r.item = j.item
        BY <2>1 DEF Usable
  <2>3. <<t, j.item>> \in applied
        BY <1>1, <1>3, <2>2 DEF Whole, AllWentWell, GoodRow
  <2>. QED BY <1>1, <2>3 DEF Did
<1>. QED BY <1>1, <1>3, DropKeepsWhole

LEMMA WriteRowWhole ==
    ASSUME Typed, Chunked, Whole, NEW t \in Task, NEW j \in job[t], WriteRow(t, j) PROVE Whole'
<1>1. /\ UNCHANGED <<run, resumed, goal, excluded, phases, st, dropped, completed>>
      /\ UNCHANGED <<todo, erred, faulty, applied>>
      BY DEF WriteRow, planVars, histVars
<1>2. PICK entry : /\ entry.item = j.item /\ entry.ok = j.ok
                   /\ files' = [files EXCEPT ![t] = files[t] \cup {entry}]
      BY WriteRowAdds
<1>3. /\ files'[t] = files[t] \cup {entry} /\ job'[t] = job[t] \ {j}
      /\ \A u \in Task \ {t} : job'[u] = job[u] /\ files'[u] = files[u]
      BY <1>2 DEF WriteRow, Drop, Typed
<1>4. Clean => j.ok /\ (t \in Applier => <<t, j.item>> \in applied)
  <2>1. j.stage # "admitted"
        BY DEF WriteRow
  <2>. QED BY <2>1 DEF Whole, AllWentWell, GoodJob
<1>5. Clean => GoodRow(t, entry)' /\ Did(t, j.item)'
      BY <1>1, <1>2, <1>3, <1>4 DEF GoodRow, Did
<1>6. Clean' => Clean
      BY <1>1 DEF Clean
<1>7. \A i \in Item : InHand(t, i) => InHand(t, i)' \/ i = j.item
      BY <1>1, <1>3 DEF InHand
<1>. QED BY <1>1, <1>3, <1>5, <1>6, <1>7, WorkKeepsWhole

LEMMA ItemStepWhole ==
    ASSUME Typed, InPlan, Chunked, Whole, NEW t \in Task, ItemStep(t) PROVE Whole'
<1> USE DEF planVars, diskVars, histVars
<1>1. ASSUME NEW i \in Item, LoadLine(t, i) \/ Admit(t, i) PROVE Whole'
      BY <1>1, LoadLineWhole, AdmitWhole
<1>2. CASE StopAdmitting(t)
  <2>1. /\ UNCHANGED <<run, resumed, goal, excluded, phases, st, dropped, completed>>
        /\ UNCHANGED <<job, files, faulty, applied>>
        /\ erred' = erred \cup {t}
        BY <1>2 DEF StopAdmitting, LoopErrors
  <2>2. \A u \in Task \ {t} : todo'[u] = todo[u]
        BY <1>2 DEF StopAdmitting, Typed
  <2>. QED BY <2>1, <2>2, WorkKeepsWhole
<1>3. ASSUME NEW j \in job[t], Create(t, j) \/ WriteRow(t, j) \/ PassOver(t, j) PROVE Whole'
      BY <1>3, CreateWhole, WriteRowWhole, PassOverWhole
<1>4. ASSUME NEW j \in job[t], CreateFails(t, j) PROVE Whole'
      BY <1>4, DropKeepsWhole DEF CreateFails
<1>5. ASSUME NEW j \in job[t], GiveUp(t, j) \/ WriteFails(t, j) PROVE Whole'
      BY <1>5, DropKeepsWhole DEF GiveUp, WriteFails, Drop
<1>6. ASSUME NEW j \in job[t], Apply(t, j) PROVE Whole'
      BY <1>6, OutcomeKeepsWhole DEF Apply
<1>7. ASSUME NEW j \in job[t], ApplyFails(t, j) PROVE Whole'
      BY <1>7, OutcomeKeepsWhole DEF ApplyFails
<1>8. ASSUME NEW j \in job[t], TakeIndex(t, j) PROVE Whole'
  <2>1. /\ UNCHANGED <<run, resumed, goal, excluded, phases, st, dropped, completed>>
        /\ UNCHANGED <<todo, files, erred, faulty, applied>>
        /\ j.stage = "write"
        BY <1>8 DEF TakeIndex
  <2>2. PICK new : Advance(t, j, new) /\ new.item = j.item /\ new.ok = j.ok
    <3> DEFINE moved == [j EXCEPT !.stage = "indexed", !.chunk = NextIndex(t)]
    <3>1. Advance(t, j, moved) /\ moved.item = j.item /\ moved.ok = j.ok
          BY <1>8 DEF TakeIndex, Typed, Job
    <3> HIDE DEF moved
    <3>. QED BY <3>1
  <2>3. Clean => GoodJob(t, j)
        BY DEF Whole, AllWentWell
  <2>4. Clean' => GoodJob(t, new)'
        BY <2>1, <2>2, <2>3 DEF Clean, GoodJob
  <2>. QED BY <2>1, <2>2, <2>4, AdvanceKeepsWhole
<1>. QED BY <1>1, <1>2, <1>3, <1>4, <1>5, <1>6, <1>7, <1>8 DEF ItemStep

-----------------------------------------------------------------------------
(* The steps of the engine *)

\* What is written and done stays, and no task comes to work.
LEMMA QuietWhole ==
    ASSUME Whole, UNCHANGED <<resumed, goal, excluded, dropped, completed, todo, job, files, applied>>,
           UNCHANGED <<erred, faulty>>,
           run' = run, phases' = phases, Current' = Current,
           \A t \in Task : st'[t] = "running" => st[t] = "running"
    PROVE  Whole'
<1>1. AtRest' /\ NothingLeftOut'
      BY DEF Whole, AtRest, NothingLeftOut
<1>2. AllWentWell'
      BY DEF Whole, AllWentWell, Clean, GoodRow, GoodJob
<1>3. Covered'
      BY DEF Whole, Covered, Clean, Intact, InHand, Did
<1>. QED BY <1>1, <1>2, <1>3 DEF Whole

\* A task that starts has every item in hand.
LEMMA StartTaskWhole ==
    ASSUME Typed, InPlan, Chunked, Whole, NEW t \in Task, StartTask(t) PROVE Whole'
<1>1. /\ UNCHANGED <<run, resumed, goal, excluded, phases, dropped, completed>>
      /\ UNCHANGED <<job, erred, faulty, files, applied>>
      BY DEF StartTask, planVars, histVars
<1>2. /\ st[t] = "queued" /\ st'[t] = "running" /\ todo'[t] = Input(t)
      /\ \A u \in Task \ {t} : st'[u] = st[u] /\ todo'[u] = todo[u]
      BY DEF StartTask, Typed
<1>3. t \in Current /\ Current' = Current
      BY <1>2 DEF Current
<1>4. AtRest' /\ NothingLeftOut'
      BY <1>1, <1>3 DEF Whole, AtRest, NothingLeftOut
<1>5. AllWentWell'
      BY <1>1 DEF Whole, AllWentWell, Clean, GoodRow, GoodJob
<1>6. Clean' = Clean /\ \A u \in Task : /\ Intact(u)' = Intact(u)
                                        /\ \A i \in Item : Did(u, i)' = Did(u, i)
      BY <1>1 DEF Clean, Intact, Did
<1>7. ASSUME Clean, Intact(t), NEW i \in Item PROVE InHand(t, i)'
  <2>1. CASE t \in Loader
        BY <1>2, <2>1 DEF Input, InHand
  <2>2. CASE t \notin Loader
    <3>1. \E r \in files[Source[t]] : r.item = i
          BY <1>3, <1>7, <2>2, SourceIsWhole DEF Loader
    <3>. QED BY <1>2, <2>2, <3>1 DEF Input, InHand
  <2>. QED BY <2>1, <2>2
<1>8. Covered'
  <2> SUFFICES ASSUME Clean, NEW u \in Task, Intact(u), NEW i \in Item
               PROVE  /\ st'[u] = "running" /\ u \notin erred => InHand(u, i)' \/ Did(u, i)
                      /\ u \in completed => Did(u, i)
      BY <1>1, <1>6 DEF Covered
  <2>1. CASE u = t
        BY <1>7, <2>1 DEF Whole, Covered
  <2>2. CASE u # t
        BY <1>1, <1>2, <2>2 DEF Whole, Covered, InHand
  <2>. QED BY <2>1, <2>2
<1>. QED BY <1>4, <1>5, <1>8 DEF Whole

\* A task that ends well has nothing in hand.
LEMMA EndTaskWhole ==
    ASSUME Typed, InPlan, Whole, NEW t \in Task, EndTask(t) PROVE Whole'
<1>1. /\ UNCHANGED <<run, resumed, goal, excluded, phases, dropped>>
      /\ UNCHANGED <<todo, job, erred, faulty, files, applied>>
      BY DEF EndTask, planVars, diskVars
<1>2. /\ st[t] = "running" /\ st'[t] # "running" /\ st'[t] # "idle"
      /\ \A u \in Task \ {t} : st'[u] = st[u]
      /\ todo[t] = {} /\ job[t] = {}
      /\ completed' = completed \/ (t \notin erred /\ completed' = completed \cup {t})
      BY DEF EndTask, Typed
<1>3. t \in Current /\ Current' = Current
      BY <1>2 DEF Current
<1>4. NothingLeftOut'
  <2>1. Dep[t] \ (excluded \cup dropped) \subseteq completed
        BY <1>3, CurrentIsReady
  <2>. QED BY <1>1, <1>2, <2>1 DEF Whole, NothingLeftOut
<1>5. AllWentWell'
      BY <1>1 DEF Whole, AllWentWell, Clean, GoodRow, GoodJob
<1>6. Clean' = Clean /\ \A u \in Task : /\ Intact(u)' = Intact(u)
                                        /\ \A i \in Item : Did(u, i)' = Did(u, i)
                                        /\ \A i \in Item : InHand(u, i)' = InHand(u, i)
      BY <1>1 DEF Clean, Intact, Did, InHand
<1>7. Covered'
  <2> SUFFICES ASSUME Clean, NEW u \in Task, Intact(u), NEW i \in Item
               PROVE  /\ st'[u] = "running" /\ u \notin erred => InHand(u, i) \/ Did(u, i)
                      /\ u \in completed' => Did(u, i)
      BY <1>1, <1>6 DEF Covered
  <2>1. ~InHand(t, i)
        BY <1>2 DEF InHand
  <2>. QED BY <1>2, <2>1 DEF Whole, Covered
<1>8. AtRest'
      BY <1>1, <1>3 DEF Whole, AtRest
<1>. QED BY <1>4, <1>5, <1>7, <1>8 DEF Whole

LEMMA EngineWhole == ASSUME Typed, InPlan, Whole, Engine PROVE Whole'
<1> USE DEF planVars, procVars, diskVars, histVars
<1>1. CASE BeginPhase
  <2>1. /\ UNCHANGED <<run, resumed, goal, excluded, phases, dropped, completed>>
        /\ UNCHANGED <<todo, job, erred, faulty, files, applied>>
        /\ run = "running" /\ \A t \in Task : st'[t] # "running"
        BY <1>1 DEF BeginPhase
  <2>2. AtRest' /\ NothingLeftOut'
        BY <2>1 DEF Whole, AtRest, NothingLeftOut
  <2>3. AllWentWell'
        BY <2>1 DEF Whole, AllWentWell, Clean, GoodRow, GoodJob
  <2>4. Covered'
        BY <2>1 DEF Whole, Covered, Clean, Intact, Did
  <2>. QED BY <2>2, <2>3, <2>4 DEF Whole
<1>2. CASE EndPhase
  <2>1. /\ UNCHANGED <<resumed, goal, excluded, dropped, completed>>
        /\ UNCHANGED <<todo, job, erred, faulty, files, applied>>
        /\ run = "running" /\ st' = [t \in Task |-> "idle"]
        BY <1>2 DEF EndPhase
  <2>2. AtRest'
        BY <2>1 DEF AtRest, Current
  <2>3. Clean' => Clean
        BY <2>1 DEF Clean
  <2>4. AllWentWell'
        BY <2>1, <2>3 DEF Whole, AllWentWell, GoodRow, GoodJob
  <2>5. Covered'
        BY <2>1, <2>3 DEF Whole, Covered, Intact, Did
  <2>6. NothingLeftOut'
    <3>1. CASE \E t \in Current : st[t] = "failed"
      <4>1. run' = "failed"
            BY <1>2, <3>1 DEF EndPhase
      <4>. QED BY <2>1, <4>1 DEF Whole, NothingLeftOut
    <3>2. CASE ~ \E t \in Current : st[t] = "failed"
      <4>1. run' = "running" /\ phases' = [n \in DOMAIN phases |-> phases[n] \ Current]
            BY <1>2, <3>2 DEF EndPhase
      <4>2. Current \subseteq completed
            BY <1>2, <3>2 DEF EndPhase, Ended, InPlan, OkIsCompleted, Current
      <4>3. Scheduled(phases) \subseteq Scheduled(phases') \cup Current
            BY <4>1 DEF Scheduled
      <4>. QED BY <2>1, <4>1, <4>2, <4>3 DEF Whole, NothingLeftOut
    <3>. QED BY <3>1, <3>2
  <2>. QED BY <2>2, <2>4, <2>5, <2>6 DEF Whole
<1>3. CASE Finish
  <2>1. /\ UNCHANGED <<resumed, goal, excluded, phases, dropped, completed>>
        /\ UNCHANGED <<st, todo, job, erred, faulty, files, applied>>
        /\ run = "running" /\ run' = "done" /\ Current = {} /\ Scheduled(phases) = {}
        BY <1>3 DEF Finish
  <2>2. AtRest' /\ NothingLeftOut'
        BY <2>1 DEF Whole, AtRest, NothingLeftOut, Current
  <2>3. Clean' => Clean
        BY <2>1 DEF Clean
  <2>4. AllWentWell'
        BY <2>1, <2>3 DEF Whole, AllWentWell, GoodRow, GoodJob
  <2>5. Covered'
        BY <2>1, <2>3 DEF Whole, Covered, Intact, Did, InHand
  <2>. QED BY <2>2, <2>4, <2>5 DEF Whole
<1>. QED BY <1>1, <1>2, <1>3 DEF Engine

\* A process that starts, or ends, is at rest; and only an empty directory counts
\* as clean.
LEMMA NewProcessWhole ==
    ASSUME NewProcess, NothingLeftOut',
           \/ run' = "crashed"
           \/ resumed'
           \/ files' = [t \in Task |-> {}] /\ completed' = {}
    PROVE  Whole'
<1>1. st' = [t \in Task |-> "idle"] /\ job' = [t \in Task |-> {}]
      BY DEF NewProcess
<1>2. AtRest'
      BY <1>1 DEF AtRest, Current
<1>3. AllWentWell'
      BY <1>1 DEF AllWentWell, Clean
<1>4. Covered'
      BY <1>1 DEF Covered, Clean
<1>. QED BY <1>2, <1>3, <1>4 DEF Whole

LEMMA NextWhole == Typed /\ InPlan /\ Chunked /\ Whole /\ [Next]_vars => Whole'
<1> SUFFICES ASSUME Typed, InPlan, Chunked, Whole, [Next]_vars PROVE Whole'
    OBVIOUS
<1> USE DEF planVars, procVars, diskVars, histVars
<1>1. ASSUME NEW targets \in Goals, NEW out \in Exclusions, StartFresh(targets, out) PROVE Whole'
  <2>1. NewProcess /\ files' = [t \in Task |-> {}] /\ completed' = {} /\ dropped' = {}
        BY <1>1 DEF StartFresh
  <2>2. NothingLeftOut'
    <3>1. CASE Plannable(targets, out)
      <4>1. /\ run' = "running" /\ phases' = Plan(targets, out)
            /\ goal' = targets /\ excluded' = out
            BY <1>1, <3>1 DEF StartFresh
      <4>2. Scheduled(Plan(targets, out)) = Needed(targets, out)
            BY <3>1 DEF Plannable
      <4>. QED BY <2>1, <4>1, <4>2 DEF NothingLeftOut
    <3>2. CASE ~Plannable(targets, out)
      <4>1. run' = "failed"
            BY <1>1, <3>2 DEF StartFresh
      <4>. QED BY <2>1, <4>1 DEF NothingLeftOut
    <3>. QED BY <3>1, <3>2
  <2>. QED BY <2>1, <2>2, NewProcessWhole
<1>2. CASE Resume
  <2>1. NewProcess /\ resumed'
        BY <1>2 DEF Resume
  <2>. QED BY <2>1, NewProcessWhole DEF NothingLeftOut
<1>3. CASE Crash
  <2>1. /\ NewProcess /\ run' = "crashed"
        /\ UNCHANGED <<resumed, excluded, dropped, completed>>
        BY <1>3 DEF Crash
  <2>2. NothingLeftOut'
        BY <2>1 DEF Whole, NothingLeftOut
  <2>. QED BY <2>1, <2>2, NewProcessWhole
<1>4. CASE Interrupt \/ UNCHANGED vars
      BY <1>4, QuietWhole DEF Interrupt, vars, Current
<1>5. CASE Engine
      BY <1>5, EngineWhole
<1>6. ASSUME NEW t \in Task, TaskStep(t) PROVE Whole'
      BY <1>6, StartTaskWhole, ItemStepWhole, EndTaskWhole DEF TaskStep
<1>. QED BY <1>1, <1>2, <1>3, <1>4, <1>5, <1>6 DEF Next, Operator

LEMMA InitWhole == Init => Whole
BY DEF Init, NoProcess, Whole, AtRest, Current, NothingLeftOut, AllWentWell, Covered, Clean

LEMMA AlwaysWhole == Spec => []Whole
BY AlwaysTyped, AlwaysInPlan, AlwaysChunked, InitWhole, NextWhole, PTL DEF Spec

(***************************************************************************)
(* For every registry, filter, schedule and mix of errors: a fresh attempt *)
(* that ends done with no failure counted has carried every item through   *)
(* every task that rests on nothing left out (forEachMigrateItemImpl's     *)
(* error returns, runPhase's, and the counters migrate reports by).        *)
(***************************************************************************)
THEOREM CleanRunsAreWhole == Spec => []CleanRunIsWhole
<1>1. Whole => CleanRunIsWhole
  <2> SUFFICES ASSUME Whole, run = "done", ~resumed, faulty = {},
                      NEW t \in Applier \cap Needed(goal, excluded), NEW i \in Item,
                      Needed({t}, {}) \cap excluded = {}
               PROVE  <<t, i>> \in applied
      BY DEF CleanRunIsWhole
  <2>1. t \in completed
        BY DEF Whole, NothingLeftOut
  <2>2. t \in Task /\ Clean /\ Intact(t)
        BY DEF Applier, Clean, Intact
  <2>3. Did(t, i)
        BY <2>1, <2>2 DEF Whole, Covered
  <2>. QED BY <2>3 DEF Did
<1>. QED BY <1>1, AlwaysWhole, PTL


-----------------------------------------------------------------------------
(* The report: the types of its rows *)

LEMMA ReportRowTyped ==
  ASSUME section \in Section, NEW o \in Object, NEW id \in Object \cup {NoObject},
         NEW L \in SUBSET Word
  PROVE  /\ RowOf(o, id, L) \in ReportRow
         /\ RowOf(o, id, L).id = id /\ RowOf(o, id, L).lines = L
         /\ RowOf(o, id, L).name = Name(o) /\ RowOf(o, id, L).org = GoesTo[o]
BY DEF RowOf, ReportRow, Name

LEMMA AddTyped ==
  ASSUME NEW r \in ReportRow, NEW L \in SUBSET Word
  PROVE  /\ Add(r, L) \in ReportRow
         /\ Add(r, L).id = r.id /\ Add(r, L).lines = r.lines \cup L
         /\ Add(r, L).name = r.name /\ Add(r, L).org = r.org
<1>1. r.lines \in SUBSET Word
  BY DEF ReportRow
<1>2. r.lines \cup L \in SUBSET Word
  BY <1>1
<1> QED
  BY <1>2 DEF Add, ReportRow

LEMMA DataWords ==
  ASSUME NEW p
  PROVE  DataOutcome(p) \in {"none", "failed", "skipped", "neverAnalysed", "success"}
<1> DEFINE ended == EndedAs(p)
<1>1. CASE ended = {}
  BY <1>1 DEF DataOutcome
<1>2. CASE ended # {} /\ "failed" \in ended
  BY <1>2 DEF DataOutcome
<1>3. CASE ended # {} /\ "failed" \notin ended /\ "skipped" \in ended
  BY <1>3 DEF DataOutcome
<1>4. CASE ended # {} /\ "failed" \notin ended /\ "skipped" \notin ended
  BY <1>4 DEF DataOutcome
<1> QED
  BY <1>1, <1>2, <1>3, <1>4

LEMMA Sent == \A b, l : Sends(b, l).bucket = b /\ Sends(b, l).line = l
BY DEF Sends

LEMMA FailureWords ==
  ASSUME NEW p, NEW f \in FailuresOf(p)
  PROVE  f.line \in {"noLine", "yellowOp", "orangeOp", "unbound", "trimmed", "syncError"}
<1>1. CASE f \in SyncSkips(p)
  <2>1. f \in {Sends("partial", "noLine"), Sends("nearPerfect", "noLine"), Sends("partial", "syncError")}
    BY <1>1, Zenon DEF SyncSkips
  <2> QED
    BY <2>1, Sent
<1>2. CASE f \notin SyncSkips(p)
  <2>1. f \in {Sends("nearPerfect", "yellowOp"), Sends("partial", "orangeOp"),
                Sends("partial", "unbound"), Sends("partial", "trimmed")}
    BY <1>2, Zenon DEF FailuresOf
  <2> QED
    BY <2>1, Sent
<1> QED
  BY <1>1, <1>2

LEMMA LinesTyped ==
  ASSUME NEW p
  PROVE  /\ {DataOutcome(p)} \ {"none"} \in SUBSET Word
         /\ Lines(FailuresOf(p)) \in SUBSET Word
         /\ befell[p] \cap {"yellow", "orange"} \in SUBSET Word
         /\ Worst(FailuresOf(p)) \in {"partial", "nearPerfect"}
<1>1. {DataOutcome(p)} \ {"none"} \in SUBSET Word
  BY DataWords DEF Word
<1>2. Lines(FailuresOf(p)) \in SUBSET Word
  <2> SUFFICES ASSUME NEW f \in FailuresOf(p), f.line # "noLine" PROVE f.line \in Word
    BY DEF Lines
  <2> QED
    BY FailureWords DEF Word, Event
<1>3. befell[p] \cap {"yellow", "orange"} \in SUBSET Word
  BY DEF Word, Event
<1>4. Worst(FailuresOf(p)) \in {"partial", "nearPerfect"}
  BY DEF Worst
<1> QED
  BY <1>1, <1>2, <1>3, <1>4

\* What collectSection leaves in the buckets.
LEMMA Collected ==
  ASSUME ReportTypeOK, CollectSection
  PROVE  /\ report' \in [Bucket -> SUBSET ReportRow]
         /\ report'.succeeded = CollectSucceeded /\ report'.nearPerfect = {}
         /\ report'.skipped = CollectSkipped /\ CollectPartial(report'.partial)
         /\ report'.failed =
              LET failed == DropFailuresAlreadySucceeded(CollectFailed, CollectSucceeded)
              IN  IF section = "projects" THEN MergeExplicitProjectFailures(failed) ELSE failed
         /\ pass = "running" /\ pass' = "collected" /\ UNCHANGED <<section, befell, written>>
<1> USE DEF ReportTypeOK
<1>1. CollectSucceeded \subseteq ReportRow
  BY ReportRowTyped DEF CollectSucceeded, Made
<1>2. CollectSkipped \subseteq ReportRow
  <2>1. {"unmapped"} \in SUBSET Word /\ {"builtin"} \in SUBSET Word
    BY DEF Word, Event
  <2> QED
    BY <2>1, ReportRowTyped DEF CollectSkipped, With
<1>3. CollectFailed \subseteq ReportRow
  <2>1. \A e \in Event, w \in {"error", "exists"} : Logged(e, w) \subseteq ReportRow
    <3> SUFFICES ASSUME NEW e \in Event, NEW w \in {"error", "exists"}, NEW o \in Object
                 PROVE  RowOf(o, NoObject, {w}) \in ReportRow
      BY DEF Logged, With
    <3>1. {w} \in SUBSET Word /\ NoObject \in Object \cup {NoObject}
      BY DEF Word
    <3> QED
      BY <3>1, ReportRowTyped
  <2> QED
    BY <2>1 DEF CollectFailed, Event
<1>4. CollectExplicitFailures \subseteq ReportRow
  <2>1. {"conflict"} \in SUBSET Word
    BY DEF Word, Event
  <2> QED
    BY <2>1, ReportRowTyped DEF CollectExplicitFailures, With
<1>5. PartialCandidates \subseteq ReportRow
  <2>1. \A o \in Object, id \in Object :
           [name |-> Name(id), org |-> GoesTo[o], id |-> id, lines |-> {"config"}] \in ReportRow
    <3>1. {"config"} \in SUBSET Word
      BY DEF Word, Event
    <3> QED
      BY <3>1 DEF ReportRow, Name
  <2> QED
    BY <2>1 DEF PartialCandidates, With, Made
<1>6. PICK partial \in SUBSET PartialCandidates :
         /\ CollectPartial(partial)
         /\ report' = [succeeded |-> CollectSucceeded, nearPerfect |-> {}, partial |-> partial,
                       failed |-> IF section = "projects"
                                    THEN MergeExplicitProjectFailures(
                                           DropFailuresAlreadySucceeded(CollectFailed, CollectSucceeded))
                                    ELSE DropFailuresAlreadySucceeded(CollectFailed, CollectSucceeded),
                       skipped |-> CollectSkipped]
  BY DEF CollectSection
<1>7. report'.failed \subseteq ReportRow
  BY <1>3, <1>4, <1>6 DEF DropFailuresAlreadySucceeded, MergeExplicitProjectFailures
<1>8. report' \in [Bucket -> SUBSET ReportRow]
  BY <1>1, <1>2, <1>5, <1>6, <1>7 DEF Bucket
<1> QED
  BY <1>6, <1>8 DEF CollectSection

-----------------------------------------------------------------------------
(* One row per object, whatever the passes move *)

\* Every row afterwards was a row before, moved and with lines added, or is a
\* fresh one of Skipped.
Moved(to, line, fresh) ==
  \A b \in Bucket : \A r \in report'[b] :
     \/ b = "skipped" /\ r \in fresh
     \/ \E c \in Bucket : \E q \in report[c] : b = to[<<c, q>>] /\ r = Add(q, line[<<c, q>>])

\* Nothing else is said of the objects of the fresh rows.
Novel(fresh) ==
  \A r \in fresh : \A b \in Bucket : \A q \in report'[b] : q.id = r.id => b = "skipped" /\ q = r

OneRow ==
  \A b, c \in Bucket : \A r \in report[b], q \in report[c] :
     r.id = q.id /\ r.id # NoObject => b = c /\ r = q

OwnRow(r) == r.id \in Object /\ r.name = Name(r.id) /\ r.org = GoesTo[r.id]

\* A row that only the log of requests knows of.
LogOf(r, o) ==
  /\ r = RowOf(o, NoObject, {IF "refused" \in befell[o] THEN "error" ELSE "exists"})
  /\ befell[o] \cap {"refused", "conflict"} # {}
  /\ section = "projects" => "conflict" \notin befell[o]

\* Which objects the rows of a bucket are of.
FitsSucceeded(r) == OwnRow(r) /\ r.id \in Made
FitsPartial(r) == /\ r.id \in Made /\ r.name = Name(r.id)
                  /\ section \notin {"gates", "profiles"} => OwnRow(r)
FitsFailed(r) == \/ \E o \in Object : LogOf(r, o)
                 \/ OwnRow(r) /\ "conflict" \in befell[r.id] /\ section = "projects"
                 \/ OwnRow(r) /\ r.id \in Made /\ section = "portfolios" /\ pass = "done"
FitsSkipped(r) ==
  /\ OwnRow(r)
  /\ \/ "unmapped" \in befell[r.id]
     \/ "builtin" \in befell[r.id] /\ (section \in {"gates", "profiles"} \/ pass = "done")
     \/ "empty" \in befell[r.id] /\ section = "portfolios" /\ pass \in {"filled", "done"}

RowsFit ==
  /\ \A r \in report.succeeded \cup report.nearPerfect : FitsSucceeded(r)
  /\ \A r \in report.partial : FitsPartial(r)
  /\ \A r \in report.failed : FitsFailed(r)
  /\ \A r \in report.skipped : FitsSkipped(r)

\* A step of the report, which reads what the run left.
Onward == /\ pass # "done" /\ (pass = "filled" => pass' = "done")
          /\ UNCHANGED <<section, befell, written>>

\* Rows stay in their bucket or leave Succeeded; those in Failed stay as they are.
Lawful(to, line) ==
  \A c \in Bucket : \A q \in report[c] :
    /\ \/ to[<<c, q>>] = c
       \/ c = "succeeded" /\ to[<<c, q>>] \in {"nearPerfect", "partial"}
       \/ c = "succeeded" /\ to[<<c, q>>] = "failed" /\ section = "portfolios" /\ pass' = "done"
    /\ c = "failed" => line[<<c, q>>] = {}

LEMMA AddKeeps ==
  ASSUME NEW r \in ReportRow, NEW L
  PROVE  /\ Add(r, L).id = r.id /\ Add(r, L).name = r.name /\ Add(r, L).org = r.org
         /\ L = {} => Add(r, L) = r
<1>1. Add(r, L).id = r.id /\ Add(r, L).name = r.name /\ Add(r, L).org = r.org
  BY DEF Add, ReportRow
<1>2. ASSUME L = {} PROVE Add(r, L) = r
  BY <1>2 DEF Add, ReportRow
<1> QED
  BY <1>1, <1>2

LEMMA RowIn == ASSUME ReportTypeOK, NEW b \in Bucket, NEW r \in report[b] PROVE r \in ReportRow
BY DEF ReportTypeOK

LEMMA MovedStaysOne ==
  ASSUME NEW to, NEW line, NEW fresh, ReportTypeOK, OneRow, Moved(to, line, fresh), Novel(fresh)
  PROVE  OneRow'
<1> SUFFICES ASSUME NEW b1 \in Bucket, NEW b2 \in Bucket, NEW r1 \in report'[b1], NEW r2 \in report'[b2],
                    r1.id = r2.id, r1.id # NoObject
             PROVE  b1 = b2 /\ r1 = r2
  BY DEF OneRow
<1>1. CASE b1 = "skipped" /\ r1 \in fresh
  BY <1>1 DEF Novel
<1>2. CASE b2 = "skipped" /\ r2 \in fresh
  BY <1>2 DEF Novel
<1>3. CASE ~(b1 = "skipped" /\ r1 \in fresh) /\ ~(b2 = "skipped" /\ r2 \in fresh)
  <2>1. PICK c1 \in Bucket : \E q1 \in report[c1] :
           b1 = to[<<c1, q1>>] /\ r1 = Add(q1, line[<<c1, q1>>])
    BY <1>3 DEF Moved
  <2>2. PICK q1 \in report[c1] : b1 = to[<<c1, q1>>] /\ r1 = Add(q1, line[<<c1, q1>>])
    BY <2>1
  <2>3. PICK c2 \in Bucket : \E q2 \in report[c2] :
           b2 = to[<<c2, q2>>] /\ r2 = Add(q2, line[<<c2, q2>>])
    BY <1>3 DEF Moved
  <2>4. PICK q2 \in report[c2] : b2 = to[<<c2, q2>>] /\ r2 = Add(q2, line[<<c2, q2>>])
    BY <2>3
  <2>5. r1.id = q1.id /\ r2.id = q2.id
    BY <2>2, <2>4, RowIn, AddKeeps
  <2>6. c1 = c2 /\ q1 = q2
    <3>1. q1.id = q2.id /\ q1.id # NoObject
      BY <2>5
    <3>2. \A r \in report[c1], q \in report[c2] : r.id = q.id /\ r.id # NoObject => c1 = c2 /\ r = q
      BY DEF OneRow
    <3> QED
      BY <3>1, <3>2
  <2> QED
    BY <2>2, <2>4, <2>6
<1> QED
  BY <1>1, <1>2, <1>3

LEMMA MovedStillFits ==
  ASSUME NEW to, NEW line, NEW fresh, ReportTypeOK, RowsFit, Onward,
         Moved(to, line, fresh), Lawful(to, line), \A r \in fresh : FitsSkipped(r)'
  PROVE  RowsFit'
<1> USE DEF Onward
<1>1. \A r, q : /\ r.id = q.id /\ r.name = q.name /\ r.org = q.org
                => /\ FitsSucceeded(q) =>
                        /\ FitsSucceeded(r)' /\ FitsPartial(r)'
                        /\ section = "portfolios" /\ pass' = "done" => FitsFailed(r)'
                   /\ FitsPartial(q) => FitsPartial(r)'
                   /\ FitsSkipped(q) => FitsSkipped(r)'
  BY DEF FitsSucceeded, FitsPartial, FitsFailed, FitsSkipped, OwnRow, Name, Made
<1>2. \A r : FitsFailed(r) => FitsFailed(r)'
  BY DEF FitsFailed, OwnRow, Name, Made, LogOf, RowOf
<1>3. ASSUME NEW b \in Bucket, NEW r \in report'[b]
      PROVE  \/ b = "skipped" /\ FitsSkipped(r)'
             \/ \E c \in Bucket : \E q \in report[c] :
                  /\ r.id = q.id /\ r.name = q.name /\ r.org = q.org
                  /\ c = "failed" => r = q
                  /\ \/ b = c
                     \/ c = "succeeded" /\ b \in {"nearPerfect", "partial"}
                     \/ c = "succeeded" /\ b = "failed" /\ section = "portfolios" /\ pass' = "done"
  <2>0. CASE b = "skipped" /\ r \in fresh
    BY <2>0
  <2>1. CASE \E c \in Bucket : \E q \in report[c] : b = to[<<c, q>>] /\ r = Add(q, line[<<c, q>>])
    <3>1. PICK c \in Bucket : \E q \in report[c] : b = to[<<c, q>>] /\ r = Add(q, line[<<c, q>>])
      BY <2>1
    <3>2. PICK q \in report[c] : b = to[<<c, q>>] /\ r = Add(q, line[<<c, q>>])
      BY <3>1
    <3>3. r.id = q.id /\ r.name = q.name /\ r.org = q.org /\ (c = "failed" => r = q)
      BY <3>2, RowIn, AddKeeps DEF Lawful
    <3> QED
      BY <3>2, <3>3 DEF Lawful
  <2> QED
    BY <1>3, <2>0, <2>1 DEF Moved
<1>4. \A q \in report["succeeded"] : FitsSucceeded(q)
  BY DEF RowsFit
<1>5. \A q \in report["nearPerfect"] : FitsSucceeded(q)
  BY DEF RowsFit
<1>6. \A q \in report["partial"] : FitsPartial(q)
  BY DEF RowsFit
<1>7. \A q \in report["failed"] : FitsFailed(q)
  BY DEF RowsFit
<1>8. \A q \in report["skipped"] : FitsSkipped(q)
  BY DEF RowsFit
<1>9. \A r \in report'["succeeded"] : FitsSucceeded(r)'
  BY <1>1, <1>3, <1>4 DEF Bucket
<1>10. \A r \in report'["nearPerfect"] : FitsSucceeded(r)'
  BY <1>1, <1>3, <1>4, <1>5 DEF Bucket
<1>11. \A r \in report'["partial"] : FitsPartial(r)'
  BY <1>1, <1>3, <1>4, <1>6 DEF Bucket
<1>12. \A r \in report'["failed"] : FitsFailed(r)'
  BY <1>1, <1>2, <1>3, <1>4, <1>7 DEF Bucket
<1>13. \A r \in report'["skipped"] : FitsSkipped(r)'
  BY <1>1, <1>3, <1>8 DEF Bucket
<1> QED
  BY <1>9, <1>10, <1>11, <1>12, <1>13 DEF RowsFit

\* Every row before is one afterwards, and Partial keeps its own.
RowsKept ==
  \A b \in Bucket : \A q \in report[b] : \E c \in Bucket : \E r \in report'[c] :
     r.id = q.id /\ r.name = q.name /\ r.org = q.org /\ (b = "partial" => c = "partial")

\* A pass that keeps the report in order.
Orderly(fresh) ==
  /\ report' \in [Bucket -> SUBSET ReportRow]
  /\ RowsFit' /\ (OneRow /\ Novel(fresh) => OneRow')

LEMMA OrderlyIfMoved ==
  ASSUME NEW to, NEW line, NEW fresh, ReportTypeOK, RowsFit, Onward, Moved(to, line, fresh),
         Lawful(to, line), \A r \in fresh : FitsSkipped(r)',
         report' \in [Bucket -> SUBSET ReportRow]
  PROVE  Orderly(fresh)
BY MovedStaysOne, MovedStillFits DEF Orderly

LEMMA Buckets ==
  ASSUME ReportTypeOK
  PROVE  /\ \A b \in Bucket : report[b] \subseteq ReportRow
         /\ DOMAIN report = Bucket
         /\ Bucket = {"succeeded", "nearPerfect", "partial", "failed", "skipped"}
BY DEF ReportTypeOK, Bucket

\* The rows S of bucket b, with the lines added.
Lined(b, S, line) == {Add(r, line[<<b, r>>]) : r \in S}

\* A pass sends some rows of Succeeded on, adding lines to them and to others,
\* and may add rows to Skipped.
Sorts(near, partial, line, fresh) ==
  /\ report'.succeeded = Lined("succeeded", report.succeeded \ (near \cup partial), line)
  /\ report'.nearPerfect = report.nearPerfect \cup Lined("succeeded", near, line)
  /\ report'.partial = Lined("partial", report.partial, line) \cup Lined("succeeded", partial, line)
  /\ report'.failed = report.failed /\ report'.skipped = report.skipped \cup fresh

Function(f) == f = [x \in Bucket |-> f[x]]

LEMMA SortingIsOrderly ==
  ASSUME ReportTypeOK, RowsFit, Onward, Function(report)',
         NEW near \in SUBSET report.succeeded, NEW partial \in SUBSET report.succeeded,
         near \cap partial = {},
         NEW line \in [Bucket \X ReportRow -> SUBSET Word],
         NEW fresh \in SUBSET ReportRow, \A r \in fresh : FitsSkipped(r)',
         Sorts(near, partial, line, fresh)
  PROVE  Orderly(fresh) /\ RowsKept
<1> DEFINE to == [x \in Bucket \X ReportRow |->
                    IF x[1] = "succeeded" /\ x[2] \in near THEN "nearPerfect"
                    ELSE IF x[1] = "succeeded" /\ x[2] \in partial THEN "partial" ELSE x[1]]
           added == [x \in Bucket \X ReportRow |->
                       IF x[1] \in {"succeeded", "partial"} THEN line[x] ELSE {}]
<1> USE Buckets
<1>0. \A b \in Bucket : \A r \in report[b] : r \in ReportRow /\ line[<<b, r>>] \in SUBSET Word
  OBVIOUS
<1>1. report' \in [Bucket -> SUBSET ReportRow]
  <2>1. \A b \in Bucket : \A r \in report[b] : Add(r, line[<<b, r>>]) \in ReportRow
    BY <1>0, AddTyped
  <2>2. \A r \in report.succeeded : Add(r, line[<<"succeeded", r>>]) \in ReportRow
    BY <2>1
  <2>3. \A r \in report.partial : Add(r, line[<<"partial", r>>]) \in ReportRow
    BY <2>1
  <2>4. report'.succeeded \subseteq ReportRow /\ report'.nearPerfect \subseteq ReportRow
    BY <2>2, ZenonT(40) DEF Sorts, Lined
  <2>5. report'.partial \subseteq ReportRow
    BY <2>2, <2>3 DEF Sorts, Lined
  <2>6. report'.failed \subseteq ReportRow /\ report'.skipped \subseteq ReportRow
    BY DEF Sorts, Lined
  <2>7. \A b \in Bucket : report'[b] \subseteq ReportRow
    BY <2>4, <2>5, <2>6
  <2> QED
    BY <2>7 DEF Function
<1>2. ASSUME NEW b \in Bucket, NEW r \in report'[b], ~(b = "skipped" /\ r \in fresh)
      PROVE  \E c \in Bucket : \E q \in report[c] : b = to[<<c, q>>] /\ r = Add(q, added[<<c, q>>])
  <2>1. \A c \in Bucket : \A q \in report[c] :
          /\ <<c, q>> \in Bucket \X ReportRow
          /\ c \in {"succeeded", "partial"} => added[<<c, q>>] = line[<<c, q>>]
          /\ c \notin {"succeeded", "partial"} => Add(q, added[<<c, q>>]) = q /\ to[<<c, q>>] = c
          /\ c = "partial" => to[<<c, q>>] = c
          /\ c = "succeeded" /\ q \in near => to[<<c, q>>] = "nearPerfect"
          /\ c = "succeeded" /\ q \in partial => to[<<c, q>>] = "partial"
          /\ c = "succeeded" /\ q \notin near \cup partial => to[<<c, q>>] = c
    BY AddKeeps
  <2> HIDE DEF to, added
  <2>2. CASE b = "succeeded"
    <3>1. PICK q \in report["succeeded"] : q \notin near \cup partial /\ r = Add(q, line[<<"succeeded", q>>])
      BY <1>2, <2>2 DEF Sorts, Lined
    <3> QED
      BY <2>1, <2>2, <3>1
  <2>3. CASE b = "nearPerfect"
    <3>1. CASE r \in report["nearPerfect"]
      BY <2>1, <2>3, <3>1
    <3>2. CASE \E q \in near : r = Add(q, line[<<"succeeded", q>>])
      BY <2>1, <2>3, <3>2
    <3> QED
      BY <1>2, <2>3, <3>1, <3>2 DEF Sorts, Lined
  <2>4. CASE b = "partial"
    <3>1. CASE \E q \in report["partial"] : r = Add(q, line[<<"partial", q>>])
      BY <2>1, <2>4, <3>1
    <3>2. CASE \E q \in partial : r = Add(q, line[<<"succeeded", q>>])
      BY <2>1, <2>4, <3>2
    <3> QED
      BY <1>2, <2>4, <3>1, <3>2 DEF Sorts, Lined
  <2>5. CASE b \in {"failed", "skipped"}
    <3>1. r \in report[b]
      BY <1>2, <2>5 DEF Sorts, Lined
    <3> QED
      BY <2>1, <2>5, <3>1
  <2> QED
    BY <1>2, <2>2, <2>3, <2>4, <2>5
<1>3. Lawful(to, added)
  BY DEF Lawful
<1>4. RowsKept
  <2> SUFFICES ASSUME NEW b \in Bucket, NEW q \in report[b]
               PROVE  \E c \in Bucket : \E r \in report'[c] :
                        r.id = q.id /\ r.name = q.name /\ r.org = q.org /\ (b = "partial" => c = "partial")
    BY DEF RowsKept
  <2>1. q \in report'[b] \/ \E c \in Bucket : Add(q, line[<<b, q>>]) \in report'[c] /\ (b = "partial" => c = "partial")
    <3>1. CASE b = "succeeded"
      <4>1. Add(q, line[<<b, q>>]) \in report'["nearPerfect"] \/ Add(q, line[<<b, q>>]) \in report'["partial"]
            \/ Add(q, line[<<b, q>>]) \in report'["succeeded"]
        BY <3>1 DEF Sorts, Lined
      <4> QED
        BY <3>1, <4>1
    <3>2. CASE b = "partial"
      <4>1. Add(q, line[<<b, q>>]) \in report'["partial"]
        BY <3>2 DEF Sorts, Lined
      <4> QED
        BY <3>2, <4>1
    <3>3. CASE b \in {"nearPerfect", "failed", "skipped"}
      BY <3>3 DEF Sorts, Lined
    <3> QED
      BY <3>1, <3>2, <3>3
  <2>2. Add(q, line[<<b, q>>]).id = q.id /\ Add(q, line[<<b, q>>]).name = q.name /\ Add(q, line[<<b, q>>]).org = q.org
    BY AddKeeps
  <2> QED
    BY <2>1, <2>2
<1> QED
  <2> HIDE DEF to, added
  <2>1. Moved(to, added, fresh)
    BY <1>2 DEF Moved
  <2> QED
    BY <1>1, <2>1, <1>3, <1>4, OrderlyIfMoved

-----------------------------------------------------------------------------
(* The verdict on a project *)

LEMMA LastIsGreatest ==
  ASSUME ReportTypeOK, NEW i \in DOMAIN written
  PROVE  (i = CHOOSE m \in DOMAIN written :
                 /\ SameBranch(m, i)
                 /\ \A j \in DOMAIN written : SameBranch(j, i) => j =< m)
         <=> ~ \E j \in i + 1 .. Len(written) : SameBranch(j, i)
<1> DEFINE P(m) == SameBranch(m, i) /\ \A j \in DOMAIN written : SameBranch(j, i) => j =< m
<1>1. written \in Seq([of : Importing, branch : BranchName, status : RowStatus])
  BY DEF ReportTypeOK
<1>2. DOMAIN written = 1 .. Len(written) /\ Len(written) \in Nat
  BY <1>1
<1>3. \E m \in DOMAIN written : P(m)
  <2> DEFINE S == {j \in DOMAIN written : SameBranch(j, i)}
  <2>1. i \in S
    BY DEF SameBranch
  <2>2. IsFiniteSet(S)
    <3>1. IsFiniteSet(1 .. Len(written))
      BY <1>2, FS_Interval
    <3> QED
      BY <1>2, <3>1, FS_Subset
  <2>3. S \in SUBSET Int
    BY <1>2
  <2>4. PICK x \in S : \A y \in S : y =< x
    BY <2>1, <2>2, <2>3, GreatestElement
  <2> QED
    BY <2>4
<1>4. ASSUME i = CHOOSE m \in DOMAIN written : P(m)
      PROVE  ~ \E j \in i + 1 .. Len(written) : SameBranch(j, i)
  <2>1. P(i)
    BY <1>3, <1>4
  <2> QED
    BY <2>1, <1>2
<1>5. ASSUME ~ \E j \in i + 1 .. Len(written) : SameBranch(j, i)
      PROVE  i = CHOOSE m \in DOMAIN written : P(m)
  <2>1. P(i)
    <3>1. SameBranch(i, i)
      BY DEF SameBranch
    <3> QED
      BY <1>2, <1>5, <3>1
  <2>2. \A m \in DOMAIN written : P(m) => m = i
    BY <2>1, <1>2
  <2> HIDE DEF P
  <2> QED
    BY <2>1, <2>2
<1> QED
  BY <1>4, <1>5

\* resolveProjectDataRows finds what the branches were left with.
LEMMA EndedIsLeft ==
  ASSUME ReportTypeOK, NEW p
  PROVE  EndedAs(p) = LeftWith(p) /\ EndedAs(p) \subseteq RowStatus
<1>1. LastOfBranch(p) = {i \in DOMAIN written :
        /\ written[i].of = p
        /\ i = CHOOSE m \in DOMAIN written :
                 /\ SameBranch(m, i)
                 /\ \A j \in DOMAIN written : SameBranch(j, i) => j =< m}
  BY LastIsGreatest DEF LastOfBranch
<1>2. \A k \in LastOfBranch(p) : written[k].status \in RowStatus
  <2> DEFINE BranchRow == [of : Importing, branch : BranchName, status : RowStatus]
  <2>1. written \in Seq(BranchRow)
    BY DEF ReportTypeOK
  <2>2. \A k \in DOMAIN written : written[k] \in BranchRow
    <3> HIDE DEF BranchRow
    <3> QED
      BY <2>1
  <2> QED
    BY <2>2 DEF LastOfBranch
<1> QED
  BY <1>1, <1>2 DEF EndedAs, LeftWith

LEMMA ArrivedIsData ==
  ASSUME ReportTypeOK, NEW p
  PROVE  Arrived(p) <=> ~DataSkipped(p)
<1> DEFINE ended == LeftWith(p)
<1> USE EndedIsLeft
<1>1. CASE ended = {}
  BY <1>1 DEF DataSkipped, DataOutcome, Arrived
<1>2. CASE ended \cap {"failed", "skipped", "bare"} # {}
  <2>1. ~Arrived(p)
    BY <1>2 DEF Arrived
  <2>2. DataOutcome(p) \in {"failed", "skipped", "neverAnalysed"}
    BY <1>2 DEF DataOutcome
  <2> QED
    BY <2>1, <2>2 DEF DataSkipped
<1>3. CASE ended # {} /\ ended \cap {"failed", "skipped", "bare"} = {} /\ ended \subseteq {"capped", "no_data"}
  <2>1. ~Arrived(p)
    BY <1>3 DEF Arrived
  <2>2. ended \cap {"success", "trimmed", "up_to_date"} = {}
    BY <1>3
  <2>3. DataOutcome(p) \in {"skipped", "neverAnalysed"}
    BY <1>3, <2>2 DEF DataOutcome
  <2> QED
    BY <2>1, <2>3 DEF DataSkipped
<1>4. CASE ended \cap {"failed", "skipped", "bare"} = {} /\ ~(ended \subseteq {"capped", "no_data"})
  <2>1. Arrived(p)
    BY <1>4 DEF Arrived
  <2>2. ended \cap {"success", "trimmed", "up_to_date"} # {} /\ ended # {}
    BY <1>4 DEF RowStatus
  <2>3. DataOutcome(p) = "success"
    BY <1>4, <2>2 DEF DataOutcome
  <2> QED
    BY <2>1, <2>3 DEF DataSkipped
<1> QED
  BY <1>1, <1>2, <1>3, <1>4

\* What the last pass makes of a project, said without the passes.
LEMMA FailuresAreLosses ==
  ASSUME ReportTypeOK, NEW p, befell[p] \cap {"orange", "override"} = {}
  PROVE  /\ MuchLost(p) <=> \E f \in FailuresOf(p) : f.bucket = "partial"
         /\ MuchLost(p) \/ LittleLost(p) <=> FailuresOf(p) # {}
<1> USE EndedIsLeft, ArrivedIsData
<1>1. (\E f \in FailuresOf(p) : f.bucket = "partial")
      <=> \/ befell[p] \cap {"orangeOp", "unbound"} # {}
          \/ "trimmed" \in LeftWith(p)
          \/ (\E t \in LeftWith(p) : Degrades(t)) /\ DataOutcome(p) # "neverAnalysed"
          \/ "syncError" \in befell[p] /\ Arrived(p)
  <2>1. ASSUME NEW f \in FailuresOf(p), f.bucket = "partial"
        PROVE  \/ befell[p] \cap {"orangeOp", "unbound"} # {}
               \/ "trimmed" \in LeftWith(p)
               \/ (\E t \in LeftWith(p) : Degrades(t)) /\ DataOutcome(p) # "neverAnalysed"
               \/ "syncError" \in befell[p] /\ Arrived(p)
    BY <2>1, Sent, SMT DEF FailuresOf, SyncSkips
  <2>2. ASSUME NEW e \in befell[p] \cap {"orangeOp", "unbound"}
        PROVE  \E f \in FailuresOf(p) : f.bucket = "partial"
    <3>1. Sends("partial", e) \in FailuresOf(p)
      BY <2>2, Zenon DEF FailuresOf
    <3> QED
      BY <3>1, Sent
  <2>3. ASSUME "trimmed" \in LeftWith(p)
        PROVE  \E f \in FailuresOf(p) : f.bucket = "partial"
    <3>1. "trimmed" \in EndedAs(p) \cap {"trimmed"}
      BY <2>3
    <3>2. Sends("partial", "trimmed") \in FailuresOf(p)
      BY <3>1, Zenon DEF FailuresOf
    <3> QED
      BY <3>2, Sent
  <2>4. ASSUME NEW t \in LeftWith(p), Degrades(t), DataOutcome(p) # "neverAnalysed"
        PROVE  \E f \in FailuresOf(p) : f.bucket = "partial"
    <3>1. t \in {u \in EndedAs(p) : Degrades(u) /\ DataOutcome(p) # "neverAnalysed"}
      BY <2>4
    <3>2. Sends("partial", "noLine") \in SyncSkips(p)
      BY <3>1, Zenon DEF SyncSkips
    <3>3. Sends("partial", "noLine") \in FailuresOf(p)
      BY <3>2, Zenon DEF FailuresOf
    <3> QED
      BY <3>3, Sent
  <2>5. ASSUME "syncError" \in befell[p], Arrived(p)
        PROVE  \E f \in FailuresOf(p) : f.bucket = "partial"
    <3>1. "syncError" \in befell[p] \cap {"syncError"} /\ ~DataSkipped(p)
      BY <2>5
    <3>2. Sends("partial", "syncError") \in SyncSkips(p)
      BY <3>1, Zenon DEF SyncSkips
    <3>3. Sends("partial", "syncError") \in FailuresOf(p)
      BY <3>2, Zenon DEF FailuresOf
    <3> QED
      BY <3>3, Sent
  <2> QED
    BY <2>1, <2>2, <2>3, <2>4, <2>5
<1>2. (\E t \in LeftWith(p) : Degrades(t)) /\ DataOutcome(p) # "neverAnalysed"
      <=> LeftWith(p) \cap {"failed", "skipped"} # {}
  <2>1. ASSUME LeftWith(p) \cap {"failed", "skipped"} # {}
        PROVE  (\E t \in LeftWith(p) : Degrades(t)) /\ DataOutcome(p) # "neverAnalysed"
    <3>1. DataOutcome(p) \in {"failed", "skipped"}
      BY <2>1 DEF DataOutcome
    <3> QED
      BY <2>1, <3>1 DEF Degrades
  <2>2. ASSUME NEW t \in LeftWith(p), Degrades(t), LeftWith(p) \cap {"failed", "skipped"} = {}
        PROVE  DataOutcome(p) = "neverAnalysed"
    <3>1. t = "bare"
      BY <2>2 DEF Degrades, RowStatus
    <3> QED
      BY <2>2, <3>1 DEF DataOutcome
  <2> QED
    BY <2>1, <2>2
<1>3. MuchLost(p) <=> \E f \in FailuresOf(p) : f.bucket = "partial"
  BY <1>1, <1>2 DEF MuchLost
<1>4. (\E f \in FailuresOf(p) : f.bucket # "partial") <=> LittleLost(p)
  <2>1. ASSUME NEW f \in FailuresOf(p), f.bucket # "partial"
        PROVE  LittleLost(p)
    BY <2>1, Sent, SMT DEF FailuresOf, SyncSkips, LittleLost
  <2>2. ASSUME "yellowOp" \in befell[p]
        PROVE  \E f \in FailuresOf(p) : f.bucket # "partial"
    <3>1. Sends("nearPerfect", "yellowOp") \in FailuresOf(p)
      BY <2>2, Zenon DEF FailuresOf
    <3> QED
      BY <3>1, Sent
  <2>3. ASSUME "no_data" \in LeftWith(p)
        PROVE  \E f \in FailuresOf(p) : f.bucket # "partial"
    <3>1. "no_data" \in EndedAs(p) \cap {"no_data"}
      BY <2>3
    <3>2. Sends("nearPerfect", "noLine") \in SyncSkips(p)
      BY <3>1, Zenon DEF SyncSkips
    <3>3. Sends("nearPerfect", "noLine") \in FailuresOf(p)
      BY <3>2, Zenon DEF FailuresOf
    <3> QED
      BY <3>3, Sent
  <2>4. ASSUME "mismatch" \in befell[p], Arrived(p)
        PROVE  \E f \in FailuresOf(p) : f.bucket # "partial"
    <3>1. "mismatch" \in befell[p] \cap {"mismatch"} /\ ~DataSkipped(p)
      BY <2>4
    <3>2. Sends("nearPerfect", "noLine") \in SyncSkips(p)
      BY <3>1, Zenon DEF SyncSkips
    <3>3. Sends("nearPerfect", "noLine") \in FailuresOf(p)
      BY <3>2, Zenon DEF FailuresOf
    <3> QED
      BY <3>3, Sent
  <2> QED
    BY <2>1, <2>2, <2>3, <2>4 DEF LittleLost
<1> QED
  BY <1>3, <1>4

-----------------------------------------------------------------------------
(* Each pass keeps the report in order *)

\* The rows to which a pass adds nothing, and those to which it adds the same.
LEMMA NothingAdded ==
  ASSUME ReportTypeOK, NEW b \in Bucket, NEW S \in SUBSET report[b], NEW line,
         \A r \in S : line[<<b, r>>] = {}
  PROVE  Lined(b, S, line) = S
<1>1. \A r \in S : Add(r, line[<<b, r>>]) = r
  BY RowIn, AddKeeps
<1> QED
  BY <1>1, Zenon DEF Lined

LEMMA SameAdded ==
  ASSUME NEW b, NEW S, NEW line, NEW said, \A r \in S : line[<<b, r>>] = said
  PROVE  Lined(b, S, line) = {Add(r, said) : r \in S}
<1>1. \A r \in S : Add(r, line[<<b, r>>]) = Add(r, said)
  OBVIOUS
<1> QED
  BY <1>1, Zenon DEF Lined

LEMMA AttachIsOrderly ==
  ASSUME ReportTypeOK, RowsFit, AttachProjectData
  PROVE  Orderly({}) /\ RowsKept
<1> DEFINE line == [x \in Bucket \X ReportRow |->
                      IF x[1] = "succeeded" THEN {DataOutcome(x[2].id)} \ {"none"} ELSE {}]
           attached == {Add(r, {DataOutcome(r.id)} \ {"none"}) : r \in report.succeeded}
<1> USE Buckets
<1>1. line \in [Bucket \X ReportRow -> SUBSET Word]
  BY LinesTyped
<1>2. /\ \A r \in report.succeeded : line[<<"succeeded", r>>] = {DataOutcome(r.id)} \ {"none"}
      /\ \A r \in report.partial : line[<<"partial", r>>] = {}
  OBVIOUS
<1>3. /\ report'.succeeded = attached
      /\ report'.partial = report.partial /\ report'.nearPerfect = report.nearPerfect
      /\ report'.failed = report.failed /\ report'.skipped = report.skipped
  BY DEF AttachProjectData
<1> HIDE DEF line
<1>4. Lined("succeeded", report.succeeded, line) = attached
  BY <1>2, Zenon DEF Lined
<1> HIDE DEF attached
<1>5. Sorts({}, {}, line, {})
  <2>1. Lined("partial", report.partial, line) = report.partial
    BY <1>2, NothingAdded
  <2>2. Lined("succeeded", {}, line) = {}
    BY DEF Lined
  <2> QED
    BY <1>3, <1>4, <2>1, <2>2 DEF Sorts
<1>6. Onward /\ Function(report)'
  BY DEF AttachProjectData, Pass, Onward, Function
<1>7. {} \in SUBSET report.succeeded /\ {} \cap {} = {} /\ {} \in SUBSET ReportRow
  OBVIOUS
<1> QED
  BY <1>1, <1>5, <1>6, <1>7, SortingIsOrderly

LEMMA FallbackIsOrderly ==
  ASSUME ReportTypeOK, RowsFit, ApplyNCDFallback
  PROVE  Orderly({}) /\ RowsKept
<1> DEFINE hit == {r \in report.succeeded : r.id \in With("orange")}
           line == [x \in Bucket \X ReportRow |->
                      IF x[1] = "succeeded" /\ x[2] \in hit THEN {"orange"} ELSE {}]
           sent == {Add(r, {"orange"}) : r \in hit}
<1> USE Buckets
<1>1. line \in [Bucket \X ReportRow -> SUBSET Word]
  BY DEF Word, Event
<1>2. /\ \A r \in hit : line[<<"succeeded", r>>] = {"orange"}
      /\ \A r \in report.succeeded \ hit : line[<<"succeeded", r>>] = {}
      /\ \A r \in report.partial : line[<<"partial", r>>] = {}
      /\ hit \subseteq report.succeeded
  OBVIOUS
<1>3. /\ report'.succeeded = report.succeeded \ hit
      /\ report'.partial = report.partial \cup sent
      /\ report'.nearPerfect = report.nearPerfect
      /\ report'.failed = report.failed /\ report'.skipped = report.skipped
  BY DEF ApplyNCDFallback
<1> HIDE DEF line, hit, sent
<1>4. Sorts({}, hit, line, {})
  <2>1. Lined("succeeded", report.succeeded \ hit, line) = report.succeeded \ hit
    BY <1>2, NothingAdded
  <2>2. Lined("succeeded", hit, line) = sent
    BY <1>2, Zenon DEF Lined, sent
  <2>3. Lined("partial", report.partial, line) = report.partial
    BY <1>2, NothingAdded
  <2>4. Lined("succeeded", {}, line) = {} /\ report.succeeded \ ({} \cup hit) = report.succeeded \ hit
    BY DEF Lined
  <2> QED
    BY <1>3, <2>1, <2>2, <2>3, <2>4 DEF Sorts
<1>5. Onward /\ Function(report)'
  BY DEF ApplyNCDFallback, Pass, Onward, Function
<1> QED
  BY <1>1, <1>2, <1>4, <1>5, SortingIsOrderly

LEMMA OverrideIsOrderly ==
  ASSUME ReportTypeOK, RowsFit, ApplyNCDBranchOverride
  PROVE  Orderly({}) /\ RowsKept
<1> DEFINE hit == {r \in report.succeeded : r.id \in With("override")}
           said(r) == IF r.id \in With("override") THEN {"override"} ELSE {}
           line == [x \in Bucket \X ReportRow |-> said(x[2])]
           sent == {Add(r, {"override"}) : r \in hit}
           again == {Add(r, said(r)) : r \in report.partial}
<1> USE Buckets
<1>1. line \in [Bucket \X ReportRow -> SUBSET Word]
  BY DEF Word, Event
<1>2. /\ \A r \in hit : line[<<"succeeded", r>>] = {"override"}
      /\ \A r \in report.succeeded \ hit : line[<<"succeeded", r>>] = {}
      /\ \A r \in report.partial : line[<<"partial", r>>] = said(r)
      /\ hit \subseteq report.succeeded
  OBVIOUS
<1>3. /\ report'.succeeded = report.succeeded \ hit
      /\ report'.partial = again \cup sent
      /\ report'.nearPerfect = report.nearPerfect
      /\ report'.failed = report.failed /\ report'.skipped = report.skipped
  BY DEF ApplyNCDBranchOverride
<1> HIDE DEF line, hit, said, sent, again
<1>4. Sorts({}, hit, line, {})
  <2>1. Lined("succeeded", report.succeeded \ hit, line) = report.succeeded \ hit
    BY <1>2, NothingAdded
  <2>2. Lined("succeeded", hit, line) = sent
    BY <1>2, Zenon DEF Lined, sent
  <2>3. Lined("partial", report.partial, line) = again
    BY <1>2, Zenon DEF Lined, again
  <2>4. Lined("succeeded", {}, line) = {} /\ report.succeeded \ ({} \cup hit) = report.succeeded \ hit
    BY DEF Lined
  <2> QED
    BY <1>3, <2>1, <2>2, <2>3, <2>4 DEF Sorts
<1>5. Onward /\ Function(report)'
  BY DEF ApplyNCDBranchOverride, Pass, Onward, Function
<1> QED
  BY <1>1, <1>2, <1>4, <1>5, SortingIsOrderly

LEMMA FailuresAreOrderly ==
  ASSUME ReportTypeOK, RowsFit, ApplyProjectFailures
  PROVE  Orderly({}) /\ RowsKept
<1> DEFINE hit == {r \in report.succeeded : FailuresOf(r.id) # {}}
           sent(b) == {r \in hit : Worst(FailuresOf(r.id)) = b}
           line == [x \in Bucket \X ReportRow |->
                      IF x[1] = "succeeded" /\ x[2] \in hit THEN Lines(FailuresOf(x[2].id)) ELSE {}]
           moved(b) == {Add(r, Lines(FailuresOf(r.id))) : r \in sent(b)}
<1> USE Buckets
<1>1. line \in [Bucket \X ReportRow -> SUBSET Word]
  BY LinesTyped
<1>2. /\ \A r \in hit : line[<<"succeeded", r>>] = Lines(FailuresOf(r.id))
      /\ \A r \in report.succeeded \ hit : line[<<"succeeded", r>>] = {}
      /\ \A r \in report.partial : line[<<"partial", r>>] = {}
      /\ hit \subseteq report.succeeded
  OBVIOUS
<1>2a. /\ sent("nearPerfect") \cup sent("partial") = hit
       /\ sent("nearPerfect") \cap sent("partial") = {}
       /\ sent("nearPerfect") \subseteq hit /\ sent("partial") \subseteq hit
  <2>1. \A r \in hit : Worst(FailuresOf(r.id)) \in {"partial", "nearPerfect"}
    BY LinesTyped
  <2> HIDE DEF hit
  <2> QED
    BY <2>1
<1>3. /\ report'.succeeded = report.succeeded \ hit
      /\ report'.nearPerfect = report.nearPerfect \cup moved("nearPerfect")
      /\ report'.partial = report.partial \cup moved("partial")
      /\ report'.failed = report.failed /\ report'.skipped = report.skipped
  BY DEF ApplyProjectFailures
<1> HIDE DEF line, hit, sent, moved
<1>4. Sorts(sent("nearPerfect"), sent("partial"), line, {})
  <2>1. Lined("succeeded", report.succeeded \ hit, line) = report.succeeded \ hit
    BY <1>2, NothingAdded
  <2>2. Lined("partial", report.partial, line) = report.partial
    BY <1>2, NothingAdded
  <2>3. \A b \in {"nearPerfect", "partial"} : Lined("succeeded", sent(b), line) = moved(b)
    <3> SUFFICES ASSUME NEW b \in {"nearPerfect", "partial"}
                 PROVE  Lined("succeeded", sent(b), line) = moved(b)
      OBVIOUS
    <3>1. \A r \in sent(b) : line[<<"succeeded", r>>] = Lines(FailuresOf(r.id))
      BY <1>2, <1>2a
    <3> QED
      BY <3>1, Zenon DEF Lined, moved
  <2> QED
    BY <1>2a, <1>3, <2>1, <2>2, <2>3 DEF Sorts
<1>5. Onward /\ Function(report)'
  BY DEF ApplyProjectFailures, Pass, Onward, Function
<1>6. sent("nearPerfect") \subseteq report.succeeded /\ sent("partial") \subseteq report.succeeded
  BY <1>2, <1>2a
<1> QED
  BY <1>1, <1>2a, <1>4, <1>5, <1>6, SortingIsOrderly

LEMMA PortfoliosAreOrderly ==
  ASSUME ReportTypeOK, RowsFit, ApplyPortfolioClassifications
  PROVE  Orderly({}) /\ RowsKept
<1> DEFINE much == {r \in report.succeeded : r.id \in With("orange")}
           little == {r \in report.succeeded : r.id \in With("yellow")} \ much
           line == [x \in Bucket \X ReportRow |->
                      IF x[1] = "succeeded" /\ x[2] \in much THEN {"orange"}
                      ELSE IF x[1] = "succeeded" /\ x[2] \in little THEN {"yellow"} ELSE {}]
           muchSent == {Add(r, {"orange"}) : r \in much}
           littleSent == {Add(r, {"yellow"}) : r \in little}
<1> USE Buckets
<1>1. line \in [Bucket \X ReportRow -> SUBSET Word]
  BY DEF Word, Event
<1>2. /\ \A r \in much : line[<<"succeeded", r>>] = {"orange"}
      /\ \A r \in little : line[<<"succeeded", r>>] = {"yellow"}
      /\ \A r \in report.succeeded \ (little \cup much) : line[<<"succeeded", r>>] = {}
      /\ \A r \in report.partial : line[<<"partial", r>>] = {}
      /\ much \subseteq report.succeeded /\ little \subseteq report.succeeded
      /\ little \cap much = {}
  OBVIOUS
<1>3. /\ report'.succeeded = report.succeeded \ (little \cup much)
      /\ report'.nearPerfect = report.nearPerfect \cup littleSent
      /\ report'.partial = report.partial \cup muchSent
      /\ report'.failed = report.failed /\ report'.skipped = report.skipped
  BY DEF ApplyPortfolioClassifications
<1> HIDE DEF line, much, little, muchSent, littleSent
<1>4. Sorts(little, much, line, {})
  <2>1. Lined("succeeded", report.succeeded \ (little \cup much), line)
           = report.succeeded \ (little \cup much)
    BY <1>2, NothingAdded
  <2>2. Lined("partial", report.partial, line) = report.partial
    BY <1>2, NothingAdded
  <2>3. Lined("succeeded", much, line) = muchSent
    <3>1. \A r \in much : line[<<"succeeded", r>>] = {"orange"}
      BY <1>2
    <3> QED
      BY <3>1, Zenon DEF Lined, muchSent
  <2>4. Lined("succeeded", little, line) = littleSent
    <3>1. \A r \in little : line[<<"succeeded", r>>] = {"yellow"}
      BY <1>2
    <3> QED
      BY <3>1, Zenon DEF Lined, littleSent
  <2> QED
    BY <1>3, <2>1, <2>2, <2>3, <2>4 DEF Sorts
<1>5. Onward /\ Function(report)'
  BY DEF ApplyPortfolioClassifications, Pass, Onward, Function
<1> QED
  BY <1>1, <1>2, <1>4, <1>5, SortingIsOrderly

LEMMA NotesAreOrderly ==
  ASSUME ReportTypeOK, RowsFit, report' = Noted, Onward
  PROVE  Orderly({}) /\ RowsKept
<1> DEFINE note(r) == befell[r.id] \cap {"yellow", "orange"}
           hit == {r \in report.succeeded : note(r) # {}}
           much == {r \in hit : "orange" \in befell[r.id]}
           line == [x \in Bucket \X ReportRow |-> note(x[2])]
           moved(S) == {Add(r, note(r)) : r \in S}
<1> USE Buckets
<1>1. line \in [Bucket \X ReportRow -> SUBSET Word]
  BY LinesTyped
<1>2. /\ \A r \in report.succeeded : line[<<"succeeded", r>>] = note(r)
      /\ \A r \in report.succeeded \ hit : note(r) = {}
      /\ \A r \in report.partial : line[<<"partial", r>>] = note(r)
      /\ hit \subseteq report.succeeded /\ much \subseteq hit
  OBVIOUS
<1>3. /\ report'.succeeded = report.succeeded \ hit
      /\ report'.nearPerfect = report.nearPerfect \cup moved(hit \ much)
      /\ report'.partial = moved(report.partial) \cup moved(much)
      /\ report'.failed = report.failed /\ report'.skipped = report.skipped
      /\ Function(report)'
  BY DEF Noted, Function
<1> HIDE DEF line, hit, much, moved, note
<1>4. Sorts(hit \ much, much, line, {})
  <2>1. Lined("succeeded", report.succeeded \ hit, line) = report.succeeded \ hit
    BY <1>2, NothingAdded
  <2>2. Lined("partial", report.partial, line) = moved(report.partial)
    BY <1>2, Zenon DEF Lined, moved
  <2>3. Lined("succeeded", much, line) = moved(much)
    <3>1. \A r \in much : line[<<"succeeded", r>>] = note(r)
      BY <1>2
    <3> QED
      BY <3>1, Zenon DEF Lined, moved
  <2>4. Lined("succeeded", hit \ much, line) = moved(hit \ much)
    <3>1. \A r \in hit \ much : line[<<"succeeded", r>>] = note(r)
      BY <1>2
    <3> QED
      BY <3>1, Zenon DEF Lined, moved
  <2>5. report.succeeded \ ((hit \ much) \cup much) = report.succeeded \ hit
    BY <1>2
  <2> QED
    BY <1>3, <2>1, <2>2, <2>3, <2>4, <2>5 DEF Sorts
<1>5. hit \ much \in SUBSET report.succeeded /\ much \in SUBSET report.succeeded
      /\ (hit \ much) \cap much = {}
  BY <1>2
<1> QED
  BY <1>1, <1>3, <1>4, <1>5, SortingIsOrderly

LEMMA DefaultIsOrderly ==
  ASSUME ReportTypeOK, RowsFit, ApplyTemplateDefaultFailures
  PROVE  Orderly({}) /\ RowsKept
<1> DEFINE hit == ByName("yellowOp")
           line == [x \in Bucket \X ReportRow |->
                      IF x[1] = "succeeded" /\ x[2] \in hit THEN {"yellowOp"} ELSE {}]
           sent == {Add(r, {"yellowOp"}) : r \in hit}
<1> USE Buckets
<1>1. line \in [Bucket \X ReportRow -> SUBSET Word]
  BY DEF Word, Event
<1>2. /\ \A r \in hit : line[<<"succeeded", r>>] = {"yellowOp"}
      /\ \A r \in report.succeeded \ hit : line[<<"succeeded", r>>] = {}
      /\ \A r \in report.partial : line[<<"partial", r>>] = {}
      /\ hit \subseteq report.succeeded
  BY DEF ByName
<1>3. /\ report'.succeeded = report.succeeded \ hit
      /\ report'.nearPerfect = report.nearPerfect \cup sent
      /\ report'.partial = report.partial
      /\ report'.failed = report.failed /\ report'.skipped = report.skipped
  BY DEF ApplyTemplateDefaultFailures
<1> HIDE DEF line, hit, sent
<1>4. Sorts(hit, {}, line, {})
  <2>1. Lined("succeeded", report.succeeded \ hit, line) = report.succeeded \ hit
    BY <1>2, NothingAdded
  <2>2. Lined("succeeded", hit, line) = sent
    BY <1>2, Zenon DEF Lined, sent
  <2>3. Lined("partial", report.partial, line) = report.partial
    BY <1>2, NothingAdded
  <2>4. Lined("succeeded", {}, line) = {} /\ report.succeeded \ (hit \cup {}) = report.succeeded \ hit
    BY DEF Lined
  <2> QED
    BY <1>3, <2>1, <2>2, <2>3, <2>4 DEF Sorts
<1>5. Onward /\ Function(report)'
  BY DEF ApplyTemplateDefaultFailures, Pass, Onward, Function
<1> QED
  BY <1>1, <1>2, <1>4, <1>5, SortingIsOrderly

\* The rows of the built-in groups, which the extract does not name.
BuiltInRows == {RowOf(o, o, {"builtin"}) : o \in With("builtin")}

LEMMA GroupsAreOrderly ==
  ASSUME ReportTypeOK, RowsFit, ApplyGlobalGroupPermFailures
  PROVE  Orderly(BuiltInRows) /\ RowsKept
<1> DEFINE hit == ByName("orangeOp")
           line == [x \in Bucket \X ReportRow |->
                      IF x[1] = "succeeded" /\ x[2] \in hit THEN {"orangeOp"} ELSE {}]
           sent == {Add(r, {"orangeOp"}) : r \in hit}
<1> USE Buckets
<1>1. line \in [Bucket \X ReportRow -> SUBSET Word]
  BY DEF Word, Event
<1>2. /\ \A r \in hit : line[<<"succeeded", r>>] = {"orangeOp"}
      /\ \A r \in report.succeeded \ hit : line[<<"succeeded", r>>] = {}
      /\ \A r \in report.partial : line[<<"partial", r>>] = {}
      /\ hit \subseteq report.succeeded
  BY DEF ByName
<1>3. /\ report'.succeeded = report.succeeded \ hit
      /\ report'.partial = report.partial \cup sent
      /\ report'.nearPerfect = report.nearPerfect
      /\ report'.failed = report.failed /\ report'.skipped = report.skipped \cup BuiltInRows
  BY DEF ApplyGlobalGroupPermFailures, BuiltInRows
<1> HIDE DEF line, hit, sent
<1>4. Sorts({}, hit, line, BuiltInRows)
  <2>1. Lined("succeeded", report.succeeded \ hit, line) = report.succeeded \ hit
    BY <1>2, NothingAdded
  <2>2. Lined("succeeded", hit, line) = sent
    BY <1>2, Zenon DEF Lined, sent
  <2>3. Lined("partial", report.partial, line) = report.partial
    BY <1>2, NothingAdded
  <2>4. Lined("succeeded", {}, line) = {} /\ report.succeeded \ ({} \cup hit) = report.succeeded \ hit
    BY DEF Lined
  <2> QED
    BY <1>3, <2>1, <2>2, <2>3, <2>4 DEF Sorts
<1>5. Onward /\ Function(report)' /\ pass' = "done"
  BY DEF ApplyGlobalGroupPermFailures, Pass, Onward, Function
<1>6. BuiltInRows \in SUBSET ReportRow /\ \A r \in BuiltInRows : FitsSkipped(r)'
  <2> SUFFICES ASSUME NEW r \in BuiltInRows PROVE r \in ReportRow /\ FitsSkipped(r)'
    OBVIOUS
  <2>0. PICK o \in With("builtin") : r = RowOf(o, o, {"builtin"})
    BY DEF BuiltInRows
  <2>1. o \in Object /\ "builtin" \in befell[o] /\ {"builtin"} \in SUBSET Word /\ section \in Section
    BY DEF With, Word, Event, ReportTypeOK
  <2>2. r \in ReportRow /\ r.id = o /\ r.name = Name(o) /\ r.org = GoesTo[o]
    BY <2>0, <2>1, ReportRowTyped
  <2>3. UNCHANGED <<section, befell>> /\ pass' = "done"
    BY <1>5 DEF Onward
  <2> QED
    BY <2>1, <2>2, <2>3 DEF FitsSkipped, OwnRow, Name
<1>7. {} \in SUBSET report.succeeded /\ hit \in SUBSET report.succeeded /\ {} \cap hit = {}
  BY <1>2
<1> QED
  BY <1>1, <1>4, <1>5, <1>6, <1>7, SortingIsOrderly

EmptyRows == {RowOf(o, o, {"empty"}) : o \in With("empty")}

LEMMA EmptiesAreOrderly ==
  ASSUME ReportTypeOK, RowsFit, ApplyEmptyPortfolioSkips
  PROVE  Orderly(EmptyRows)
<1> DEFINE to == [x \in Bucket \X ReportRow |-> x[1]]
           line == [x \in Bucket \X ReportRow |-> {}]
<1> USE Buckets
<1>1. /\ \A b \in {"succeeded", "nearPerfect", "partial"} : report'[b] \subseteq report[b]
      /\ report'["failed"] = report["failed"] /\ report'["skipped"] = report["skipped"] \cup EmptyRows
      /\ Function(report)'
  BY DEF ApplyEmptyPortfolioSkips, EmptyRows, Function
<1>2. Onward /\ pass' = "filled" /\ section = "portfolios"
  BY DEF ApplyEmptyPortfolioSkips, Pass, Onward
<1>3. EmptyRows \in SUBSET ReportRow /\ \A r \in EmptyRows : FitsSkipped(r)'
  <2> SUFFICES ASSUME NEW r \in EmptyRows PROVE r \in ReportRow /\ FitsSkipped(r)'
    OBVIOUS
  <2>0. PICK o \in With("empty") : r = RowOf(o, o, {"empty"})
    BY DEF EmptyRows
  <2>1. o \in Object /\ "empty" \in befell[o] /\ {"empty"} \in SUBSET Word /\ section \in Section
    BY DEF With, Word, Event, ReportTypeOK
  <2>2. r \in ReportRow /\ r.id = o /\ r.name = Name(o) /\ r.org = GoesTo[o]
    BY <2>0, <2>1, ReportRowTyped
  <2> QED
    BY <1>2, <2>1, <2>2 DEF FitsSkipped, OwnRow, Name, Onward
<1>4. \A b \in Bucket : \A q \in report[b] : to[<<b, q>>] = b /\ line[<<b, q>>] = {} /\ Add(q, {}) = q
  BY AddKeeps
<1> HIDE DEF to, line
<1>5. Moved(to, line, EmptyRows)
  <2>1. \A b \in Bucket : \A r \in report'[b] : r \in report[b] \/ (b = "skipped" /\ r \in EmptyRows)
    BY <1>1
  <2>2. \A b \in Bucket : \A r \in report[b] : b = to[<<b, r>>] /\ r = Add(r, line[<<b, r>>])
    BY <1>4
  <2> QED
    BY <2>1, <2>2 DEF Moved
<1>6. Lawful(to, line)
  BY <1>4 DEF Lawful
<1>7. report' \in [Bucket -> SUBSET ReportRow]
  <2>1. \A b \in Bucket : report'[b] \subseteq ReportRow
    BY <1>1, <1>3
  <2> QED
    BY <1>1, <2>1 DEF Function
<1> QED
  BY <1>2, <1>3, <1>5, <1>6, <1>7, OrderlyIfMoved

LEMMA UpdatesAreOrderly ==
  ASSUME ReportTypeOK, RowsFit, ApplyPortfolioFailures
  PROVE  Orderly({})
<1> DEFINE marred == {r \in UNION {report[b] : b \in Bucket} : r.id \in With("orangeOp")}
           hit == report.succeeded \cap marred
           to == [x \in Bucket \X ReportRow |->
                    IF x[1] = "succeeded" /\ x[2] \in hit THEN "failed" ELSE x[1]]
           line == [x \in Bucket \X ReportRow |->
                      IF x[1] = "succeeded" /\ x[2] \in hit THEN {"updateFailed"} ELSE {}]
<1> USE Buckets
<1>1. /\ \A b \in {"nearPerfect", "partial", "skipped"} : report'[b] \subseteq report[b]
      /\ report'["succeeded"] \subseteq report["succeeded"] \ hit
      /\ \A r \in report'["failed"] :
            r \in report["failed"] \/ \E q \in hit : r = Add(q, {"updateFailed"})
      /\ Function(report)'
  <2>1. CASE report.succeeded = {}
    BY <2>1 DEF ApplyPortfolioFailures, Function, ReportTypeOK
  <2>2. CASE report.succeeded # {}
    <3>1. report' = [report EXCEPT
                        !.succeeded = @ \ marred,
                        !.partial = @ \ marred,
                        !.failed = @ \cup {Add(r, {"updateFailed"}) : r \in hit}]
      BY <2>2 DEF ApplyPortfolioFailures
    <3> HIDE DEF marred
    <3> QED
      BY <3>1 DEF Function
  <2> QED
    BY <2>1, <2>2
<1>2. Onward /\ pass' = "done" /\ section = "portfolios"
  BY DEF ApplyPortfolioFailures, Pass, Onward
<1>3. \A b \in Bucket : \A q \in report[b] :
        /\ b = "succeeded" /\ q \in hit => to[<<b, q>>] = "failed" /\ line[<<b, q>>] = {"updateFailed"}
        /\ ~(b = "succeeded" /\ q \in hit) =>
              to[<<b, q>>] = b /\ line[<<b, q>>] = {} /\ Add(q, line[<<b, q>>]) = q
  BY AddKeeps
<1>4. hit \subseteq report["succeeded"] /\ hit \subseteq ReportRow
  OBVIOUS
<1> HIDE DEF to, line, hit, marred
<1>5. ASSUME NEW b \in Bucket, NEW r \in report'[b]
      PROVE  \E c \in Bucket : \E q \in report[c] : b = to[<<c, q>>] /\ r = Add(q, line[<<c, q>>])
  <2>1. CASE \E q \in hit : r = Add(q, {"updateFailed"}) /\ b = "failed"
    <3>1. PICK q \in hit : r = Add(q, {"updateFailed"}) /\ b = "failed"
      BY <2>1
    <3>2. q \in report["succeeded"] /\ "succeeded" \in Bucket
      BY <1>4
    <3>3. b = to[<<"succeeded", q>>] /\ r = Add(q, line[<<"succeeded", q>>])
      BY <1>3, <3>1, <3>2
    <3> QED
      BY <3>2, <3>3
  <2>2. CASE r \in report[b] /\ ~(b = "succeeded" /\ r \in hit)
    BY <1>3, <2>2
  <2> QED
    BY <1>1, <1>5, <2>1, <2>2
<1>6. Moved(to, line, {})
  BY <1>5 DEF Moved
<1>7. Lawful(to, line)
  BY <1>2, <1>3 DEF Lawful
<1>8. report' \in [Bucket -> SUBSET ReportRow]
  <2>1. {"updateFailed"} \in SUBSET Word
    BY DEF Word
  <2>2. \A q \in hit : Add(q, {"updateFailed"}) \in ReportRow
    BY <1>4, <2>1, AddTyped
  <2>3. \A b \in Bucket : report'[b] \subseteq ReportRow
    BY <1>1, <2>2
  <2> QED
    BY <1>1, <2>3 DEF Function
<1> QED
  BY <1>2, <1>6, <1>7, <1>8, OrderlyIfMoved

-----------------------------------------------------------------------------
(* What collectSection finds *)

\* At most one thing became of the create of an object.
Fated ==
  \A o \in Object :
    /\ \A x, y \in befell[o] \cap Fates : x = y
    /\ "unmapped" \in befell[o] => section # "portfolios"
    /\ "builtin" \in befell[o] => section \in {"gates", "profiles", "groups"}
    /\ "config" \in befell[o] => section \in {"gates", "profiles"}

LEMMA FatesAreKnown ==
  ASSUME ReportTypeOK, befell \in Evidence[section]
  PROVE  Fated
BY ReportAssumption DEF Fated, ReportTypeOK

LEMMA LoggedRows ==
  ASSUME ReportTypeOK, Fated, NEW f \in CollectFailed
  PROVE  \E o \in Object :
           \/ LogOf(f, o) /\ section # "projects"
           \/ LogOf(f, o) /\ "refused" \in befell[o]
           \/ f = RowOf(o, NoObject, {"exists"}) /\ "conflict" \in befell[o]
           \/ f = RowOf(o, NoObject, {"exists"}) /\ "recovered" \in befell[o]
<1>1. CASE f \in Logged("refused", "error")
  <2>1. PICK o \in With("refused") : f = RowOf(o, NoObject, {"error"})
    BY <1>1 DEF Logged
  <2>2. o \in Object /\ "refused" \in befell[o]
    BY DEF With
  <2>3. "conflict" \notin befell[o]
    BY <2>2 DEF Fated, Fates
  <2> QED
    BY <2>1, <2>2, <2>3 DEF LogOf
<1>2. CASE f \in Logged("conflict", "exists") \cup Logged("recovered", "exists")
  BY <1>2 DEF Logged, With
<1> QED
  BY <1>1, <1>2 DEF CollectFailed

LEMMA MadeSucceeded ==
  ASSUME ReportTypeOK, Fated, NEW o \in Object, "recovered" \in befell[o]
  PROVE  o \in Made
BY DEF Fated, Made, Fates

\* The rows the log leaves in Failed.
LEMMA FailuresFit ==
  ASSUME ReportTypeOK, Fated, CollectSection, NEW f \in report'.failed
  PROVE  FitsFailed(f)'
<1> DEFINE left == DropFailuresAlreadySucceeded(CollectFailed, CollectSucceeded)
<1> USE Collected
<1>0. UNCHANGED <<section, befell>> /\ pass' = "collected" /\ section \in Section
  BY DEF ReportTypeOK
<1>1. ASSUME f \in left
      PROVE  \E o \in Object : \/ LogOf(f, o)
                               \/ section = "projects" /\ "conflict" \in befell[o] /\ f.name = Name(o)
  <2>1. PICK o \in Object :
           \/ LogOf(f, o) /\ section # "projects"
           \/ LogOf(f, o) /\ "refused" \in befell[o]
           \/ f = RowOf(o, NoObject, {"exists"}) /\ "conflict" \in befell[o]
           \/ f = RowOf(o, NoObject, {"exists"}) /\ "recovered" \in befell[o]
    BY <1>1, LoggedRows DEF DropFailuresAlreadySucceeded
  <2>2. {"exists"} \in SUBSET Word /\ {} \in SUBSET Word
    BY DEF Word
  <2>3. ASSUME f = RowOf(o, NoObject, {"exists"})
        PROVE  f.name = Name(o) /\ f.org = GoesTo[o] /\ "exists" \in f.lines
    BY <1>0, <2>2, <2>3, ReportRowTyped
  <2>4. CASE f = RowOf(o, NoObject, {"exists"}) /\ "recovered" \in befell[o]
    <3>1. RowOf(o, o, {}) \in CollectSucceeded
      BY <2>4, MadeSucceeded DEF CollectSucceeded
    <3>2. RowOf(o, o, {}).name = Name(o) /\ RowOf(o, o, {}).org = GoesTo[o]
      BY <1>0, <2>2, ReportRowTyped
    <3>3. Recovered(f, RowOf(o, o, {}))
      BY <2>3, <2>4, <3>2 DEF Recovered
    <3> QED
      BY <1>1, <3>1, <3>3 DEF DropFailuresAlreadySucceeded
  <2>5. CASE f = RowOf(o, NoObject, {"exists"}) /\ "conflict" \in befell[o]
    <3>1. "refused" \notin befell[o]
      BY <2>5 DEF Fated, Fates
    <3>2. CASE section = "projects"
      BY <2>3, <2>5, <3>2
    <3>3. CASE section # "projects"
      <4>1. LogOf(f, o)
        BY <2>5, <3>1, <3>3 DEF LogOf
      <4> QED
        BY <4>1
    <3> QED
      BY <3>2, <3>3
  <2> QED
    BY <2>1, <2>4, <2>5
<1>2. \A o \in Object : LogOf(f, o) => LogOf(f, o)'
  BY <1>0 DEF LogOf, RowOf, Name
<1>3. ASSUME NEW o \in With("conflict")
      PROVE  /\ RowOf(o, o, {"conflict"}) \in CollectExplicitFailures
             /\ RowOf(o, o, {"conflict"}).id = o /\ RowOf(o, o, {"conflict"}).name = Name(o)
             /\ RowOf(o, o, {"conflict"}).org = GoesTo[o]
             /\ o \in Object /\ "conflict" \in befell[o]
  <2>1. {"conflict"} \in SUBSET Word /\ o \in Object /\ "conflict" \in befell[o]
    BY DEF Word, Event, With
  <2> QED
    BY <1>0, <2>1, ReportRowTyped DEF CollectExplicitFailures
<1>4. CASE section # "projects"
  BY <1>1, <1>2, <1>4 DEF FitsFailed
<1>5. CASE section = "projects" /\ f \in CollectExplicitFailures
  <2>1. PICK o \in With("conflict") : f = RowOf(o, o, {"conflict"})
    BY <1>5 DEF CollectExplicitFailures
  <2> QED
    BY <1>0, <1>3, <1>5, <2>1 DEF FitsFailed, OwnRow, Name
<1>6. CASE section = "projects" /\ f \notin CollectExplicitFailures
  <2>1. f \in left /\ \A e \in CollectExplicitFailures : e.name # f.name
    BY <1>6 DEF MergeExplicitProjectFailures
  <2>2. PICK o \in Object : \/ LogOf(f, o)
                            \/ section = "projects" /\ "conflict" \in befell[o] /\ f.name = Name(o)
    <3>1. f \in left
      BY <2>1
    <3> QED
      BY <1>1, <3>1
  <2>3. ~("conflict" \in befell[o] /\ f.name = Name(o))
    BY <1>3, <2>1 DEF With
  <2> QED
    BY <1>2, <2>2, <2>3 DEF FitsFailed
<1> QED
  BY <1>4, <1>5, <1>6

LEMMA CollectedFit ==
  ASSUME ReportTypeOK, Fated, CollectSection
  PROVE  RowsFit'
<1> USE Collected
<1>0. UNCHANGED <<section, befell>> /\ pass' = "collected" /\ section \in Section
  BY DEF ReportTypeOK
<1>w. {} \in SUBSET Word /\ {"unmapped"} \in SUBSET Word /\ {"builtin"} \in SUBSET Word
  BY DEF Word, Event
<1>1. ASSUME NEW r \in report'.succeeded PROVE FitsSucceeded(r)'
  <2>1. PICK o \in Made : r = RowOf(o, o, {})
    BY <1>1 DEF CollectSucceeded
  <2>2. o \in Object
    BY DEF Made
  <2>3. r.id = o /\ r.name = Name(o) /\ r.org = GoesTo[o]
    BY <1>0, <1>w, <2>1, <2>2, ReportRowTyped
  <2> QED
    BY <1>0, <2>2, <2>3 DEF FitsSucceeded, OwnRow, Name, Made
<1>2. ASSUME NEW r \in report'.partial PROVE FitsPartial(r)'
  <2>1. r.id \in Made /\ Name(r.id) = r.name
    BY <1>2 DEF CollectPartial
  <2>2. PICK o \in With("config") : Name(o) = r.name
    BY <1>2 DEF CollectPartial
  <2>3. section \in {"gates", "profiles"}
    BY <2>2 DEF With, Fated
  <2> QED
    BY <1>0, <2>1, <2>3 DEF FitsPartial, Name, Made
<1>3. ASSUME NEW r \in report'.skipped PROVE FitsSkipped(r)'
  <2>1. CASE \E o \in With("unmapped") : r = RowOf(o, o, {"unmapped"})
    <3>1. PICK o \in With("unmapped") : r = RowOf(o, o, {"unmapped"})
      BY <2>1
    <3>2. o \in Object /\ "unmapped" \in befell[o]
      BY DEF With
    <3>3. r.id = o /\ r.name = Name(o) /\ r.org = GoesTo[o]
      BY <1>0, <1>w, <3>1, <3>2, ReportRowTyped
    <3> QED
      BY <1>0, <3>2, <3>3 DEF FitsSkipped, OwnRow, Name
  <2>2. CASE section \in {"gates", "profiles"} /\ \E o \in With("builtin") : r = RowOf(o, o, {"builtin"})
    <3>1. PICK o \in With("builtin") : r = RowOf(o, o, {"builtin"})
      BY <2>2
    <3>2. o \in Object /\ "builtin" \in befell[o]
      BY DEF With
    <3>3. r.id = o /\ r.name = Name(o) /\ r.org = GoesTo[o]
      BY <1>0, <1>w, <3>1, <3>2, ReportRowTyped
    <3> QED
      BY <1>0, <2>2, <3>2, <3>3 DEF FitsSkipped, OwnRow, Name
  <2> QED
    BY <1>3, <2>1, <2>2 DEF CollectSkipped
<1> QED
  BY <1>1, <1>2, <1>3, FailuresFit DEF RowsFit

\* Where every object is before the passes begin.
LEMMA CollectedIsOne ==
  ASSUME ReportTypeOK, Fated, CollectSection, section \notin {"gates", "profiles"}
  PROVE  OneRow'
<1> USE Collected
<1>0. UNCHANGED <<section, befell>> /\ section \in Section
  BY DEF ReportTypeOK
<1>w. {} \in SUBSET Word /\ {"unmapped"} \in SUBSET Word /\ {"conflict"} \in SUBSET Word
  BY DEF Word, Event
<1>1. report'.partial = {} /\ report'.nearPerfect = {}
  <2>1. With("config") = {}
    BY DEF With, Fated
  <2>2. {r.name : r \in report'.partial} = {}
    BY <2>1 DEF CollectPartial
  <2> QED
    BY <2>2
<1>2. \A r \in report'.succeeded : r.id \in Made /\ r = RowOf(r.id, r.id, {})
  <2> SUFFICES ASSUME NEW o \in Made PROVE RowOf(o, o, {}).id = o
    BY DEF CollectSucceeded
  <2>1. o \in Object
    BY DEF Made
  <2> QED
    BY <1>0, <1>w, <2>1, ReportRowTyped
<1>3. \A r \in report'.skipped :
         r.id \in Object /\ "unmapped" \in befell[r.id] /\ r = RowOf(r.id, r.id, {"unmapped"})
  <2> SUFFICES ASSUME NEW o \in With("unmapped") PROVE RowOf(o, o, {"unmapped"}).id = o
    BY DEF CollectSkipped, With
  <2>1. o \in Object
    BY DEF With
  <2> QED
    BY <1>0, <1>w, <2>1, ReportRowTyped
<1>4. \A r \in report'.failed : r.id # NoObject =>
         r.id \in Object /\ "conflict" \in befell[r.id] /\ r = RowOf(r.id, r.id, {"conflict"})
  <2> SUFFICES ASSUME NEW r \in report'.failed, r.id # NoObject
               PROVE  r.id \in Object /\ "conflict" \in befell[r.id] /\ r = RowOf(r.id, r.id, {"conflict"})
    OBVIOUS
  <2>1. r \notin CollectFailed
    <3>1. SUFFICES ASSUME r \in CollectFailed PROVE FALSE
      OBVIOUS
    <3>2. PICK o \in Object, w \in {"error", "exists"} : r = RowOf(o, NoObject, {w})
      BY <3>1 DEF CollectFailed, Logged, With
    <3>3. {w} \in SUBSET Word /\ NoObject \in Object \cup {NoObject}
      BY DEF Word
    <3>4. r.id = NoObject
      BY <1>0, <3>2, <3>3, ReportRowTyped
    <3> QED
      BY <3>4
  <2>2. r \in CollectExplicitFailures
    BY <2>1 DEF DropFailuresAlreadySucceeded, MergeExplicitProjectFailures
  <2>3. PICK o \in With("conflict") : r = RowOf(o, o, {"conflict"})
    BY <2>2 DEF CollectExplicitFailures
  <2>4. o \in Object /\ "conflict" \in befell[o]
    BY DEF With
  <2>5. r.id = o
    BY <1>0, <1>w, <2>3, <2>4, ReportRowTyped
  <2> QED
    BY <2>3, <2>4, <2>5
<1>5. \A o \in Object : ~(o \in Made /\ befell[o] \cap {"unmapped", "conflict"} # {})
                        /\ ~("unmapped" \in befell[o] /\ "conflict" \in befell[o])
  BY DEF Fated, Fates, Made
<1> SUFFICES ASSUME NEW b \in Bucket, NEW c \in Bucket, NEW r \in report'[b], NEW q \in report'[c],
                    r.id = q.id, r.id # NoObject
             PROVE  b = c /\ r = q
  BY DEF OneRow
<1>6. \A d \in Bucket : \A s \in report'[d] : s.id # NoObject =>
        /\ s.id \in Object
        /\ \/ d = "succeeded" /\ s.id \in Made /\ s = RowOf(s.id, s.id, {})
           \/ d = "skipped" /\ "unmapped" \in befell[s.id] /\ s = RowOf(s.id, s.id, {"unmapped"})
           \/ d = "failed" /\ "conflict" \in befell[s.id] /\ s = RowOf(s.id, s.id, {"conflict"})
  BY <1>1, <1>2, <1>3, <1>4 DEF Bucket, Made
<1> HIDE Collected
<1> QED
  BY <1>5, <1>6

\* The report speaks of o.
Told(o) == \E b \in Bucket : \E r \in report[b] : Speaks(r, o)

LEMMA CollectedIsTold ==
  ASSUME ReportTypeOK, Fated, CollectSection
  PROVE  /\ \A o \in Made : In("succeeded", o)'
         /\ \A o \in With("config") : \E r \in report'.partial : r.name = Name(o)
         /\ section # "portfolios" => \A o \in Object :
               Told(o)' \/ Eclipsed(o) \/ (section = "groups" /\ o \in With("builtin"))
<1> DEFINE left == DropFailuresAlreadySucceeded(CollectFailed, CollectSucceeded)
<1> USE Collected
<1>0. UNCHANGED <<section, befell>> /\ section \in Section
  BY DEF ReportTypeOK
<1>w. \A w \in {"error", "exists", "unmapped", "builtin", "conflict"} : {w} \in SUBSET Word
  BY DEF Word, Event
<1>1. ASSUME NEW o \in Made
      PROVE  /\ RowOf(o, o, {}) \in report'.succeeded /\ RowOf(o, o, {}).id = o
             /\ RowOf(o, o, {}).name = Name(o) /\ RowOf(o, o, {}).org = GoesTo[o] /\ o \in Object
  <2>1. o \in Object /\ {} \in SUBSET Word
    BY DEF Made
  <2> QED
    BY <1>0, <2>1, ReportRowTyped DEF CollectSucceeded
<1>2. \A o \in Made : In("succeeded", o)'
  BY <1>1 DEF In
<1>3. \A o \in With("config") : \E r \in report'.partial : r.name = Name(o)
  <2> SUFFICES ASSUME NEW o \in With("config") PROVE \E r \in report'.partial : r.name = Name(o)
    OBVIOUS
  <2>1. Name(o) \in {r.name : r \in report'.partial}
    BY DEF CollectPartial
  <2> QED
    BY <2>1
<1>4. ASSUME section # "portfolios", NEW o \in Object, ~Eclipsed(o),
             ~(section = "groups" /\ o \in With("builtin"))
      PROVE  Told(o)'
  <2>0. \A b \in Bucket : \A r \in report'[b] :
          r.id = o \/ (r.id = NoObject /\ r.name = Name(o) /\ r.org = GoesTo[o]) => Told(o)'
    BY <1>0 DEF Told, Speaks, Name
  <2>b. {"succeeded", "failed", "skipped"} \subseteq Bucket
    BY DEF Bucket
  <2>1. CASE o \in Made
    BY <1>1, <2>0, <2>1, <2>b
  <2>2. CASE "unmapped" \in befell[o]
    <3>1. RowOf(o, o, {"unmapped"}) \in report'.skipped
      BY <2>2 DEF CollectSkipped, With
    <3>2. RowOf(o, o, {"unmapped"}).id = o
      BY <1>0, <1>w, ReportRowTyped
    <3> QED
      BY <2>0, <2>b, <3>1, <3>2
  <2>3. CASE "builtin" \in befell[o]
    <3>1. section \in {"gates", "profiles"} /\ o \in With("builtin")
      BY <1>4, <2>3 DEF Fated, With
    <3>2. RowOf(o, o, {"builtin"}) \in report'.skipped
      BY <3>1 DEF CollectSkipped
    <3>3. RowOf(o, o, {"builtin"}).id = o
      BY <1>0, <1>w, ReportRowTyped
    <3> QED
      BY <2>0, <2>b, <3>2, <3>3
  <2>4. ASSUME NEW w \in {"error", "exists"}
        PROVE  /\ RowOf(o, NoObject, {w}).id = NoObject /\ RowOf(o, NoObject, {w}).name = Name(o)
               /\ RowOf(o, NoObject, {w}).org = GoesTo[o] /\ RowOf(o, NoObject, {w}).lines = {w}
    <3>1. NoObject \in Object \cup {NoObject}
      OBVIOUS
    <3> QED
      BY <1>0, <1>w, <3>1, ReportRowTyped
  <2>5. CASE "refused" \in befell[o]
    <3>1. RowOf(o, NoObject, {"error"}) \in left
      <4>1. RowOf(o, NoObject, {"error"}) \in CollectFailed
        BY <2>5 DEF CollectFailed, Logged, With
      <4>2. \A s : ~Recovered(RowOf(o, NoObject, {"error"}), s)
        BY <2>4 DEF Recovered
      <4> QED
        BY <4>1, <4>2 DEF DropFailuresAlreadySucceeded
    <3>2. CASE section # "projects"
      BY <2>0, <2>4, <2>b, <3>1, <3>2
    <3>3. CASE section = "projects"
      <4>1. ASSUME NEW e \in CollectExplicitFailures PROVE e.name # RowOf(o, NoObject, {"error"}).name
        <5>1. PICK q \in With("conflict") : e = RowOf(q, q, {"conflict"})
          BY DEF CollectExplicitFailures
        <5>2. q \in Object /\ "conflict" \in befell[q]
          BY DEF With
        <5>3. e.name = Name(q)
          BY <1>0, <1>w, <5>1, <5>2, ReportRowTyped
        <5>4. q # o
          BY <2>5, <5>2 DEF Fated, Fates
        <5> QED
          BY <1>4, <2>4, <2>5, <3>3, <5>2, <5>3, <5>4 DEF Eclipsed
      <4>2. RowOf(o, NoObject, {"error"}) \in report'.failed
        BY <3>1, <3>3, <4>1 DEF MergeExplicitProjectFailures
      <4> QED
        BY <2>0, <2>4, <2>b, <4>2
    <3> QED
      BY <3>2, <3>3
  <2>6. CASE "conflict" \in befell[o]
    <3>1. CASE section = "projects"
      <4>1. RowOf(o, o, {"conflict"}) \in report'.failed
        BY <2>6, <3>1 DEF MergeExplicitProjectFailures, CollectExplicitFailures, With
      <4>2. RowOf(o, o, {"conflict"}).id = o
        BY <1>0, <1>w, ReportRowTyped
      <4> QED
        BY <2>0, <2>b, <4>1, <4>2
    <3>2. CASE section # "projects"
      <4>1. RowOf(o, NoObject, {"exists"}) \in CollectFailed
        BY <2>6 DEF CollectFailed, Logged, With
      <4>2. ASSUME NEW s \in CollectSucceeded PROVE ~Recovered(RowOf(o, NoObject, {"exists"}), s)
        <5>1. PICK q \in Made : s = RowOf(q, q, {})
          BY DEF CollectSucceeded
        <5>2. s.name = Name(q) /\ s.org = GoesTo[q] /\ q \in Object
          BY <1>1, <5>1
        <5>3. q # o
          BY <2>6 DEF Made
        <5> QED
          BY <1>4, <2>4, <2>6, <3>2, <5>2, <5>3 DEF Eclipsed, Recovered
      <4>3. RowOf(o, NoObject, {"exists"}) \in left
        BY <4>1, <4>2 DEF DropFailuresAlreadySucceeded
      <4> QED
        BY <2>0, <2>4, <2>b, <3>2, <4>3
    <3> QED
      BY <3>1, <3>2
  <2> QED
    BY <2>1, <2>2, <2>3, <2>5, <2>6 DEF Made
<1>5. ASSUME section # "portfolios", NEW o \in Object
      PROVE  Told(o)' \/ Eclipsed(o) \/ (section = "groups" /\ o \in With("builtin"))
  BY <1>4, <1>5
<1> QED
  BY <1>2, <1>3, <1>5

-----------------------------------------------------------------------------
(* The rows a pass adds are of objects the report did not name before *)

LEMMA GroupsAreNovel ==
  ASSUME ReportTypeOK, RowsFit, Fated, ApplyGlobalGroupPermFailures
  PROVE  Novel(BuiltInRows)
<1>0. /\ section = "groups" /\ pass = "collected" /\ pass' = "done" /\ UNCHANGED <<section, befell>>
      /\ section \in Section
  BY DEF ApplyGlobalGroupPermFailures, Pass, ReportTypeOK
<1>1. RowsFit' /\ report' \in [Bucket -> SUBSET ReportRow]
  BY GroupsAreOrderly DEF Orderly
<1>2. report'.skipped = report.skipped \cup BuiltInRows /\ report'.failed = report.failed
  BY Buckets DEF ApplyGlobalGroupPermFailures, BuiltInRows
<1>3. ASSUME NEW r \in BuiltInRows
      PROVE  \E o \in Object : "builtin" \in befell[o] /\ r.id = o /\ r = RowOf(o, o, {"builtin"})
  <2>1. PICK o \in With("builtin") : r = RowOf(o, o, {"builtin"})
    BY <1>3 DEF BuiltInRows
  <2>2. o \in Object /\ "builtin" \in befell[o] /\ {"builtin"} \in SUBSET Word
    BY DEF With, Word, Event
  <2>3. r.id = o
    BY <1>0, <2>1, <2>2, ReportRowTyped
  <2> QED
    BY <2>1, <2>2, <2>3
<1>4. SUFFICES ASSUME NEW r \in BuiltInRows, NEW b \in Bucket, NEW q \in report'[b], q.id = r.id
               PROVE  b = "skipped" /\ q = r
  BY DEF Novel
<1>5. PICK o \in Object : "builtin" \in befell[o] /\ r.id = o /\ r = RowOf(o, o, {"builtin"})
  BY <1>3
<1>6. o \notin Made /\ "unmapped" \notin befell[o]
  BY <1>5 DEF Made, Fated, Fates
<1>7. b \notin {"succeeded", "nearPerfect"}
  <2>1. \A x \in report'["succeeded"] \cup report'["nearPerfect"] : x.id \in Made
    BY <1>0, <1>1 DEF RowsFit, FitsSucceeded, Made
  <2> QED
    BY <1>4, <1>5, <1>6, <2>1
<1>8. b # "partial"
  <2>1. \A x \in report'["partial"] : x.id \in Made
    BY <1>0, <1>1 DEF RowsFit, FitsPartial, Made
  <2> QED
    BY <1>4, <1>5, <1>6, <2>1
<1>9. b # "failed"
  <2>1. \A x \in report["failed"] : x.id = NoObject
    BY <1>0 DEF RowsFit, FitsFailed, LogOf, RowOf
  <2>2. o # NoObject
    BY ReportAssumption
  <2> QED
    BY <1>2, <1>4, <1>5, <2>1, <2>2
<1>10. CASE b = "skipped" /\ q \in report["skipped"]
  <2>1. FitsSkipped(q) /\ q.id = o
    BY <1>4, <1>5, <1>10 DEF RowsFit
  <2> QED
    BY <1>0, <1>6, <2>1 DEF FitsSkipped
<1>11. CASE b = "skipped" /\ q \in BuiltInRows
  BY <1>3, <1>4, <1>5, <1>11
<1> QED
  BY <1>2, <1>7, <1>8, <1>9, <1>10, <1>11 DEF Bucket

LEMMA EmptiesAreNovel ==
  ASSUME ReportTypeOK, RowsFit, Fated, ApplyEmptyPortfolioSkips
  PROVE  Novel(EmptyRows)
<1>0. /\ section = "portfolios" /\ pass = "classified" /\ pass' = "filled" /\ UNCHANGED <<section, befell>>
      /\ section \in Section
  BY DEF ApplyEmptyPortfolioSkips, Pass, ReportTypeOK
<1>1. /\ \A b \in {"succeeded", "nearPerfect", "partial"} : \A q \in report'[b] :
            q \in report[b] /\ q.name \notin {Name(o) : o \in With("empty")}
      /\ report'["failed"] = report["failed"] /\ report'["skipped"] = report["skipped"] \cup EmptyRows
  BY Buckets DEF ApplyEmptyPortfolioSkips, EmptyRows
<1>3. ASSUME NEW r \in EmptyRows
      PROVE  \E o \in Object : "empty" \in befell[o] /\ r.id = o /\ r = RowOf(o, o, {"empty"})
  <2>1. PICK o \in With("empty") : r = RowOf(o, o, {"empty"})
    BY <1>3 DEF EmptyRows
  <2>2. o \in Object /\ "empty" \in befell[o] /\ {"empty"} \in SUBSET Word
    BY DEF With, Word, Event
  <2>3. r.id = o
    BY <1>0, <2>1, <2>2, ReportRowTyped
  <2> QED
    BY <2>1, <2>2, <2>3
<1>4. SUFFICES ASSUME NEW r \in EmptyRows, NEW b \in Bucket, NEW q \in report'[b], q.id = r.id
               PROVE  b = "skipped" /\ q = r
  BY DEF Novel
<1>5. PICK o \in Object : "empty" \in befell[o] /\ r.id = o /\ r = RowOf(o, o, {"empty"})
  BY <1>3
<1>6. "unmapped" \notin befell[o] /\ "builtin" \notin befell[o]
  BY <1>0 DEF Fated
<1>7. b \notin {"succeeded", "nearPerfect", "partial"}
  <2>1. SUFFICES ASSUME b \in {"succeeded", "nearPerfect", "partial"} PROVE FALSE
    OBVIOUS
  <2>2. FitsSucceeded(q) \/ FitsPartial(q)
    BY <1>1, <2>1 DEF RowsFit
  <2>3. q.name = Name(o)
    BY <1>4, <1>5, <2>2 DEF FitsSucceeded, FitsPartial, OwnRow
  <2> QED
    BY <1>1, <1>5, <2>1, <2>3 DEF With
<1>9. b # "failed"
  <2>1. \A x \in report["failed"] : x.id = NoObject
    BY <1>0 DEF RowsFit, FitsFailed, LogOf, RowOf
  <2>2. o # NoObject
    BY ReportAssumption
  <2> QED
    BY <1>1, <1>4, <1>5, <2>1, <2>2
<1>10. CASE b = "skipped" /\ q \in report["skipped"]
  <2>1. FitsSkipped(q) /\ q.id = o
    BY <1>4, <1>5, <1>10 DEF RowsFit
  <2> QED
    BY <1>0, <1>6, <2>1 DEF FitsSkipped
<1>11. CASE b = "skipped" /\ q \in EmptyRows
  BY <1>3, <1>4, <1>5, <1>11
<1> QED
  BY <1>1, <1>7, <1>9, <1>10, <1>11 DEF Bucket

-----------------------------------------------------------------------------
(* The invariant of the report *)

\* Where the passes made so far put a project.
BucketAt(p) ==
  IF pass \notin {"collected", "data"} /\ p \in With("orange") THEN "partial"
  ELSE IF pass \in {"override", "done"} /\ p \in With("override") THEN "partial"
  ELSE IF pass = "done" /\ FailuresOf(p) # {} THEN Worst(FailuresOf(p)) ELSE "succeeded"

Verdicts == section = "projects" /\ pass # "running" => \A p \in Made : In(BucketAt(p), p)

TellsAll ==
  pass # "running" /\ section # "portfolios" => \A o \in Object :
     Told(o) \/ Eclipsed(o) \/ (pass = "collected" /\ section = "groups" /\ o \in With("builtin"))

LossKept ==
  section \in {"gates", "profiles"} =>
    /\ pass = "collected" =>
         /\ \A o \in Made : In("succeeded", o)
         /\ \A o \in With("config") : \E r \in report.partial : r.name = Name(o)
    /\ pass = "done" => \A o \in Made : befell[o] \cap {"config", "orange"} # {} =>
                            \E r \in report.partial : r.name = Name(o)

\* RowsFit says whose a row is, OneRow that nothing is listed by its object
\* twice; TellsAll, LossKept and Verdicts say where an object is after each pass.
ReportInv ==
  /\ ReportTypeOK /\ befell \in Evidence[section]
  /\ pass = "running" => report = Blank
  /\ pass \in {"data", "ncd", "override"} => section = "projects"
  /\ pass \in {"classified", "filled"} => section = "portfolios"
  /\ RowsFit
  /\ section \notin {"gates", "profiles"} => OneRow
  /\ TellsAll /\ LossKept /\ Verdicts

LEMMA ReportStarts == ReportInit => ReportInv
<1> SUFFICES ASSUME ReportInit PROVE ReportInv
  OBVIOUS
<1>1. \A b \in Bucket : report[b] = {}
  BY DEF ReportInit, Blank
<1>2. ReportTypeOK
  <2>1. befell \in [Object -> SUBSET Event]
    BY ReportAssumption DEF ReportInit
  <2>2. report \in [Bucket -> SUBSET ReportRow]
    BY DEF ReportInit, Blank
  <2> QED
    BY <2>1, <2>2 DEF ReportTypeOK, ReportInit
<1>3. RowsFit /\ OneRow
  <2>1. /\ report.succeeded = {} /\ report.nearPerfect = {} /\ report.partial = {}
        /\ report.failed = {} /\ report.skipped = {}
    BY <1>1 DEF Bucket
  <2>2. RowsFit
    BY <2>1 DEF RowsFit
  <2> QED
    BY <1>1, <2>2 DEF OneRow
<1> QED
  BY <1>2, <1>3 DEF ReportInv, ReportInit, TellsAll, LossKept, Verdicts

LEMMA RecordKeepsReport ==
  ASSUME ReportInv, NEW p \in Importing, NEW b \in BranchName, NEW s \in RowStatus, RecordBranch(p, b, s)
  PROVE  ReportInv'
<1>1. /\ pass = "running" /\ UNCHANGED <<section, pass, befell, report>>
      /\ written' = Append(written, [of |-> p, branch |-> b, status |-> s])
  BY DEF RecordBranch
<1>2. ReportTypeOK'
  <2> DEFINE BranchRow == [of : Importing, branch : BranchName, status : RowStatus]
  <2>1. written \in Seq(BranchRow) /\ [of |-> p, branch |-> b, status |-> s] \in BranchRow
    BY DEF ReportInv, ReportTypeOK
  <2>2. written' \in Seq(BranchRow)
    <3> HIDE DEF BranchRow
    <3> QED
      BY <1>1, <2>1
  <2> QED
    BY <1>1, <2>2 DEF ReportInv, ReportTypeOK
<1>3. RowsFit' /\ (OneRow => OneRow')
  BY <1>1 DEF ReportInv, RowsFit, OneRow, FitsSucceeded, FitsPartial, FitsFailed, FitsSkipped,
              OwnRow, LogOf, RowOf, Name, Made
<1> QED
  BY <1>1, <1>2, <1>3 DEF ReportInv, TellsAll, LossKept, Verdicts

LEMMA CollectKeepsReport ==
  ASSUME ReportInv, CollectSection
  PROVE  ReportInv'
<1>1. /\ pass = "running" /\ pass' = "collected" /\ UNCHANGED <<section, befell, written>>
      /\ report' \in [Bucket -> SUBSET ReportRow]
  BY Collected DEF ReportInv
<1>2. Fated /\ ReportTypeOK
  BY FatesAreKnown DEF ReportInv
<1>3. ReportTypeOK'
  BY <1>1, <1>2 DEF ReportTypeOK
<1>4. RowsFit' /\ (section \notin {"gates", "profiles"} => OneRow')
  BY <1>2, CollectedFit, CollectedIsOne
<1>5. Made' = Made /\ \A e : With(e)' = With(e)
  BY <1>1 DEF Made, With
<1>6. \A o \in Object : Eclipsed(o)' <=> Eclipsed(o)
  BY <1>1, <1>5 DEF Eclipsed, Name
<1>7. TellsAll'
  <2> SUFFICES ASSUME section # "portfolios", NEW o \in Object
               PROVE  Told(o)' \/ Eclipsed(o)' \/ (pass' = "collected" /\ section' = "groups" /\ o \in With("builtin")')
    BY <1>1 DEF TellsAll
  <2>1. Told(o)' \/ Eclipsed(o) \/ (section = "groups" /\ o \in With("builtin"))
    BY <1>2, CollectedIsTold
  <2> QED
    BY <1>1, <1>5, <1>6, <2>1
<1>8. \A o \in Made' : In("succeeded", o)'
  BY <1>2, <1>5, CollectedIsTold
<1>9. \A o \in With("config")' : \E r \in report'.partial : r.name = Name(o)'
  <2>1. \A o \in With("config") : \E r \in report'.partial : r.name = Name(o)
    BY <1>2, CollectedIsTold
  <2> QED
    BY <1>1, <1>5, <2>1 DEF Name
<1>10. LossKept'
  BY <1>1, <1>8, <1>9 DEF LossKept
<1>11. Verdicts'
  <2>1. \A p : BucketAt(p)' = "succeeded"
    BY <1>1 DEF BucketAt
  <2> QED
    BY <1>8, <2>1 DEF Verdicts
<1> QED
  BY <1>1, <1>3, <1>4, <1>7, <1>10, <1>11 DEF ReportInv

\* What is left to show of a pass.
LEMMA PassKeepsReport ==
  ASSUME ReportInv, Onward, NEW fresh, Orderly(fresh), Novel(fresh),
         pass' \in {"data", "ncd", "override", "classified", "filled", "done"},
         pass' \in {"data", "ncd", "override"} => section = "projects",
         pass' \in {"classified", "filled"} => section = "portfolios",
         TellsAll', LossKept', Verdicts'
  PROVE  ReportInv'
<1>1. UNCHANGED <<section, befell, written>> /\ report' \in [Bucket -> SUBSET ReportRow]
  BY DEF Onward, Orderly
<1>2. ReportTypeOK'
  BY <1>1 DEF ReportInv, ReportTypeOK
<1>3. RowsFit' /\ (section' \notin {"gates", "profiles"} => OneRow')
  BY <1>1 DEF Orderly, ReportInv
<1> QED
  BY <1>1, <1>2, <1>3 DEF ReportInv

LEMMA SameEvents ==
  ASSUME UNCHANGED <<section, befell>>
  PROVE  /\ Made' = Made /\ \A e : With(e)' = With(e)
         /\ \A o : (Eclipsed(o)' <=> Eclipsed(o)) /\ Name(o)' = Name(o)
BY DEF Made, With, Eclipsed, Name

LEMMA ToldStays ==
  ASSUME RowsKept, UNCHANGED section, NEW o, Told(o)
  PROVE  Told(o)'
<1>1. PICK b \in Bucket : \E q \in report[b] : Speaks(q, o)
  BY DEF Told
<1>2. PICK q \in report[b] : Speaks(q, o)
  BY <1>1
<1>3. PICK c \in Bucket : \E r \in report'[c] : r.id = q.id /\ r.name = q.name /\ r.org = q.org
  BY <1>2 DEF RowsKept
<1>4. PICK r \in report'[c] : r.id = q.id /\ r.name = q.name /\ r.org = q.org
  BY <1>3
<1>5. Speaks(r, o)'
  BY <1>2, <1>4 DEF Speaks, Name
<1> QED
  BY <1>4, <1>5 DEF Told

LEMMA KeptIsTold ==
  ASSUME ReportInv, Onward, RowsKept, pass \notin {"running"}, section # "groups"
  PROVE  TellsAll'
<1>1. UNCHANGED <<section, befell>>
  BY DEF Onward
<1>2. SUFFICES ASSUME section # "portfolios", NEW o \in Object
               PROVE  Told(o)' \/ Eclipsed(o)
  BY <1>1, SameEvents DEF TellsAll
<1>3. Told(o) \/ Eclipsed(o)
  BY <1>2 DEF ReportInv, TellsAll
<1> QED
  BY <1>1, <1>3, ToldStays

LEMMA NovelNone == Novel({})
BY DEF Novel

\* A row of Partial stays one.
LEMMA KeptPartial ==
  ASSUME RowsKept, NEW p, In("partial", p)
  PROVE  In("partial", p)'
<1>1. PICK q \in report["partial"] : q.id = p
  BY DEF In
<1>2. \E c \in Bucket : \E r \in report'[c] : r.id = q.id /\ c = "partial"
  BY <1>1 DEF RowsKept, Bucket
<1> QED
  BY <1>1, <1>2 DEF In

-----------------------------------------------------------------------------
(* What the records say of a project does not change while it is sorted *)

LEMMA SameFailures ==
  ASSUME UNCHANGED <<befell, written>>, NEW p
  PROVE  FailuresOf(p)' = FailuresOf(p)
<1>1. \A j, k : SameBranch(j, k)' <=> SameBranch(j, k)
  BY DEF SameBranch
<1>2. LastOfBranch(p)' = LastOfBranch(p)
  BY <1>1 DEF LastOfBranch
<1>3. EndedAs(p)' = EndedAs(p)
  BY <1>2 DEF EndedAs
<1>4. DataOutcome(p)' = DataOutcome(p)
  BY <1>3 DEF DataOutcome
<1>5. SyncSkips(p)' = SyncSkips(p)
  BY <1>3, <1>4 DEF SyncSkips, DataSkipped
<1> QED
  BY <1>3, <1>5 DEF FailuresOf

-----------------------------------------------------------------------------
(* Each step keeps the invariant *)

LEMMA AttachKeepsReport ==
  ASSUME ReportInv, AttachProjectData
  PROVE  ReportInv'
<1>1. /\ section = "projects" /\ pass = "collected" /\ pass' = "data" /\ Onward
      /\ UNCHANGED <<section, befell>>
  BY DEF AttachProjectData, Pass, Onward
<1>2. Orderly({}) /\ RowsKept /\ ReportTypeOK
  BY AttachIsOrderly DEF ReportInv
<1>3. Verdicts'
  <2> SUFFICES ASSUME NEW p \in Made PROVE In("succeeded", p)'
    BY <1>1, SameEvents DEF Verdicts, BucketAt
  <2>1. In("succeeded", p)
    BY <1>1 DEF ReportInv, Verdicts, BucketAt
  <2>2. PICK r \in report.succeeded : r.id = p
    BY <2>1 DEF In
  <2>3. Add(r, {DataOutcome(r.id)} \ {"none"}) \in report'.succeeded
    BY <1>2, Buckets DEF AttachProjectData
  <2> QED
    BY <1>2, <2>2, <2>3, Buckets, AddKeeps DEF In
<1>4. TellsAll' /\ LossKept'
  BY <1>1, <1>2, KeptIsTold DEF LossKept
<1> QED
  BY <1>1, <1>2, <1>3, <1>4, NovelNone, PassKeepsReport

LEMMA FallbackKeepsReport ==
  ASSUME ReportInv, ApplyNCDFallback
  PROVE  ReportInv'
<1>1. /\ section = "projects" /\ pass = "data" /\ pass' = "ncd" /\ Onward
      /\ UNCHANGED <<section, befell>>
  BY DEF ApplyNCDFallback, Pass, Onward
<1>2. Orderly({}) /\ RowsKept /\ ReportTypeOK
  BY FallbackIsOrderly DEF ReportInv
<1>3. Verdicts'
  <2> SUFFICES ASSUME NEW p \in Made
               PROVE  IF p \in With("orange") THEN In("partial", p)' ELSE In("succeeded", p)'
    BY <1>1, SameEvents DEF Verdicts, BucketAt
  <2>1. In("succeeded", p)
    BY <1>1 DEF ReportInv, Verdicts, BucketAt
  <2>2. PICK r \in report.succeeded : r.id = p
    BY <2>1 DEF In
  <2>3. CASE p \in With("orange")
    <3>1. Add(r, {"orange"}) \in report'.partial
      BY <1>2, <2>2, <2>3, Buckets DEF ApplyNCDFallback
    <3> QED
      BY <1>2, <2>2, <2>3, <3>1, Buckets, AddKeeps DEF In
  <2>4. CASE p \notin With("orange")
    <3>1. r \in report'.succeeded
      BY <1>2, <2>2, <2>4, Buckets DEF ApplyNCDFallback
    <3> QED
      BY <2>2, <2>4, <3>1 DEF In
  <2> QED
    BY <2>3, <2>4
<1>4. TellsAll' /\ LossKept'
  BY <1>1, <1>2, KeptIsTold DEF LossKept
<1> QED
  BY <1>1, <1>2, <1>3, <1>4, NovelNone, PassKeepsReport

LEMMA OverrideKeepsReport ==
  ASSUME ReportInv, ApplyNCDBranchOverride
  PROVE  ReportInv'
<1>1. /\ section = "projects" /\ pass = "ncd" /\ pass' = "override" /\ Onward
      /\ UNCHANGED <<section, befell>>
  BY DEF ApplyNCDBranchOverride, Pass, Onward
<1>2. Orderly({}) /\ RowsKept /\ ReportTypeOK
  BY OverrideIsOrderly DEF ReportInv
<1>3. Verdicts'
  <2> SUFFICES ASSUME NEW p \in Made
               PROVE  IF p \in With("orange") \cup With("override")
                        THEN In("partial", p)' ELSE In("succeeded", p)'
    BY <1>1, SameEvents DEF Verdicts, BucketAt
  <2>1. IF p \in With("orange") THEN In("partial", p) ELSE In("succeeded", p)
    BY <1>1 DEF ReportInv, Verdicts, BucketAt
  <2>2. CASE p \in With("orange")
    BY <1>2, <2>1, <2>2, KeptPartial
  <2>3. CASE p \notin With("orange")
    <3>1. PICK r \in report.succeeded : r.id = p
      BY <2>1, <2>3 DEF In
    <3>2. CASE p \in With("override")
      <4>1. Add(r, {"override"}) \in report'.partial
        BY <1>2, <3>1, <3>2, Buckets DEF ApplyNCDBranchOverride
      <4> QED
        BY <1>2, <3>1, <3>2, <4>1, Buckets, AddKeeps DEF In
    <3>3. CASE p \notin With("override")
      <4>1. r \in report'.succeeded
        BY <1>2, <3>1, <3>3, Buckets DEF ApplyNCDBranchOverride
      <4> QED
        BY <2>3, <3>1, <3>3, <4>1 DEF In
    <3> QED
      BY <3>2, <3>3
  <2> QED
    BY <2>2, <2>3
<1>4. TellsAll' /\ LossKept'
  BY <1>1, <1>2, KeptIsTold DEF LossKept
<1> QED
  BY <1>1, <1>2, <1>3, <1>4, NovelNone, PassKeepsReport

LEMMA FailuresKeepReport ==
  ASSUME ReportInv, ApplyProjectFailures
  PROVE  ReportInv'
<1>1. /\ section = "projects" /\ pass = "override" /\ pass' = "done" /\ Onward
      /\ UNCHANGED <<section, befell, written>>
  BY DEF ApplyProjectFailures, Pass, Onward
<1>2. Orderly({}) /\ RowsKept /\ ReportTypeOK
  BY FailuresAreOrderly DEF ReportInv
<1>3. Verdicts'
  <2> DEFINE lost(p) == FailuresOf(p)
             worst(p) == Worst(FailuresOf(p))
             moved(p, r) == Add(r, Lines(FailuresOf(p)))
  <2>s. \A p : FailuresOf(p)' = FailuresOf(p) /\ Worst(FailuresOf(p)') = Worst(FailuresOf(p))
    BY <1>1, SameFailures
  <2> SUFFICES ASSUME NEW p \in Made
               PROVE  IF p \in With("orange") \cup With("override") THEN In("partial", p)'
                      ELSE IF lost(p) # {} THEN \E b : b = worst(p) /\ In(b, p)'
                      ELSE In("succeeded", p)'
    <3>1. \A p : BucketAt(p)' = IF p \in With("orange") \cup With("override") THEN "partial"
                                ELSE IF lost(p) # {} THEN worst(p) ELSE "succeeded"
      BY <1>1, <2>s, SameEvents DEF BucketAt, Worst
    <3> HIDE DEF lost, worst
    <3> QED
      BY <1>1, <3>1, SameEvents DEF Verdicts, In
  <2>1. IF p \in With("orange") \cup With("override") THEN In("partial", p) ELSE In("succeeded", p)
    BY <1>1 DEF ReportInv, Verdicts, BucketAt
  <2>2. CASE p \in With("orange") \cup With("override")
    BY <1>2, <2>1, <2>2, KeptPartial
  <2>3. CASE p \notin With("orange") \cup With("override")
    <3>1. PICK r \in report.succeeded : r.id = p
      BY <2>1, <2>3 DEF In
    <3>2. CASE lost(p) # {}
      <4>1. worst(p) \in {"partial", "nearPerfect"}
        BY LinesTyped
      <4>2. moved(p, r) \in report'[worst(p)]
        <5>1. r \in {q \in {x \in report.succeeded : FailuresOf(x.id) # {}} : Worst(FailuresOf(q.id)) = worst(p)}
          BY <3>1, <3>2
        <5>2. moved(p, r) \in {Add(q, Lines(FailuresOf(q.id))) :
                 q \in {y \in {x \in report.succeeded : FailuresOf(x.id) # {}} : Worst(FailuresOf(y.id)) = worst(p)}}
          BY <3>1, <5>1
        <5>3. CASE worst(p) = "partial"
          BY <1>2, <5>2, <5>3, Buckets DEF ApplyProjectFailures
        <5>4. CASE worst(p) = "nearPerfect"
          BY <1>2, <5>2, <5>4, Buckets DEF ApplyProjectFailures
        <5> QED
          BY <4>1, <5>3, <5>4
      <4>3. moved(p, r).id = p
        BY <1>2, <3>1, Buckets, AddKeeps
      <4> HIDE DEF moved, lost, worst
      <4>4. \E b : b = worst(p) /\ In(b, p)'
        BY <4>2, <4>3 DEF In
      <4> QED
        BY <2>3, <3>2, <4>4 DEF lost
    <3>3. CASE lost(p) = {}
      <4>1. r \in report'.succeeded
        BY <1>2, <3>1, <3>3, Buckets DEF ApplyProjectFailures
      <4> QED
        BY <2>3, <3>1, <3>3, <4>1 DEF In
    <3> QED
      BY <3>2, <3>3
  <2> QED
    BY <2>2, <2>3
<1>4. TellsAll' /\ LossKept'
  BY <1>1, <1>2, KeptIsTold DEF LossKept
<1> QED
  BY <1>1, <1>2, <1>3, <1>4, NovelNone, PassKeepsReport

LEMMA PortfoliosKeepReport ==
  ASSUME ReportInv, ApplyPortfolioClassifications \/ ApplyEmptyPortfolioSkips \/ ApplyPortfolioFailures
  PROVE  ReportInv'
<1>1. ReportTypeOK /\ RowsFit /\ Fated
  BY FatesAreKnown DEF ReportInv
<1>2. /\ section = "portfolios" /\ section' = "portfolios" /\ Onward
      /\ pass' \in {"classified", "filled", "done"}
  BY DEF ApplyPortfolioClassifications, ApplyEmptyPortfolioSkips, ApplyPortfolioFailures, Pass, Onward
<1>3. TellsAll' /\ LossKept' /\ Verdicts'
  BY <1>2 DEF TellsAll, LossKept, Verdicts
<1>4. CASE ApplyPortfolioClassifications
  <2>1. Orderly({})
    BY <1>1, <1>4, PortfoliosAreOrderly
  <2> QED
    BY <1>2, <1>3, <2>1, NovelNone, PassKeepsReport
<1>5. CASE ApplyEmptyPortfolioSkips
  <2>1. Orderly(EmptyRows) /\ Novel(EmptyRows)
    BY <1>1, <1>5, EmptiesAreOrderly, EmptiesAreNovel
  <2> QED
    BY <1>2, <1>3, <2>1, PassKeepsReport
<1>6. CASE ApplyPortfolioFailures
  <2>1. Orderly({})
    BY <1>1, <1>6, UpdatesAreOrderly
  <2> QED
    BY <1>2, <1>3, <2>1, NovelNone, PassKeepsReport
<1> QED
  BY <1>4, <1>5, <1>6

LEMMA NotesKeepReport ==
  ASSUME ReportInv, ApplyGateMappingNotes \/ ApplyProfileFindings
  PROVE  ReportInv'
<1>1. ReportTypeOK /\ RowsFit
  BY DEF ReportInv
<1>2. /\ section \in {"gates", "profiles"} /\ pass = "collected" /\ pass' = "done" /\ Onward
      /\ report' = Noted /\ UNCHANGED <<section, befell>>
  BY DEF ApplyGateMappingNotes, ApplyProfileFindings, Pass, Onward
<1>3. Orderly({}) /\ RowsKept
  BY <1>1, <1>2, NotesAreOrderly
<1>4. ASSUME NEW o \in Made, befell[o] \cap {"config", "orange"} # {}
      PROVE  \E r \in report'.partial : r.name = Name(o)
  <2>1. CASE "config" \in befell[o]
    <3>1. PICK q \in report["partial"] : q.name = Name(o)
      BY <1>2, <2>1 DEF ReportInv, LossKept, With, Made
    <3>2. \E c \in Bucket : \E r \in report'[c] : r.name = q.name /\ c = "partial"
      BY <1>3 DEF RowsKept, Bucket
    <3> QED
      BY <3>1, <3>2
  <2>2. CASE "orange" \in befell[o]
    <3>1. PICK q \in report.succeeded : q.id = o
      BY <1>2 DEF ReportInv, LossKept, In
    <3>2. q.name = Name(o) /\ q \in ReportRow
      BY <1>1, <3>1, Buckets DEF RowsFit, FitsSucceeded, OwnRow
    <3>3. Add(q, befell[q.id] \cap {"yellow", "orange"}) \in report'.partial
      BY <1>1, <1>2, <2>2, <3>1, Buckets DEF Noted
    <3>4. Add(q, befell[q.id] \cap {"yellow", "orange"}).name = q.name
      BY <3>2, AddKeeps
    <3> QED
      BY <3>2, <3>3, <3>4
  <2> QED
    BY <1>4, <2>1, <2>2
<1>5. LossKept'
  BY <1>2, <1>4, SameEvents DEF LossKept
<1>6. TellsAll' /\ Verdicts'
  BY <1>2, <1>3, KeptIsTold DEF Verdicts
<1> QED
  BY <1>2, <1>3, <1>5, <1>6, NovelNone, PassKeepsReport

LEMMA GroupsKeepReport ==
  ASSUME ReportInv, ApplyGlobalGroupPermFailures
  PROVE  ReportInv'
<1>1. ReportTypeOK /\ RowsFit /\ Fated
  BY FatesAreKnown DEF ReportInv
<1>2. /\ section = "groups" /\ pass = "collected" /\ pass' = "done" /\ Onward
      /\ UNCHANGED <<section, befell>>
  BY DEF ApplyGlobalGroupPermFailures, Pass, Onward
<1>3. Orderly(BuiltInRows) /\ RowsKept /\ Novel(BuiltInRows)
  BY <1>1, GroupsAreOrderly, GroupsAreNovel
<1>4. ASSUME NEW o \in Object PROVE Told(o)' \/ Eclipsed(o)'
  <2>1. Told(o) \/ Eclipsed(o) \/ o \in With("builtin")
    BY <1>2 DEF ReportInv, TellsAll
  <2>2. CASE o \in With("builtin")
    <3>1. RowOf(o, o, {"builtin"}) \in report'["skipped"]
      BY <1>1, <2>2, Buckets DEF ApplyGlobalGroupPermFailures
    <3>2. RowOf(o, o, {"builtin"}).id = o
      <4>1. {"builtin"} \in SUBSET Word /\ section \in Section
        BY <1>1 DEF Word, Event, ReportTypeOK
      <4> QED
        BY <4>1, ReportRowTyped
    <3> QED
      BY <3>1, <3>2 DEF Told, Speaks, Bucket
  <2> QED
    BY <1>2, <1>3, <2>1, <2>2, ToldStays, SameEvents
<1>5. TellsAll' /\ LossKept' /\ Verdicts'
  BY <1>2, <1>4 DEF TellsAll, LossKept, Verdicts
<1> QED
  BY <1>2, <1>3, <1>5, PassKeepsReport

LEMMA TemplatesKeepReport ==
  ASSUME ReportInv, ApplyTemplateDefaultFailures
  PROVE  ReportInv'
<1>1. /\ section = "templates" /\ pass = "collected" /\ pass' = "done" /\ Onward
      /\ UNCHANGED <<section, befell>>
  BY DEF ApplyTemplateDefaultFailures, Pass, Onward
<1>2. Orderly({}) /\ RowsKept
  BY DefaultIsOrderly DEF ReportInv
<1>3. TellsAll' /\ LossKept' /\ Verdicts'
  BY <1>1, <1>2, KeptIsTold DEF LossKept, Verdicts
<1> QED
  BY <1>1, <1>2, <1>3, NovelNone, PassKeepsReport

LEMMA ReportSteps == ReportInv /\ [ReportNext]_rvars => ReportInv'
<1> SUFFICES ASSUME ReportInv, [ReportNext]_rvars PROVE ReportInv'
  OBVIOUS
<1>1. CASE UNCHANGED rvars
  <2>1. UNCHANGED <<section, pass, befell, written, report>>
    BY <1>1 DEF rvars
  <2>2. RowsFit' /\ (OneRow => OneRow')
    BY <2>1 DEF ReportInv, RowsFit, OneRow, FitsSucceeded, FitsPartial, FitsFailed, FitsSkipped,
                OwnRow, LogOf, RowOf, Name, Made
  <2>3. \A p : BucketAt(p)' = BucketAt(p)
    BY <2>1, SameEvents, SameFailures DEF BucketAt, Worst
  <2>4. Verdicts'
    BY <2>1, <2>3, SameEvents DEF ReportInv, Verdicts, In
  <2>5. TellsAll' /\ LossKept'
    BY <2>1, SameEvents DEF ReportInv, TellsAll, LossKept, Told, Speaks, In, Name
  <2> QED
    BY <2>1, <2>2, <2>4, <2>5 DEF ReportInv, ReportTypeOK
<1>2. CASE ReportNext
  BY <1>2, RecordKeepsReport, CollectKeepsReport, AttachKeepsReport, FallbackKeepsReport,
     OverrideKeepsReport, FailuresKeepReport, PortfoliosKeepReport, NotesKeepReport,
     GroupsKeepReport, TemplatesKeepReport DEF ReportNext
<1> QED
  BY <1>1, <1>2

\* After any pass every row is of an object that may be in its bucket, every object
\* is told of that the log gives an own name, and every project is where the passes
\* made so far put it.
THEOREM ReportIsSound == ReportSpec => []ReportInv
BY ReportStarts, ReportSteps, PTL DEF ReportSpec

-----------------------------------------------------------------------------
(* The theorems of the report *)

\* Whatever befell a project and in whatever order its branches were written and
\* written again, it is partial if anything much was lost, near perfect if only
\* little was, and succeeded otherwise.
THEOREM VerdictIsTheWorst == ReportSpec => []VerdictIsWorst
<1>1. ReportInv => VerdictIsWorst
  <2> SUFFICES ASSUME ReportInv, Done("projects"), NEW p \in Made
               PROVE  /\ MuchLost(p) => In("partial", p)
                      /\ LittleLost(p) /\ ~MuchLost(p) => In("nearPerfect", p)
                      /\ ~MuchLost(p) /\ ~LittleLost(p) => In("succeeded", p)
    BY DEF VerdictIsWorst
  <2>1. In(BucketAt(p), p)
    BY DEF ReportInv, Verdicts, Done
  <2>2. CASE p \in With("orange") \cup With("override")
    BY <2>1, <2>2 DEF BucketAt, Done, MuchLost, With
  <2>3. CASE p \notin With("orange") \cup With("override")
    <3>1. befell[p] \cap {"orange", "override"} = {}
      BY <2>3 DEF With, Made
    <3>2. /\ MuchLost(p) <=> \E f \in FailuresOf(p) : f.bucket = "partial"
          /\ MuchLost(p) \/ LittleLost(p) <=> FailuresOf(p) # {}
      BY <3>1, FailuresAreLosses DEF ReportInv
    <3>3. BucketAt(p) = IF FailuresOf(p) # {} THEN Worst(FailuresOf(p)) ELSE "succeeded"
      BY <2>3 DEF BucketAt, Done
    <3> QED
      BY <2>1, <3>2, <3>3 DEF Worst
  <2> QED
    BY <2>2, <2>3
<1> QED
  BY <1>1, ReportIsSound, PTL

LEMMA ReportListsOnce == ReportInv => ListedOnce
<1> SUFFICES ASSUME ReportInv, NEW s \in Section \ {"gates", "profiles"}, Done(s), NEW o \in Object,
                    Unmistakable(o), o \in Made \/ "empty" \notin befell[o]
             PROVE  Cardinality(Listings(o)) =< 1
  BY DEF ListedOnce
<1>0. ReportTypeOK /\ RowsFit /\ OneRow /\ Fated /\ section \notin {"gates", "profiles"} /\ section \in Section
  BY FatesAreKnown DEF ReportInv, Done, ReportTypeOK
<1>1. ASSUME NEW b \in Bucket, NEW r \in report[b], r.id = NoObject, Speaks(r, o)
      PROVE  b = "failed" /\ LogOf(r, o)
  <2>1. NoObject \notin Object
    BY ReportAssumption
  <2>2. b = "failed" /\ FitsFailed(r)
    BY <1>0, <1>1, <2>1 DEF RowsFit, FitsSucceeded, FitsPartial, FitsSkipped, OwnRow, Bucket, Made
  <2>3. PICK q \in Object : LogOf(r, q)
    BY <1>1, <2>1, <2>2 DEF FitsFailed, OwnRow
  <2>4. r.name = Name(q) /\ r.org = GoesTo[q]
    BY <2>3 DEF LogOf, RowOf
  <2>5. r.name = Name(o) /\ r.org = GoesTo[o]
    BY <1>1, <2>1 DEF Speaks
  <2>6. q = o
    BY <2>4, <2>5 DEF Unmistakable
  <2> QED
    BY <2>2, <2>3, <2>6
<1>2. ASSUME NEW b \in Bucket, NEW r \in report[b], r.id = o, NEW f, LogOf(f, o)
      PROVE  FALSE
  <2>1. befell[o] \cap {"refused", "conflict"} # {} /\ (section = "projects" => "conflict" \notin befell[o])
    BY <1>2 DEF LogOf
  <2>2. o \notin Made /\ befell[o] \cap {"unmapped", "builtin"} = {} /\ "empty" \notin befell[o]
    <3>1. o \notin Made
      BY <2>1 DEF Made
    <3> QED
      BY <1>0, <2>1, <3>1 DEF Fated, Fates
  <2>3. CASE b \in {"succeeded", "nearPerfect", "partial"}
    BY <1>0, <1>2, <2>2, <2>3 DEF RowsFit, FitsSucceeded, FitsPartial
  <2>4. CASE b = "skipped"
    BY <1>0, <1>2, <2>2, <2>4 DEF RowsFit, FitsSkipped
  <2>5. CASE b = "failed"
    <3>1. FitsFailed(r) /\ r.id \in Object
      BY <1>0, <1>2, <2>5 DEF RowsFit
    <3>2. ~ \E q \in Object : LogOf(r, q)
      BY <3>1, ReportAssumption DEF LogOf, RowOf
    <3> QED
      BY <1>2, <2>1, <2>2, <3>1, <3>2 DEF FitsFailed
  <2> QED
    BY <2>3, <2>4, <2>5 DEF Bucket
<1>3. ASSUME NEW l \in Listings(o), NEW m \in Listings(o)
      PROVE  l = m
  <2>1. /\ l[1] \in Bucket /\ l[2] \in report[l[1]] /\ Speaks(l[2], o) /\ l = <<l[1], l[2]>>
        /\ m[1] \in Bucket /\ m[2] \in report[m[1]] /\ Speaks(m[2], o) /\ m = <<m[1], m[2]>>
    BY DEF Listings
  <2>2. CASE l[2].id = o /\ m[2].id = o
    <3>1. o # NoObject
      BY ReportAssumption
    <3> QED
      BY <1>0, <2>1, <2>2, <3>1 DEF OneRow
  <2>3. CASE l[2].id = NoObject /\ m[2].id = NoObject
    <3>1. l[1] = "failed" /\ LogOf(l[2], o) /\ m[1] = "failed" /\ LogOf(m[2], o)
      BY <1>1, <2>1, <2>3
    <3> QED
      BY <2>1, <3>1 DEF LogOf
  <2>4. CASE l[2].id = o /\ m[2].id = NoObject
    BY <1>1, <1>2, <2>1, <2>4
  <2>5. CASE l[2].id = NoObject /\ m[2].id = o
    BY <1>1, <1>2, <2>1, <2>5
  <2> QED
    BY <2>1, <2>2, <2>3, <2>4, <2>5 DEF Speaks
<1>4. CASE Listings(o) = {}
  BY <1>4, FS_EmptySet
<1>5. CASE Listings(o) # {}
  <2>1. PICK l : Listings(o) = {l}
    BY <1>3, <1>5
  <2> QED
    BY <2>1, FS_Singleton
<1> QED
  BY <1>4, <1>5

\* No object of a section vanishes from the report but one whose failure the log
\* cannot tell from another's, none is listed twice, and a gate or profile that
\* lost something is shown as partial.
THEOREM TheReportIsWhole == ReportSpec => []ReportIsWhole
<1>1. ReportInv => NothingVanishes
  <2> SUFFICES ASSUME ReportInv, pass = "done", section # "portfolios", NEW o \in Object, ~Eclipsed(o)
               PROVE  Listings(o) # {}
    BY DEF NothingVanishes
  <2>1. Told(o)
    BY DEF ReportInv, TellsAll
  <2>2. PICK b \in Bucket : \E r \in report[b] : Speaks(r, o)
    BY <2>1 DEF Told
  <2>3. PICK r \in report[b] : Speaks(r, o)
    BY <2>2
  <2>4. <<b, r>> \in Listings(o)
    BY <2>3 DEF Listings
  <2> QED
    BY <2>4
<1>2. ReportInv => LossIsShown
  BY DEF ReportInv, LossKept, LossIsShown, Done
<1>3. ReportInv => ReportIsWhole
  BY <1>1, <1>2, ReportListsOnce DEF ReportIsWhole, ReportInv
<1> QED
  BY <1>3, ReportIsSound, PTL

-----------------------------------------------------------------------------
(* The reset of organizations *)

\* What a task works from is of its organization.
Listed(q) ==
    /\ \A e \in snap[q].live : OrgOf[e] = q[2]
    /\ \A d \in snap[q].default : SlotOrg[d[1]] = q[2]

\* The tasks that have not ended are of confirmed organizations.
OfConfirmed ==
    stage = "resetting" =>
        \A q \in Proc : q[1] \notin Wide /\ pc[q] # "done" => q[2] \in confirmed

\* The key of a project on record as created is where it was to be, or free.
AtHome(p) == p \in Project /\ home[p] \in {Target[p], Absent}

Functions ==
    /\ pc \in [Proc -> {"idle", "listed", "done"}]
    /\ snap = [q \in Proc |-> snap[q]]
    /\ default = [s \in Slot |-> default[s]]
    /\ home = [p \in Project |-> home[p]]

Confined ==
    /\ Functions
    /\ \A q \in Proc : Listed(q)
    /\ OfConfirmed
    /\ \A r \in records : r.ok => AtHome(r.project)
    /\ \A p \in rows : AtHome(p) /\ Target[p] \in confirmed

-----------------------------------------------------------------------------
LEMMA InitConfined == ResetInit => Confined
<1> SUFFICES ASSUME ResetInit PROVE Confined
    OBVIOUS
<1>1. default \in [Slot -> Entity] /\ home \in [Project -> Org \cup {Absent}]
      BY WorldAssumption DEF ResetInit
<1>2. \A q \in Proc : snap[q] = NoSnap
      BY DEF ResetInit
<1>3. snap = [q \in Proc |-> snap[q]]
      BY DEF ResetInit
<1>. QED BY <1>1, <1>2, <1>3 DEF ResetInit, Confined, Functions, Listed, NoSnap, OfConfirmed

\* A task ends, its list kept or dropped; what it did to the organizations
\* does not matter here.
LEMMA GoesConfined ==
    ASSUME Confined, NEW q \in Proc, Goes(q), snap' = snap \/ Clear(q),
           UNCHANGED <<stage, confirmed, home, records, rows>>,
           default' = [s \in Slot |-> default'[s]]
    PROVE  Confined'
<1>1. pc' \in [Proc -> {"idle", "listed", "done"}] /\ \A x \in Proc : pc'[x] \in {pc[x], "done"}
      BY DEF Goes, Confined, Functions
<1>2. snap' = [x \in Proc |-> snap'[x]] /\ \A x \in Proc : snap'[x] \in {snap[x], NoSnap}
      BY DEF Clear, Confined, Functions
<1>3. \A x \in Proc : Listed(x)'
      BY <1>2 DEF Confined, Listed, NoSnap
<1>. QED BY <1>1, <1>2, <1>3 DEF Confined, Functions, OfConfirmed, AtHome

LEMMA ListConfined == ASSUME Confined, NEW q \in Proc, List(q) PROVE Confined'
<1> DEFINE k == TaskKind(q[1])
           list == [live |-> Of(q[2], k), default |-> {<<s, default[s]>> : s \in Slots(q[2], k)}]
<1>1. /\ \A e \in list.live : OrgOf[e] = q[2]
      /\ \A d \in list.default : SlotOrg[d[1]] = q[2]
      BY DEF Of, Slots
<1>2. /\ snap' = [snap EXCEPT ![q] = list]
      /\ pc' = [pc EXCEPT ![q] = "listed"] /\ pc[q] = "idle"
      /\ UNCHANGED <<stage, confirmed, default, home, records, rows>>
      BY DEF List, cloudVars
<1> HIDE DEF k, list
<1>3. /\ snap' = [x \in Proc |-> snap'[x]]
      /\ snap'[q] = list /\ \A x \in Proc \ {q} : snap'[x] = snap[x]
      BY <1>2 DEF Confined, Functions
<1>4. \A x \in Proc : Listed(x)'
      BY <1>1, <1>3 DEF Confined, Listed
<1>5. pc' \in [Proc -> {"idle", "listed", "done"}] /\ \A x \in Proc : pc'[x] # "done" => pc[x] # "done"
      BY <1>2 DEF Confined, Functions
<1>. QED BY <1>2, <1>3, <1>4, <1>5 DEF Confined, Functions, OfConfirmed, AtHome

LEMMA StartConfined ==
    ASSUME Confined, NEW orgs, Confirm(orgs) PROVE Confined'
<1>1. \A q \in Proc : snap'[q] = NoSnap
      BY DEF Confirm
<1>2. \A q \in Proc : Listed(q)'
      BY <1>1 DEF Listed, NoSnap
<1>3. OfConfirmed'
      BY DEF Confirm, OfConfirmed, ShouldSkipOrg
<1>4. Functions'
      BY DEF Confirm, Confined, Functions, cloudVars
<1>. QED BY <1>2, <1>3, <1>4 DEF Confirm, Confined, AtHome, cloudVars

LEMMA CreateProjectsConfined == ASSUME Confined, CreateProjects PROVE Confined'
<1>1. /\ \A p \in Project : home'[p] = IF home[p] = Absent THEN Target[p] ELSE home[p]
      /\ home' = [p \in Project |-> home'[p]]
      /\ stage' = "idle"
      /\ UNCHANGED <<confirmed, default, pc, snap, rows>>
      BY DEF CreateProjects, runVars
<1>2. \A p \in Project : AtHome(p) => AtHome(p)'
      BY <1>1 DEF AtHome
<1>3. \A r \in records' : r.ok => AtHome(r.project)'
  <2>1. TAKE r \in records'
  <2>2. PICK p \in Project : r = [project |-> p, ok |-> home'[p] = Target[p]]
      BY <2>1 DEF CreateProjects
  <2>3. r.project = p /\ (r.ok <=> home'[p] = Target[p])
      BY <2>2
  <2>. QED BY <2>3 DEF AtHome
<1>4. \A p \in rows' : AtHome(p)' /\ Target[p] \in confirmed'
      BY <1>1, <1>2 DEF Confined, AtHome
<1>. QED BY <1>1, <1>3, <1>4 DEF Confined, Functions, Listed, OfConfirmed

LEMMA RowsConfined ==
    ASSUME Confined, NEW q \in Proc, GetCreatedProjects(q) PROVE Confined'
<1>1. \A p \in rows' : AtHome(p) /\ Target[p] \in confirmed
      BY DEF GetCreatedProjects, IsCreated, ShouldSkipOrg, Confined
<1>2. /\ pc' = [pc EXCEPT ![q] = "done"]
      /\ UNCHANGED <<stage, confirmed, default, home, records, snap>>
      BY DEF GetCreatedProjects, Goes, cloudVars
<1>3. pc' \in [Proc -> {"idle", "listed", "done"}] /\ \A x \in Proc : pc'[x] \in {pc[x], "done"}
      BY <1>2 DEF Confined, Functions
<1>. QED BY <1>1, <1>2, <1>3 DEF Confined, Functions, Listed, OfConfirmed, AtHome

LEMMA DeleteProjectsConfined ==
    ASSUME Confined, NEW q \in Proc, DeleteProjects(q) PROVE Confined'
<1>1. /\ \A p \in Project : home'[p] \in {home[p], Absent}
      /\ home' = [p \in Project |-> home'[p]]
      BY DEF DeleteProjects
<1>2. /\ pc' = [pc EXCEPT ![q] = "done"]
      /\ UNCHANGED <<stage, confirmed, default, records, snap, rows>>
      BY DEF DeleteProjects, Goes
<1>3. pc' \in [Proc -> {"idle", "listed", "done"}] /\ \A x \in Proc : pc'[x] \in {pc[x], "done"}
      BY <1>2 DEF Confined, Functions
<1>4. \A p : AtHome(p) => AtHome(p)'
      BY <1>1 DEF AtHome
<1>. QED BY <1>1, <1>2, <1>3, <1>4 DEF Confined, Functions, Listed, OfConfirmed

\* Every other step of a task ends it.
LEMMA OtherConfined ==
    ASSUME Confined, NEW q \in Proc,
           \/ SpareOrg(q) \/ ListFails(q)
           \/ ResetDefaultProfiles(q) \/ ResetDefaultGates(q) \/ ResetPermissionTemplates(q)
           \/ DeleteProfiles(q) \/ DeleteGates(q) \/ DeleteTemplates(q) \/ DeleteGroups(q)
           \/ CreatePortfolios(q) \/ DeletePortfolios(q)
    PROVE  Confined'
<1>1. default = [s \in Slot |-> default[s]]
      BY DEF Confined, Functions
<1>2. CASE SpareOrg(q) \/ ListFails(q)
      BY <1>1, <1>2, GoesConfined DEF SpareOrg, ListFails, cloudVars
<1>3. CASE ResetDefaultProfiles(q)
  <2>1. default' = [s \in Slot |-> default'[s]]
        BY <1>3 DEF ResetDefaultProfiles
  <2>. QED BY <1>3, <2>1, GoesConfined DEF ResetDefaultProfiles
<1>4. CASE ResetDefaultGates(q)
  <2>1. default' = [s \in Slot |-> default'[s]]
        BY <1>1, <1>4 DEF ResetDefaultGates, Promoted
  <2>. QED BY <1>4, <2>1, GoesConfined DEF ResetDefaultGates
<1>5. CASE ResetPermissionTemplates(q)
  <2>1. default' = [s \in Slot |-> default'[s]]
        BY <1>1, <1>5 DEF ResetPermissionTemplates
  <2>. QED BY <1>5, <2>1, GoesConfined DEF ResetPermissionTemplates
<1>6. CASE DeleteProfiles(q) \/ DeleteGates(q) \/ DeleteTemplates(q) \/ DeleteGroups(q)
      BY <1>1, <1>6, GoesConfined DEF DeleteProfiles, DeleteGates, DeleteTemplates, DeleteGroups, Sweep
<1>7. CASE CreatePortfolios(q) \/ DeletePortfolios(q)
      BY <1>1, <1>7, GoesConfined DEF CreatePortfolios, DeletePortfolios
<1>. QED BY <1>2, <1>3, <1>4, <1>5, <1>6, <1>7

LEMMA NextConfined == Confined /\ [ResetNext]_ovars => Confined'
<1> SUFFICES ASSUME Confined, [ResetNext]_ovars PROVE Confined'
    OBVIOUS
<1>1. CASE CreateProjects
      BY <1>1, CreateProjectsConfined
<1>2. ASSUME NEW orgs \in Selections, Confirm(orgs) PROVE Confined'
      BY <1>2, StartConfined
<1>3. CASE UNCHANGED <<stage, confirmed, default, home, records, pc, snap, rows>>
      BY <1>3 DEF Confined, Functions, Listed, OfConfirmed, AtHome
<1>4. CASE InterruptReset
      BY <1>3, <1>4 DEF InterruptReset, cloudVars
<1>5. CASE EndReset
      BY <1>5 DEF EndReset, Confined, Functions, Listed, OfConfirmed, AtHome, cloudVars, runVars
<1>6. ASSUME NEW s \in Slot, NEW e \in Entity, Promote(s, e) PROVE Confined'
  <2>1. default' = [x \in Slot |-> default'[x]]
        BY <1>6 DEF Promote, Promoted, Confined, Functions
  <2>. QED BY <1>6, <2>1 DEF Promote, Confined, Functions, Listed, OfConfirmed, AtHome, runVars
<1>7. ASSUME NEW q \in Proc, DeleteStep(q) PROVE Confined'
  <2>1. CASE EnterpriseUnknown(q)
        BY <1>3, <2>1 DEF EnterpriseUnknown, cloudVars
  <2>. QED BY <1>7, <2>1, ListConfined, RowsConfined, DeleteProjectsConfined, OtherConfined
           DEF DeleteStep
<1>8. CASE UNCHANGED ovars
      BY <1>3, <1>8 DEF ovars, cloudVars, runVars
<1>. QED BY <1>1, <1>2, <1>4, <1>5, <1>6, <1>7, <1>8 DEF ResetNext, Environment

LEMMA AlwaysConfined == ResetSpec => []Confined
BY InitConfined, NextConfined, PTL DEF ResetSpec

-----------------------------------------------------------------------------
Untouched ==
    /\ \A e \in live \ live' : OrgOf[e] \in confirmed
    /\ \A s \in Slot : default'[s] # default[s] => SlotOrg[s] \in confirmed
    /\ \A p \in Project : home'[p] # home[p] => home[p] \in confirmed

LEMMA TaskOrgConfirmed ==
    ASSUME Confined, stage = "resetting", NEW q \in Proc, q[1] \notin Wide, pc[q] # "done"
    PROVE  q[2] \in confirmed
BY DEF Confined, OfConfirmed

LEMMA SweepUntouched ==
    ASSUME Confined, stage = "resetting", NEW q \in Proc, NEW kept, Sweep(q, kept),
           q[1] \notin Wide
    PROVE  Untouched
<1>1. q[2] \in confirmed
      BY TaskOrgConfirmed DEF Sweep
<1>2. \A e \in live \ live' : e \in snap[q].live
      BY DEF Sweep
<1>3. \A e \in live \ live' : OrgOf[e] = q[2]
      BY <1>2 DEF Confined, Listed
<1>4. UNCHANGED <<default, home>>
      BY DEF Sweep
<1>. QED BY <1>1, <1>3, <1>4 DEF Untouched

LEMMA ResetUntouched ==
    ASSUME Confined, stage = "resetting", NEW q \in Proc,
           ResetDefaultProfiles(q) \/ ResetDefaultGates(q) \/ ResetPermissionTemplates(q)
    PROVE  Untouched
<1>1. q[1] \notin Wide /\ pc[q] # "done"
      BY DEF ResetDefaultProfiles, ResetDefaultGates, ResetPermissionTemplates, Wide
<1>2. q[2] \in confirmed
      BY <1>1, TaskOrgConfirmed
<1>3. \A s \in Slot : default'[s] # default[s] => SlotOrg[s] = q[2]
  <2> SUFFICES ASSUME NEW s \in Slot, default'[s] # default[s] PROVE SlotOrg[s] = q[2]
      OBVIOUS
  <2>1. CASE ResetDefaultProfiles(q)
    <3>1. s \in {d[1] : d \in {d \in snap[q].default : ~IsBuiltIn(d[2])}}
          BY <2>1 DEF ResetDefaultProfiles
    <3>2. PICK d \in snap[q].default : s = d[1]
          BY <3>1
    <3>. QED BY <3>2 DEF Confined, Listed
  <2>2. CASE ResetDefaultGates(q)
    <3>1. s \in Slots(q[2], "gate")
          BY <2>2 DEF ResetDefaultGates, Promoted, Confined, Functions
    <3>. QED BY <3>1 DEF Slots
  <2>3. CASE ResetPermissionTemplates(q)
    <3>1. s \in Slots(q[2], "template")
          BY <2>3 DEF ResetPermissionTemplates
    <3>. QED BY <3>1 DEF Slots
  <2>. QED BY <2>1, <2>2, <2>3
<1>4. UNCHANGED <<live, home>>
      BY DEF ResetDefaultProfiles, ResetDefaultGates, ResetPermissionTemplates
<1>. QED BY <1>2, <1>3, <1>4 DEF Untouched

LEMMA TaskUntouched ==
    ASSUME Confined, stage = "resetting", NEW q \in Proc, DeleteStep(q) PROVE Untouched
<1>1. CASE UNCHANGED <<live, default, home>>
      BY <1>1 DEF Untouched
<1>2. CASE SpareOrg(q) \/ List(q) \/ ListFails(q) \/ GetCreatedProjects(q)
           \/ CreatePortfolios(q) \/ EnterpriseUnknown(q) \/ DeletePortfolios(q)
      BY <1>1, <1>2 DEF SpareOrg, List, ListFails, GetCreatedProjects, CreatePortfolios,
                        EnterpriseUnknown, DeletePortfolios, cloudVars
<1>3. CASE ResetDefaultProfiles(q) \/ ResetDefaultGates(q) \/ ResetPermissionTemplates(q)
      BY <1>3, ResetUntouched
<1>4. CASE DeleteProfiles(q) \/ DeleteGates(q) \/ DeleteTemplates(q) \/ DeleteGroups(q)
  <2>1. q[1] \notin Wide
        BY <1>4 DEF DeleteProfiles, DeleteGates, DeleteTemplates, DeleteGroups, Wide
  <2>. QED BY <1>4, <2>1, SweepUntouched DEF DeleteProfiles, DeleteGates, DeleteTemplates, DeleteGroups
<1>5. CASE DeleteProjects(q)
  <2>1. /\ \A p \in Project : home'[p] # home[p] => p \in rows /\ home[p] # Absent
        /\ UNCHANGED <<live, default>>
        BY <1>5 DEF DeleteProjects
  <2>2. \A p \in rows : home[p] \in {Target[p], Absent} /\ Target[p] \in confirmed
        BY DEF Confined, AtHome
  <2>. QED BY <2>1, <2>2 DEF Untouched
<1>. QED BY <1>2, <1>3, <1>4, <1>5 DEF DeleteStep

-----------------------------------------------------------------------------
(* Types, and which task is when *)

Chosen(q) == q[1] \in Wide \/ q[2] \in confirmed

\* A list is of the entities and slots of its task.
ListFits(q) ==
    /\ \A e \in snap[q].live : e \in Entity /\ OrgOf[e] = q[2] /\ KindOf[e] = TaskKind(q[1])
    /\ \A d \in snap[q].default : d \in Slot \X Entity /\ d[1] \in Slots(q[2], TaskKind(q[1]))

\* A slot's default is of its organization and kind.
DefaultsFit ==
    \A s \in Slot : default[s] \in Entity /\ OrgOf[default[s]] = SlotOrg[s] /\ KindOf[default[s]] = SlotKind[s]

\* A task of a phase waits for the phases before.
InPhases == \A q \in Proc : Chosen(q) /\ pc[q] # "idle" => Open(q[1])

ListedAreChosen == \A q \in Proc : pc[q] = "listed" => Chosen(q)

\* Nothing starts before a reset, and a reset that is done has ended every task.
StagesFit ==
    /\ stage \in {"migrating", "idle"} => \A q \in Proc : pc[q] = "idle"
    /\ stage = "done" => \A q \in Proc : pc[q] = "done"

Shaped ==
    /\ ResetTypeOK
    /\ \A q \in Proc : ListFits(q)
    /\ DefaultsFit /\ InPhases /\ ListedAreChosen /\ StagesFit

LEMMA ProcShape ==
    ASSUME NEW q \in Proc
    PROVE  /\ q[1] \in Tasks
           /\ q[1] \notin Wide => q[2] \in Org /\ q = <<q[1], q[2]>>
           /\ q[1] \in Wide => q = <<q[1], "enterprise">>
BY DEF Proc, Wide, Tasks

LEMMA PhaseOf ==
    /\ \A t \in Resets \cup {"getCreatedProjects"} : Phase[t] = 1
    /\ \A t \in {"deleteProfiles", "deleteGates", "deleteTemplates"} : Phase[t] = 2
    /\ Phase["deleteProjects"] = 2 /\ Phase["createPortfolios"] = 2
    /\ Phase["deletePortfolios"] = 3
BY DEF Phase, Tasks, Resets, Dependencies

\* The tasks that reset the defaults are over before a sweep of what had one.
LEMMA ResetsAreOver ==
    ASSUME NEW q \in Proc, Open(q[1]),
           q[1] \in {"deleteProfiles", "deleteGates", "deleteTemplates"},
           NEW r \in Proc, r[1] \in Resets
    PROVE  pc[r] = "done"
<1>1. Phase[q[1]] - 1 = 1 /\ Phase[r[1]] =< 1
      BY PhaseOf
<1>2. r \in Upto(Phase[q[1]] - 1)
      BY <1>1 DEF Upto
<1>. QED BY <1>2 DEF Open

LEMMA InitShaped == ResetInit => Shaped
<1> SUFFICES ASSUME ResetInit PROVE Shaped
    OBVIOUS
<1>1. PICK w \in Worlds : default = w.default /\ named = w.named /\ home = w.home /\ folios = w.folios
      BY DEF ResetInit
<1>2. \A s \in Slot : default[s] \in Entity /\ OrgOf[default[s]] = SlotOrg[s] /\ KindOf[default[s]] = SlotKind[s]
      BY <1>1, WorldAssumption, EntityAssumption
<1>3. default \in [Slot -> Entity]
      BY <1>1, WorldAssumption
<1>4. /\ \A q \in Proc : snap[q] = NoSnap /\ pc[q] = "idle"
      /\ pc \in [Proc -> {"idle", "listed", "done"}]
      BY DEF ResetInit
<1>5. ResetTypeOK
  <2>1. 0 \in 0 .. MaxResets /\ 0 \in 0 .. MaxAdmin
        BY WorldAssumption
  <2>2. \A q \in Proc : snap[q].live \subseteq Entity /\ snap[q].default \subseteq Slot \X Entity
        BY <1>4 DEF NoSnap
  <2>3. home \in [Project -> Org \cup {Absent}] /\ named \subseteq Entity /\ folios \subseteq Portfolio
        BY <1>1, WorldAssumption
  <2>. QED BY <1>3, <1>4, <2>1, <2>2, <2>3 DEF ResetInit, ResetTypeOK
<1>. QED BY <1>2, <1>4, <1>5 DEF ResetInit, Shaped, ListFits, NoSnap, DefaultsFit, InPhases,
         ListedAreChosen, StagesFit

\* Of a step of a task: it moves on, and the tasks before it have ended.
LEMMA MovesShaped ==
    ASSUME Shaped, stage = "resetting", NEW q \in Proc, NEW to \in {"listed", "done"},
           Chosen(q), pc[q] # "done", pc[q] = "idle" => Open(q[1]),
           pc' = [pc EXCEPT ![q] = to],
           snap' = [x \in Proc |-> snap'[x]],
           \A x \in Proc \ {q} : snap'[x] = snap[x],
           ListFits(q)', DefaultsFit', ResetTypeOK',
           UNCHANGED <<stage, confirmed>>
    PROVE  Shaped'
<1>1. pc \in [Proc -> {"idle", "listed", "done"}]
      BY DEF Shaped, ResetTypeOK
<1>2. pc'[q] = to /\ \A x \in Proc \ {q} : pc'[x] = pc[x]
      BY <1>1
<1>3. \A t : Open(t) => Open(t)'
  <2> SUFFICES ASSUME NEW t, Open(t), NEW x \in Upto(Phase[t] - 1) PROVE pc'[x] = "done"
      BY DEF Open
  <2>1. x \in Proc /\ pc[x] = "done"
        BY DEF Open, Upto
  <2>. QED BY <1>2, <2>1
<1>4. InPhases'
  <2> SUFFICES ASSUME NEW x \in Proc, Chosen(x)', pc'[x] # "idle" PROVE Open(x[1])'
      BY DEF InPhases
  <2>1. Chosen(x)
        BY DEF Chosen
  <2>2. Open(x[1])
        BY <1>2, <2>1 DEF Shaped, InPhases
  <2>. QED BY <1>3, <2>2
<1>5. ListedAreChosen'
      BY <1>2 DEF Shaped, ListedAreChosen, Chosen
<1>6. StagesFit'
      BY DEF StagesFit
<1>7. \A x \in Proc : ListFits(x)'
  <2> SUFFICES ASSUME NEW x \in Proc, x # q PROVE ListFits(x)'
      OBVIOUS
  <2>. QED BY DEF Shaped, ListFits
<1>. QED BY <1>4, <1>5, <1>6, <1>7 DEF Shaped

\* A task that ends, having changed what its kind of task may.
LEMMA EndsShaped ==
    ASSUME Confined, Shaped, stage = "resetting", NEW q \in Proc,
           Chosen(q), pc[q] # "done", pc[q] = "idle" => Open(q[1]),
           Goes(q), snap' = snap \/ Clear(q), DefaultsFit',
           live' \subseteq live, default' = [s \in Slot |-> default'[s]],
           home' \in [Project -> Org \cup {Absent}],
           folios' \subseteq Portfolio, folioRows' \subseteq Portfolio,
           failures' \subseteq {"call", "missing", "refused"},
           unreset' \subseteq Org, blind' \subseteq Org, rows' \subseteq Project,
           UNCHANGED <<stage, resets, confirmed, named, made, records, interrupted, admin>>
    PROVE  Shaped'
<1>1. pc' = [pc EXCEPT ![q] = "done"] /\ pc' \in [Proc -> {"idle", "listed", "done"}]
      BY DEF Goes, Shaped, ResetTypeOK
<1>2. /\ snap' = [x \in Proc |-> snap'[x]] /\ snap'[q] \in {snap[q], NoSnap}
      /\ \A x \in Proc \ {q} : snap'[x] = snap[x]
      BY DEF Clear, Confined, Functions
<1>3. ListFits(q)'
  <2>1. CASE snap'[q] = NoSnap
        BY <2>1 DEF ListFits, NoSnap
  <2>2. CASE snap'[q] = snap[q]
        BY <2>2 DEF Shaped, ListFits
  <2>. QED BY <1>2, <2>1, <2>2
<1>4. \A x \in Proc : snap'[x].live \subseteq Entity /\ snap'[x].default \subseteq Slot \X Entity
  <2> SUFFICES ASSUME NEW x \in Proc
               PROVE  snap'[x].live \subseteq Entity /\ snap'[x].default \subseteq Slot \X Entity
      OBVIOUS
  <2>1. snap'[x] = snap[x] \/ snap'[x] = NoSnap
        BY <1>2
  <2>. QED BY <2>1 DEF Shaped, ResetTypeOK, NoSnap
<1>5. default' \in [Slot -> Entity]
      BY DEF DefaultsFit
<1>6. ResetTypeOK'
      BY <1>1, <1>4, <1>5 DEF Shaped, ResetTypeOK
<1>. QED BY <1>1, <1>2, <1>3, <1>6, MovesShaped

LEMMA ListShaped ==
    ASSUME Confined, Shaped, stage = "resetting", NEW q \in Proc,
           Chosen(q), pc[q] # "done", pc[q] = "idle" => Open(q[1]), List(q)
    PROVE  Shaped'
<1> DEFINE k == TaskKind(q[1])
           list == [live |-> Of(q[2], k), default |-> {<<s, default[s]>> : s \in Slots(q[2], k)}]
<1>1. /\ snap' = [snap EXCEPT ![q] = list] /\ pc' = [pc EXCEPT ![q] = "listed"]
      /\ UNCHANGED <<stage, resets, confirmed, live, default, named, home, folios, made, records>>
      /\ UNCHANGED <<interrupted, unreset, rows, folioRows, failures, blind, admin>>
      BY DEF List, cloudVars
<1>2. /\ \A e \in list.live : e \in Entity /\ OrgOf[e] = q[2] /\ KindOf[e] = k
      /\ \A d \in list.default : d \in Slot \X Entity /\ d[1] \in Slots(q[2], k)
      BY DEF Of, Slots, Shaped, ResetTypeOK
<1> HIDE DEF list
<1>3. /\ snap' = [x \in Proc |-> snap'[x]] /\ snap'[q] = list
      /\ \A x \in Proc \ {q} : snap'[x] = snap[x]
      BY <1>1 DEF Confined, Functions
<1>4. ListFits(q)'
      BY <1>2, <1>3 DEF ListFits, Slots
<1>5. \A x \in Proc : snap'[x].live \subseteq Entity /\ snap'[x].default \subseteq Slot \X Entity
      BY <1>2, <1>3 DEF Shaped, ResetTypeOK
<1>6. pc' \in [Proc -> {"idle", "listed", "done"}]
      BY <1>1 DEF Shaped, ResetTypeOK
<1>7. ResetTypeOK'
      BY <1>1, <1>5, <1>6 DEF Shaped, ResetTypeOK
<1>8. DefaultsFit'
      BY <1>1 DEF Shaped, DefaultsFit
<1>. QED BY <1>1, <1>3, <1>4, <1>7, <1>8, MovesShaped

\* A new default is one of the entities listed for the slot's organization and
\* kind.
LEMMA ResetsFit ==
    ASSUME Shaped, NEW q \in Proc,
           ResetDefaultProfiles(q) \/ ResetDefaultGates(q) \/ ResetPermissionTemplates(q)
    PROVE  /\ DefaultsFit' /\ default' = [s \in Slot |-> default'[s]]
           /\ \A s \in Slot : s \notin Slots(q[2], TaskKind(q[1])) => default'[s] = default[s]
<1> DEFINE k == TaskKind(q[1])
<1>1. /\ default = [s \in Slot |-> default[s]]
      /\ \A e \in snap[q].live : e \in Entity /\ OrgOf[e] = q[2] /\ KindOf[e] = k
      /\ \A d \in snap[q].default : d[1] \in Slots(q[2], k)
      BY DEF Shaped, ResetTypeOK, ListFits
<1>2. k = CASE q[1] = "resetDefaultProfiles" -> "profile"
            [] q[1] = "resetDefaultGates" -> "gate"
            [] q[1] = "resetPermissionTemplates" -> "template"
      BY DEF TaskKind, ResetDefaultProfiles, ResetDefaultGates, ResetPermissionTemplates
<1>3. /\ default' = [s \in Slot |-> default'[s]]
      /\ \A s \in Slot : default'[s] = default[s] \/ (s \in Slots(q[2], k) /\ default'[s] \in snap[q].live)
  <2>1. CASE ResetDefaultProfiles(q)
    <3>1. PICK fails \in SUBSET Slots(q[2], "profile") :
            LET wants == {d[1] : d \in {d \in snap[q].default : ~IsBuiltIn(d[2])}}
                built(s) == {e \in snap[q].live \cap Fits[s] : IsBuiltIn(e)}
                missed == {s \in wants : built(s) = {} \/ s \in fails}
            IN  \E pick \in [wants -> Entity \cup {NoEntity}] :
                 /\ \A s \in wants : IF built(s) = {} THEN pick[s] = NoEntity
                                     ELSE pick[s] \in built(s)
                 /\ default' = [s \in Slot |->
                       IF s \in wants \ missed /\ pick[s] \in live THEN pick[s] ELSE default[s]]
          BY <2>1 DEF ResetDefaultProfiles
    <3> DEFINE wants == {d[1] : d \in {d \in snap[q].default : ~IsBuiltIn(d[2])}}
               built(s) == {e \in snap[q].live \cap Fits[s] : IsBuiltIn(e)}
               missed == {s \in wants : built(s) = {} \/ s \in fails}
    <3>2. PICK pick \in [wants -> Entity \cup {NoEntity}] :
                 /\ \A s \in wants : IF built(s) = {} THEN pick[s] = NoEntity
                                     ELSE pick[s] \in built(s)
                 /\ default' = [s \in Slot |->
                       IF s \in wants \ missed /\ pick[s] \in live THEN pick[s] ELSE default[s]]
          BY <3>1
    <3>3. \A s \in wants : s \in Slots(q[2], k)
          BY <1>1
    <3>4. \A s \in wants \ missed : pick[s] \in snap[q].live
          BY <3>2
    <3> HIDE DEF wants, missed, k
    <3>. QED BY <3>2, <3>3, <3>4
  <2>2. CASE ResetDefaultGates(q)
    <3>1. default' = default \/ \E s \in Slots(q[2], "gate"), e \in snap[q].live :
             default' = [default EXCEPT ![s] = IF e \in live THEN e ELSE @]
          BY <2>2 DEF ResetDefaultGates, Promoted
    <3>2. k = "gate"
          BY <1>2, <2>2 DEF ResetDefaultGates
    <3> HIDE DEF k
    <3>. QED BY <1>1, <3>1, <3>2
  <2>3. CASE ResetPermissionTemplates(q)
    <3>1. default' = default \/ \E e \in snap[q].live, fails \in SUBSET Slots(q[2], "template") :
             default' = [s \in Slot |->
                          IF s \in Slots(q[2], "template") \ fails /\ e \in live THEN e ELSE default[s]]
          BY <2>3 DEF ResetPermissionTemplates
    <3>2. k = "template"
          BY <1>2, <2>3 DEF ResetPermissionTemplates
    <3> HIDE DEF k
    <3>. QED BY <1>1, <3>1, <3>2
  <2>. QED BY <2>1, <2>2, <2>3
<1>4. DefaultsFit'
  <2> SUFFICES ASSUME NEW s \in Slot
               PROVE  /\ default'[s] \in Entity /\ OrgOf[default'[s]] = SlotOrg[s]
                      /\ KindOf[default'[s]] = SlotKind[s]
      BY DEF DefaultsFit
  <2>1. CASE default'[s] = default[s]
        BY <2>1 DEF Shaped, DefaultsFit
  <2>2. CASE s \in Slots(q[2], k) /\ default'[s] \in snap[q].live
        BY <1>1, <2>2 DEF Slots
  <2>. QED BY <1>3, <2>1, <2>2
<1>. QED BY <1>3, <1>4

LEMMA SweepFits ==
    ASSUME Shaped, NEW q \in Proc, NEW kept, Sweep(q, kept)
    PROVE  /\ live' \subseteq live
           /\ live \ live' \subseteq snap[q].live \ kept
           /\ \A e \in live \ live', s \in Slot : default[s] # e
           /\ failures' \subseteq {"call", "missing", "refused"}
           /\ Goes(q) /\ Clear(q) /\ failures \subseteq failures'
           /\ UNCHANGED <<stage, resets, confirmed, default, named, home, folios, made, records>>
           /\ UNCHANGED <<interrupted, unreset, rows, folioRows, blind, admin>>
BY DEF Sweep, Counts, If, Shaped, ResetTypeOK

\* The task at work is one of a confirmed organization, or of none.
LEMMA AtWork ==
    ASSUME Confined, stage = "resetting", NEW q \in Proc, pc[q] # "done" PROVE Chosen(q)
BY DEF Confined, OfConfirmed, Chosen

LEMMA TaskShaped ==
    ASSUME Confined, Shaped, NEW q \in Proc, DeleteStep(q) PROVE Shaped'
<1>1. /\ stage = "resetting" /\ Chosen(q) /\ pc[q] # "done" /\ (pc[q] = "idle" => Open(q[1]))
      /\ failures \subseteq {"call", "missing", "refused"}
      BY AtWork DEF DeleteStep, Shaped, ResetTypeOK
<1>2. /\ DefaultsFit /\ default = [s \in Slot |-> default[s]] /\ unreset \subseteq Org /\ blind \subseteq Org
      /\ home \in [Project -> Org \cup {Absent}] /\ rows \subseteq Project
      /\ folios \subseteq Portfolio /\ folioRows \subseteq Portfolio
      BY DEF Shaped, ResetTypeOK
<1>3. q[1] \notin Wide => q[2] \in Org
      BY ProcShape
<1>4. CASE SpareOrg(q)
      BY <1>1, <1>2, <1>4, EndsShaped DEF SpareOrg, cloudVars, DefaultsFit
<1>5. CASE List(q)
      BY <1>1, <1>5, ListShaped
<1>6. CASE ListFails(q)
  <2>1. blind' \subseteq Org
        BY <1>2, <1>3, <1>6 DEF ListFails, Wide
  <2>2. failures' \subseteq {"call", "missing", "refused"}
        BY <1>1, <1>6 DEF ListFails, Counts
  <2>. QED BY <1>1, <1>2, <1>6, <2>1, <2>2, EndsShaped DEF ListFails, cloudVars, DefaultsFit
<1>7. CASE ResetDefaultProfiles(q) \/ ResetDefaultGates(q) \/ ResetPermissionTemplates(q)
  <2>1. DefaultsFit' /\ default' = [s \in Slot |-> default'[s]]
        BY <1>7, ResetsFit
  <2>2. failures' \subseteq {"call", "missing", "refused"}
        BY <1>1, <1>7 DEF ResetDefaultProfiles, ResetDefaultGates, ResetPermissionTemplates, Counts, If
  <2>3. unreset' \subseteq Org
        BY <1>2, <1>3, <1>7 DEF ResetDefaultProfiles, ResetDefaultGates, ResetPermissionTemplates,
                                FailedRecord, Wide
  <2>4. /\ Goes(q) /\ Clear(q)
        /\ UNCHANGED <<stage, resets, confirmed, live, named, home, folios, made, records>>
        /\ UNCHANGED <<interrupted, rows, folioRows, blind, admin>>
        BY <1>7 DEF ResetDefaultProfiles, ResetDefaultGates, ResetPermissionTemplates
  <2>. QED BY <1>1, <1>2, <2>1, <2>2, <2>3, <2>4, EndsShaped
<1>8. CASE DeleteProfiles(q) \/ DeleteGates(q) \/ DeleteTemplates(q) \/ DeleteGroups(q)
  <2>1. PICK kept : Sweep(q, kept)
        BY <1>8 DEF DeleteProfiles, DeleteGates, DeleteTemplates, DeleteGroups
  <2>2. DefaultsFit' /\ default' = default
        BY <1>2, <2>1, SweepFits DEF DefaultsFit
  <2>. QED BY <1>1, <1>2, <2>1, <2>2, SweepFits, EndsShaped
<1>9. CASE GetCreatedProjects(q)
  <2>1. rows' \subseteq Project
        BY <1>9 DEF GetCreatedProjects, Shaped, ResetTypeOK
  <2>. QED BY <1>1, <1>2, <1>9, <2>1, EndsShaped DEF GetCreatedProjects, cloudVars, DefaultsFit
<1>10. CASE DeleteProjects(q)
  <2>1. home' \in [Project -> Org \cup {Absent}]
        BY <1>2, <1>10 DEF DeleteProjects
  <2>2. failures' \subseteq {"call", "missing", "refused"}
        BY <1>1, <1>10 DEF DeleteProjects, Counts, If
  <2>. QED BY <1>1, <1>2, <1>10, <2>1, <2>2, EndsShaped DEF DeleteProjects, DefaultsFit
<1>11. CASE CreatePortfolios(q)
  <2>1. folios' \subseteq Portfolio /\ folioRows' \subseteq Portfolio
        BY <1>2, <1>11 DEF CreatePortfolios
  <2>2. failures' \subseteq {"call", "missing", "refused"}
        BY <1>1, <1>11 DEF CreatePortfolios, Counts, If
  <2>. QED BY <1>1, <1>2, <1>11, <2>1, <2>2, EndsShaped DEF CreatePortfolios, DefaultsFit
<1>12. CASE EnterpriseUnknown(q)
  <2>1. /\ UNCHANGED <<stage, resets, confirmed, live, default, named, home, folios, made, records>>
        /\ UNCHANGED <<pc, snap, unreset, rows, folioRows, failures, blind, admin>>
        /\ interrupted' = TRUE
        BY <1>12 DEF EnterpriseUnknown, cloudVars
  <2>. QED BY <2>1 DEF Shaped, ResetTypeOK, ListFits, DefaultsFit, InPhases, ListedAreChosen,
              StagesFit, Chosen, Open
<1>13. CASE DeletePortfolios(q)
  <2>1. folios' \subseteq Portfolio
        BY <1>2, <1>13 DEF DeletePortfolios
  <2>2. failures' \subseteq {"call", "missing", "refused"}
        BY <1>1, <1>13 DEF DeletePortfolios, Counts, If
  <2>. QED BY <1>1, <1>2, <1>13, <2>1, <2>2, EndsShaped DEF DeletePortfolios, DefaultsFit
<1>. QED BY <1>4, <1>5, <1>6, <1>7, <1>8, <1>9, <1>10, <1>11, <1>12, <1>13 DEF DeleteStep

LEMMA ConfirmShaped ==
    ASSUME Shaped, NEW orgs \in Selections, Confirm(orgs) PROVE Shaped'
<1>1. orgs \subseteq Org
      BY WorldAssumption
<1>2. /\ \A q \in Proc : snap'[q] = NoSnap
      /\ \A q \in Proc : pc'[q] = IF q[1] \notin Wide /\ q[2] \notin orgs THEN "done" ELSE "idle"
      /\ pc' \in [Proc -> {"idle", "listed", "done"}]
      BY DEF Confirm, ShouldSkipOrg
<1>3. resets' \in 0 .. MaxResets
      BY WorldAssumption DEF Confirm, Shaped, ResetTypeOK
<1>4. /\ confirmed' = orgs /\ stage' \in {"resetting", "aborted"}
      /\ interrupted' = FALSE /\ unreset' = {} /\ rows' = {} /\ folioRows' = {} /\ failures' = {}
      /\ UNCHANGED <<live, default, named, home, folios, made, records, blind, admin>>
      BY DEF Confirm, cloudVars
<1>5. \A q \in Proc : snap'[q].live \subseteq Entity /\ snap'[q].default \subseteq Slot \X Entity
      BY <1>2 DEF NoSnap
<1>6. ResetTypeOK'
      BY <1>1, <1>2, <1>3, <1>4, <1>5 DEF Shaped, ResetTypeOK
<1>7. \A q \in Proc : ListFits(q)'
      BY <1>2 DEF ListFits, NoSnap
<1>8. InPhases' /\ ListedAreChosen' /\ StagesFit'
      BY <1>2, <1>4 DEF InPhases, ListedAreChosen, StagesFit, Chosen
<1>9. DefaultsFit'
      BY <1>4 DEF Shaped, DefaultsFit
<1>. QED BY <1>6, <1>7, <1>8, <1>9 DEF Shaped

LEMMA OtherShaped ==
    ASSUME Shaped,
           UNCHANGED <<resets, confirmed, live, named, folios, pc, snap>>,
           UNCHANGED <<unreset, rows, folioRows, failures, blind>>,
           stage' = stage \/ (stage = "migrating" /\ stage' = "idle")
             \/ (stage = "resetting" /\ stage' = "failed")
             \/ (stage = "resetting" /\ stage' = "done" /\ \A q \in Proc : pc[q] = "done"),
           DefaultsFit', default' = [s \in Slot |-> default'[s]],
           home' \in [Project -> Org \cup {Absent}], made' \subseteq Project,
           records' \subseteq [project : Project, ok : BOOLEAN],
           interrupted' \in BOOLEAN, admin' \in 0 .. MaxAdmin
    PROVE  Shaped'
<1>1. default' \in [Slot -> Entity]
      BY DEF DefaultsFit
<1>2. ResetTypeOK'
      BY <1>1 DEF Shaped, ResetTypeOK
<1>3. \A q \in Proc : ListFits(q)'
      BY DEF Shaped, ListFits
<1>4. InPhases' /\ ListedAreChosen'
      BY DEF Shaped, InPhases, ListedAreChosen, Chosen, Open
<1>5. StagesFit'
      BY DEF Shaped, StagesFit
<1>. QED BY <1>2, <1>3, <1>4, <1>5 DEF Shaped

LEMMA NextShaped == Confined /\ Shaped /\ [ResetNext]_ovars => Shaped'
<1> SUFFICES ASSUME Confined, Shaped, [ResetNext]_ovars PROVE Shaped'
    OBVIOUS
<1>0. /\ DefaultsFit /\ default = [s \in Slot |-> default[s]] /\ admin \in 0 .. MaxAdmin
      /\ home \in [Project -> Org \cup {Absent}] /\ made \subseteq Project
      /\ records \subseteq [project : Project, ok : BOOLEAN] /\ interrupted \in BOOLEAN
      BY DEF Shaped, ResetTypeOK
<1>1. CASE CreateProjects
  <2>1. home' \in [Project -> Org \cup {Absent}] /\ made' \subseteq Project
        BY <1>0, <1>1, WorldAssumption DEF CreateProjects
  <2>3. records' \subseteq [project : Project, ok : BOOLEAN]
    <3> SUFFICES ASSUME NEW r \in records' PROVE r \in [project : Project, ok : BOOLEAN]
        OBVIOUS
    <3>1. PICK p \in Project : r = [project |-> p, ok |-> home'[p] = Target[p]]
          BY <1>1 DEF CreateProjects
    <3> DEFINE held == (home'[p] = Target[p])
    <3>2. held \in BOOLEAN /\ r = [project |-> p, ok |-> held]
          BY <3>1
    <3> HIDE DEF held
    <3>. QED BY <3>2
  <2>2. /\ stage = "migrating" /\ stage' = "idle"
        /\ UNCHANGED <<resets, confirmed, live, default, named, folios, pc, snap>>
        /\ UNCHANGED <<unreset, rows, folioRows, failures, blind, interrupted, admin>>
        BY <1>1 DEF CreateProjects, runVars
  <2>. QED BY <1>0, <2>1, <2>2, <2>3, OtherShaped DEF DefaultsFit
<1>2. ASSUME NEW orgs \in Selections, Confirm(orgs) PROVE Shaped'
      BY <1>2, ConfirmShaped
<1>3. CASE InterruptReset \/ EndReset \/ UNCHANGED ovars
  <2>1. /\ UNCHANGED <<resets, confirmed, live, default, named, folios, home, made, records>>
        /\ UNCHANGED <<pc, snap, unreset, rows, folioRows, failures, blind, admin>>
        /\ interrupted' \in BOOLEAN
        BY <1>0, <1>3 DEF InterruptReset, EndReset, ovars, cloudVars, runVars
  <2>2. stage' = stage \/ (stage = "resetting" /\ stage' = "failed")
             \/ (stage = "resetting" /\ stage' = "done" /\ \A q \in Proc : pc[q] = "done")
        BY <1>3 DEF InterruptReset, EndReset, ovars
  <2>. QED BY <1>0, <2>1, <2>2, OtherShaped DEF DefaultsFit
<1>4. ASSUME NEW s \in Slot, NEW e \in Entity, Promote(s, e) PROVE Shaped'
  <2>1. /\ UNCHANGED <<stage, resets, confirmed, live, named, folios, home, made, records>>
        /\ UNCHANGED <<pc, snap, unreset, rows, folioRows, failures, blind, interrupted>>
        /\ admin' = admin + 1 /\ admin < MaxAdmin /\ e \in Fits[s] /\ e \in live
        /\ default' = [default EXCEPT ![s] = e]
        BY <1>4 DEF Promote, Promoted, runVars
  <2>2. DefaultsFit' /\ default' = [x \in Slot |-> default'[x]]
        BY <1>0, <2>1, EntityAssumption DEF DefaultsFit
  <2>3. admin' \in 0 .. MaxAdmin
        BY <1>0, <2>1, WorldAssumption
  <2>. QED BY <1>0, <2>1, <2>2, <2>3, OtherShaped
<1>5. ASSUME NEW q \in Proc, DeleteStep(q) PROVE Shaped'
      BY <1>5, TaskShaped
<1>. QED BY <1>1, <1>2, <1>3, <1>4, <1>5 DEF ResetNext, Environment

LEMMA AlwaysShaped == ResetSpec => []Shaped
BY AlwaysConfined, InitShaped, NextShaped, PTL DEF ResetSpec

\* No step of a reset changes what an organization nobody confirmed holds, nor
\* a project another organization holds: the skipped rows, the lists tasks work
\* from and the keys on record all stay within the confirmed organizations.
THEOREM TheUnconfirmedAreUntouched == ResetSpec => UnconfirmedUntouched
<1>1. Confined /\ Shaped /\ [ResetNext]_ovars => [stage = "resetting" /\ admin' = admin => Untouched]_ovars
  <2> SUFFICES ASSUME Confined, Shaped, ResetNext, stage = "resetting", admin' = admin PROVE Untouched
      OBVIOUS
  <2>1. CASE InterruptReset \/ EndReset
        BY <2>1 DEF InterruptReset, EndReset, cloudVars, Untouched
  <2>2. ASSUME NEW s \in Slot, NEW e \in Entity, Promote(s, e) PROVE FALSE
        BY <2>2 DEF Promote, Shaped, ResetTypeOK
  <2>3. ~CreateProjects /\ \A orgs \in Selections : ~Confirm(orgs)
        BY DEF CreateProjects, Confirm
  <2>. QED BY <2>1, <2>2, <2>3, TaskUntouched DEF ResetNext, Environment
<1>. QED BY <1>1, AlwaysConfined, AlwaysShaped, PTL DEF ResetSpec, UnconfirmedUntouched, Untouched

-----------------------------------------------------------------------------
(* What a reset leaves *)

\* No call failed, no built-in was missing and nobody interfered.
SoFar == failures \subseteq {"refused"} /\ admin = 0

HasNamed(o) == \E c \in named : OrgOf[c] = o /\ KindOf[c] = "template"

\* What one task has seen and done.
TaskInv(q) ==
    /\ q[1] = "resetPermissionTemplates" /\ Chosen(q) /\ pc[q] = "done" =>
          q[2] \in unreset \cup blind \/ HasNamed(q[2])
    /\ q[1] = "deleteTemplates" /\ pc[q] = "listed" => q[2] \notin unreset
    /\ q[1] \in Deletes /\ pc[q] = "listed" => Of(q[2], TaskKind(q[1])) \subseteq snap[q].live
    /\ SoFar =>
        /\ q[1] \in Resets /\ pc[q] = "listed" =>
              /\ snap[q].live = Of(q[2], TaskKind(q[1]))
              /\ \A s \in Slots(q[2], TaskKind(q[1])) : <<s, default[s]>> \in snap[q].default
              /\ \A d \in snap[q].default : d[2] = default[d[1]]
        /\ q[1] \in Resets /\ Chosen(q) /\ pc[q] = "done" =>
              \A s \in Slots(q[2], TaskKind(q[1])) : IsBuiltIn(default[s])
        /\ q[1] = "deleteTemplates" /\ pc[q] = "listed" =>
              \A d \in snap[q].default : IsBuiltIn(d[2])
        /\ q[1] \in Deletes /\ Chosen(q) /\ pc[q] = "done" =>
              \A e \in Of(q[2], TaskKind(q[1])) : e \in BuiltIn \/ IsBuiltIn(e)

MissingIsCounted == unreset # {} => "missing" \in failures

Recorded == {r.project : r \in {r \in records : IsCreated(r) /\ ~ShouldSkipOrg(Target[r.project])}}

\* The projects on record are deleted, then the portfolios of the mapping.
WideInv(q) ==
    /\ q[1] = "getCreatedProjects" /\ pc[q] = "done" => rows = Recorded
    /\ SoFar =>
        /\ q[1] = "deleteProjects" /\ pc[q] = "done" => \A p \in rows : home[p] = Absent
        /\ q[1] = "createPortfolios" /\ pc[q] = "done" => folioRows = Portfolio
        /\ q[1] = "deletePortfolios" /\ pc[q] = "done" => folios \cap Portfolio = {}

Swept == (\A q \in Proc : TaskInv(q) /\ WideInv(q)) /\ MissingIsCounted /\ BuiltInSurvives

LEMMA KindOfTask ==
    /\ TaskKind("resetDefaultProfiles") = "profile" /\ TaskKind("deleteProfiles") = "profile"
    /\ TaskKind("resetDefaultGates") = "gate" /\ TaskKind("deleteGates") = "gate"
    /\ TaskKind("resetPermissionTemplates") = "template" /\ TaskKind("deleteTemplates") = "template"
    /\ TaskKind("deleteGroups") = "group"
BY DEF TaskKind

\* Two tasks that reset defaults share no slot.
LEMMA ResetsAreApart ==
    ASSUME NEW q \in Proc, NEW r \in Proc, q # r, q[1] \in Resets, r[1] \in Resets
    PROVE  q[2] # r[2] \/ TaskKind(q[1]) # TaskKind(r[1])
<1>1. q = <<q[1], q[2]>> /\ r = <<r[1], r[2]>>
      BY ProcShape DEF Resets, Wide
<1>2. q[1] # r[1] => TaskKind(q[1]) # TaskKind(r[1])
      BY KindOfTask DEF Resets
<1>. QED BY <1>1, <1>2

\* A sweep has a task before it that reset the defaults of its kind.
LEMMA ResetBefore ==
    ASSUME Shaped, NEW q \in Proc, Chosen(q), Open(q[1]),
           q[1] \in {"deleteProfiles", "deleteGates", "deleteTemplates"}
    PROVE  \E r \in Proc : /\ r[1] \in Resets /\ r[2] = q[2] /\ TaskKind(r[1]) = TaskKind(q[1])
                           /\ Chosen(r) /\ pc[r] = "done"
                           /\ q[1] = "deleteTemplates" => r[1] = "resetPermissionTemplates"
<1> DEFINE t == IF q[1] = "deleteProfiles" THEN "resetDefaultProfiles"
                ELSE IF q[1] = "deleteGates" THEN "resetDefaultGates" ELSE "resetPermissionTemplates"
           r == <<t, q[2]>>
<1>1. q[2] \in Org /\ q[2] \in confirmed
      BY ProcShape DEF Wide, Chosen
<1>2. t \in Resets /\ t \in Tasks \ Wide /\ TaskKind(t) = TaskKind(q[1])
      BY KindOfTask DEF Resets, Tasks, Wide
<1>3. q[1] = "deleteTemplates" => t = "resetPermissionTemplates"
      OBVIOUS
<1> HIDE DEF t
<1>4. r \in Proc /\ r[1] = t /\ r[2] = q[2] /\ Chosen(r)
      BY <1>1, <1>2 DEF Proc, Chosen
<1>5. pc[r] = "done"
      BY <1>2, <1>4, ResetsAreOver
<1>. QED BY <1>2, <1>3, <1>4, <1>5

\* What a task does leaves what the others saw and did as it is.
LEMMA OthersSwept ==
    ASSUME Confined, Shaped, Swept, stage = "resetting", NEW q \in Proc, pc[q] # "done",
           pc[q] = "idle" => Open(q[1]),
           UNCHANGED <<confirmed, named, admin>>, failures \subseteq failures', blind \subseteq blind',
           \A x \in Proc \ {q} : pc'[x] = pc[x] /\ snap'[x] = snap[x],
           live' \subseteq live,
           q[1] \notin Deletes => live' = live,
           \A e \in live \ live' : KindOf[e] = TaskKind(q[1]),
           q[1] \notin Resets => default' = default,
           \A s \in Slot : s \notin Slots(q[2], TaskKind(q[1])) => default'[s] = default[s],
           unreset' = unreset \/ (q[1] = "resetPermissionTemplates" /\ unreset' = unreset \cup {q[2]}),
           NEW x \in Proc, x # q
    PROVE  TaskInv(x)'
<1>1. TaskInv(x) /\ pc'[x] = pc[x] /\ snap'[x] = snap[x]
      BY DEF Swept
<1>2. SoFar' => SoFar
      BY DEF SoFar
<1>3. \A o : HasNamed(o)' = HasNamed(o) /\ Chosen(x)' = Chosen(x)
      BY DEF HasNamed, Chosen
<1>4. \A e : IsBuiltIn(e)' = IsBuiltIn(e)
      BY DEF IsBuiltIn
<1>5. \A o, k : Of(o, k)' \subseteq Of(o, k) /\ Slots(o, k)' = Slots(o, k)
      BY DEF Of, Slots
<1>6. x[1] = "deleteTemplates" /\ pc[x] = "listed" => x[2] \notin unreset'
  <2> SUFFICES ASSUME x[1] = "deleteTemplates", pc[x] = "listed", q[1] = "resetPermissionTemplates"
               PROVE  FALSE
      BY <1>1 DEF TaskInv
  <2>1. Open(x[1])
        BY DEF Shaped, InPhases, ListedAreChosen
  <2>. QED BY <2>1, ResetsAreOver DEF Resets
<1>7. x[1] \in Resets => \A s \in Slots(x[2], TaskKind(x[1])) : default'[s] = default[s]
  <2> SUFFICES ASSUME x[1] \in Resets, q[1] \in Resets, NEW s \in Slots(x[2], TaskKind(x[1]))
               PROVE  s \notin Slots(q[2], TaskKind(q[1]))
      BY DEF Slots
  <2>. QED BY ResetsAreApart DEF Slots
<1>8. x[1] \in Resets /\ pc[x] = "listed" => Of(x[2], TaskKind(x[1]))' = Of(x[2], TaskKind(x[1]))
  <2> SUFFICES ASSUME x[1] \in Resets, pc[x] = "listed", q[1] \in Deletes,
                      NEW e \in live, KindOf[e] = TaskKind(x[1])
               PROVE  e \in live'
      BY DEF Of
  <2>1. Open(q[1])
        BY AtWork DEF Shaped, InPhases
  <2>2. q[1] = "deleteGroups"
        BY <2>1, ResetsAreOver DEF Deletes
  <2>3. KindOf[e] # TaskKind(q[1])
        BY <2>2, KindOfTask DEF Resets
  <2>. QED BY <2>3
<1>9. ASSUME SoFar', x[1] \in Resets, pc[x] = "listed"
      PROVE  /\ snap[x].live = Of(x[2], TaskKind(x[1]))'
             /\ \A s \in Slots(x[2], TaskKind(x[1])) : <<s, default'[s]>> \in snap[x].default
             /\ \A d \in snap[x].default : d[2] = default'[d[1]]
  <2>1. \A d \in snap[x].default : d[1] \in Slots(x[2], TaskKind(x[1]))
        BY DEF Shaped, ListFits
  <2>2. /\ snap[x].live = Of(x[2], TaskKind(x[1]))
        /\ \A s \in Slots(x[2], TaskKind(x[1])) : <<s, default[s]>> \in snap[x].default
        /\ \A d \in snap[x].default : d[2] = default[d[1]]
        BY <1>1, <1>2, <1>9 DEF TaskInv
  <2>. QED BY <1>7, <1>8, <1>9, <2>1, <2>2
<1>10. ASSUME SoFar'
       PROVE  /\ x[1] \in Resets /\ Chosen(x) /\ pc[x] = "done" =>
                    \A s \in Slots(x[2], TaskKind(x[1])) : IsBuiltIn(default'[s])
              /\ x[1] = "deleteTemplates" /\ pc[x] = "listed" =>
                    \A d \in snap[x].default : IsBuiltIn(d[2])
              /\ x[1] \in Deletes /\ Chosen(x) /\ pc[x] = "done" =>
                    \A e \in Of(x[2], TaskKind(x[1]))' : e \in BuiltIn \/ IsBuiltIn(e)
      BY <1>1, <1>2, <1>5, <1>7, <1>10 DEF TaskInv
<1>11. /\ x[1] = "resetPermissionTemplates" /\ Chosen(x) /\ pc[x] = "done" =>
             x[2] \in unreset' \cup blind' \/ HasNamed(x[2])
       /\ x[1] \in Deletes /\ pc[x] = "listed" => Of(x[2], TaskKind(x[1]))' \subseteq snap[x].live
      BY <1>1, <1>5 DEF TaskInv
<1>. QED BY <1>1, <1>3, <1>4, <1>5, <1>6, <1>9, <1>10, <1>11 DEF TaskInv

\* A sweep in an attempt without failed calls leaves nothing custom: no default
\* of its organization and kind is custom any more.
LEMMA SweepClears ==
    ASSUME Confined, Shaped, Swept, stage = "resetting", NEW q \in Proc, q[1] \in Deletes,
           NEW kept, Sweep(q, kept), \A e \in kept \cap live : e \in BuiltIn \/ IsBuiltIn(e), SoFar'
    PROVE  \A e \in Of(q[2], TaskKind(q[1]))' : e \in BuiltIn \/ IsBuiltIn(e)
<1> DEFINE k == TaskKind(q[1])
<1>1. pc[q] = "listed" /\ Chosen(q) /\ Open(q[1]) /\ SoFar
      BY SweepFits DEF Sweep, Shaped, InPhases, ListedAreChosen, SoFar
<1>2. SUFFICES ASSUME NEW e \in Of(q[2], k)', e \notin BuiltIn, ~IsBuiltIn(e) PROVE FALSE
      OBVIOUS
<1>3. e \in live' /\ e \in live /\ e \in snap[q].live /\ OrgOf[e] = q[2] /\ KindOf[e] = k
      BY <1>1, <1>2, SweepFits DEF Of, Swept, TaskInv
<1>4. "call" \notin failures'
      BY <1>2 DEF SoFar
<1>5. live' = live \ ((snap[q].live \ kept) \ {x \in snap[q].live \ kept : \E s \in Slot : default[s] = x})
  <2>1. PICK fails \in SUBSET (snap[q].live \ kept) :
          /\ live' = live \ ((snap[q].live \ kept)
                        \ (fails \cup {x \in snap[q].live \ kept : \E s \in Slot : default[s] = x}))
          /\ fails # {} => "call" \in failures'
        BY DEF Sweep, Counts, If
  <2>2. fails = {}
        BY <1>4, <2>1
  <2>. QED BY <2>1, <2>2
<1>6. PICK s \in Slot : default[s] = e
      BY <1>2, <1>3, <1>5
<1>7. s \in Slots(q[2], k) /\ SlotKind[s] = k
      BY <1>3, <1>6 DEF Shaped, DefaultsFit, Slots
<1>8. q[1] \in {"deleteProfiles", "deleteGates", "deleteTemplates"}
  <2>1. k # "group"
        BY <1>7, EntityAssumption
  <2>. QED BY <2>1, KindOfTask DEF Deletes
<1>9. PICK r \in Proc : /\ r[1] \in Resets /\ r[2] = q[2] /\ TaskKind(r[1]) = k
                        /\ Chosen(r) /\ pc[r] = "done"
      BY <1>1, <1>8, ResetBefore
<1>10. IsBuiltIn(default[s])
      BY <1>1, <1>7, <1>9 DEF Swept, TaskInv
<1>. QED BY <1>2, <1>6, <1>10

\* A sweep takes no built-in, except a template another template stood for.
LEMMA SweepSpares ==
    ASSUME Confined, Shaped, Swept, stage = "resetting", NEW q \in Proc,
           DeleteProfiles(q) \/ DeleteGates(q) \/ DeleteTemplates(q) \/ DeleteGroups(q)
    PROVE  BuiltInSurvives'
<1>1. PICK kept : /\ Sweep(q, kept)
                  /\ q[1] # "deleteGroups" => BuiltInListed(q) \subseteq kept
                  /\ q[1] = "deleteGroups" => DefaultGroup(q) \subseteq kept
      BY DEF DeleteProfiles, DeleteGates, DeleteTemplates, DeleteGroups
<1>2. /\ live' \subseteq live /\ \A e \in live \ live' : e \in snap[q].live /\ e \notin kept
      /\ UNCHANGED <<blind, named, admin>>
      BY <1>1, SweepFits
<1>3. q[1] \in Deletes /\ pc[q] = "listed" /\ Chosen(q) /\ Open(q[1])
      BY <1>1 DEF DeleteProfiles, DeleteGates, DeleteTemplates, DeleteGroups, Sweep, Deletes,
                  Shaped, InPhases, ListedAreChosen
<1>4. SUFFICES ASSUME NEW e \in BuiltIn, e \in live, e \notin live'
               PROVE  /\ KindOf[e] = "template"
                      /\ \/ OrgOf[e] \in blind
                         \/ \E c \in named \ BuiltIn : OrgOf[c] = OrgOf[e] /\ KindOf[c] = "template"
      BY <1>2 DEF Swept, BuiltInSurvives
<1>5. e \in snap[q].live /\ e \notin kept /\ OrgOf[e] = q[2] /\ KindOf[e] = TaskKind(q[1])
      BY <1>2, <1>4 DEF Shaped, ListFits
<1>6. ~IsBuiltIn(e) /\ q[1] # "deleteGroups"
      BY <1>1, <1>4, <1>5 DEF BuiltInListed, DefaultGroup
<1>7. KindOf[e] \notin {"profile", "gate"} /\ e \notin named
      BY <1>4, <1>6 DEF IsBuiltIn
<1>8. q[1] = "deleteTemplates" /\ KindOf[e] = "template"
      BY <1>3, <1>5, <1>6, <1>7, KindOfTask DEF Deletes
<1>9. PICK r \in Proc : r[1] = "resetPermissionTemplates" /\ r[2] = q[2] /\ Chosen(r) /\ pc[r] = "done"
      BY <1>3, <1>8, ResetBefore
<1>10. q[2] \in unreset \cup blind \/ HasNamed(q[2])
      BY <1>9 DEF Swept, TaskInv
<1>11. q[2] \notin unreset
      BY <1>3, <1>8 DEF Swept, TaskInv
<1>12. CASE HasNamed(q[2])
  <2>1. PICK c \in named : OrgOf[c] = q[2] /\ KindOf[c] = "template"
        BY <1>12 DEF HasNamed
  <2>2. c \notin BuiltIn
        BY <1>4, <1>5, <1>7, <1>8, <2>1, EntityAssumption
  <2>. QED BY <1>5, <1>8, <2>1, <2>2
<1>. QED BY <1>5, <1>8, <1>10, <1>11, <1>12

\* Of a step of a task: what it saw and did, and what that means for the rest.
LEMMA StepSwept ==
    ASSUME Confined, Shaped, Swept, stage = "resetting", NEW q \in Proc, pc[q] # "done",
           pc[q] = "idle" => Open(q[1]), q[1] \notin Wide,
           UNCHANGED <<confirmed, named, admin, home, records, rows, folios, folioRows>>,
           failures \subseteq failures', blind \subseteq blind',
           \A x \in Proc \ {q} : pc'[x] = pc[x] /\ snap'[x] = snap[x],
           live' \subseteq live,
           q[1] \notin Deletes => live' = live,
           \A e \in live \ live' : KindOf[e] = TaskKind(q[1]),
           q[1] \notin Resets => default' = default,
           \A s \in Slot : s \notin Slots(q[2], TaskKind(q[1])) => default'[s] = default[s],
           \/ unreset' = unreset
           \/ q[1] = "resetPermissionTemplates" /\ unreset' = unreset \cup {q[2]} /\ "missing" \in failures',
           TaskInv(q)', BuiltInSurvives'
    PROVE  Swept'
<1>1. ASSUME NEW x \in Proc PROVE TaskInv(x)'
      BY OthersSwept
<1>2. MissingIsCounted'
      BY DEF Swept, MissingIsCounted
<1>3. ASSUME NEW x \in Proc PROVE WideInv(x)'
  <2>1. CASE x = q
        BY <2>1 DEF WideInv, Wide
  <2>2. CASE x # q
        BY <2>2 DEF Swept, WideInv, SoFar, Recorded, IsCreated, ShouldSkipOrg
  <2>. QED BY <2>1, <2>2
<1>. QED BY <1>1, <1>2, <1>3 DEF Swept

LEMMA QuietSurvives ==
    ASSUME Swept, live' = live, UNCHANGED named, admin =< admin', blind \subseteq blind', admin \in Nat, admin' \in Nat
    PROVE  BuiltInSurvives'
BY DEF Swept, BuiltInSurvives

\* A task that resets defaults has ended.
LEMMA ResetEnds ==
    ASSUME Confined, Shaped, Swept, stage = "resetting", NEW q \in Proc,
           ResetDefaultProfiles(q) \/ ResetDefaultGates(q) \/ ResetPermissionTemplates(q)
    PROVE  /\ q[1] \in Resets /\ pc[q] = "listed" /\ pc' = [pc EXCEPT ![q] = "done"]
           /\ snap' = [snap EXCEPT ![q] = NoSnap]
           /\ pc'[q] = "done" /\ \A x \in Proc \ {q} : pc'[x] = pc[x] /\ snap'[x] = snap[x]
           /\ UNCHANGED <<stage, confirmed, live, named, home, folios, records, rows, folioRows, blind, admin>>
           /\ failures \subseteq failures'
<1>1. /\ pc' = [pc EXCEPT ![q] = "done"] /\ snap' = [snap EXCEPT ![q] = NoSnap]
      /\ q[1] \in Resets /\ pc[q] = "listed"
      /\ UNCHANGED <<stage, confirmed, live, named, home, folios, records, rows, folioRows, blind, admin>>
      BY DEF ResetDefaultProfiles, ResetDefaultGates, ResetPermissionTemplates, Goes, Clear, Resets
<1>2. failures \subseteq failures'
      BY DEF ResetDefaultProfiles, ResetDefaultGates, ResetPermissionTemplates, Counts
<1>. QED BY <1>1, <1>2 DEF Confined, Functions

LEMMA ResetSwept ==
    ASSUME Confined, Shaped, Swept, stage = "resetting", NEW q \in Proc,
           ResetDefaultProfiles(q) \/ ResetDefaultGates(q) \/ ResetPermissionTemplates(q),
           \/ unreset' = unreset
           \/ q[1] = "resetPermissionTemplates" /\ unreset' = unreset \cup {q[2]} /\ "missing" \in failures',
           q[1] = "resetPermissionTemplates" => q[2] \in unreset' \/ HasNamed(q[2]),
           SoFar' => \A s \in Slots(q[2], TaskKind(q[1])) : IsBuiltIn(default'[s])
    PROVE  Swept'
<1>1. /\ q[1] \in Resets /\ pc[q] = "listed" /\ pc'[q] = "done"
      /\ \A x \in Proc \ {q} : pc'[x] = pc[x] /\ snap'[x] = snap[x]
      /\ UNCHANGED <<stage, confirmed, live, named, home, folios, records, rows, folioRows, blind, admin>>
      /\ failures \subseteq failures'
      BY ResetEnds
<1>2. \A s \in Slot : s \notin Slots(q[2], TaskKind(q[1])) => default'[s] = default[s]
      BY ResetsFit
<1>3. TaskInv(q)'
  <2>1. q[1] \notin Deletes
        BY <1>1 DEF Resets, Deletes
  <2>2. HasNamed(q[2])' = HasNamed(q[2])
        BY <1>1 DEF HasNamed
  <2>3. \A e : IsBuiltIn(e)' = IsBuiltIn(e)
        BY <1>1 DEF IsBuiltIn
  <2>4. Slots(q[2], TaskKind(q[1]))' = Slots(q[2], TaskKind(q[1]))
        BY DEF Slots
  <2>. QED BY <1>1, <2>1, <2>2, <2>3, <2>4 DEF TaskInv, Resets, Deletes
<1>4. BuiltInSurvives'
      BY <1>1 DEF Swept, BuiltInSurvives
<1>5. q[1] \notin Wide /\ q[1] \notin Deletes
      BY <1>1 DEF Wide, Resets, Deletes
<1>. QED BY <1>1, <1>2, <1>3, <1>4, <1>5, StepSwept

\* In an attempt without failures the list a reset works from is still right.
LEMMA ListIsRight ==
    ASSUME Shaped, Swept, NEW q \in Proc, q[1] \in Resets, pc[q] = "listed", SoFar
    PROVE  /\ snap[q].live \subseteq live
           /\ \A s \in Slots(q[2], TaskKind(q[1])) : s \in Slot /\ <<s, default[s]>> \in snap[q].default
           /\ \A d \in snap[q].default : d[2] = default[d[1]] /\ d[1] \in Slots(q[2], TaskKind(q[1]))
BY DEF Swept, TaskInv, Of, Slots, Shaped, ListFits

LEMMA ProfilesSwept ==
    ASSUME Confined, Shaped, Swept, stage = "resetting", NEW q \in Proc, ResetDefaultProfiles(q)
    PROVE  Swept'
<1>1. /\ q[1] = "resetDefaultProfiles" /\ q[1] \in Resets /\ pc[q] = "listed" /\ unreset' = unreset
      /\ failures \subseteq failures' /\ admin' = admin
      BY ResetEnds DEF ResetDefaultProfiles
<1>2. TaskKind(q[1]) = "profile"
      BY <1>1, KindOfTask
<1>3. ASSUME SoFar', NEW s \in Slots(q[2], "profile") PROVE IsBuiltIn(default'[s])
  <2> DEFINE wants == {d[1] : d \in {d \in snap[q].default : ~IsBuiltIn(d[2])}}
             built(t) == {e \in snap[q].live \cap Fits[t] : IsBuiltIn(e)}
  <2>1. SoFar /\ "call" \notin failures' /\ "missing" \notin failures'
        BY <1>1, <1>3 DEF SoFar
  <2>2. PICK fails \in SUBSET Slots(q[2], "profile") :
          /\ fails \subseteq wants
          /\ \E pick \in [wants -> Entity \cup {NoEntity}] :
               /\ \A t \in wants : IF built(t) = {} THEN pick[t] = NoEntity ELSE pick[t] \in built(t)
               /\ default' = [t \in Slot |->
                     IF t \in wants \ {u \in wants : built(u) = {} \/ u \in fails} /\ pick[t] \in live
                       THEN pick[t] ELSE default[t]]
          /\ failures' = failures \cup (If(\E t \in wants : built(t) = {}, "missing") \cup If(fails # {}, "call"))
        BY DEF ResetDefaultProfiles, Counts
  <2>3. PICK pick \in [wants -> Entity \cup {NoEntity}] :
               /\ \A t \in wants : IF built(t) = {} THEN pick[t] = NoEntity ELSE pick[t] \in built(t)
               /\ default' = [t \in Slot |->
                     IF t \in wants \ {u \in wants : built(u) = {} \/ u \in fails} /\ pick[t] \in live
                       THEN pick[t] ELSE default[t]]
        BY <2>2
  <2>4. fails = {} /\ \A t \in wants : built(t) # {}
        BY <2>1, <2>2 DEF If
  <2>5. /\ s \in Slot /\ <<s, default[s]>> \in snap[q].default /\ snap[q].live \subseteq live
        BY <1>1, <1>2, <1>3, <2>1, ListIsRight
  <2>6. CASE s \in wants
    <3>1. pick[s] \in built(s) /\ IsBuiltIn(pick[s]) /\ pick[s] \in live
          BY <2>3, <2>4, <2>5, <2>6
    <3>2. s \notin {u \in wants : built(u) = {} \/ u \in fails}
          BY <2>4
    <3> HIDE DEF wants, built
    <3>. QED BY <2>3, <2>5, <2>6, <3>1, <3>2
  <2>7. CASE s \notin wants
    <3>1. IsBuiltIn(default[s])
      <4> DEFINE d == <<s, default[s]>>
      <4>1. d \in snap[q].default /\ d[1] = s /\ d[2] = default[s]
            BY <2>5
      <4>2. ~IsBuiltIn(d[2]) => d[1] \in wants
            BY <4>1
      <4>. QED BY <2>7, <4>1, <4>2
    <3> HIDE DEF wants, built
    <3>. QED BY <2>3, <2>5, <2>7, <3>1
  <2>. QED BY <2>6, <2>7
<1>. QED BY <1>1, <1>2, <1>3, ResetSwept

LEMMA GatesSwept ==
    ASSUME Confined, Shaped, Swept, stage = "resetting", NEW q \in Proc, ResetDefaultGates(q)
    PROVE  Swept'
<1>1. /\ q[1] = "resetDefaultGates" /\ q[1] \in Resets /\ pc[q] = "listed" /\ unreset' = unreset
      /\ failures \subseteq failures' /\ admin' = admin
      BY ResetEnds DEF ResetDefaultGates
<1>2. TaskKind(q[1]) = "gate"
      BY <1>1, KindOfTask
<1>3. ASSUME SoFar', NEW s \in Slots(q[2], "gate") PROVE IsBuiltIn(default'[s])
  <2>1. SoFar /\ "call" \notin failures' /\ "missing" \notin failures'
        BY <1>1, <1>3 DEF SoFar
  <2>2. PICK e \in snap[q].live :
          /\ IsBuiltIn(e)
          /\ \/ (\A t \in Slots(q[2], "gate") : <<t, e>> \in snap[q].default) /\ default' = default
             \/ \E t \in Slots(q[2], "gate") : default' = [default EXCEPT ![t] = IF e \in live THEN e ELSE @]
        BY <2>1 DEF ResetDefaultGates, Counts, Promoted
  <2>3. /\ s \in Slot /\ snap[q].live \subseteq live /\ \A d \in snap[q].default : d[2] = default[d[1]]
        BY <1>1, <1>2, <1>3, <2>1, ListIsRight
  <2>4. CASE (\A t \in Slots(q[2], "gate") : <<t, e>> \in snap[q].default) /\ default' = default
    <3>1. <<s, e>> \in snap[q].default
          BY <1>3, <2>4
    <3>2. e = default[s]
          BY <2>3, <3>1
    <3>. QED BY <2>2, <2>4, <3>2
  <2>5. ASSUME NEW t \in Slots(q[2], "gate"), default' = [default EXCEPT ![t] = IF e \in live THEN e ELSE @]
        PROVE  IsBuiltIn(default'[s])
    <3>1. t = s
          BY <1>3, <2>5, EntityAssumption DEF Slots
    <3>2. default'[s] = e
          BY <2>3, <2>5, <3>1 DEF Confined, Functions
    <3>. QED BY <2>2, <3>2
  <2>. QED BY <2>2, <2>4, <2>5
<1>. QED BY <1>1, <1>2, <1>3, ResetSwept

LEMMA TemplatesSwept ==
    ASSUME Confined, Shaped, Swept, stage = "resetting", NEW q \in Proc, ResetPermissionTemplates(q)
    PROVE  Swept'
<1>1. /\ q[1] = "resetPermissionTemplates" /\ q[1] \in Resets /\ pc[q] = "listed"
      /\ failures \subseteq failures' /\ admin' = admin
      BY ResetEnds DEF ResetPermissionTemplates
<1>2. TaskKind(q[1]) = "template"
      BY <1>1, KindOfTask
<1> DEFINE built == {e \in snap[q].live : IsBuiltIn(e)}
<1>3. CASE built = {}
  <2>1. "missing" \in failures' /\ unreset' = unreset \cup {q[2]}
        BY <1>3 DEF ResetPermissionTemplates, Counts, FailedRecord
  <2>2. ~SoFar'
        BY <2>1 DEF SoFar
  <2>. QED BY <1>1, <2>1, <2>2, ResetSwept
<1>4. CASE built # {}
  <2>1. PICK e \in built, fails \in SUBSET Slots(q[2], "template") :
          /\ default' = [s \in Slot |->
                IF s \in Slots(q[2], "template") \ fails /\ e \in live THEN e ELSE default[s]]
          /\ failures' = failures \cup If(fails # {}, "call")
          /\ unreset' = unreset
        BY <1>4 DEF ResetPermissionTemplates, Counts
  <2>2. e \in named /\ OrgOf[e] = q[2] /\ KindOf[e] = "template" /\ IsBuiltIn(e)
        BY <1>2, <2>1 DEF Shaped, ListFits, IsBuiltIn
  <2>3. ASSUME SoFar', NEW s \in Slots(q[2], "template") PROVE IsBuiltIn(default'[s])
    <3>1. SoFar /\ fails = {}
          BY <1>1, <2>1, <2>3 DEF SoFar, If
    <3>2. e \in live /\ s \in Slot
          BY <1>1, <2>1, <2>3, <3>1, ListIsRight DEF Slots
    <3>3. default'[s] = e
          BY <2>1, <2>3, <3>1, <3>2
    <3>. QED BY <2>2, <3>3
  <2>4. HasNamed(q[2])
        BY <2>2 DEF HasNamed
  <2>. QED BY <1>2, <2>1, <2>3, <2>4, ResetSwept
<1>. QED BY <1>3, <1>4

\* An organization is spared, or its listing comes back or fails.
LEMMA ListedSwept ==
    ASSUME Confined, Shaped, Swept, stage = "resetting", NEW q \in Proc, pc[q] # "done",
           pc[q] = "idle" => Open(q[1]), SpareOrg(q) \/ List(q) \/ ListFails(q)
    PROVE  Swept'
<1> DEFINE list == [live |-> Of(q[2], TaskKind(q[1])),
                    default |-> {<<s, default[s]>> : s \in Slots(q[2], TaskKind(q[1]))}]
<1>1. /\ q[1] \in Resets \cup Deletes /\ q[1] \notin Wide
      /\ UNCHANGED <<stage, confirmed, live, default, named, home, folios, records, unreset, rows, folioRows, admin>>
      /\ failures \subseteq failures' /\ blind \subseteq blind'
      BY DEF SpareOrg, Spared, List, ListFails, cloudVars, Resets, Deletes, Wide, Counts
<1>2. /\ \A x \in Proc \ {q} : pc'[x] = pc[x] /\ snap'[x] = snap[x]
      /\ SpareOrg(q) \/ ListFails(q) => pc'[q] = "done"
      /\ List(q) => pc'[q] = "listed" /\ snap'[q] = list
      BY DEF SpareOrg, List, ListFails, Goes, Confined, Functions
<1>3. Chosen(q) /\ Open(q[1])
      BY AtWork DEF Shaped, InPhases
<1>4. TaskInv(q)'
  <2>1. CASE SpareOrg(q)
    <3>1. q[1] = "deleteTemplates" /\ unreset # {} /\ failures' = failures
          BY <2>1 DEF SpareOrg, Spared
    <3>2. ~SoFar'
          BY <3>1 DEF Swept, MissingIsCounted, SoFar
    <3>. QED BY <1>2, <2>1, <3>1, <3>2 DEF TaskInv
  <2>2. CASE ListFails(q)
    <3>1. "call" \in failures' /\ q[1] = "resetPermissionTemplates" => q[2] \in blind'
          BY <2>2 DEF ListFails, Counts
    <3>2. ~SoFar'
          BY <2>2 DEF ListFails, Counts, SoFar
    <3>3. q[1] = "resetPermissionTemplates" => q[2] \in blind'
          BY <2>2 DEF ListFails
    <3>. QED BY <1>2, <2>2, <3>2, <3>3 DEF TaskInv
  <2>3. CASE List(q)
    <3>1. q[1] = "deleteTemplates" => q[2] \notin unreset
          BY <2>3 DEF List, Spared
    <3>2. /\ list.live = Of(q[2], TaskKind(q[1]))
          /\ \A s \in Slots(q[2], TaskKind(q[1])) : <<s, default[s]>> \in list.default
          /\ \A d \in list.default : d[2] = default[d[1]] /\ d[1] \in Slots(q[2], TaskKind(q[1]))
          OBVIOUS
    <3>3. ASSUME q[1] = "deleteTemplates", SoFar, NEW d \in list.default PROVE IsBuiltIn(d[2])
      <4>1. PICK r \in Proc : /\ r[1] \in Resets /\ r[2] = q[2] /\ TaskKind(r[1]) = TaskKind(q[1])
                              /\ Chosen(r) /\ pc[r] = "done"
            BY <1>3, <3>3, ResetBefore
      <4>2. \A s \in Slots(q[2], TaskKind(q[1])) : IsBuiltIn(default[s])
            BY <3>3, <4>1 DEF Swept, TaskInv
      <4>. QED BY <3>2, <3>3, <4>2
    <3> HIDE DEF list
    <3>4. /\ Of(q[2], TaskKind(q[1]))' = Of(q[2], TaskKind(q[1]))
          /\ Slots(q[2], TaskKind(q[1]))' = Slots(q[2], TaskKind(q[1]))
          /\ \A e : IsBuiltIn(e)' = IsBuiltIn(e)
          BY <1>1 DEF Of, Slots, IsBuiltIn
    <3>5. SoFar' => SoFar
          BY <1>1 DEF SoFar
    <3>6. pc'[q] = "listed" /\ snap'[q] = list
          BY <1>2, <2>3
    <3>. QED BY <1>1, <3>1, <3>2, <3>3, <3>4, <3>5, <3>6 DEF TaskInv
  <2>. QED BY <2>1, <2>2, <2>3
<1>5. BuiltInSurvives'
      BY <1>1 DEF Swept, BuiltInSurvives
<1>. QED BY <1>1, <1>2, <1>4, <1>5, StepSwept

LEMMA SweepSwept ==
    ASSUME Confined, Shaped, Swept, stage = "resetting", NEW q \in Proc,
           DeleteProfiles(q) \/ DeleteGates(q) \/ DeleteTemplates(q) \/ DeleteGroups(q)
    PROVE  Swept'
<1>1. PICK kept : /\ Sweep(q, kept)
                  /\ \/ kept = BuiltInListed(q)
                     \/ kept = DefaultGroup(q)
                     \/ q[1] = "deleteTemplates" /\ kept = BuiltInListed(q) \cup {d[2] : d \in snap[q].default}
      BY DEF DeleteProfiles, DeleteGates, DeleteTemplates, DeleteGroups
<1>2. q[1] \in Deletes /\ q[1] \notin Wide /\ q[1] \notin Resets
      BY DEF DeleteProfiles, DeleteGates, DeleteTemplates, DeleteGroups, Deletes, Wide, Resets
<1>3. /\ pc[q] = "listed" /\ pc'[q] = "done" /\ \A x \in Proc \ {q} : pc'[x] = pc[x] /\ snap'[x] = snap[x]
      BY <1>1 DEF Sweep, Goes, Clear, Confined, Functions
<1>4. /\ live' \subseteq live /\ failures \subseteq failures'
      /\ UNCHANGED <<stage, confirmed, default, named, home, folios, records, unreset, rows, folioRows, blind, admin>>
      /\ \A e \in live \ live' : e \in snap[q].live
      BY <1>1, SweepFits
<1>5. SoFar' => SoFar
      BY <1>4 DEF SoFar
<1>6. ASSUME SoFar PROVE \A e \in kept \cap live : e \in BuiltIn \/ IsBuiltIn(e)
  <2>1. q[1] = "deleteTemplates" => \A d \in snap[q].default : IsBuiltIn(d[2])
        BY <1>3, <1>6 DEF Swept, TaskInv
  <2>. QED BY <1>1, <2>1 DEF BuiltInListed, DefaultGroup
<1>7. TaskInv(q)'
  <2>1. ASSUME SoFar' PROVE \A e \in Of(q[2], TaskKind(q[1]))' : e \in BuiltIn \/ IsBuiltIn(e)
        BY <1>1, <1>2, <1>5, <1>6, <2>1, SweepClears
  <2>2. \A e : IsBuiltIn(e)' = IsBuiltIn(e)
        BY <1>4 DEF IsBuiltIn
  <2>. QED BY <1>2, <1>3, <2>1, <2>2 DEF TaskInv, Resets
<1>8. \A e \in live \ live' : KindOf[e] = TaskKind(q[1])
      BY <1>4 DEF Shaped, ListFits
<1>9. BuiltInSurvives'
      BY SweepSpares
<1>. QED BY <1>2, <1>3, <1>4, <1>7, <1>8, <1>9, StepSwept

\* The tasks of no organization touch nothing the others look at.
LEMMA WideSwept ==
    ASSUME Confined, Shaped, Swept, stage = "resetting", NEW q \in Proc, pc[q] = "idle", Open(q[1]),
           GetCreatedProjects(q) \/ DeleteProjects(q) \/ CreatePortfolios(q) \/ DeletePortfolios(q)
    PROVE  Swept'
<1>1. /\ q[1] \in Wide /\ pc'[q] = "done" /\ \A x \in Proc \ {q} : pc'[x] = pc[x]
      /\ UNCHANGED <<stage, confirmed, live, default, named, records, snap, unreset, blind, admin>>
      /\ failures \subseteq failures'
      BY DEF GetCreatedProjects, DeleteProjects, CreatePortfolios, DeletePortfolios, Goes, Counts,
             cloudVars, Wide, Confined, Functions
<1>2. SoFar' => SoFar
      BY <1>1 DEF SoFar
<1>3. ASSUME NEW x \in Proc PROVE TaskInv(x)'
  <2>1. CASE x[1] \in Wide
        BY <2>1 DEF TaskInv, Wide, Resets, Deletes
  <2>2. CASE x[1] \notin Wide
    <3>1. TaskInv(x) /\ pc'[x] = pc[x]
          BY <1>1, <2>2 DEF Swept
    <3>2. /\ \A o, k : Of(o, k)' = Of(o, k) /\ Slots(o, k)' = Slots(o, k)
          /\ \A e : IsBuiltIn(e)' = IsBuiltIn(e)
          /\ \A o : HasNamed(o)' = HasNamed(o) /\ Chosen(x)' = Chosen(x)
          BY <1>1 DEF Of, Slots, IsBuiltIn, HasNamed, Chosen
    <3>. QED BY <1>1, <1>2, <3>1, <3>2 DEF TaskInv
  <2>. QED BY <2>1, <2>2
<1>4. ASSUME NEW x \in Proc, NEW y \in Proc, x[1] \in Wide, y[1] = x[1] PROVE x = y
      BY <1>4, ProcShape
<1>5. ASSUME NEW x \in Proc, x[1] \in Wide, pc[x] # "idle" PROVE Open(x[1])
      BY <1>5 DEF Shaped, InPhases, Chosen
<1>6. ASSUME NEW t \in Wide, NEW y \in Proc, y[1] \in Wide, Open(t), Phase[y[1]] =< Phase[t] - 1
      PROVE  pc[y] = "done"
      BY <1>6 DEF Open, Upto
<1>7. /\ Phase["getCreatedProjects"] = 1 /\ Phase["deleteProjects"] = 2 /\ Phase["createPortfolios"] = 2
      /\ Phase["deletePortfolios"] = 3
      BY PhaseOf
<1>8. \A r : ShouldSkipOrg(r)' = ShouldSkipOrg(r)
      BY <1>1 DEF ShouldSkipOrg
<1>9. Recorded' = Recorded
      BY <1>1, <1>8 DEF Recorded
<1>10. ASSUME NEW x \in Proc PROVE WideInv(x)'
  <2>0. WideInv(x) /\ WideInv(q)
        BY DEF Swept
  <2>1. CASE GetCreatedProjects(q)
    <3>1. /\ q[1] = "getCreatedProjects" /\ rows' = Recorded
          /\ UNCHANGED <<home, folios, folioRows, failures>>
          BY <2>1 DEF GetCreatedProjects, Recorded, cloudVars
    <3>2. x[1] = "deleteProjects" => pc[x] = "idle" /\ x # q
      <4> SUFFICES ASSUME x[1] = "deleteProjects", pc[x] # "idle" PROVE FALSE
          BY <3>1
      <4>1. Open(x[1])
            BY <1>5 DEF Wide
      <4>2. pc[q] = "done"
            BY <1>6, <1>7, <3>1, <4>1 DEF Wide
      <4>. QED BY <4>2
    <3>3. x = q \/ pc'[x] = pc[x]
          BY <1>1
    <3>4. x[1] = "getCreatedProjects" => x = q
          BY <1>4, <3>1 DEF Wide
    <3>. QED BY <1>2, <1>9, <2>0, <3>1, <3>2, <3>3, <3>4 DEF WideInv
  <2>2. CASE DeleteProjects(q)
    <3>1. q[1] = "deleteProjects" /\ UNCHANGED <<rows, folios, folioRows>>
          BY <2>2 DEF DeleteProjects
    <3>2. SoFar' => \A p \in rows : home'[p] = Absent
      <4>1. PICK fails \in SUBSET rows :
              /\ home' = [p \in Project |-> IF p \in rows \ fails THEN Absent ELSE home[p]]
              /\ failures' = failures \cup If(\E p \in rows : p \in fails \/ home[p] = Absent, "call")
            BY <2>2 DEF DeleteProjects, Counts
      <4>2. SoFar' => fails = {}
            BY <4>1 DEF SoFar, If
      <4>3. rows \subseteq Project
            BY DEF Shaped, ResetTypeOK
      <4>. QED BY <4>1, <4>2, <4>3
    <3>3. x = q \/ pc'[x] = pc[x]
          BY <1>1
    <3>4. x[1] = "deleteProjects" => x = q
          BY <1>4, <3>1 DEF Wide
    <3>. QED BY <1>2, <1>9, <2>0, <3>1, <3>2, <3>3, <3>4 DEF WideInv
  <2>3. CASE CreatePortfolios(q)
    <3>1. q[1] = "createPortfolios" /\ UNCHANGED <<rows, home>>
          BY <2>3 DEF CreatePortfolios
    <3>2. SoFar' => folioRows' = Portfolio
          BY <2>3 DEF CreatePortfolios, Counts, If, SoFar
    <3>3. x[1] = "deletePortfolios" => pc[x] = "idle" /\ x # q
      <4> SUFFICES ASSUME x[1] = "deletePortfolios", pc[x] # "idle" PROVE FALSE
          BY <3>1
      <4>1. Open(x[1])
            BY <1>5 DEF Wide
      <4>2. pc[q] = "done"
            BY <1>6, <1>7, <3>1, <4>1 DEF Wide
      <4>. QED BY <4>2
    <3>4. x = q \/ pc'[x] = pc[x]
          BY <1>1
    <3>5. x[1] = "createPortfolios" => x = q
          BY <1>4, <3>1 DEF Wide
    <3>. QED BY <1>2, <1>9, <2>0, <3>1, <3>2, <3>3, <3>4, <3>5 DEF WideInv
  <2>4. CASE DeletePortfolios(q)
    <3>1. q[1] = "deletePortfolios" /\ UNCHANGED <<rows, home, folioRows>>
          BY <2>4 DEF DeletePortfolios
    <3>2. SoFar => folioRows = Portfolio
      <4> DEFINE y == <<"createPortfolios", "enterprise">>
      <4>1. y \in Proc /\ y[1] = "createPortfolios"
            BY DEF Proc, Wide
      <4> HIDE DEF y
      <4>2. pc[y] = "done"
            BY <1>6, <1>7, <3>1, <4>1 DEF Wide
      <4>. QED BY <4>1, <4>2 DEF Swept, WideInv
    <3>3. SoFar' => folios' \cap Portfolio = {}
      <4>1. PICK fails \in SUBSET folioRows :
              folios' = folios \ (folioRows \ fails) /\ failures' = failures \cup If(fails # {}, "call")
            BY <2>4 DEF DeletePortfolios, Counts
      <4>2. SoFar' => fails = {}
            BY <4>1 DEF SoFar, If
      <4>. QED BY <1>2, <3>2, <4>1, <4>2
    <3>4. x = q \/ pc'[x] = pc[x]
          BY <1>1
    <3>5. x[1] = "deletePortfolios" => x = q
          BY <1>4, <3>1 DEF Wide
    <3>. QED BY <1>2, <1>9, <2>0, <3>1, <3>3, <3>4, <3>5 DEF WideInv
  <2>. QED BY <2>1, <2>2, <2>3, <2>4
<1>11. MissingIsCounted'
      BY <1>1 DEF Swept, MissingIsCounted
<1>12. BuiltInSurvives'
      BY <1>1 DEF Swept, BuiltInSurvives
<1>. QED BY <1>3, <1>10, <1>11, <1>12 DEF Swept

-----------------------------------------------------------------------------
\* A step that leaves the organizations, the lists and the tasks as they are.
LEMMA QuietSwept ==
    ASSUME Swept, UNCHANGED <<confirmed, live, named, home, folios, records, pc, snap, unreset, rows,
                              folioRows, failures, blind>>,
           (default' = default /\ admin' = admin) \/ ~SoFar',
           admin =< admin', admin \in Nat, admin' \in Nat
    PROVE  Swept'
<1>1. SoFar' => SoFar /\ default' = default
      BY DEF SoFar
<1>2. /\ \A o, k : Of(o, k)' = Of(o, k) /\ Slots(o, k)' = Slots(o, k)
      /\ \A e : IsBuiltIn(e)' = IsBuiltIn(e)
      /\ \A o : HasNamed(o)' = HasNamed(o)
      /\ \A o : ShouldSkipOrg(o)' = ShouldSkipOrg(o)
      BY DEF Of, Slots, IsBuiltIn, HasNamed, ShouldSkipOrg
<1>3. ASSUME NEW x \in Proc PROVE TaskInv(x)'
  <2>1. TaskInv(x) /\ Chosen(x)' = Chosen(x)
        BY DEF Swept, Chosen
  <2>. QED BY <1>1, <1>2, <2>1 DEF TaskInv
<1>4. ASSUME NEW x \in Proc PROVE WideInv(x)'
  <2>1. WideInv(x) /\ Recorded' = Recorded
        BY <1>2 DEF Swept, Recorded
  <2>. QED BY <1>1, <2>1 DEF WideInv
<1>5. BuiltInSurvives'
      BY QuietSurvives
<1>. QED BY <1>3, <1>4, <1>5 DEF Swept, MissingIsCounted

\* Where no task has seen or done anything there is nothing to show.
LEMMA FreshSwept ==
    ASSUME \A q \in Proc : pc[q] # "listed" /\ (Chosen(q) => pc[q] = "idle"),
           unreset = {}, BuiltInSurvives
    PROVE  Swept
<1>1. ASSUME NEW q \in Proc PROVE TaskInv(q) /\ WideInv(q)
      BY DEF TaskInv, WideInv, Chosen, Wide
<1>. QED BY <1>1 DEF Swept, MissingIsCounted

LEMMA InitSwept == ResetInit => Swept
<1> SUFFICES ASSUME ResetInit PROVE Swept
    OBVIOUS
<1>1. BuiltInSurvives
      BY EntityAssumption DEF ResetInit, BuiltInSurvives
<1>. QED BY <1>1, FreshSwept DEF ResetInit

LEMMA CreateProjectsSwept == ASSUME Shaped, Swept, CreateProjects PROVE Swept'
<1>1. /\ \A q \in Proc : pc[q] = "idle" /\ pc'[q] = "idle"
      /\ UNCHANGED <<live, named, unreset, blind, admin, failures>>
      BY DEF CreateProjects, Shaped, StagesFit, runVars
<1>2. \A q \in Proc : TaskInv(q)' /\ WideInv(q)'
      BY <1>1 DEF TaskInv, WideInv
<1>3. MissingIsCounted' /\ BuiltInSurvives'
      BY <1>1 DEF Swept, MissingIsCounted, BuiltInSurvives
<1>. QED BY <1>2, <1>3 DEF Swept

LEMMA ConfirmSwept == ASSUME Swept, NEW orgs, Confirm(orgs) PROVE Swept'
<1>1. /\ \A q \in Proc : pc'[q] # "listed" /\ (Chosen(q)' => pc'[q] = "idle")
      /\ unreset' = {}
      BY DEF Confirm, Chosen, ShouldSkipOrg
<1>2. BuiltInSurvives'
      BY DEF Confirm, cloudVars, Swept, BuiltInSurvives
<1>3. \A q \in Proc : TaskInv(q)' /\ WideInv(q)'
      BY <1>1 DEF TaskInv, WideInv, Chosen, Wide
<1>. QED BY <1>1, <1>2, <1>3 DEF Swept, MissingIsCounted

LEMMA NextSwept == Confined /\ Shaped /\ Swept /\ [ResetNext]_ovars => Swept'
<1> SUFFICES ASSUME Confined, Shaped, Swept, [ResetNext]_ovars PROVE Swept'
    OBVIOUS
<1>0. admin \in Nat
      BY WorldAssumption DEF Shaped, ResetTypeOK
<1>1. CASE CreateProjects
      BY <1>1, CreateProjectsSwept
<1>2. ASSUME NEW orgs \in Selections, Confirm(orgs) PROVE Swept'
      BY <1>2, ConfirmSwept
<1>3. CASE InterruptReset \/ EndReset \/ UNCHANGED ovars
  <2>1. /\ UNCHANGED <<confirmed, live, default, named, home, folios, records, pc, snap, unreset, rows>>
        /\ UNCHANGED <<folioRows, failures, blind, admin>>
        BY <1>3 DEF InterruptReset, EndReset, ovars, cloudVars, runVars
  <2>. QED BY <1>0, <2>1, QuietSwept
<1>4. ASSUME NEW s \in Slot, NEW e \in Entity, Promote(s, e) PROVE Swept'
  <2>1. /\ UNCHANGED <<confirmed, live, named, home, folios, records, pc, snap, unreset, rows>>
        /\ UNCHANGED <<folioRows, failures, blind>> /\ admin' = admin + 1
        BY <1>4 DEF Promote, runVars
  <2>2. ~SoFar' /\ admin =< admin' /\ admin' \in Nat
        BY <1>0, <2>1 DEF SoFar
  <2>. QED BY <1>0, <2>1, <2>2, QuietSwept
<1>5. ASSUME NEW q \in Proc, DeleteStep(q) PROVE Swept'
  <2>1. stage = "resetting" /\ pc[q] # "done" /\ (pc[q] = "idle" => Open(q[1]))
        BY <1>5 DEF DeleteStep
  <2>2. CASE SpareOrg(q) \/ List(q) \/ ListFails(q)
        BY <2>1, <2>2, ListedSwept
  <2>3. CASE ResetDefaultProfiles(q) \/ ResetDefaultGates(q) \/ ResetPermissionTemplates(q)
        BY <2>1, <2>3, ProfilesSwept, GatesSwept, TemplatesSwept
  <2>4. CASE DeleteProfiles(q) \/ DeleteGates(q) \/ DeleteTemplates(q) \/ DeleteGroups(q)
        BY <2>1, <2>4, SweepSwept
  <2>5. CASE GetCreatedProjects(q) \/ DeleteProjects(q) \/ CreatePortfolios(q) \/ DeletePortfolios(q)
    <3>1. pc[q] = "idle"
          BY <2>5 DEF GetCreatedProjects, DeleteProjects, CreatePortfolios, DeletePortfolios
    <3>. QED BY <2>1, <2>5, <3>1, WideSwept
  <2>6. CASE EnterpriseUnknown(q)
    <3>1. /\ UNCHANGED <<confirmed, live, default, named, home, folios, records, pc, snap, unreset, rows>>
          /\ UNCHANGED <<folioRows, failures, blind, admin>>
          BY <2>6 DEF EnterpriseUnknown, cloudVars
    <3>. QED BY <1>0, <3>1, QuietSwept
  <2>. QED BY <1>5, <2>2, <2>3, <2>4, <2>5, <2>6 DEF DeleteStep
<1>. QED BY <1>1, <1>2, <1>3, <1>4, <1>5 DEF ResetNext, Environment

LEMMA CleanWhenDone == Shaped /\ Swept => CleanResetIsClean
<1> SUFFICES ASSUME Shaped, Swept, stage = "done", SoFar
             PROVE  /\ \A e \in live : OrgOf[e] \in confirmed => e \in BuiltIn \/ IsBuiltIn(e)
                    /\ \A r \in records : r.ok /\ Target[r.project] \in confirmed => home[r.project] = Absent
                    /\ folios \cap Portfolio = {}
    BY DEF CleanResetIsClean, SoFar
<1>1. \A q \in Proc : pc[q] = "done" /\ TaskInv(q) /\ WideInv(q)
      BY DEF Shaped, StagesFit, Swept
<1>2. \A t \in Wide : <<t, "enterprise">> \in Proc
      BY DEF Proc
<1>3. ASSUME NEW e \in live, OrgOf[e] \in confirmed PROVE e \in BuiltIn \/ IsBuiltIn(e)
  <2>1. e \in Entity /\ OrgOf[e] \in Org /\ KindOf[e] \in {"profile", "gate", "template", "group"}
        BY EntityAssumption DEF Shaped, ResetTypeOK
  <2>2. PICK t \in Deletes : TaskKind(t) = KindOf[e]
        BY <2>1, KindOfTask DEF Deletes
  <2> DEFINE q == <<t, OrgOf[e]>>
  <2>3. q \in Proc /\ q[1] = t /\ q[2] = OrgOf[e]
        BY <2>1 DEF Proc, Deletes, Tasks, Wide
  <2>4. e \in Of(q[2], TaskKind(q[1])) /\ Chosen(q)
        BY <1>3, <2>2, <2>3 DEF Of, Chosen
  <2> HIDE DEF q
  <2>. QED BY <1>1, <2>3, <2>4 DEF TaskInv
<1>4. ASSUME NEW r \in records, r.ok, Target[r.project] \in confirmed PROVE home[r.project] = Absent
  <2>1. rows = Recorded
        BY <1>1, <1>2 DEF WideInv, Wide
  <2>2. r.project \in Recorded
        BY <1>4 DEF Recorded, IsCreated, ShouldSkipOrg
  <2>3. \A p \in rows : home[p] = Absent
        BY <1>1, <1>2 DEF WideInv, Wide
  <2>. QED BY <2>1, <2>2, <2>3
<1>5. folios \cap Portfolio = {}
      BY <1>1, <1>2 DEF WideInv, Wide
<1>. QED BY <1>3, <1>4, <1>5

\* A reset takes away what the migration made and nothing else: the templates an
\* organization was born with outlive it, and after a reset in which no call
\* failed, nothing was missing and nobody interfered no custom entity, no project
\* on record and no portfolio of the mapping is left.
THEOREM ResetTakesWhatWasMade == ResetSpec => []ResetInv
<1>1. Shaped /\ Swept => ResetInv
      BY CleanWhenDone DEF Shaped, Swept, ResetInv
<1>. QED BY <1>1, AlwaysConfined, AlwaysShaped, InitSwept, NextSwept, PTL DEF ResetSpec

-----------------------------------------------------------------------------
(***************************************************************************)
(* The branch guard, for any number of branches and attempts: the pattern  *)
(* comes back, what is complete is not deleted, and a guarded import       *)
(* leaves a reference branch short-lived.                                  *)
(***************************************************************************)

\* What the restore call will send: the pattern there was, as the API wants it.
Undoes == undo = IF born = "none" THEN "reset" ELSE born

\* As long as no process died, the pattern is the one there was, or an attempt
\* is under way that will put it back.
PatternKept ==
    ~broken =>
        /\ at # "crashed"
        /\ at \in {"idle", "ended"} => own = born
        /\ at = "guard" => own = born /\ undo = "none"
        /\ at \in {"drop", "import", "restore"} => (undo = "none" /\ own = born) \/ Undoes

\* Behind the guard the pattern matches no short-lived branch, unless exposed.
Guarded ==
    at \in {"drop", "import"} /\ ~exposed =>
        Effective # "matches" \/ \A b \in Branch : ~ShortLived(b)

GuardInv == GuardTypeOK /\ PatternKept /\ Guarded /\ CompletedStays

-----------------------------------------------------------------------------
LEMMA GuardInitTyped == GuardInit => GuardTypeOK
<1> SUFFICES ASSUME GuardInit PROVE GuardTypeOK
    OBVIOUS
<1> USE DEF GuardInit
<1>1. tries \in 0 .. MaxTries /\ org \in Pattern /\ own \in Own /\ born \in Own
      BY GuardAssumption DEF Own, Pattern
<1>2. /\ target \in [Branch -> {"absent", "long", "short"}] /\ listed = target
      /\ row \in [Branch -> Status]
      BY DEF Status
<1>3. undo \in Own \cup {"reset"}
      BY DEF Own
<1>. QED BY <1>1, <1>2, <1>3 DEF GuardTypeOK

LEMMA TypesKept == GuardTypeOK /\ [GuardNext]_tvars => GuardTypeOK'
<1> SUFFICES ASSUME GuardTypeOK, [GuardNext]_tvars PROVE GuardTypeOK'
    OBVIOUS
<1> USE GuardAssumption DEF GuardTypeOK
<1>1. CASE Begin
  <2>1. tries' \in 0 .. MaxTries
        BY <1>1 DEF Begin
  <2>2. undo' \in Own \cup {"reset"}
        BY <1>1 DEF Begin, Own
  <2>. QED BY <1>1, <2>1, <2>2 DEF Begin
<1>2. CASE LeavePattern
      BY <1>2 DEF LeavePattern
<1>3. CASE SetPattern
      BY <1>3 DEF SetPattern, Original, Own, Pattern
<1>4. CASE DropLongLivedBeforeShort
      BY <1>4 DEF DropLongLivedBeforeShort, guardVars
<1>5. ASSUME NEW b \in Branch, SkipCompleted(b) PROVE GuardTypeOK'
      BY <1>5 DEF SkipCompleted, guardVars
<1>6. ASSUME NEW b \in Branch, ImportBranch(b) PROVE GuardTypeOK'
  <2>1. TypeGiven(b) \in {"absent", "long", "short"}
        BY DEF TypeGiven
  <2>2. target' \in [Branch -> {"absent", "long", "short"}]
        BY <1>6, <2>1 DEF ImportBranch
  <2>3. row' \in [Branch -> Status] /\ awaiting' \subseteq Branch
        BY <1>6 DEF ImportBranch, Records, Status
  <2>. QED BY <1>6, <2>2, <2>3 DEF ImportBranch, guardVars
<1>7. ASSUME NEW b \in Branch, RecordBranchCancelled(b) PROVE GuardTypeOK'
      BY <1>7 DEF RecordBranchCancelled, Records, Status, guardVars
<1>8. CASE EndImports
      BY <1>8 DEF EndImports, guardVars
<1>9. CASE Restore
  <2>1. own' \in Own
        BY <1>9 DEF Restore, Restored, Own
  <2>. QED BY <1>9, <2>1 DEF Restore
<1>10. CASE RestoreFails \/ CancelImport \/ CrashImport
      BY <1>10 DEF RestoreFails, CancelImport, CrashImport, guardVars
<1>11. CASE SetOrgPattern
      BY <1>11 DEF SetOrgPattern, Pattern
<1>12. CASE UNCHANGED tvars
      BY <1>12 DEF tvars, guardVars
<1>. QED BY <1>1, <1>2, <1>3, <1>4, <1>5, <1>6, <1>7, <1>8, <1>9, <1>10, <1>11, <1>12
         DEF GuardNext

LEMMA PatternStaysKept == GuardTypeOK /\ PatternKept /\ [GuardNext]_tvars => PatternKept'
<1> SUFFICES ASSUME GuardTypeOK, PatternKept, [GuardNext]_tvars PROVE PatternKept'
    OBVIOUS
<1> USE DEF PatternKept, Undoes
<1>1. CASE Begin
      BY <1>1 DEF Begin
<1>2. CASE LeavePattern
      BY <1>2 DEF LeavePattern
<1>3. CASE SetPattern
      BY <1>3 DEF SetPattern, Original
<1>4. CASE DropLongLivedBeforeShort
      BY <1>4 DEF DropLongLivedBeforeShort, guardVars
<1>5. ASSUME NEW b \in Branch, SkipCompleted(b) \/ ImportBranch(b) \/ RecordBranchCancelled(b)
      PROVE  PatternKept'
      BY <1>5 DEF SkipCompleted, ImportBranch, RecordBranchCancelled, guardVars
<1>6. CASE EndImports
      BY <1>6 DEF EndImports, guardVars
<1>7. CASE Restore
  <2>1. born # "reset"
        BY DEF GuardTypeOK, Own, Pattern
  <2>. QED BY <1>7, <2>1 DEF Restore, Restored, MayRestore
<1>8. CASE RestoreFails \/ CrashImport
      BY <1>8 DEF RestoreFails, CrashImport
<1>9. CASE CancelImport \/ SetOrgPattern
      BY <1>9 DEF CancelImport, SetOrgPattern, guardVars
<1>10. CASE UNCHANGED tvars
      BY <1>10 DEF tvars, guardVars
<1>. QED BY <1>1, <1>2, <1>3, <1>4, <1>5, <1>6, <1>7, <1>8, <1>9, <1>10 DEF GuardNext

LEMMA StaysGuarded == GuardTypeOK /\ Guarded /\ [GuardNext]_tvars => Guarded'
<1> SUFFICES ASSUME GuardTypeOK, Guarded, [GuardNext]_tvars PROVE Guarded'
    OBVIOUS
<1> USE DEF Guarded, Effective, ShortLived
<1>1. CASE Begin \/ EndImports \/ Restore \/ RestoreFails \/ CrashImport
      BY <1>1 DEF Begin, EndImports, Restore, RestoreFails, CrashImport
<1>2. CASE LeavePattern
      BY <1>2 DEF LeavePattern, MatchesAny
<1>3. CASE SetPattern
      BY <1>3 DEF SetPattern
<1>4. CASE DropLongLivedBeforeShort
      BY <1>4 DEF DropLongLivedBeforeShort, guardVars
<1>5. ASSUME NEW b \in Branch, SkipCompleted(b) \/ ImportBranch(b) \/ RecordBranchCancelled(b)
      PROVE  Guarded'
      BY <1>5 DEF SkipCompleted, ImportBranch, RecordBranchCancelled, guardVars
<1>6. CASE CancelImport
      BY <1>6 DEF CancelImport, guardVars
<1>7. CASE SetOrgPattern
      BY <1>7 DEF SetOrgPattern
<1>8. CASE UNCHANGED tvars
      BY <1>8 DEF tvars, guardVars
<1>. QED BY <1>1, <1>2, <1>3, <1>4, <1>5, <1>6, <1>7, <1>8 DEF GuardNext

LEMMA CompletedKept == GuardTypeOK /\ CompletedStays /\ [GuardNext]_tvars => CompletedStays'
<1> SUFFICES ASSUME GuardTypeOK, CompletedStays, [GuardNext]_tvars,
                    NEW c \in Branch, Completed(c)'
             PROVE  target'[c] # "absent"
    BY DEF CompletedStays
<1> USE DEF GuardTypeOK, CompletedStays, Completed
<1>1. CASE UNCHANGED <<row, target>>
      BY <1>1
<1>2. CASE DropLongLivedBeforeShort
      BY <1>2 DEF DropLongLivedBeforeShort, Dropped
<1>3. ASSUME NEW b \in Branch, ImportBranch(b) PROVE target'[c] # "absent"
  <2>1. TypeGiven(b) # "absent"
        BY DEF TypeGiven
  <2>2. CASE b = c
        BY <1>3, <2>1, <2>2 DEF ImportBranch, Records
  <2>3. CASE b # c
        BY <1>3, <2>3 DEF ImportBranch, Records
  <2>. QED BY <2>2, <2>3
<1>4. ASSUME NEW b \in Branch, RecordBranchCancelled(b) PROVE target'[c] # "absent"
      BY <1>4 DEF RecordBranchCancelled, Records
<1>. QED BY <1>1, <1>2, <1>3, <1>4 DEF GuardNext, Begin, LeavePattern, SetPattern, SkipCompleted,
         EndImports, Restore, RestoreFails, CancelImport, CrashImport, SetOrgPattern, tvars

LEMMA AlwaysGuarded == GuardSpec => []GuardInv
<1>1. GuardInit => GuardInv
  <2>1. GuardInit => PatternKept /\ Guarded
        BY DEF GuardInit, PatternKept, Guarded
  <2>2. GuardInit => CompletedStays
        BY DEF GuardInit, CompletedStays, Completed
  <2>. QED BY <2>1, <2>2, GuardInitTyped DEF GuardInv
<1>2. GuardInv /\ [GuardNext]_tvars => GuardInv'
      BY TypesKept, PatternStaysKept, StaysGuarded, CompletedKept DEF GuardInv
<1>. QED BY <1>1, <1>2, PTL DEF GuardSpec

-----------------------------------------------------------------------------
\* However attempts end, short of a crash or a failed restore, the project is
\* left with the pattern it had, whatever the organization's is meanwhile.
THEOREM ThePatternComesBack == GuardSpec => []PatternComesBack
<1>1. GuardInv => PatternComesBack
      BY DEF GuardInv, PatternKept, PatternComesBack
<1>. QED BY <1>1, AlwaysGuarded, PTL

\* The branches an earlier attempt completed are spared by the deletion that
\* makes room for short-lived ones (dropLongLivedBeforeShort).
THEOREM CompletedBranchesStay == GuardSpec => []CompletedStays
<1>1. GuardInv => CompletedStays
      BY DEF GuardInv
<1>. QED BY <1>1, AlwaysGuarded, PTL

\* A reference branch imported behind the guard is short-lived.
THEOREM ReferenceBranchesAreShort == GuardSpec => ShortIsShort
<1>1. GuardInv /\ [GuardNext]_tvars =>
        [\A b \in Reference : row'[b] = "success" /\ row[b] # "success" /\ ~exposed =>
            target'[b] = "short"]_tvars
  <2> SUFFICES ASSUME GuardInv, GuardNext, NEW b \in Reference,
                      row'[b] = "success", row[b] # "success", ~exposed
               PROVE  target'[b] = "short"
      OBVIOUS
  <2>1. b \in Branch /\ GuardTypeOK /\ Guarded
        BY GuardAssumption DEF GuardInv
  <2>2. CASE UNCHANGED row
        BY <2>2
  <2>3. ASSUME NEW c \in Branch, RecordBranchCancelled(c) PROVE FALSE
        BY <2>1, <2>3 DEF RecordBranchCancelled, Records, GuardTypeOK
  <2>4. ASSUME NEW c \in Branch, ImportBranch(c) PROVE target'[b] = "short"
    <3>1. c = b
          BY <2>1, <2>4 DEF ImportBranch, Records, GuardTypeOK
    <3>2. /\ at = "import" /\ target[b] # "long"
          /\ target' = [target EXCEPT ![b] = TypeGiven(b)]
          BY <2>1, <2>4, <3>1 DEF ImportBranch, Records, ShortLived, GuardTypeOK
    <3>3. TypeGiven(b) = "short"
          BY <2>1, <3>2 DEF TypeGiven, ShortLived, Guarded, GuardTypeOK
    <3>. QED BY <2>1, <3>2, <3>3 DEF GuardTypeOK
  <2>. QED BY <2>2, <2>3, <2>4 DEF GuardNext, Begin, LeavePattern, SetPattern,
           DropLongLivedBeforeShort, SkipCompleted, EndImports, Restore, RestoreFails,
           CancelImport, CrashImport, SetOrgPattern
<1>. QED BY <1>1, AlwaysGuarded, PTL DEF GuardSpec, ShortIsShort
===============================================================================
