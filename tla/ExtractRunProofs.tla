-------------------------- MODULE ExtractRunProofs -------------------------
(***************************************************************************)
(* Theorems of ExtractRun, for any projects, plan, outage threshold and    *)
(* number of runs.                                                         *)
(***************************************************************************)
EXTENDS ExtractRun, SequenceTheorems, TLAPS

LEMMA PlanTasks == \A i \in DOMAIN Plan : Plan[i] \subseteq Tasks
  BY DEF Tasks

LEMMA PlanHasAPhase == Len(Plan) \in Nat /\ 1 \in 1 .. Len(Plan)
  <1>1. Plan \in Seq(SUBSET Tasks) /\ Plan # <<>>
    BY ExtractAssumption
  <1>2. Len(Plan) \in Nat
    BY <1>1
  <1>3. Len(Plan) # 0
    BY <1>1, EmptySeq, Zenon
  <1>. QED BY <1>2, <1>3

\* A task's rows change by a whole function update; the nested form stays typed.
LEMMA RowsUpdate ==
  ASSUME rows \in [Tasks -> [Projects -> Nat]], NEW t \in Tasks, NEW p \in Projects
  PROVE  [rows EXCEPT ![t][p] = @ + 1] \in [Tasks -> [Projects -> Nat]]
  <1>1. rows[t] \in [Projects -> Nat] /\ rows[t][p] + 1 \in Nat
    OBVIOUS
  <1>2. [rows[t] EXCEPT ![p] = rows[t][p] + 1] \in [Projects -> Nat]
    BY <1>1
  <1>. QED BY <1>2

\* The values a run starts from are typed.
LEMMA FreshIsTyped ==
  /\ NoWork \in [Tasks -> SUBSET Projects]
  /\ Waiting \in [Tasks -> {"waiting", "running", "failing", "failed", "finished"}]
  /\ [t \in Tasks |-> NoRows] \in [Tasks -> [Projects -> Nat]]
  /\ TypeOK => DiscardUnfinished \in [Tasks -> [Projects -> Nat]]
  <1>1. NoRows \in [Projects -> Nat]
    BY DEF NoRows
  <1>2. NoWork \in [Tasks -> SUBSET Projects]
    BY DEF NoWork
  <1>3. Waiting \in [Tasks -> {"waiting", "running", "failing", "failed", "finished"}]
    BY DEF Waiting
  <1>4. TypeOK => DiscardUnfinished \in [Tasks -> [Projects -> Nat]]
    BY <1>1 DEF DiscardUnfinished, TypeOK
  <1>. QED BY <1>1, <1>2, <1>3, <1>4

LEMMA TypeStep == TypeOK /\ [Next]_vars => TypeOK'
  <1>. SUFFICES ASSUME TypeOK, [Next]_vars PROVE TypeOK'
    OBVIOUS
  <1>. USE DEF TypeOK, history
  <1>1. CASE Start
    <2>1. phase' \in 1 .. Len(Plan) /\ pc' \in {"off", "running", "stopped", "complete", "crashed"}
      BY <1>1, PlanHasAPhase DEF Start
    <2>2. /\ status' \in [Tasks -> {"waiting", "running", "failing", "failed", "finished"}]
          /\ todo' \in [Tasks -> SUBSET Projects] /\ asking' \in [Tasks -> SUBSET Projects]
      BY <1>1, FreshIsTyped DEF Start
    <2>3. rows' \in [Tasks -> [Projects -> Nat]]
      BY <1>1, FreshIsTyped, Zenon DEF Start
    <2>4. /\ stopping' \subseteq Tasks \X Projects
          /\ failedProjects' \subseteq Projects /\ skippedProjects' \subseteq Projects
          /\ streakKeys' \subseteq Projects /\ doneInStreak' \subseteq Tasks
          /\ failStreak' \in Nat /\ outage' \in BOOLEAN
      BY <1>1 DEF Start, RestoreFailed
    <2>5. /\ done' \subseteq Tasks /\ failedFile' \subseteq Projects /\ refused' \subseteq Projects
          /\ counted' \subseteq Projects /\ runs' \in Nat /\ crashes' \in Nat
      BY <1>1 DEF Start
    <2>. QED BY <2>1, <2>2, <2>3, <2>4, <2>5
  <1>2. CASE NextPhase
    BY <1>2, PlanHasAPhase DEF NextPhase, streakVars, diskVars
  <1>3. CASE EndRun
    BY <1>3 DEF EndRun, workVars, streakVars
  <1>4. CASE Crash
    BY <1>4 DEF Crash, workVars, streakVars, diskVars
  <1>5. CASE Leave \/ UNCHANGED vars
    BY <1>5 DEF Leave, vars, workVars, streakVars, diskVars
  <1>6. ASSUME NEW t \in Tasks, StartTask(t) PROVE TypeOK'
    BY <1>6 DEF StartTask, streakVars, diskVars
  <1>7. ASSUME NEW t \in Tasks, FatalError(t) PROVE TypeOK'
    BY <1>7 DEF FatalError, Answered, streakVars, diskVars
  <1>8. ASSUME NEW t \in Tasks, FinishTask(t) PROVE TypeOK'
    BY <1>8 DEF FinishTask, NoteDone
  <1>9. ASSUME NEW t \in Tasks, FailTask(t) PROVE TypeOK'
    BY <1>9 DEF FailTask, streakVars, diskVars
  <1>10. ASSUME NEW t \in Tasks, NEW p \in Projects, Ask(t, p) PROVE TypeOK'
    BY <1>10 DEF Ask, streakVars, diskVars
  <1>11. ASSUME NEW t \in Tasks, NEW p \in Projects, Succeed(t, p) PROVE TypeOK'
    BY <1>11, RowsUpdate DEF Succeed, Answered, EndStreak
  <1>12. ASSUME NEW t \in Tasks, NEW p \in Projects, Refuse(t, p) PROVE TypeOK'
    BY <1>12 DEF Refuse, Answered, EndStreak, diskVars
  <1>13. ASSUME NEW t \in Tasks, NEW p \in Projects, Fail(t, p) PROVE TypeOK'
    BY <1>13 DEF Fail, Answered, diskVars
  <1>14. ASSUME NEW t \in Tasks, NEW p \in Projects, EndOutage(t, p) PROVE TypeOK'
    BY <1>14 DEF EndOutage, ClearDone
  <1>. QED BY <1>1, <1>2, <1>3, <1>4, <1>5, <1>6, <1>7, <1>8, <1>9, <1>10, <1>11, <1>12,
              <1>13, <1>14 DEF Next, Work

\* Every variable keeps its type.
THEOREM ExtractTypeCorrect == Spec => []TypeOK
  <1>1. Init => TypeOK
    <2>. SUFFICES ASSUME Init PROVE TypeOK
      OBVIOUS
    <2>1. phase \in 1 .. Len(Plan) /\ pc \in {"off", "running", "stopped", "complete", "crashed"}
      BY PlanHasAPhase DEF Init
    <2>2. /\ status \in [Tasks -> {"waiting", "running", "failing", "failed", "finished"}]
          /\ todo \in [Tasks -> SUBSET Projects] /\ asking \in [Tasks -> SUBSET Projects]
      BY FreshIsTyped DEF Init
    <2>3. rows \in [Tasks -> [Projects -> Nat]]
      BY FreshIsTyped, Zenon DEF Init
    <2>4. /\ stopping \subseteq Tasks \X Projects
          /\ failedProjects \subseteq Projects /\ skippedProjects \subseteq Projects
          /\ streakKeys \subseteq Projects /\ doneInStreak \subseteq Tasks
          /\ failStreak \in Nat /\ outage \in BOOLEAN
      BY DEF Init
    <2>5. /\ done \subseteq Tasks /\ failedFile \subseteq Projects /\ refused \subseteq Projects
          /\ counted \subseteq Projects /\ runs \in Nat /\ crashes \in Nat
      BY DEF Init
    <2>. QED BY <2>1, <2>2, <2>3, <2>4, <2>5 DEF TypeOK
  <1>. QED BY <1>1, TypeStep, PTL DEF Spec
-----------------------------------------------------------------------------
(***************************************************************************)
(* Rows: a project a task has yet to ask for, or is asking for, has none.  *)
(* An outage takes back only tasks that have started in this run, so that  *)
(* a task about to start has none of its rows on disk.                     *)
(***************************************************************************)
StartsEmpty(t) ==
  status[t] = "waiting" =>
    /\ asking[t] = {} /\ t \notin doneInStreak
    /\ t \in done \/ \A p \in Projects : rows[t][p] = 0

AskedOnce(t) == \A p \in Projects : /\ p \in todo[t] \union asking[t] => rows[t][p] = 0
                                     /\ ~(p \in todo[t] /\ p \in asking[t])

RowInv == WrittenOnce /\ (pc = "running" => \A t \in Tasks : StartsEmpty(t) /\ AskedOnce(t))

LEMMA RowStep == TypeOK /\ RowInv /\ [Next]_vars => RowInv'
  <1>. SUFFICES ASSUME TypeOK, RowInv, [Next]_vars PROVE RowInv'
    OBVIOUS
  <1>. USE DEF RowInv, WrittenOnce, StartsEmpty, AskedOnce
  <1>1. CASE Start
    <2>1. \A t \in Tasks, p \in Projects : rows'[t][p] \in {0, rows[t][p]}
      BY <1>1 DEF Start, DiscardUnfinished, NoRows
    <2>2. \A t \in Tasks : t \in done' \/ \A p \in Projects : rows'[t][p] = 0
      BY <1>1 DEF Start, DiscardUnfinished, NoRows
    <2>3. \A t \in Tasks : todo'[t] = {} /\ asking'[t] = {} /\ t \notin doneInStreak'
      BY <1>1 DEF Start, NoWork
    <2>4. \A t \in Tasks : StartsEmpty(t)' /\ AskedOnce(t)'
      BY <2>2, <2>3
    <2>5. WrittenOnce'
      BY <2>1
    <2>. QED BY <2>4, <2>5
  <1>2. CASE NextPhase \/ Leave \/ UNCHANGED vars
    BY <1>2 DEF NextPhase, Leave, vars, workVars, streakVars, diskVars
  <1>3. CASE EndRun \/ Crash
    BY <1>3 DEF EndRun, Crash, diskVars
  <1>6. ASSUME NEW u \in Tasks, StartTask(u) PROVE RowInv'
    BY <1>6 DEF StartTask, InPhase, TypeOK, streakVars, diskVars
  <1>7. ASSUME NEW u \in Tasks, FatalError(u) PROVE RowInv'
    <2>1. \A t \in Tasks : todo'[t] \subseteq todo[t] /\ asking'[t] \subseteq asking[t]
      <3>1. \A t \in Tasks : todo'[t] \subseteq todo[t]
        BY <1>7 DEF FatalError, TypeOK
      <3>2. asking' = asking \/ \E p \in Projects : Answered(u, p)
        BY <1>7 DEF FatalError
      <3>3. ASSUME NEW p \in Projects, Answered(u, p)
            PROVE  \A t \in Tasks : asking'[t] \subseteq asking[t]
        <4>1. asking' = [asking EXCEPT ![u] = asking[u] \ {p}]
          BY <3>3 DEF Answered
        <4>2. asking \in [Tasks -> SUBSET Projects]
          BY DEF TypeOK
        <4>. QED BY <4>1, <4>2
      <3>. QED BY <3>1, <3>2, <3>3
    <2>2. \A t \in Tasks : status'[t] = "waiting" => status[t] = "waiting"
      BY <1>7 DEF FatalError, TypeOK
    <2>. QED BY <1>7, <2>1, <2>2 DEF FatalError, streakVars, diskVars
  <1>8. ASSUME NEW u \in Tasks, FinishTask(u) PROVE RowInv'
    BY <1>8 DEF FinishTask, NoteDone, InPhase, TypeOK
  <1>9. ASSUME NEW u \in Tasks, FailTask(u) PROVE RowInv'
    BY <1>9 DEF FailTask, TypeOK, streakVars, diskVars
  <1>10. ASSUME NEW u \in Tasks, NEW q \in Projects, Ask(u, q) PROVE RowInv'
    BY <1>10 DEF Ask, InPhase, TypeOK, streakVars, diskVars
  <1>11. ASSUME NEW u \in Tasks, NEW q \in Projects, Succeed(u, q) PROVE RowInv'
    <2>1. \A t \in Tasks, p \in Projects :
            rows'[t][p] = IF t = u /\ p = q THEN rows[u][q] + 1 ELSE rows[t][p]
      BY <1>11 DEF Succeed, TypeOK
    <2>2. rows[u][q] = 0 /\ status[u] # "waiting" /\ q \notin todo[u] /\ q \notin asking'[u]
      BY <1>11 DEF Succeed, Answered, InPhase, TypeOK
    <2>3. WrittenOnce'
      BY <2>1, <2>2
    <2>4. /\ todo' = todo /\ status' = status /\ pc' = pc /\ done' = done
          /\ \A t \in Tasks : asking'[t] \subseteq asking[t]
          /\ doneInStreak' \in {{}, doneInStreak}
      BY <1>11 DEF Succeed, Answered, EndStreak, TypeOK
    <2>. QED BY <2>1, <2>2, <2>3, <2>4
  <1>12. ASSUME NEW u \in Tasks, NEW q \in Projects, Refuse(u, q) PROVE RowInv'
    BY <1>12 DEF Refuse, Answered, EndStreak, TypeOK, diskVars
  <1>13. ASSUME NEW u \in Tasks, NEW q \in Projects, Fail(u, q) PROVE RowInv'
    BY <1>13 DEF Fail, Answered, TypeOK, diskVars
  <1>14. ASSUME NEW u \in Tasks, NEW q \in Projects, EndOutage(u, q) PROVE RowInv'
    <2>1. \A t \in Tasks : status'[t] = "waiting" => status[t] = "waiting"
      BY <1>14 DEF EndOutage, TypeOK
    <2>. QED BY <1>14, <2>1 DEF EndOutage, ClearDone
  <1>. QED BY <1>1, <1>2, <1>3, <1>6, <1>7, <1>8, <1>9, <1>10, <1>11, <1>12,
              <1>13, <1>14 DEF Next, Work

LEMMA RowInit == Init => RowInv
  BY DEF Init, RowInv, WrittenOnce, NoRows

\* No task writes a project's rows twice, whatever fails or crashes.
THEOREM RowsAreWrittenOnce == Spec => []WrittenOnce
  <1>1. RowInv => WrittenOnce
    BY DEF RowInv
  <1>. QED BY <1>1, RowInit, RowStep, ExtractTypeCorrect, PTL DEF Spec

(***************************************************************************)
(* Completeness of a task under way: a project not refused is written,     *)
(* still to come, or listed as failed, until an outage empties the list;   *)
(* from then on no task finishes with a done marker.                       *)
(***************************************************************************)
Accounted(t) ==
  t \in PerProject /\ status[t] = "running" /\ ~outage =>
    \A p \in Projects \ refused : \/ Written(t, p)
                                   \/ p \in todo[t] \union asking[t] \union failedProjects

WholeInv == crashes = 0 =>
  /\ pc # "crashed" /\ skippedProjects \subseteq refused
  /\ streakKeys # {} => failStreak > 0
  /\ DoneTasksAreWhole /\ LacksOnlySkipped
  /\ pc = "running" => \A t \in Tasks : Accounted(t)

\* No step brings a killed process back.
LEMMA KilledForGood == TypeOK /\ [Next]_vars /\ crashes' = 0 => crashes = 0
  <1>. SUFFICES ASSUME TypeOK, [Next]_vars, crashes' = 0 PROVE crashes = 0
    OBVIOUS
  <1>1. CASE Start \/ NextPhase \/ EndRun \/ Leave \/ UNCHANGED vars
    BY <1>1 DEF Start, NextPhase, EndRun, Leave, vars, history
  <1>2. CASE Crash
    BY <1>2 DEF Crash, TypeOK
  <1>3. ASSUME NEW t \in Tasks, StartTask(t) \/ FatalError(t) \/ FinishTask(t) \/ FailTask(t)
        PROVE  crashes = 0
    BY <1>3 DEF StartTask, FatalError, FinishTask, FailTask, history
  <1>4. ASSUME NEW t \in Tasks, NEW p \in Projects,
               Ask(t, p) \/ Succeed(t, p) \/ Refuse(t, p) \/ Fail(t, p) \/ EndOutage(t, p)
        PROVE  crashes = 0
    BY <1>4 DEF Ask, Succeed, Refuse, Fail, EndOutage, history
  <1>. QED BY <1>1, <1>2, <1>3, <1>4 DEF Next, Work

LEMMA WholeStep == TypeOK /\ RowInv /\ WholeInv /\ [Next]_vars => WholeInv'
  <1>. SUFFICES ASSUME TypeOK, RowInv, WholeInv, [Next]_vars, crashes' = 0 PROVE WholeInv'
    BY DEF WholeInv
  <1>. crashes = 0
    BY KilledForGood
  <1>. USE DEF WholeInv, DoneTasksAreWhole, LacksOnlySkipped, Accounted, Written
  <1>1. CASE Start
    <2>1. \A t \in done, p \in Projects : t \in Tasks => rows'[t][p] = rows[t][p]
      BY <1>1 DEF Start, DiscardUnfinished, TypeOK
    <2>2. done \subseteq Tasks
      BY DEF TypeOK
    <2>3. pc # "running" /\ pc' = "running" /\ done' = done /\ refused' = refused
      BY <1>1 DEF Start
    <2>4. failedProjects' = failedFile /\ streakKeys' = {} /\ skippedProjects' = {}
      BY <1>1 DEF Start, RestoreFailed
    <2>5. LacksOnlySkipped'
      BY <2>1, <2>2, <2>3, <2>4
    <2>6. \A t \in Tasks : status'[t] # "running"
      BY <1>1 DEF Start, Waiting
    <2>. QED BY <2>3, <2>4, <2>5, <2>6
  <1>2. CASE NextPhase \/ Leave \/ UNCHANGED vars
    BY <1>2 DEF NextPhase, Leave, vars, workVars, streakVars, diskVars, history
  <1>3. CASE EndRun
    BY <1>3 DEF EndRun, workVars, streakVars, history
  <1>4. CASE Crash
    BY <1>4 DEF Crash, TypeOK
  <1>6. ASSUME NEW u \in Tasks, StartTask(u) PROVE WholeInv'
    <2>1. \A t \in Tasks : Accounted(t)'
      <3>1. SUFFICES ASSUME NEW t \in Tasks PROVE Accounted(t)'
        OBVIOUS
      <3>2. CASE t = u
        BY <1>6, <3>2 DEF StartTask, IsSkipped, TypeOK, history
      <3>3. CASE t # u
        BY <1>6, <3>3 DEF StartTask, InPhase, TypeOK, streakVars, diskVars, history
      <3>. QED BY <3>2, <3>3
    <2>. QED BY <1>6, <2>1 DEF StartTask, InPhase, streakVars, diskVars, history
  <1>7. ASSUME NEW u \in Tasks, FatalError(u) PROVE WholeInv'
    <2>1. /\ pc = "running" /\ pc' = pc /\ status' = [status EXCEPT ![u] = "failing"]
          /\ todo' = [todo EXCEPT ![u] = {}]
          /\ UNCHANGED <<failedProjects, skippedProjects, streakVars, diskVars, history>>
      BY <1>7 DEF FatalError, InPhase
    <2>2. \A t \in Tasks \ {u} : asking'[t] = asking[t]
      <3>1. asking' = asking \/ \E p \in Projects : asking' = [asking EXCEPT ![u] = asking[u] \ {p}]
        BY <1>7 DEF FatalError, Answered
      <3>. QED BY <3>1 DEF TypeOK
    <2>3. \A t \in Tasks : Accounted(t)'
      BY <2>1, <2>2 DEF TypeOK, streakVars, diskVars, history
    <2>. QED BY <2>1, <2>3 DEF streakVars, diskVars, history
  <1>8. ASSUME NEW u \in Tasks, FinishTask(u) PROVE WholeInv'
    <2>1. /\ pc = "running" /\ pc' = pc /\ status[u] = "running" /\ todo[u] = {} /\ asking[u] = {}
          /\ status' = [status EXCEPT ![u] = "finished"]
          /\ UNCHANGED <<todo, asking, failedProjects, skippedProjects, failStreak, streakKeys,
                         outage, rows, failedFile, refused>>
      BY <1>8 DEF FinishTask, InPhase, NothingInFlight, history
    <2>2. \A t \in Tasks : Accounted(t)'
      BY <2>1 DEF TypeOK
    <2>3. LacksOnlySkipped'
      <3>1. CASE outage
        BY <1>8, <2>1, <3>1 DEF FinishTask
      <3>2. CASE ~outage
        <4>1. /\ done' = done \union {u} /\ doneInStreak \subseteq doneInStreak'
              /\ failStreak > 0 => u \in doneInStreak'
          BY <1>8, <3>2 DEF FinishTask, NoteDone
        <4>2. \A p \in Projects \ refused : u \in PerProject => Written(u, p) \/ p \in failedProjects
          BY <2>1, <3>2
        <4>. QED BY <2>1, <4>1, <4>2
      <3>. QED BY <3>1, <3>2
    <2>. QED BY <2>1, <2>2, <2>3
  <1>9. ASSUME NEW u \in Tasks, FailTask(u) PROVE WholeInv'
    BY <1>9 DEF FailTask, InPhase, TypeOK, streakVars, diskVars, history
  <1>10. ASSUME NEW u \in Tasks, NEW q \in Projects, Ask(u, q) PROVE WholeInv'
    <2>1. \A t \in Tasks : Accounted(t)'
      <3>1. SUFFICES ASSUME NEW t \in Tasks PROVE Accounted(t)'
        OBVIOUS
      <3>2. \A p \in Projects \ refused : p \in todo[t] \union asking[t] \union failedProjects =>
                                          p \in todo'[t] \union asking'[t] \union failedProjects
        BY <1>10 DEF Ask, IsSkipped, TypeOK
      <3>. QED BY <1>10, <3>2 DEF Ask, InPhase, TypeOK, streakVars, diskVars, history
    <2>. QED BY <1>10, <2>1 DEF Ask, InPhase, streakVars, diskVars, history
  <1>11. ASSUME NEW u \in Tasks, NEW q \in Projects, Succeed(u, q) PROVE WholeInv'
    <2>1. \A t \in Tasks, p \in Projects :
            rows'[t][p] = IF t = u /\ p = q THEN 1 ELSE rows[t][p]
      BY <1>11 DEF Succeed, Answered, InPhase, TypeOK, RowInv, AskedOnce
    <2>2. \A t \in Tasks : \A p \in asking[t] : p \in asking'[t] \/ (t = u /\ p = q)
      BY <1>11 DEF Succeed, Answered, TypeOK
    <2>3. /\ pc = "running" /\ pc' = pc /\ status' = status /\ todo' = todo /\ done' = done
          /\ outage' = outage /\ failedProjects' = failedProjects /\ refused' = refused
          /\ skippedProjects' = skippedProjects
      BY <1>11 DEF Succeed, Answered, InPhase, history
    <2>4. streakKeys' = {} \/ UNCHANGED <<failStreak, streakKeys, doneInStreak>>
      BY <1>11 DEF Succeed, EndStreak, TypeOK
    <2>5. streakKeys' # {} => failStreak' > 0
      BY <2>4
    <2>6. LacksOnlySkipped'
      BY <2>1, <2>3, <2>4 DEF TypeOK
    <2>7. \A t \in Tasks : Accounted(t)'
      BY <2>1, <2>2, <2>3
    <2>. QED BY <2>3, <2>5, <2>6, <2>7
  <1>12. ASSUME NEW u \in Tasks, NEW q \in Projects, Refuse(u, q) PROVE WholeInv'
    <2>1. \A t \in Tasks : \A p \in asking[t] : p \in asking'[t] \/ (t = u /\ p = q)
      BY <1>12 DEF Refuse, Answered, TypeOK
    <2>2. /\ pc = "running" /\ pc' = pc /\ status' = status /\ todo' = todo /\ done' = done
          /\ outage' = outage /\ failedProjects' = failedProjects
          /\ rows' = rows /\ refused' = refused \union {q}
          /\ skippedProjects' \subseteq skippedProjects \union {q}
      BY <1>12 DEF Refuse, Answered, InPhase, diskVars
    <2>3. streakKeys' = {} \/ UNCHANGED <<failStreak, streakKeys, doneInStreak>>
      BY <1>12 DEF Refuse, EndStreak
    <2>4. streakKeys' # {} => failStreak' > 0
      BY <2>3
    <2>5. LacksOnlySkipped'
      BY <2>2, <2>3
    <2>6. \A t \in Tasks : Accounted(t)'
      BY <2>1, <2>2
    <2>. QED BY <2>2, <2>4, <2>5, <2>6
  <1>13. ASSUME NEW u \in Tasks, NEW q \in Projects, Fail(u, q) PROVE WholeInv'
    <2>1. \A t \in Tasks : \A p \in asking[t] : p \in asking'[t] \/ (t = u /\ p = q)
      BY <1>13 DEF Fail, Answered, TypeOK
    <2>2. /\ pc = "running" /\ pc' = pc /\ status' = status /\ todo' = todo /\ done' = done
          /\ outage' = outage /\ rows' = rows /\ refused' = refused
          /\ skippedProjects' = skippedProjects /\ doneInStreak' = doneInStreak
      BY <1>13 DEF Fail, Answered, InPhase, diskVars
    <2>3. \/ q \in failedProjects /\ UNCHANGED <<failedProjects, failStreak, streakKeys>>
          \/ /\ q \notin failedProjects /\ failedProjects' = failedProjects \union {q}
             /\ streakKeys' = streakKeys \union {q} /\ failStreak' = failStreak + 1
      BY <1>13 DEF Fail
    <2>4. streakKeys' # {} => failStreak' > 0
      BY <2>3 DEF TypeOK
    <2>5. LacksOnlySkipped'
      BY <2>2, <2>3
    <2>6. \A t \in Tasks : Accounted(t)'
      BY <2>1, <2>2, <2>3
    <2>. QED BY <2>2, <2>4, <2>5, <2>6
  <1>14. ASSUME NEW u \in Tasks, NEW q \in Projects, EndOutage(u, q) PROVE WholeInv'
    BY <1>14 DEF EndOutage, ClearDone, history
  <1>. QED BY <1>1, <1>2, <1>3, <1>4, <1>6, <1>7, <1>8, <1>9, <1>10, <1>11, <1>12,
              <1>13, <1>14 DEF Next, Work

LEMMA WholeInit == Init => WholeInv
  BY DEF Init, WholeInv, DoneTasksAreWhole, LacksOnlySkipped

(***************************************************************************)
(* As long as no process was killed, a task marked done lacks no project   *)
(* but those skipped, and when no run is under way those the file lists.   *)
(***************************************************************************)
THEOREM DoneTasksKeepTheirProjects ==
  Spec => [](LacksOnlySkipped /\ DoneTasksAreWhole)
  <1>1. WholeInv => LacksOnlySkipped /\ DoneTasksAreWhole
    BY DEF WholeInv, LacksOnlySkipped, DoneTasksAreWhole
  <1>. QED BY <1>1, RowInit, RowStep, WholeInit, WholeStep, ExtractTypeCorrect, PTL DEF Spec

(***************************************************************************)
(* Progress: an announced outage has a failing task in the current phase,  *)
(* which is never marked done, so that a run that completes saw no outage  *)
(* and its finished tasks are all marked.                                  *)
(***************************************************************************)
Marked(t) == /\ status[t] \in {"running", "failing", "failed"} => t \notin done
             /\ status[t] = "finished" => asking[t] = {} /\ (t \in done \/ outage)

StopsARunningTask == \A t \in Tasks, p \in Projects :
  <<t, p>> \in stopping => t \in Plan[phase] /\ status[t] \in {"running", "failing"}

OutageFailsTheRun == outage => \E t \in Plan[phase] : status[t] \in {"failing", "failed"}

EarlierPhasesDone == outage \/ \A i \in 1 .. phase - 1 : Plan[i] \subseteq done

PhaseInv == /\ pc = "running" => /\ \A t \in Tasks : Marked(t)
                                 /\ StopsARunningTask /\ OutageFailsTheRun /\ EarlierPhasesDone
            /\ pc = "complete" => Tasks \subseteq done

LEMMA PhaseOverMarks ==
  ASSUME TypeOK, PhaseInv, pc = "running", PhaseOver, ~SomeFailed
  PROVE  ~outage /\ stopping = {} /\ \A i \in 1 .. phase : Plan[i] \subseteq done
  <1>1. phase \in DOMAIN Plan /\ Plan[phase] \subseteq Tasks
    BY PlanTasks, PlanHasAPhase, ExtractAssumption DEF TypeOK
  <1>2. \A t \in Plan[phase] : t \in done \/ status[t] = "finished"
    BY DEF PhaseOver, SomeFailed
  <1>3. ~outage
    BY <1>1, <1>2 DEF PhaseInv, OutageFailsTheRun, Marked
  <1>4. \A t \in Tasks, p \in Projects : <<t, p>> \notin stopping
    BY <1>1, <1>2 DEF PhaseInv, StopsARunningTask, Marked
  <1>5. stopping = {}
    BY <1>4 DEF TypeOK
  <1>6. Plan[phase] \subseteq done
    BY <1>1, <1>2, <1>3 DEF PhaseInv, Marked
  <1>7. ASSUME NEW i \in 1 .. phase PROVE Plan[i] \subseteq done
    <2>1. i = phase \/ i \in 1 .. phase - 1
      BY DEF TypeOK
    <2>. QED BY <2>1, <1>3, <1>6 DEF PhaseInv, EarlierPhasesDone
  <1>. QED BY <1>3, <1>5, <1>7

LEMMA PhaseStep == TypeOK /\ RowInv /\ PhaseInv /\ [Next]_vars => PhaseInv'
  <1>. SUFFICES ASSUME TypeOK, RowInv, PhaseInv, [Next]_vars PROVE PhaseInv'
    OBVIOUS
  <1>. USE DEF PhaseInv, Marked, StopsARunningTask, OutageFailsTheRun, EarlierPhasesDone
  <1>1. CASE Start
    BY <1>1 DEF Start, Waiting
  <1>2. CASE NextPhase
    <2>1. PhaseOver /\ ~SomeFailed /\ pc = "running" /\ pc' = "running" /\ phase' = phase + 1
          /\ UNCHANGED <<status, asking, stopping, outage, done>>
      BY <1>2 DEF NextPhase, streakVars, diskVars
    <2>2. ~outage /\ stopping = {} /\ \A i \in 1 .. phase : Plan[i] \subseteq done
      BY <2>1, PhaseOverMarks
    <2>3. phase' - 1 = phase
      BY <2>1 DEF TypeOK
    <2>. QED BY <2>1, <2>2, <2>3
  <1>3. CASE EndRun
    <2>1. CASE SomeFailed
      BY <1>3, <2>1 DEF EndRun
    <2>2. CASE ~SomeFailed
      <3>1. \A i \in 1 .. Len(Plan) : Plan[i] \subseteq done
        BY <1>3, <2>2, PhaseOverMarks DEF EndRun
      <3>2. DOMAIN Plan = 1 .. Len(Plan)
        BY ExtractAssumption
      <3>. QED BY <1>3, <2>2, <3>1, <3>2 DEF EndRun, Tasks
    <2>. QED BY <2>1, <2>2
  <1>4. CASE Crash
    BY <1>4 DEF Crash
  <1>5. CASE Leave \/ UNCHANGED vars
    BY <1>5 DEF Leave, vars, workVars, streakVars, diskVars
  <1>6. ASSUME NEW u \in Tasks, StartTask(u) PROVE PhaseInv'
    <2>1. /\ pc = "running" /\ pc' = pc /\ status[u] = "waiting" /\ u \notin done
          /\ UNCHANGED <<phase, asking, stopping, outage, done>>
      BY <1>6 DEF StartTask, InPhase, streakVars, diskVars
    <2>2. \A t \in Tasks : status'[t] = IF t = u THEN "running" ELSE status[t]
      BY <1>6 DEF StartTask, TypeOK
    <2>3. \A t \in Plan[phase] : t \in Tasks
      BY PlanTasks, PlanHasAPhase, ExtractAssumption DEF TypeOK
    <2>. QED BY <2>1, <2>2, <2>3
  <1>7. ASSUME NEW u \in Tasks, FatalError(u) PROVE PhaseInv'
    <2>1. /\ pc = "running" /\ pc' = pc /\ status[u] \in {"running", "failing"}
          /\ status' = [status EXCEPT ![u] = "failing"]
          /\ UNCHANGED <<phase, stopping, outage, done>>
      BY <1>7 DEF FatalError, InPhase, streakVars, diskVars
    <2>2. \A t \in Tasks \ {u} : asking'[t] = asking[t]
      <3>1. asking' = asking \/ \E p \in Projects : asking' = [asking EXCEPT ![u] = asking[u] \ {p}]
        BY <1>7 DEF FatalError, Answered
      <3>. QED BY <3>1 DEF TypeOK
    <2>3. \A t \in Tasks : status'[t] = IF t = u THEN "failing" ELSE status[t]
      BY <2>1 DEF TypeOK
    <2>4. \A t \in Plan[phase] : t \in Tasks
      BY PlanTasks, PlanHasAPhase, ExtractAssumption DEF TypeOK
    <2>. QED BY <2>1, <2>2, <2>3, <2>4
  <1>8. ASSUME NEW u \in Tasks, FinishTask(u) PROVE PhaseInv'
    <2>1. /\ pc = "running" /\ pc' = pc /\ status[u] = "running" /\ asking[u] = {}
          /\ UNCHANGED <<phase, asking, stopping, outage>>
          /\ \A p \in Projects : <<u, p>> \notin stopping
          /\ done' = IF outage THEN done ELSE done \union {u}
      BY <1>8 DEF FinishTask, InPhase, NothingInFlight
    <2>2. \A t \in Tasks : status'[t] = IF t = u THEN "finished" ELSE status[t]
      BY <1>8 DEF FinishTask, TypeOK
    <2>3. \A t \in Plan[phase] : t \in Tasks
      BY PlanTasks, PlanHasAPhase, ExtractAssumption DEF TypeOK
    <2>. QED BY <2>1, <2>2, <2>3
  <1>9. ASSUME NEW u \in Tasks, FailTask(u) PROVE PhaseInv'
    <2>1. /\ pc = "running" /\ pc' = pc /\ status[u] = "failing"
          /\ UNCHANGED <<phase, asking, stopping, outage, done>>
          /\ \A p \in Projects : <<u, p>> \notin stopping
      BY <1>9 DEF FailTask, InPhase, NothingInFlight, streakVars, diskVars
    <2>2. \A t \in Tasks : status'[t] = IF t = u THEN "failed" ELSE status[t]
      BY <1>9 DEF FailTask, TypeOK
    <2>3. \A t \in Plan[phase] : t \in Tasks
      BY PlanTasks, PlanHasAPhase, ExtractAssumption DEF TypeOK
    <2>. QED BY <2>1, <2>2, <2>3
  <1>10. ASSUME NEW u \in Tasks, NEW q \in Projects, Ask(u, q) PROVE PhaseInv'
    BY <1>10 DEF Ask, InPhase, TypeOK, streakVars, diskVars
  <1>11. ASSUME NEW u \in Tasks, NEW q \in Projects, Succeed(u, q) PROVE PhaseInv'
    BY <1>11 DEF Succeed, Answered, InPhase, TypeOK
  <1>12. ASSUME NEW u \in Tasks, NEW q \in Projects, Refuse(u, q) PROVE PhaseInv'
    BY <1>12 DEF Refuse, Answered, InPhase, TypeOK, diskVars
  <1>13. ASSUME NEW u \in Tasks, NEW q \in Projects, Fail(u, q) PROVE PhaseInv'
    <2>1. /\ pc = "running" /\ pc' = pc /\ u \in Plan[phase] /\ q \in asking[u]
          /\ status[u] \notin {"failing", "failed"}
          /\ asking' = [asking EXCEPT ![u] = asking[u] \ {q}]
          /\ UNCHANGED <<phase, status, outage, done>>
          /\ stopping' \in {stopping, stopping \union {<<u, q>>}}
      BY <1>13 DEF Fail, Answered, InPhase, Cancelled, diskVars
    <2>2. status[u] = "running"
      BY <2>1 DEF TypeOK, RowInv, StartsEmpty
    <2>3. \A t \in Tasks : asking'[t] \subseteq asking[t]
      BY <2>1 DEF TypeOK
    <2>4. \A t \in Tasks, p \in Projects : <<t, p>> \in stopping' => <<t, p>> \in stopping \/ t = u
      BY <2>1
    <2>5. StopsARunningTask'
      BY <2>1, <2>2, <2>4
    <2>. QED BY <2>1, <2>3, <2>5
  <1>14. ASSUME NEW u \in Tasks, NEW q \in Projects, EndOutage(u, q) PROVE PhaseInv'
    <2>1. /\ pc = "running" /\ pc' = pc /\ u \in Plan[phase] /\ status[u] \in {"running", "failing"}
          /\ stopping' \subseteq stopping /\ done' \subseteq done /\ outage' = TRUE
          /\ UNCHANGED <<phase, asking>>
      BY <1>14 DEF EndOutage, ClearDone
    <2>2. \A t \in Tasks : status'[t] = IF t = u THEN "failing" ELSE status[t]
      BY <1>14 DEF EndOutage, TypeOK
    <2>. QED BY <2>1, <2>2
  <1>. QED BY <1>1, <1>2, <1>3, <1>4, <1>5, <1>6, <1>7, <1>8, <1>9, <1>10, <1>11, <1>12,
              <1>13, <1>14 DEF Next, Work

\* As long as no process was killed, the extract of a run that completes is whole.
THEOREM CompleteExtractIsWhole == Spec => []CompleteIsWhole
  <1>1. Init => PhaseInv
    BY DEF Init, PhaseInv
  <1>2. PhaseInv /\ WholeInv => CompleteIsWhole
    BY ExtractAssumption
    DEF PhaseInv, WholeInv, DoneTasksAreWhole, CompleteIsWhole, NeverSilentlyIncomplete
  <1>. QED BY <1>1, <1>2, PhaseStep, RowInit, RowStep, WholeInit, WholeStep,
              ExtractTypeCorrect, PTL DEF Spec
=============================================================================
