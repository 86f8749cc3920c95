---------------------- MODULE ImportProjectDataProofs ----------------------
(***************************************************************************)
(* Proofs about ImportProjectData for every set of projects and branches,  *)
(* every size of the gates, every number of runs and every combination of  *)
(* the faults.                                                             *)
(***************************************************************************)
EXTENDS ImportProjectData, TLAPS

-----------------------------------------------------------------------------
(***************************************************************************)
(* Types.                                                                  *)
(***************************************************************************)
LEMMA ConstantTypes ==
  /\ UnknownTarget \in Snapshot
  /\ HistoryDates \subseteq Nat
  /\ \A p \in Project : /\ SrcMain[p] \in Branch
                        /\ SrcMain[p] \in Branches[p]
                        /\ Branches[p] \subseteq Branch
                        /\ NonMain(p) \subseteq Branch
BY ConstantsAssumption DEF UnknownTarget, Snapshot, NonMain

\* The report a branch submits is a report, and giving up a poll leaves a
\* report of the same branch and date.
LEMMA ReportType ==
  ASSUME NEW p \in Project, NEW b \in Branch, NEW date \in Nat,
         NEW full \in BOOLEAN, NEW polled \in BOOLEAN
  PROVE  ReportOf(p, b, date, full, polled) \in Report
BY DEF ReportOf, Report

LEMMA UnpolledType ==
  ASSUME NEW t \in Report
  PROVE  /\ [t EXCEPT !.polled = FALSE] \in Report
         /\ [t EXCEPT !.polled = FALSE].proj = t.proj
         /\ [t EXCEPT !.polled = FALSE].src = t.src
BY DEF Report

LEMMA SubmitDateType ==
  ASSUME TypeOK, NEW p \in Project, NEW b \in Branch
  PROVE  SubmitDate(p, b) \in Nat
BY ConstantsAssumption DEF TypeOK, SubmitDate, Now

\* What a submission, successful or not, leaves in the queue is reports.
LEMMA SubmissionType ==
  ASSUME TypeOK, NEW p \in Project, NEW b \in Branch, NEW date \in Nat,
         NEW full \in BOOLEAN,
         SubmitReport(p, b, date, full) \/ SubmitFails(p, b, date, full)
  PROVE  queue' \subseteq Report
<1>1. queue \subseteq Report
  BY DEF TypeOK
<1>2. \A polled \in BOOLEAN : ReportOf(p, b, date, full, polled) \in Report
  BY ReportType
<1>. QED  BY <1>1, <1>2, Zenon DEF SubmitReport, SubmitFails

LEMMA AbandonType ==
  ASSUME TypeOK, NEW p \in Project, NEW b \in Branch
  PROVE  Abandon(p, b) \subseteq Report
BY UnpolledType DEF TypeOK, Abandon

LEMMA RecordType ==
  ASSUME TypeOK, NEW p \in Project, NEW b \in Branch, NEW status \in Status,
         Record(p, b, status)
  PROVE  rows' \in [Project -> [Branch -> Seq(Row)]]
<1>1. [status |-> status, attempt |-> attempt] \in Row
  BY DEF TypeOK, Row
<1>2. Append(rows[p][b], [status |-> status, attempt |-> attempt]) \in Seq(Row)
  BY <1>1 DEF TypeOK
<1>. QED  BY <1>2 DEF TypeOK, Record

LEMMA GotoType ==
  ASSUME TypeOK, NEW p \in Project, NEW b \in Branch, NEW place \in BranchPlace,
         Goto(p, b, place)
  PROVE  brPc' \in [Project -> [Branch -> BranchPlace]]
BY DEF TypeOK, Goto

LEMMA GotoProjectType ==
  ASSUME TypeOK, NEW p \in Project, NEW place \in ProjectPlace,
         GotoProject(p, place)
  PROVE  projPc' \in [Project -> ProjectPlace]
BY DEF TypeOK, GotoProject

LEMMA FreshProcessType ==
  ASSUME FreshProcess
  PROVE  /\ cancelled' \in BOOLEAN
         /\ projPc' \in [Project -> ProjectPlace]
         /\ brPc' \in [Project -> [Branch -> BranchPlace]]
         /\ snap' \in [Project -> Snapshot]
         /\ hist' \in [Project -> [Branch -> SUBSET HistoryDates]]
         /\ verdict' \in [Project -> [Branch -> {"none", "SUCCESS", "FAILED"}]]
BY ConstantTypes DEF FreshProcess, ProjectPlace, BranchPlace

LEMMA TypeInit == Init => TypeOK
<1>. SUFFICES ASSUME Init PROVE TypeOK
  OBVIOUS
<1>1. /\ projPc \in [Project -> ProjectPlace]
      /\ brPc \in [Project -> [Branch -> BranchPlace]]
      /\ hist \in [Project -> [Branch -> SUBSET HistoryDates]]
      /\ verdict \in [Project -> [Branch -> {"none", "SUCCESS", "FAILED"}]]
  BY DEF Init, ProjectPlace, BranchPlace
<1>2. snap \in [Project -> Snapshot]
  BY ConstantTypes DEF Init
<1>3. srcDate \in [Project -> [Branch -> Nat]]
  BY ConstantsAssumption DEF Init
<1>4. /\ tMain \in [Project -> Branch]
      /\ tDate \in [Project -> [Branch -> Nat]]
      /\ tSrc \in [Project -> [Branch -> Branch \cup {NoBranch}]]
  BY ConstantsAssumption DEF Init
<1>5. rows \in [Project -> [Branch -> Seq(Row)]]
  BY DEF Init
<1>. QED  BY <1>1, <1>2, <1>3, <1>4, <1>5 DEF Init, TypeOK

-----------------------------------------------------------------------------
\* The steps of a run as a whole keep the types.
LEMMA StartType ==
  ASSUME TypeOK, Start,
         completed' \subseteq Project \X Branch,
         srcDate' \in [Project -> [Branch -> Nat]],
         rows' \in [Project -> [Branch -> Seq(Row)]]
  PROVE  TypeOK'
<1>1. /\ run' \in {"down", "running", "finished"}
      /\ attempt' \in Nat
  BY DEF Start, TypeOK
<1>2. /\ queue' \subseteq Report
      /\ tMain' \in [Project -> Branch]
      /\ tDate' \in [Project -> [Branch -> Nat]]
      /\ tSrc' \in [Project -> [Branch -> Branch \cup {NoBranch}]]
  BY DEF Start, TypeOK, targetVars
<1>3. FreshProcess
  BY DEF Start
<1>. QED  BY <1>1, <1>2, <1>3, FreshProcessType DEF TypeOK

LEMMA TypeRunStep ==
  ASSUME TypeOK, Resume \/ StartNew \/ Crash \/ Cancel \/ Finish \/ StopAdmitting
  PROVE  TypeOK'
<1>1. CASE Resume
  <2>1. completed' \subseteq Project \X Branch
    BY <1>1 DEF Resume, LoadCompleted
  <2>2. /\ Start
        /\ srcDate' = srcDate
        /\ rows' = rows
    BY <1>1 DEF Resume
  <2>3. /\ srcDate' \in [Project -> [Branch -> Nat]]
        /\ rows' \in [Project -> [Branch -> Seq(Row)]]
    BY <2>2 DEF TypeOK
  <2>. QED  BY <2>1, <2>2, <2>3, StartType
<1>2. CASE StartNew
  <2>1. srcDate' \in [Project -> [Branch -> Nat]]
    BY <1>2 DEF StartNew, TypeOK
  <2>2. rows' \in [Project -> [Branch -> Seq(Row)]]
    BY <1>2 DEF StartNew
  <2>3. Start /\ completed' \subseteq Project \X Branch
    BY <1>2 DEF StartNew
  <2>. QED  BY <2>1, <2>2, <2>3, StartType
<1>3. CASE Crash
  <2>1. queue' \subseteq Report
    BY <1>3, UnpolledType DEF Crash, TypeOK
  <2>2. FreshProcess
    BY <1>3 DEF Crash
  <2>. QED
    BY <1>3, <2>1, <2>2, FreshProcessType DEF Crash, TypeOK, targetVars
<1>4. CASE Cancel
  BY <1>4 DEF Cancel, TypeOK, targetVars
<1>5. CASE Finish
  BY <1>5 DEF Finish, TypeOK, targetVars
<1>6. CASE StopAdmitting
  BY <1>6 DEF StopAdmitting, TypeOK, ProjectPlace, runVars, targetVars
<1>. QED  BY <1>1, <1>2, <1>3, <1>4, <1>5, <1>6

-----------------------------------------------------------------------------
\* A step of a project keeps the types.
LEMMA TypeProjectStep ==
  ASSUME TypeOK, NEW p \in Project, ProjectStep(p)
  PROVE  TypeOK'
<1>. USE DEF runVars, targetVars
<1>1. CASE AdmitProject(p)
  <2>1. projPc' \in [Project -> ProjectPlace]
    BY <1>1, GotoProjectType DEF AdmitProject, ProjectPlace, Admitted
  <2>. QED  BY <1>1, <2>1 DEF AdmitProject, TypeOK
<1>2. CASE ImportProjectDataOne(p)
  <2>1. projPc' \in [Project -> ProjectPlace]
    BY <1>2, GotoProjectType
       DEF ImportProjectDataOne, ProjectPlace, Admitted
  <2>2. [main |-> tMain[p], dates |-> tDate[p]] \in Snapshot
    BY DEF TypeOK, Snapshot
  <2>3. snap' \in [Project -> Snapshot]
    BY <1>2, <2>2 DEF ImportProjectDataOne, TypeOK
  <2>. QED  BY <1>2, <2>1, <2>3 DEF ImportProjectDataOne, TypeOK
<1>3. CASE GatedImportMain(p)
  <2>1. SrcMain[p] \in Branch
    BY ConstantTypes
  <2>2. brPc' \in [Project -> [Branch -> BranchPlace]]
    BY <1>3, <2>1, GotoType DEF GatedImportMain, BranchPlace, Gated, Over
  <2>3. rows' \in [Project -> [Branch -> Seq(Row)]]
    BY <1>3, <2>1, RecordType DEF GatedImportMain, Status, TypeOK
  <2>. QED  BY <1>3, <2>2, <2>3 DEF GatedImportMain, TypeOK
<1>4. CASE RecordPhase1Skips(p)
  <2>1. projPc' \in [Project -> ProjectPlace]
    BY <1>4, GotoProjectType DEF RecordPhase1Skips, ProjectPlace, Admitted
  <2>2. [status |-> IF cancelled THEN "cancelled" ELSE "main_failed",
         attempt |-> attempt] \in Row
    BY DEF TypeOK, Row, Status
  <2>3. \A b \in Branch :
          Append(rows[p][b],
            [status |-> IF cancelled THEN "cancelled" ELSE "main_failed",
             attempt |-> attempt]) \in Seq(Row)
    BY <2>2 DEF TypeOK
  <2>4. rows' \in [Project -> [Branch -> Seq(Row)]]
    BY <1>4, <2>3 DEF RecordPhase1Skips, TypeOK
  <2>. QED  BY <1>4, <2>1, <2>4 DEF RecordPhase1Skips, TypeOK
<1>5. CASE EndPhase1(p)
  <2>1. projPc' \in [Project -> ProjectPlace]
    BY <1>5, GotoProjectType DEF EndPhase1, ProjectPlace, Admitted
  <2>. QED  BY <1>5, <2>1 DEF EndPhase1, TypeOK
<1>6. CASE RenameSCMainBranchToSource(p)
  <2>1. SrcMain[p] \in Branch
    BY ConstantTypes
  <2>2. projPc' \in [Project -> ProjectPlace]
    BY <1>6, GotoProjectType
       DEF RenameSCMainBranchToSource, ProjectPlace, Admitted
  <2>3. CASE RenameMain(p, SrcMain[p])
    <3>1. tMain[p] \in Branch
      BY DEF TypeOK
    <3>2. tMain' \in [Project -> Branch]
      BY <2>1, <2>3 DEF RenameMain, TypeOK
    <3>3. tDate' \in [Project -> [Branch -> Nat]]
      BY <2>1, <2>3, <3>1 DEF RenameMain, TypeOK
    <3>4. tSrc' \in [Project -> [Branch -> Branch \cup {NoBranch}]]
      BY <2>1, <2>3, <3>1, ZenonT(40) DEF RenameMain, TypeOK
    <3>. QED
      BY <1>6, <2>2, <3>2, <3>3, <3>4 DEF RenameSCMainBranchToSource, TypeOK
  <2>4. CASE UNCHANGED targetVars
    BY <1>6, <2>2, <2>4 DEF RenameSCMainBranchToSource, TypeOK
  <2>. QED  BY <1>6, <2>3, <2>4 DEF RenameSCMainBranchToSource
<1>7. CASE FinishProject(p)
  <2>1. projPc' \in [Project -> ProjectPlace]
    BY <1>7, GotoProjectType DEF FinishProject, ProjectPlace, Admitted
  <2>. QED  BY <1>7, <2>1 DEF FinishProject, TypeOK
<1>. QED
  BY <1>1, <1>2, <1>3, <1>4, <1>5, <1>6, <1>7 DEF ProjectStep

-----------------------------------------------------------------------------
\* A step of a branch keeps the types.
LEMMA EndBranchType ==
  ASSUME TypeOK, NEW p \in Project, NEW b \in Branch,
         NEW place \in BranchPlace, NEW status \in Status,
         EndBranch(p, b, place, status)
  PROVE  /\ brPc' \in [Project -> [Branch -> BranchPlace]]
         /\ rows' \in [Project -> [Branch -> Seq(Row)]]
BY GotoType, RecordType DEF EndBranch

LEMMA HistType ==
  ASSUME TypeOK, NEW p \in Project, NEW b \in Branch,
         NEW points \in SUBSET HistoryDates,
         hist' = [hist EXCEPT ![p][b] = points]
  PROVE  hist' \in [Project -> [Branch -> SUBSET HistoryDates]]
BY DEF TypeOK

LEMMA TypeBranchStep ==
  ASSUME TypeOK, NEW p \in Project, NEW b \in Branches[p], BranchStep(p, b)
  PROVE  TypeOK'
<1>. USE DEF runVars, targetVars
<1>0. b \in Branch /\ HistoryDates \subseteq Nat
  BY ConstantTypes
<1>1. CASE AdmitBranch(p, b)
  <2>1. brPc' \in [Project -> [Branch -> BranchPlace]]
    BY <1>0, <1>1, GotoType DEF AdmitBranch, BranchPlace, Gated, Over
  <2>2. rows' \in [Project -> [Branch -> Seq(Row)]]
    BY <1>0, <1>1, RecordType DEF AdmitBranch, Status, TypeOK
  <2>. QED  BY <1>1, <2>1, <2>2 DEF AdmitBranch, TypeOK
<1>2. CASE CancelledBeforeImport(p, b)
  <2>1. "error" \in BranchPlace /\ "cancelled" \in Status
    BY DEF BranchPlace, Over, Status
  <2>2. EndBranch(p, b, "error", "cancelled")
    BY <1>2 DEF CancelledBeforeImport
  <2>. QED
    BY <1>0, <1>2, <2>1, <2>2, EndBranchType
       DEF CancelledBeforeImport, TypeOK
<1>3. CASE ImportAndRecordBranch(p, b)
  <2>1. "ok" \in BranchPlace /\ "history" \in BranchPlace
        /\ "up_to_date" \in Status
    BY DEF BranchPlace, Over, Gated, Status
  <2>2. brPc' \in [Project -> [Branch -> BranchPlace]]
        /\ rows' \in [Project -> [Branch -> Seq(Row)]]
    BY <1>0, <1>3, <2>1, GotoType, EndBranchType
       DEF ImportAndRecordBranch, TypeOK
  <2>3. ReplayableHistory(p, b) \in SUBSET HistoryDates
    BY DEF ReplayableHistory
  <2>4. hist' \in [Project -> [Branch -> SUBSET HistoryDates]]
    BY <1>0, <1>3, <2>3, HistType DEF ImportAndRecordBranch, TypeOK
  <2>. QED  BY <1>3, <2>2, <2>4 DEF ImportAndRecordBranch, TypeOK
<1>4. CASE ReplayHistoryPoint(p, b)
  <2>1. PICK d \in hist[p][b] :
          \/ /\ SubmitReport(p, b, d, FALSE)
             /\ hist' = [hist EXCEPT ![p][b] = @ \ {d}]
             /\ Goto(p, b, "historyPoll")
          \/ /\ SubmitFails(p, b, d, FALSE)
             /\ hist' = [hist EXCEPT ![p][b] = {}]
             /\ Goto(p, b, "build")
    BY <1>4 DEF ReplayHistoryPoint
  <2>2. d \in Nat
    BY <1>0, <2>1 DEF TypeOK
  <2>3. queue' \subseteq Report
    BY <1>0, <2>1, <2>2, SubmissionType
  <2>4. hist' \in [Project -> [Branch -> SUBSET HistoryDates]]
    <3>1. PICK points \in {hist[p][b] \ {d}, {}} :
            hist' = [hist EXCEPT ![p][b] = points]
      BY <2>1
    <3>2. points \in SUBSET HistoryDates
      BY <1>0, <3>1 DEF TypeOK
    <3>. QED  BY <1>0, <3>1, <3>2, HistType
  <2>5. brPc' \in [Project -> [Branch -> BranchPlace]]
    BY <1>0, <2>1, GotoType DEF BranchPlace, Gated
  <2>. QED  BY <1>4, <2>3, <2>4, <2>5 DEF ReplayHistoryPoint, TypeOK
<1>5. CASE PollHistoryPoint(p, b)
  <2>1. queue' \subseteq Report
    BY <1>0, <1>5, AbandonType DEF PollHistoryPoint, TypeOK
  <2>2. hist' \in [Project -> [Branch -> SUBSET HistoryDates]]
    <3>1. UNCHANGED hist \/ hist' = [hist EXCEPT ![p][b] = {}]
      BY <1>5 DEF PollHistoryPoint
    <3>2. CASE UNCHANGED hist
      BY <3>2 DEF TypeOK
    <3>3. CASE hist' = [hist EXCEPT ![p][b] = {}]
      <4>1. {} \in SUBSET HistoryDates
        OBVIOUS
      <4>. QED  BY <1>0, <3>3, <4>1, HistType
    <3>. QED  BY <3>1, <3>2, <3>3
  <2>3. brPc' \in [Project -> [Branch -> BranchPlace]]
    BY <1>0, <1>5, GotoType DEF PollHistoryPoint, BranchPlace, Gated
  <2>4. verdict' \in [Project -> [Branch -> {"none", "SUCCESS", "FAILED"}]]
    BY <1>5 DEF PollHistoryPoint, TypeOK
  <2>. QED
    BY <1>5, <2>1, <2>2, <2>3, <2>4 DEF PollHistoryPoint, TypeOK
<1>6. CASE EndHistory(p, b)
  <2>1. brPc' \in [Project -> [Branch -> BranchPlace]]
    BY <1>0, <1>6, GotoType DEF EndHistory, BranchPlace, Gated
  <2>. QED  BY <1>6, <2>1 DEF EndHistory, TypeOK
<1>7. CASE AcquireBuildSem(p, b)
  <2>1. "submit" \in BranchPlace /\ "error" \in BranchPlace
        /\ "failed" \in Status
    BY DEF BranchPlace, Over, Gated, Status
  <2>2. brPc' \in [Project -> [Branch -> BranchPlace]]
        /\ rows' \in [Project -> [Branch -> Seq(Row)]]
    BY <1>0, <1>7, <2>1, GotoType, EndBranchType
       DEF AcquireBuildSem, TypeOK
  <2>. QED  BY <1>7, <2>2 DEF AcquireBuildSem, TypeOK
<1>8. CASE BuildAndSubmit(p, b)
  <2>1. /\ {"poll", "ok", "error"} \subseteq BranchPlace
        /\ {"skipped", "no_data", "failed"} \subseteq Status
    BY DEF BranchPlace, Over, Gated, Status
  <2>2. brPc' \in [Project -> [Branch -> BranchPlace]]
        /\ rows' \in [Project -> [Branch -> Seq(Row)]]
    BY <1>0, <1>8, <2>1, GotoType, EndBranchType
       DEF BuildAndSubmit, TypeOK
  <2>3. SubmitDate(p, b) \in Nat
    BY <1>0, SubmitDateType
  <2>4. queue' \subseteq Report
    BY <1>0, <1>8, <2>3, SubmissionType DEF BuildAndSubmit, TypeOK
  <2>. QED  BY <1>8, <2>2, <2>4 DEF BuildAndSubmit, TypeOK
<1>9. CASE PollCETask(p, b)
  <2>1. /\ {"ok", "error"} \subseteq BranchPlace
        /\ {"success", "failed"} \subseteq Status
    BY DEF BranchPlace, Over, Status
  <2>2. brPc' \in [Project -> [Branch -> BranchPlace]]
        /\ rows' \in [Project -> [Branch -> Seq(Row)]]
    BY <1>0, <1>9, <2>1, EndBranchType DEF PollCETask
  <2>3. queue' \subseteq Report
    BY <1>0, <1>9, AbandonType DEF PollCETask
  <2>4. verdict' \in [Project -> [Branch -> {"none", "SUCCESS", "FAILED"}]]
    BY <1>9 DEF PollCETask, TypeOK
  <2>. QED  BY <1>9, <2>2, <2>3, <2>4 DEF PollCETask, TypeOK
<1>. QED
  BY <1>1, <1>2, <1>3, <1>4, <1>5, <1>6, <1>7, <1>8, <1>9 DEF BranchStep

\* The Compute Engine's answer to a report keeps the types.
LEMMA TypeProcessReport ==
  ASSUME TypeOK, NEW t \in queue, ProcessReport(t)
  PROVE  TypeOK'
<1>. USE DEF runVars
<1>1. /\ t.proj \in Project
      /\ t.src \in Branch
      /\ t.date \in Nat
  BY DEF TypeOK, Report
<1>2. TargetName(t.proj, t.src) \in Branch
  BY <1>1 DEF TypeOK, TargetName
<1>3. queue' \subseteq Report
  BY DEF ProcessReport, TypeOK
<1>4. verdict' \in [Project -> [Branch -> {"none", "SUCCESS", "FAILED"}]]
  <2>1. PICK answer \in {"SUCCESS", "FAILED"} : Answer(t, answer)
    BY Zenon DEF ProcessReport
  <2>. QED  BY <1>1, <2>1 DEF Answer, TypeOK
<1>. DEFINE name == TargetName(t.proj, t.src)
            kept == IF t.full THEN t.src ELSE NoBranch
<1>5. \/ /\ tDate' = [tDate EXCEPT ![t.proj][name] = t.date]
         /\ tSrc' = [tSrc EXCEPT ![t.proj][name] = kept]
      \/ UNCHANGED <<tDate, tSrc>>
  BY Zenon DEF ProcessReport
<1>6. /\ tDate' \in [Project -> [Branch -> Nat]]
      /\ tSrc' \in [Project -> [Branch -> Branch \cup {NoBranch}]]
  <2>1. kept \in Branch \cup {NoBranch}
    BY <1>1
  <2>2. name \in Branch
    BY <1>2
  <2>3. /\ tDate \in [Project -> [Branch -> Nat]]
        /\ tSrc \in [Project -> [Branch -> Branch \cup {NoBranch}]]
    BY DEF TypeOK
  <2>. HIDE DEF name, kept
  <2>4. CASE UNCHANGED <<tDate, tSrc>>
    BY <2>3, <2>4
  <2>5. ASSUME tDate' = [tDate EXCEPT ![t.proj][name] = t.date]
        PROVE  tDate' \in [Project -> [Branch -> Nat]]
    BY <1>1, <2>2, <2>3, <2>5
  <2>6. ASSUME tSrc' = [tSrc EXCEPT ![t.proj][name] = kept]
        PROVE  tSrc' \in [Project -> [Branch -> Branch \cup {NoBranch}]]
    BY <1>1, <2>1, <2>2, <2>3, <2>6
  <2>. QED  BY <1>5, <2>4, <2>5, <2>6
<1>. QED
  BY <1>3, <1>4, <1>6 DEF ProcessReport, TypeOK

LEMMA TypeNext == TypeOK /\ [Next]_vars => TypeOK'
<1>. SUFFICES ASSUME TypeOK, [Next]_vars PROVE TypeOK'
  OBVIOUS
<1>1. CASE Resume \/ StartNew \/ Crash \/ Cancel \/ Finish \/ StopAdmitting
  BY <1>1, TypeRunStep
<1>2. CASE \E p \in Project : ProjectStep(p)
  BY <1>2, TypeProjectStep
<1>3. CASE \E p \in Project : \E b \in Branches[p] : BranchStep(p, b)
  BY <1>3, TypeBranchStep
<1>4. CASE ComputeEngine
  BY <1>4, TypeProcessReport DEF ComputeEngine
<1>5. CASE UNCHANGED vars
  BY <1>5 DEF vars, runVars, targetVars, TypeOK
<1>. QED
  BY <1>1, <1>2, <1>3, <1>4, <1>5 DEF Next, Stopped

\* Every state of a migration is well typed: the store holds only rows of the
\* known statuses, the Compute Engine only reports of the run's projects.
THEOREM ImportTypeCorrect == Spec => []TypeOK
BY TypeInit, TypeNext, PTL DEF Spec

-----------------------------------------------------------------------------
(***************************************************************************)
(* The barrier of Phase 1.  ReliesOnMain(p) collects what is done on the   *)
(* strength of main's import; it becomes true only in a step after which   *)
(* the project is anchored, and an anchored project stays anchored.        *)
(***************************************************************************)
LEMMA AnchoredStableRename ==
  ASSUME TypeOK, NEW p \in Project, NEW q \in Project, Anchored(p),
         RenameSCMainBranchToSource(q)
  PROVE  Anchored(p)'
<1>1. CASE UNCHANGED targetVars
  BY <1>1 DEF Anchored, targetVars
<1>2. CASE RenameMain(q, SrcMain[q])
  <2>. DEFINE new == SrcMain[q]
              old == tMain[q]
  <2>1. new \in Branch /\ old \in Branch /\ tDate[q][new] = 0
    BY <1>2, ConstantTypes DEF RenameMain, TypeOK
  <2>2. /\ tMain' = [tMain EXCEPT ![q] = new]
        /\ tDate' = [tDate EXCEPT ![q][new] = tDate[q][old], ![q][old] = 0]
    BY <1>2, Zenon DEF RenameMain
  <2>3. CASE p = q
    <3>1. new # old
      BY <2>1, <2>3 DEF Anchored, TypeOK
    <3>2. tMain'[q] = new /\ tDate'[q][new] = tDate[q][old]
      <4>. HIDE DEF new, old
      <4>. QED  BY <2>1, <2>2, <3>1 DEF TypeOK
    <3>. QED  BY <2>3, <3>2 DEF Anchored
  <2>4. CASE p # q
    <3>1. tMain'[p] = tMain[p] /\ tDate'[p] = tDate[p]
      BY <2>1, <2>2, <2>4 DEF TypeOK
    <3>. QED  BY <3>1 DEF Anchored
  <2>. QED  BY <2>3, <2>4
<1>. QED  BY <1>1, <1>2 DEF RenameSCMainBranchToSource

\* A report the CE accepts is newer than what the branch has.
LEMMA AnchoredStableReport ==
  ASSUME TypeOK, NEW p \in Project, NEW t \in queue, Anchored(p),
         ProcessReport(t)
  PROVE  Anchored(p)'
<1>1. /\ t.proj \in Project /\ t.src \in Branch /\ t.date \in Nat
      /\ TargetName(t.proj, t.src) \in Branch
  BY DEF TypeOK, Report, TargetName
<1>2. tMain' = tMain /\ tMain[p] \in Branch
  BY DEF ProcessReport, TypeOK
<1>. DEFINE name == TargetName(t.proj, t.src)
<1>3. CASE UNCHANGED tDate
  BY <1>2, <1>3 DEF Anchored
<1>4. CASE CEAccepts(t) /\ tDate' = [tDate EXCEPT ![t.proj][name] = t.date]
  <2>0. tDate[t.proj][TargetName(t.proj, t.src)] \in Nat
    BY <1>1 DEF TypeOK
  <2>1. t.date > 0 /\ name \in Branch
    BY <1>1, <1>4, <2>0 DEF CEAccepts
  <2>. HIDE DEF name
  <2>2. tDate'[p][tMain[p]] = tDate[p][tMain[p]] \/ tDate'[p][tMain[p]] = t.date
    BY <1>1, <1>2, <1>4, <2>1 DEF TypeOK
  <2>. QED  BY <1>2, <2>1, <2>2 DEF Anchored
<1>5. \/ UNCHANGED tDate
      \/ CEAccepts(t) /\ tDate' = [tDate EXCEPT ![t.proj][name] = t.date]
  BY Zenon DEF ProcessReport
<1>. QED  BY <1>3, <1>4, <1>5

\* No other step touches the target.
LEMMA AnchoredStable ==
  ASSUME TypeOK, [Next]_vars, NEW p \in Project, Anchored(p)
  PROVE  Anchored(p)'
<1>. SUFFICES ASSUME ~ UNCHANGED <<tMain, tDate>> PROVE Anchored(p)'
  BY DEF Anchored
<1>1. CASE Resume \/ StartNew \/ Crash \/ Cancel \/ Finish \/ StopAdmitting
  BY <1>1 DEF Resume, StartNew, Start, Crash, Cancel, Finish, StopAdmitting,
              targetVars
<1>2. CASE \E q \in Project : ProjectStep(q)
  <2>1. PICK q \in Project : ProjectStep(q)
    BY <1>2
  <2>2. RenameSCMainBranchToSource(q)
    BY <2>1 DEF ProjectStep, AdmitProject, ImportProjectDataOne,
                GatedImportMain, RecordPhase1Skips, EndPhase1, FinishProject,
                targetVars
  <2>. QED  BY <2>2, AnchoredStableRename
<1>3. CASE \E q \in Project : \E b \in Branches[q] : BranchStep(q, b)
  <2>1. PICK q \in Project : \E b \in Branches[q] : BranchStep(q, b)
    BY <1>3
  <2>2. UNCHANGED targetVars
    BY <2>1, Zenon
       DEF BranchStep, AdmitBranch, CancelledBeforeImport,
           ImportAndRecordBranch, ReplayHistoryPoint, PollHistoryPoint,
           EndHistory, AcquireBuildSem, BuildAndSubmit, PollCETask
  <2>. QED  BY <2>2 DEF targetVars
<1>4. CASE ComputeEngine
  BY <1>4, AnchoredStableReport DEF ComputeEngine
<1>5. CASE UNCHANGED vars
  BY <1>5 DEF vars, targetVars
<1>. QED
  BY <1>1, <1>2, <1>3, <1>4, <1>5 DEF Next, Stopped

-----------------------------------------------------------------------------
\* A row of another status than Complete makes no branch complete.
LEMMA AppendStatus ==
  ASSUME NEW s \in Seq(Row), NEW r \in Row
  PROVE  \A i \in DOMAIN Append(s, r) :
           Append(s, r)[i] = r \/ (i \in DOMAIN s /\ Append(s, r)[i] = s[i])
OBVIOUS

LEMMA RecordKeepsIncomplete ==
  ASSUME TypeOK, NEW p \in Project, NEW b \in Branch, NEW c \in Branch,
         NEW status \in Status \ Complete, Record(p, b, status),
         RowStatuses(p, c) \cap Complete = {}
  PROVE  RowStatuses(p, c)' \cap Complete = {}
<1>. DEFINE r == [status |-> status, attempt |-> attempt]
<1>1. r \in Row /\ r.status = status
  BY DEF TypeOK, Row
<1>2. CASE b = c
  <2>1. rows[p][c] \in Seq(Row) /\ rows'[p][c] = Append(rows[p][c], r)
    BY <1>2 DEF TypeOK, Record
  <2>. HIDE DEF r
  <2>2. \A i \in DOMAIN rows'[p][c] :
          rows'[p][c][i] = r
          \/ (i \in DOMAIN rows[p][c] /\ rows'[p][c][i] = rows[p][c][i])
    BY <1>1, <2>1, AppendStatus
  <2>. QED  BY <1>1, <2>2 DEF RowStatuses
<1>3. CASE b # c
  <2>1. rows'[p][c] = rows[p][c]
    BY <1>3 DEF TypeOK, Record
  <2>. QED  BY <2>1 DEF RowStatuses
<1>. QED  BY <1>2, <1>3

\* A step of a branch adds or changes only reports of that branch.
LEMMA BranchStepQueue ==
  ASSUME TypeOK, NEW p \in Project, NEW b \in Branches[p], BranchStep(p, b)
  PROVE  \A t \in queue' : t \in queue \/ (t.proj = p /\ t.src = b)
<1>0. b \in Branch
  BY ConstantTypes
<1>1. \A date, full, polled :
        /\ ReportOf(p, b, date, full, polled).proj = p
        /\ ReportOf(p, b, date, full, polled).src = b
  BY DEF ReportOf
<1>2. ASSUME NEW date, NEW full,
             SubmitReport(p, b, date, full) \/ SubmitFails(p, b, date, full)
      PROVE  \A t \in queue' : t \in queue \/ (t.proj = p /\ t.src = b)
  <2>1. \A t \in queue' :
          t \in queue \/ \E polled : t = ReportOf(p, b, date, full, polled)
    BY <1>2 DEF SubmitReport, SubmitFails
  <2>. QED  BY <1>1, <2>1
<1>3. \A t \in Abandon(p, b) : t \in queue \/ (t.proj = p /\ t.src = b)
  <2>. SUFFICES ASSUME NEW t \in Abandon(p, b)
                PROVE  t \in queue \/ (t.proj = p /\ t.src = b)
    OBVIOUS
  <2>1. PICK u \in queue : t = IF u.proj = p /\ u.src = b
                               THEN [u EXCEPT !.polled = FALSE] ELSE u
    BY DEF Abandon
  <2>2. u \in Report
    BY DEF TypeOK
  <2>. QED  BY <2>1, <2>2, UnpolledType
<1>4. \/ UNCHANGED queue
      \/ queue' = Abandon(p, b)
      \/ \E date, full :
           SubmitReport(p, b, date, full) \/ SubmitFails(p, b, date, full)
  BY Zenon
     DEF BranchStep, AdmitBranch, CancelledBeforeImport,
         ImportAndRecordBranch, ReplayHistoryPoint, PollHistoryPoint,
         EndHistory, AcquireBuildSem, BuildAndSubmit, PollCETask
<1>. QED  BY <1>2, <1>3, <1>4

\* What a step of p's main branch changes of what ReliesOnMain(p) reads.
LEMMA MainStepFrame ==
  ASSUME TypeOK, MainsBuildable, NEW p \in Project,
         BranchStep(p, SrcMain[p]), ~ReliesOnMain(p)
  PROVE  /\ UNCHANGED <<projPc, completed, snap>>
         /\ brPc'[p][SrcMain[p]] # "ok"
         /\ \A c \in NonMain(p) : brPc'[p][c] = brPc[p][c]
         /\ verdict'[p][SrcMain[p]] # "SUCCESS"
         /\ RowStatuses(p, SrcMain[p])' \cap Complete = {}
         /\ \A t \in queue' : t.proj = p => (t \in queue \/ t.src = SrcMain[p])
<1>. DEFINE m == SrcMain[p]
<1>0. /\ m \in Branch
      /\ IsMain(p, m)
      /\ \A c \in NonMain(p) : c \in Branch /\ c # m
  BY ConstantTypes DEF IsMain, NonMain
<1>1. /\ brPc[p][m] # "ok"
      /\ verdict[p][m] # "SUCCESS"
      /\ RowStatuses(p, m) \cap Complete = {}
      /\ <<p, m>> \notin completed
      /\ snap[p].dates[LookupName(p, m)] = 0
  BY DEF ReliesOnMain
<1>2. /\ ~AdmitBranch(p, m)
      /\ ~CancelledBeforeImport(p, m)
  BY <1>0 DEF AdmitBranch, CancelledBeforeImport
<1>3. UNCHANGED <<projPc, completed, snap>>
  BY Zenon DEF BranchStep, AdmitBranch, CancelledBeforeImport,
       ImportAndRecordBranch, ReplayHistoryPoint, PollHistoryPoint,
       EndHistory, AcquireBuildSem, BuildAndSubmit, PollCETask, runVars
<1>4. \/ /\ \E place \in Gated : Goto(p, m, place)
         /\ UNCHANGED rows
      \/ \E status \in Status \ Complete :
           Goto(p, m, "error") /\ Record(p, m, status)
  <2>1. CASE ImportAndRecordBranch(p, m)
    BY <1>1, <2>1 DEF ImportAndRecordBranch, TargetUpToDate, Gated
  <2>2. CASE ReplayHistoryPoint(p, m)
    BY <2>2 DEF ReplayHistoryPoint, Gated
  <2>3. CASE PollHistoryPoint(p, m)
    BY <2>3 DEF PollHistoryPoint, Gated
  <2>4. CASE EndHistory(p, m)
    BY <2>4 DEF EndHistory, Gated
  <2>5. CASE AcquireBuildSem(p, m)
    BY <2>5 DEF AcquireBuildSem, EndBranch, Gated, Status, Complete
  <2>6. CASE BuildAndSubmit(p, m)
    BY <2>6 DEF BuildAndSubmit, MainsBuildable, EndBranch, Gated, Status,
                Complete
  <2>7. CASE PollCETask(p, m)
    BY <1>1, <2>7 DEF PollCETask, EndBranch, Gated, Status, Complete
  <2>. QED
    BY <1>2, <2>1, <2>2, <2>3, <2>4, <2>5, <2>6, <2>7 DEF BranchStep
<1>5. /\ brPc'[p][m] # "ok"
      /\ \A c \in NonMain(p) : brPc'[p][c] = brPc[p][c]
  BY <1>0, <1>4 DEF Goto, Gated, TypeOK
<1>6. RowStatuses(p, m)' \cap Complete = {}
  BY <1>0, <1>1, <1>4, RecordKeepsIncomplete DEF RowStatuses
<1>7. verdict'[p][m] # "SUCCESS"
  <2>1. UNCHANGED verdict \/ verdict' = [verdict EXCEPT ![p][m] = "none"]
    BY <1>2, Zenon
       DEF BranchStep, ImportAndRecordBranch, ReplayHistoryPoint,
           PollHistoryPoint, EndHistory, AcquireBuildSem, BuildAndSubmit,
           PollCETask
  <2>. QED  BY <1>0, <1>1, <2>1 DEF TypeOK
<1>8. \A t \in queue' : t.proj = p => (t \in queue \/ t.src = m)
  BY BranchStepQueue, ConstantTypes
<1>. QED  BY <1>3, <1>5, <1>6, <1>7, <1>8

\* A branch other than main takes steps only once the run relies on main.
LEMMA OtherBranchRelies ==
  ASSUME TypeOK, NEW p \in Project, NEW b \in NonMain(p), BranchStep(p, b)
  PROVE  ReliesOnMain(p)
<1>1. \/ projPc[p] = "fanout"
      \/ brPc[p][b] \in {"ready", "history", "historyPoll", "build",
                         "submit", "poll"}
  BY DEF BranchStep, AdmitBranch, CancelledBeforeImport,
         ImportAndRecordBranch, ReplayHistoryPoint, PollHistoryPoint,
         EndHistory, AcquireBuildSem, BuildAndSubmit, PollCETask
<1>. QED  BY <1>1 DEF ReliesOnMain, Gated

\* A step of another project leaves what ReliesOnMain(p) reads.
LEMMA OtherProjectFrame ==
  ASSUME TypeOK, NEW p \in Project, NEW q \in Project, p # q,
         NEW b \in Branches[q], BranchStep(q, b), ReliesOnMain(p)'
  PROVE  ReliesOnMain(p)
<1>0. b \in Branch
  BY ConstantTypes
<1>1. /\ UNCHANGED <<projPc, completed, snap>>
      /\ \/ UNCHANGED brPc
         \/ \E place : Goto(q, b, place)
      /\ \/ UNCHANGED rows
         \/ \E status : Record(q, b, status)
      /\ \/ UNCHANGED verdict
         \/ verdict' = [verdict EXCEPT ![q][b] = "none"]
  BY Zenon
     DEF BranchStep, AdmitBranch, CancelledBeforeImport, EndBranch,
         ImportAndRecordBranch, ReplayHistoryPoint, PollHistoryPoint,
         EndHistory, AcquireBuildSem, BuildAndSubmit, PollCETask, runVars
<1>2. brPc'[p] = brPc[p]
  BY <1>1 DEF Goto, TypeOK
<1>3. rows'[p] = rows[p]
  BY <1>1 DEF Record, TypeOK
<1>4. verdict'[p] = verdict[p]
  BY <1>1 DEF TypeOK
<1>5. \A t \in queue' : t.proj = p => t \in queue
  BY BranchStepQueue
<1>6. RowStatuses(p, SrcMain[p])' = RowStatuses(p, SrcMain[p])
  BY <1>3 DEF RowStatuses
<1>7. LookupName(p, SrcMain[p])' = LookupName(p, SrcMain[p])
  BY <1>1 DEF LookupName, IsMain
<1>. QED
  BY <1>1, <1>2, <1>4, <1>5, <1>6, <1>7 DEF ReliesOnMain, IsMain

\* A fresh process relies on main only by the rows and reports it finds.
LEMMA ReliesRunStep ==
  ASSUME TypeOK, NEW p \in Project, ReliesOnMain(p)',
         Resume \/ StartNew \/ Crash \/ Cancel \/ Finish \/ StopAdmitting
  PROVE  ReliesOnMain(p)
<1>. DEFINE m == SrcMain[p]
<1>0. /\ m \in Branch
      /\ \A c \in NonMain(p) : c \in Branch
  BY ConstantTypes
<1>1. CASE FreshProcess
  <2>1. /\ projPc'[p] = "waiting"
        /\ brPc'[p][m] = "idle"
        /\ \A c \in NonMain(p) : brPc'[p][c] = "idle"
        /\ verdict'[p][m] = "none"
        /\ snap'[p] = UnknownTarget
    BY <1>0, <1>1 DEF FreshProcess
  <2>2. snap'[p].dates[LookupName(p, m)'] = 0
    BY <1>0, <2>1 DEF UnknownTarget, LookupName, IsMain
  <2>3. \/ RowStatuses(p, m)' \cap Complete # {}
        \/ <<p, m>> \in completed'
        \/ \E t \in queue' : t.proj = p /\ ~IsMain(p, t.src)
    BY <2>1, <2>2 DEF ReliesOnMain, Gated, IsMain
  <2>4. CASE Resume
    <3>1. /\ RowStatuses(p, m)' = RowStatuses(p, m)
          /\ completed' = LoadCompleted
          /\ queue' = queue
      BY <2>4 DEF Resume, Start, RowStatuses
    <3>2. <<p, m>> \in LoadCompleted => RowStatuses(p, m) \cap Complete # {}
      BY DEF LoadCompleted
    <3>. QED  BY <2>3, <3>1, <3>2 DEF ReliesOnMain
  <2>5. CASE StartNew
    <3>1. rows'[p][m] = << >> /\ completed' = {} /\ queue' = queue
      BY <1>0, <2>5 DEF StartNew, Start
    <3>2. RowStatuses(p, m)' = {}
      BY <3>1 DEF RowStatuses
    <3>. QED  BY <2>3, <3>1, <3>2 DEF ReliesOnMain
  <2>6. CASE Crash
    <3>1. /\ RowStatuses(p, m)' = RowStatuses(p, m)
          /\ completed' = {}
          /\ queue' = {[t EXCEPT !.polled = FALSE] : t \in queue}
      BY <2>6 DEF Crash, RowStatuses
    <3>2. \A t \in queue' : \E u \in queue : u.proj = t.proj /\ u.src = t.src
      <4>1. \A t \in queue' : \E u \in queue : t = [u EXCEPT !.polled = FALSE]
        BY <3>1
      <4>2. \A u \in queue : u \in Report
        BY DEF TypeOK
      <4>. QED  BY <4>1, <4>2, UnpolledType, ZenonT(40)
    <3>. QED  BY <2>3, <3>1, <3>2 DEF ReliesOnMain, IsMain
  <2>7. CASE Cancel \/ Finish \/ StopAdmitting
    <3>1. /\ RowStatuses(p, m)' = RowStatuses(p, m)
          /\ UNCHANGED <<completed, queue>>
      BY <2>7 DEF Cancel, Finish, StopAdmitting, RowStatuses, runVars
    <3>. QED  BY <2>3, <3>1 DEF ReliesOnMain, IsMain
  <2>. QED  BY <2>4, <2>5, <2>6, <2>7
<1>2. CASE Cancel \/ Finish \/ StopAdmitting
  <2>1. /\ projPc'[p] = projPc[p] \/ projPc'[p] = "dropped"
        /\ UNCHANGED <<completed, brPc, snap, queue, verdict, rows>>
    BY <1>2 DEF Cancel, Finish, StopAdmitting, TypeOK, runVars
  <2>2. /\ RowStatuses(p, m)' = RowStatuses(p, m)
        /\ LookupName(p, m)' = LookupName(p, m)
    BY <2>1 DEF RowStatuses, LookupName, IsMain
  <2>. QED  BY <2>1, <2>2 DEF ReliesOnMain, IsMain
<1>3. CASE Resume \/ StartNew \/ Crash
  <2>1. FreshProcess
    BY <1>3 DEF Resume, StartNew, Start, Crash
  <2>. QED  BY <1>1, <2>1
<1>. QED  BY <1>2, <1>3

LEMMA ReliesProjectStep ==
  ASSUME TypeOK, NEW p \in Project, NEW q \in Project, ProjectStep(q),
         ReliesOnMain(p)'
  PROVE  ReliesOnMain(p) \/ Anchored(p)'
<1>. DEFINE m == SrcMain[p]
<1>0. /\ m \in Branch
      /\ SrcMain[q] \in Branch
      /\ \A c \in NonMain(p) : c \in Branch /\ c # m
  BY ConstantTypes DEF NonMain
<1>1. CASE UNCHANGED <<completed, brPc, snap, queue, verdict, rows>>
  <2>1. /\ RowStatuses(p, m)' = RowStatuses(p, m)
        /\ LookupName(p, m)' = LookupName(p, m)
    BY <1>1 DEF RowStatuses, LookupName, IsMain
  <2>2. projPc'[p] \in {"rename", "fanout"}
        => projPc[p] \in {"rename", "fanout"} \/ brPc[p][m] = "ok"
    BY DEF ProjectStep, AdmitProject, ImportProjectDataOne, GatedImportMain,
           RecordPhase1Skips, EndPhase1, RenameSCMainBranchToSource,
           FinishProject, GotoProject, TypeOK
  <2>. QED  BY <1>1, <2>1, <2>2 DEF ReliesOnMain, IsMain
<1>2. CASE ImportProjectDataOne(q)
  <2>1. /\ UNCHANGED <<completed, brPc, queue, verdict, rows, tMain, tDate>>
        /\ \/ UNCHANGED snap
           \/ snap' = [snap EXCEPT ![q] =
                         [main |-> tMain[q], dates |-> tDate[q]]]
        /\ projPc'[p] \in {"rename", "fanout"}
           => projPc[p] \in {"rename", "fanout"}
    BY <1>2 DEF ImportProjectDataOne, GotoProject, TypeOK, runVars, targetVars
  <2>2. RowStatuses(p, m)' = RowStatuses(p, m)
    BY <2>1 DEF RowStatuses
  <2>3. CASE snap'[p] = snap[p]
    <3>1. LookupName(p, m)' = LookupName(p, m)
      BY <2>3 DEF LookupName, IsMain
    <3>. QED  BY <2>1, <2>2, <2>3, <3>1 DEF ReliesOnMain, IsMain
  <2>4. CASE snap'[p] = [main |-> tMain[p], dates |-> tDate[p]]
    <3>1. tMain[p] # NoBranch /\ tDate[p][tMain[p]] \in Nat
      BY ConstantsAssumption DEF TypeOK
    <3>2. /\ LookupName(p, m)' = tMain[p]
          /\ snap'[p].dates[LookupName(p, m)'] = tDate[p][tMain[p]]
      BY <2>4, <3>1 DEF LookupName, IsMain
    <3>3. Anchored(p)' \/ snap'[p].dates[LookupName(p, m)'] = 0
      BY <2>1, <3>1, <3>2 DEF Anchored
    <3>. QED  BY <2>1, <2>2, <3>3 DEF ReliesOnMain, IsMain
  <2>5. snap'[p] = snap[p]
        \/ snap'[p] = [main |-> tMain[p], dates |-> tDate[p]]
    BY <2>1 DEF TypeOK
  <2>. QED  BY <2>3, <2>4, <2>5
<1>3. CASE GatedImportMain(q)
  <2>1. UNCHANGED <<projPc, completed, snap, queue, verdict>>
    BY <1>3 DEF GatedImportMain, runVars
  <2>2. /\ brPc'[p][m] = "ok" => brPc[p][m] = "ok"
        /\ \A c \in NonMain(p) : brPc'[p][c] = brPc[p][c]
    <3>1. PICK place \in {"ready", "error"} : Goto(q, SrcMain[q], place)
      BY <1>3 DEF GatedImportMain
    <3>2. CASE p # q
      BY <3>1, <3>2 DEF Goto, TypeOK
    <3>3. CASE p = q
      BY <1>0, <3>1, <3>3 DEF Goto, TypeOK
    <3>. QED  BY <3>2, <3>3
  <2>3. RowStatuses(p, m) \cap Complete = {}
        => RowStatuses(p, m)' \cap Complete = {}
    <3>1. "cancelled" \in Status \ Complete
      BY DEF Status, Complete
    <3>2. CASE UNCHANGED rows
      BY <3>2 DEF RowStatuses
    <3>3. CASE Record(q, SrcMain[q], "cancelled") /\ p = q
      BY <1>0, <3>1, <3>3, RecordKeepsIncomplete
    <3>4. CASE Record(q, SrcMain[q], "cancelled") /\ p # q
      <4>1. rows'[p] = rows[p]
        BY <3>4 DEF Record, TypeOK
      <4>. QED  BY <4>1 DEF RowStatuses
    <3>. QED  BY <1>3, <3>2, <3>3, <3>4 DEF GatedImportMain
  <2>4. LookupName(p, m)' = LookupName(p, m)
    BY <2>1 DEF LookupName, IsMain
  <2>. QED  BY <2>1, <2>2, <2>3, <2>4 DEF ReliesOnMain, IsMain
<1>4. CASE RecordPhase1Skips(q)
  <2>1. /\ UNCHANGED <<completed, brPc, snap, queue, verdict>>
        /\ projPc'[p] \in {"rename", "fanout"}
           => projPc[p] \in {"rename", "fanout"}
    BY <1>4 DEF RecordPhase1Skips, GotoProject, TypeOK, runVars
  <2>2. rows'[p][m] = rows[p][m]
    <3>1. CASE p = q
      <4>1. m \notin NonMain(p) /\ p \in DOMAIN rows
        BY DEF NonMain, TypeOK
      <4>. QED  BY <1>0, <1>4, <3>1, <4>1 DEF RecordPhase1Skips
    <3>2. CASE p # q
      BY <1>4, <3>2 DEF RecordPhase1Skips, TypeOK
    <3>. QED  BY <3>1, <3>2
  <2>3. /\ RowStatuses(p, m)' = RowStatuses(p, m)
        /\ LookupName(p, m)' = LookupName(p, m)
    BY <2>1, <2>2 DEF RowStatuses, LookupName, IsMain
  <2>. QED  BY <2>1, <2>3 DEF ReliesOnMain, IsMain
<1>. QED
  BY <1>1, <1>2, <1>3, <1>4
     DEF ProjectStep, AdmitProject, EndPhase1, RenameSCMainBranchToSource,
         FinishProject, runVars

\* A poll of main succeeds only by an analysis of the target's main branch.
LEMMA ReliesProcessReport ==
  ASSUME TypeOK, NEW p \in Project, NEW t \in queue, ProcessReport(t),
         ReliesOnMain(p)'
  PROVE  ReliesOnMain(p) \/ Anchored(p)'
<1>. DEFINE m == SrcMain[p]
            name == TargetName(t.proj, t.src)
<1>0. /\ m \in Branch
      /\ t.proj \in Project /\ t.src \in Branch /\ t.date \in Nat
      /\ name \in Branch
  BY ConstantTypes DEF TypeOK, Report, TargetName
<1>1. /\ UNCHANGED <<projPc, completed, brPc, snap, rows, tMain>>
      /\ queue' \subseteq queue
  BY DEF ProcessReport, runVars
<1>2. /\ RowStatuses(p, m)' = RowStatuses(p, m)
      /\ LookupName(p, m)' = LookupName(p, m)
  BY <1>1 DEF RowStatuses, LookupName, IsMain
<1>3. verdict'[p][m] = "SUCCESS" => verdict[p][m] = "SUCCESS" \/ Anchored(p)'
  <2>1. CASE CEAccepts(t) /\ tDate' = [tDate EXCEPT ![t.proj][name] = t.date]
             /\ Answer(t, "SUCCESS")
    <3>1. CASE t.proj = p /\ t.src = m
      <4>1. name = tMain[p]
        BY <3>1 DEF TargetName, IsMain
      <4>2. t.date > 0
        <5>1. tDate[t.proj][name] \in Nat
          BY <1>0 DEF TypeOK
        <5>. QED  BY <1>0, <2>1, <5>1 DEF CEAccepts
      <4>. HIDE DEF name
      <4>3. tDate'[p][tMain[p]] = t.date
        BY <1>0, <2>1, <3>1, <4>1 DEF TypeOK
      <4>. QED  BY <1>1, <4>2, <4>3 DEF Anchored
    <3>2. CASE ~(t.proj = p /\ t.src = m)
      BY <1>0, <2>1, <3>2 DEF Answer, TypeOK
    <3>. QED  BY <3>1, <3>2
  <2>2. CASE Answer(t, "FAILED")
    BY <1>0, <2>2 DEF Answer, TypeOK
  <2>3. \/ CEAccepts(t) /\ tDate' = [tDate EXCEPT ![t.proj][name] = t.date]
           /\ Answer(t, "SUCCESS")
        \/ Answer(t, "FAILED")
    BY Zenon DEF ProcessReport
  <2>. QED  BY <2>1, <2>2, <2>3
<1>. QED  BY <1>1, <1>2, <1>3 DEF ReliesOnMain, IsMain

\* A branch step: of another project, of another branch, or of main.
LEMMA ReliesBranchStep ==
  ASSUME TypeOK, MainsBuildable, NEW p \in Project, NEW q \in Project,
         NEW b \in Branches[q], BranchStep(q, b), ReliesOnMain(p)'
  PROVE  ReliesOnMain(p)
<1>1. CASE p # q
  BY <1>1, OtherProjectFrame
<1>2. CASE p = q /\ b # SrcMain[p]
  BY <1>2, OtherBranchRelies DEF NonMain
<1>3. CASE p = q /\ b = SrcMain[p]
  <2>. SUFFICES ASSUME ~ReliesOnMain(p) PROVE FALSE
    OBVIOUS
  <2>1. BranchStep(p, SrcMain[p])
    BY <1>3
  <2>2. LookupName(p, SrcMain[p])' = LookupName(p, SrcMain[p])
    BY <2>1, MainStepFrame DEF LookupName, IsMain
  <2>. QED  BY <2>1, <2>2, MainStepFrame DEF ReliesOnMain, IsMain
<1>. QED  BY <1>1, <1>2, <1>3

LEMMA MainIsTheAnchorInit == Init => MainIsTheAnchor
<1>. SUFFICES ASSUME Init, NEW p \in Project PROVE ~ReliesOnMain(p)
  BY DEF MainIsTheAnchor
<1>1. /\ SrcMain[p] \in Branch
      /\ \A b \in NonMain(p) : b \in Branch
  BY ConstantTypes
<1>2. RowStatuses(p, SrcMain[p]) = {}
  BY <1>1 DEF Init, RowStatuses
<1>3. snap[p].dates[LookupName(p, SrcMain[p])] = 0
  BY <1>1 DEF Init, UnknownTarget, LookupName, IsMain
<1>. QED  BY <1>1, <1>2, <1>3 DEF Init, ReliesOnMain, Gated

LEMMA MainIsTheAnchorNext ==
  ASSUME MainsBuildable, TypeOK, MainIsTheAnchor, [Next]_vars
  PROVE  MainIsTheAnchor'
<1>. SUFFICES ASSUME NEW p \in Project, ReliesOnMain(p)' PROVE Anchored(p)'
  BY DEF MainIsTheAnchor
<1>. SUFFICES ReliesOnMain(p) \/ Anchored(p)'
  BY AnchoredStable DEF MainIsTheAnchor
<1>1. CASE Resume \/ StartNew \/ Crash \/ Cancel \/ Finish \/ StopAdmitting
  BY <1>1, ReliesRunStep
<1>2. CASE \E q \in Project : ProjectStep(q)
  BY <1>2, ReliesProjectStep
<1>3. CASE \E q \in Project : \E b \in Branches[q] : BranchStep(q, b)
  BY <1>3, ReliesBranchStep
<1>4. CASE ComputeEngine
  BY <1>4, ReliesProcessReport DEF ComputeEngine
<1>5. CASE UNCHANGED vars
  BY <1>5 DEF vars, runVars, targetVars, ReliesOnMain, RowStatuses,
              LookupName, IsMain
<1>. QED
  BY <1>1, <1>2, <1>3, <1>4, <1>5 DEF Next, Stopped

\* The barrier of Phase 1 for every instance: when the main branches have
\* something to submit, whatever a run does on the strength of a main branch
\* (go on to Phase 2, skip it, record it, submit another branch) it does with
\* a main analysis on the target, across crashes, resumes and late reports.
THEOREM BarrierIsInductive ==
  ASSUME MainsBuildable
  PROVE  Spec => []MainIsTheAnchor
<1>1. Init => MainIsTheAnchor
  BY MainIsTheAnchorInit
<1>2. TypeOK /\ MainIsTheAnchor /\ [Next]_vars => MainIsTheAnchor'
  BY MainIsTheAnchorNext
<1>. QED  BY <1>1, <1>2, ImportTypeCorrect, PTL DEF Spec

\* The Compute Engine never holds a report of a non-main branch of a project
\* that has no main analysis.
THEOREM BarrierHolds ==
  ASSUME MainsBuildable
  PROVE  Spec => []BranchReportsAreAnchored
<1>1. TypeOK /\ MainIsTheAnchor => BranchReportsAreAnchored
  BY DEF TypeOK, Report, MainIsTheAnchor, ReliesOnMain,
         BranchReportsAreAnchored
<1>. QED  BY <1>1, BarrierIsInductive, ImportTypeCorrect, PTL


-----------------------------------------------------------------------------
(***************************************************************************)
(* Rows: every branch of a project that is over is accounted for, once.    *)
(***************************************************************************)
\* This run has a row for the branch.
Told(p, b) == \E i \in DOMAIN rows[p][b] : rows[p][b][i].attempt = attempt

RowsOfRuns ==
  \A p \in Project : \A b \in Branch :
    \A i \in DOMAIN rows[p][b] : rows[p][b][i].attempt <= attempt

\* A row is the last thing an import does, or stands for one that never began.
RowsEndImports ==
  run # "down" =>
    \A p \in Project : \A b \in Branch : Told(p, b) =>
      brPc[p][b] \in Over \/ (b \in NonMain(p) /\ projPc[p] = "done")

OverIsTold ==
  \A p \in Project : \A b \in Branches[p] :
    brPc[p][b] \in Over => <<p, b>> \in completed \/ Told(p, b)

\* The places of a project and those of its branches.
PlacesFit ==
  \A p \in Project :
    /\ projPc[p] \in {"waiting", "admitted", "main", "dropped"} =>
         \A b \in NonMain(p) : brPc[p][b] = "idle"
    /\ projPc[p] \in {"rename", "fanout", "done"} => brPc[p][SrcMain[p]] \in Over
    /\ projPc[p] = "done" => \A b \in NonMain(p) : brPc[p][b] \notin Gated

Books == /\ RowsOfRuns /\ OneRowPerRun /\ RowsEndImports /\ OverIsTold
         /\ PlacesFit /\ NoBranchVanishes

\* Rows appended to branches this run has none for, one each.
LEMMA RowsAppended ==
  ASSUME TypeOK, RowsOfRuns, OneRowPerRun, attempt' = attempt,
         NEW B \in SUBSET (Project \X Branch),
         \A p \in Project : \A b \in Branch :
           IF <<p, b>> \in B
           THEN ~Told(p, b) /\ \E r \in Row : r.attempt = attempt
                                              /\ rows'[p][b] = Append(rows[p][b], r)
           ELSE rows'[p][b] = rows[p][b]
  PROVE  /\ RowsOfRuns' /\ OneRowPerRun'
         /\ \A p \in Project : \A b \in Branch : Told(p, b)' <=> Told(p, b) \/ <<p, b>> \in B
<1>1. ASSUME NEW p \in Project, NEW b \in Branch, <<p, b>> \in B
      PROVE  /\ \A i \in DOMAIN rows'[p][b] : rows'[p][b][i].attempt <= attempt
             /\ \A i, j \in DOMAIN rows'[p][b] :
                  rows'[p][b][i].attempt = rows'[p][b][j].attempt => i = j
             /\ Told(p, b)'
  <2>1. PICK r \in Row : r.attempt = attempt /\ rows'[p][b] = Append(rows[p][b], r)
    BY <1>1
  <2>. DEFINE s == rows[p][b]
              n == Len(s)
  <2>2. s \in Seq(Row) /\ n \in Nat /\ DOMAIN s = 1 .. n
    BY DEF TypeOK
  <2>3. /\ DOMAIN Append(s, r) = 1 .. n + 1
        /\ Append(s, r)[n + 1] = r
        /\ \A i \in 1 .. n : Append(s, r)[i] = s[i]
    BY <2>2
  <2>4. \A i \in 1 .. n : s[i].attempt # attempt /\ s[i].attempt <= attempt
    BY <1>1, <2>2 DEF Told, RowsOfRuns
  <2>5. \A i, j \in 1 .. n : s[i].attempt = s[j].attempt => i = j
    BY <2>2 DEF OneRowPerRun
  <2>6. attempt \in Nat
    BY DEF TypeOK
  <2>. HIDE DEF s, n
  <2>7. rows'[p][b] = Append(s, r)
    BY <2>1 DEF s
  <2>8. \A i \in 1 .. n + 1 : i \in 1 .. n \/ i = n + 1
    BY <2>2
  <2>9. n + 1 \in 1 .. n + 1
    BY <2>2
  <2>10. Told(p, b)'
    BY <2>1, <2>3, <2>7, <2>9 DEF Told
  <2>11. \A i \in 1 .. n + 1 : Append(s, r)[i].attempt <= attempt
    <3>. SUFFICES ASSUME NEW i \in 1 .. n + 1 PROVE Append(s, r)[i].attempt <= attempt
      OBVIOUS
    <3>1. CASE i \in 1 .. n
      BY <2>3, <2>4, <3>1
    <3>2. CASE i = n + 1
      BY <2>1, <2>3, <2>6, <3>2
    <3>. QED  BY <2>8, <3>1, <3>2
  <2>12. \A i, j \in 1 .. n + 1 : Append(s, r)[i].attempt = Append(s, r)[j].attempt => i = j
    BY <2>1, <2>3, <2>4, <2>5, <2>8
  <2>. QED  BY <2>3, <2>7, <2>10, <2>11, <2>12
<1>2. ASSUME NEW p \in Project, NEW b \in Branch, <<p, b>> \notin B
      PROVE  rows'[p][b] = rows[p][b] /\ (Told(p, b)' <=> Told(p, b))
  BY <1>2 DEF Told
<1>3. RowsOfRuns' /\ OneRowPerRun'
  <2>. SUFFICES ASSUME NEW p \in Project, NEW b \in Branch
       PROVE  /\ \A i \in DOMAIN rows'[p][b] : rows'[p][b][i].attempt <= attempt
              /\ \A i, j \in DOMAIN rows'[p][b] :
                   rows'[p][b][i].attempt = rows'[p][b][j].attempt => i = j
    BY DEF RowsOfRuns, OneRowPerRun
  <2>1. CASE <<p, b>> \in B
    BY <1>1, <2>1
  <2>2. CASE <<p, b>> \notin B
    <3>1. rows'[p][b] = rows[p][b]
      BY <1>2, <2>2
    <3>. QED  BY <3>1 DEF RowsOfRuns, OneRowPerRun
  <2>. QED  BY <2>1, <2>2
<1>. QED  BY <1>1, <1>2, <1>3

LEMMA RecordIs ==
  ASSUME TypeOK, NEW p \in Project, NEW b \in Branch, NEW status \in Status,
         Record(p, b, status)
  PROVE  /\ \E r \in Row : r.attempt = attempt /\ rows'[p][b] = Append(rows[p][b], r)
         /\ \A q \in Project : \A c \in Branch :
              <<q, c>> # <<p, b>> => rows'[q][c] = rows[q][c]
<1>. DEFINE r == [status |-> status, attempt |-> attempt]
<1>1. r \in Row /\ r.attempt = attempt
  BY DEF Row, TypeOK
<1>2. rows' = [rows EXCEPT ![p][b] = Append(@, r)]
  BY DEF Record
<1>. HIDE DEF r
<1>3. rows'[p][b] = Append(rows[p][b], r)
  BY <1>2 DEF TypeOK
<1>4. \A q \in Project : \A c \in Branch : <<q, c>> # <<p, b>> => rows'[q][c] = rows[q][c]
  BY <1>2 DEF TypeOK
<1>. QED  BY <1>1, <1>3, <1>4

\* What a step of one branch does to the rows and places.
BranchMoves(p, b, place) ==
  /\ run = "running" /\ UNCHANGED <<runVars, projPc>>
  /\ Goto(p, b, place)
  /\ \/ UNCHANGED rows /\ (place \in Over => <<p, b>> \in completed)
     \/ place \in Over /\ \E status \in Status : Record(p, b, status)

LEMMA MovesBooks ==
  ASSUME TypeOK, Books, NEW p \in Project, NEW b \in Branches[p], NEW place \in BranchPlace,
         BranchMoves(p, b, place), brPc[p][b] \notin Over, place # "idle",
         brPc[p][b] \in Gated \/ (b \in NonMain(p) /\ projPc[p] = "fanout")
                              \/ (IsMain(p, b) /\ projPc[p] = "main")
  PROVE  Books'
<1>0. b \in Branch /\ \A q \in Project : SrcMain[q] \in Branch /\ NonMain(q) \subseteq Branch /\ Branches[q] \subseteq Branch
  BY ConstantTypes
<1>1. /\ brPc'[p][b] = place
      /\ \A q \in Project : \A c \in Branch : <<q, c>> # <<p, b>> => brPc'[q][c] = brPc[q][c]
      /\ UNCHANGED <<run, attempt, completed, projPc>>
  BY <1>0 DEF BranchMoves, Goto, TypeOK, runVars
<1>2. ~Told(p, b)
  <2>. SUFFICES ASSUME b \in NonMain(p), projPc[p] = "done" PROVE FALSE
    BY <1>0 DEF Books, RowsEndImports, BranchMoves
  <2>. QED  BY DEF Books, PlacesFit
<1>3. PICK B \in {{}, {<<p, b>>}} :
        /\ B # {} => place \in Over
        /\ place \in Over => B # {} \/ <<p, b>> \in completed
        /\ RowsOfRuns' /\ OneRowPerRun'
        /\ \A q \in Project : \A c \in Branch : Told(q, c)' <=> Told(q, c) \/ <<q, c>> \in B
  <2>1. CASE UNCHANGED rows /\ (place \in Over => <<p, b>> \in completed)
    <3>1. RowsOfRuns' /\ OneRowPerRun' /\ \A q, c : Told(q, c)' <=> Told(q, c)
      BY <1>1, <2>1 DEF Books, RowsOfRuns, OneRowPerRun, Told
    <3>. QED  BY <2>1, <3>1
  <2>2. CASE place \in Over /\ \E status \in Status : Record(p, b, status)
    <3>1. {<<p, b>>} \in SUBSET (Project \X Branch)
      BY <1>0
    <3>2. \A q \in Project : \A c \in Branch :
           IF <<q, c>> \in {<<p, b>>}
           THEN ~Told(q, c) /\ \E r \in Row : r.attempt = attempt
                                              /\ rows'[q][c] = Append(rows[q][c], r)
           ELSE rows'[q][c] = rows[q][c]
      BY <1>0, <1>2, <2>2, RecordIs
    <3>3. RowsOfRuns' /\ OneRowPerRun'
          /\ \A q \in Project : \A c \in Branch : Told(q, c)' <=> Told(q, c) \/ <<q, c>> \in {<<p, b>>}
      BY <1>1, <3>1, <3>2, RowsAppended DEF Books
    <3>. QED  BY <2>2, <3>3
  <2>. QED  BY <2>1, <2>2 DEF BranchMoves
<1>4. RowsEndImports'
  <2>. SUFFICES ASSUME NEW q \in Project, NEW c \in Branch, Told(q, c)', run # "down"
                PROVE  brPc'[q][c] \in Over \/ (c \in NonMain(q) /\ projPc[q] = "done")
    BY <1>1 DEF RowsEndImports
  <2>1. CASE <<q, c>> = <<p, b>>
    <3>1. q = p /\ c = b
      BY <2>1
    <3>. QED  BY <1>1, <1>2, <1>3, <3>1
  <2>2. CASE <<q, c>> # <<p, b>>
    <3>1. Told(q, c) /\ brPc'[q][c] = brPc[q][c]
      BY <1>1, <1>3, <2>2
    <3>. QED  BY <3>1 DEF Books, RowsEndImports
  <2>. QED  BY <2>1, <2>2
<1>5. OverIsTold'
  <2>. SUFFICES ASSUME NEW q \in Project, NEW c \in Branches[q], brPc'[q][c] \in Over
                PROVE  <<q, c>> \in completed \/ Told(q, c)'
    BY <1>1 DEF OverIsTold
  <2>1. CASE <<q, c>> = <<p, b>>
    <3>1. q = p /\ c = b
      BY <2>1
    <3>. QED  BY <1>0, <1>1, <1>3, <3>1
  <2>2. CASE <<q, c>> # <<p, b>>
    <3>1. c \in Branch
      BY <1>0
    <3>2. brPc[q][c] \in Over
      BY <1>1, <2>2, <3>1
    <3>. QED  BY <1>3, <3>1, <3>2 DEF Books, OverIsTold
  <2>. QED  BY <2>1, <2>2
<1>6. PlacesFit'
  <2>. SUFFICES ASSUME NEW q \in Project
       PROVE  /\ projPc[q] \in {"waiting", "admitted", "main", "dropped"} =>
                   \A c \in NonMain(q) : brPc'[q][c] = "idle"
              /\ projPc[q] \in {"rename", "fanout", "done"} => brPc'[q][SrcMain[q]] \in Over
              /\ projPc[q] = "done" => \A c \in NonMain(q) : brPc'[q][c] \notin Gated
    BY <1>1 DEF PlacesFit
  <2>0. "idle" \notin Gated /\ "fanout" \notin {"waiting", "admitted", "main", "dropped", "done"}
        /\ NonMain(p) = Branches[p] \ {SrcMain[p]}
    BY DEF Gated, NonMain
  <2>1. CASE q # p
    BY <1>0, <1>1, <2>1 DEF Books, PlacesFit
  <2>2. CASE q = p
    <3>1. \A c \in Branch : c # b => brPc'[q][c] = brPc[q][c]
      BY <1>1, <2>2
    <3>2. b \in NonMain(p) => projPc[p] \in {"rename", "fanout"}
      <4>. SUFFICES ASSUME b \in NonMain(p), projPc[p] # "fanout" PROVE projPc[p] = "rename"
        OBVIOUS
      <4>1. brPc[p][b] \in Gated
        BY <2>0 DEF IsMain
      <4>2. projPc[p] \in {"admitted", "main", "rename", "fanout", "waiting", "dropped", "done"}
        BY DEF TypeOK, ProjectPlace, Admitted
      <4>. QED  BY <2>0, <4>1, <4>2 DEF Books, PlacesFit
    <3>3. ~(b \in NonMain(p)) => b = SrcMain[p] /\ projPc[p] \notin {"rename", "fanout", "done"}
      BY <2>0 DEF Books, PlacesFit
    <3>. QED  BY <1>0, <2>0, <2>2, <3>1, <3>2, <3>3 DEF Books, PlacesFit
  <2>. QED  BY <2>1, <2>2
<1>7. NoBranchVanishes'
  <2>. SUFFICES ASSUME NEW q \in Project, projPc[q] = "done", NEW c \in Branches[q]
                PROVE  <<q, c>> \in completed \/ Told(q, c)'
    BY <1>1 DEF NoBranchVanishes, Told
  <2>. QED  BY <1>0, <1>3 DEF Books, NoBranchVanishes, Told
<1>. QED  BY <1>3, <1>4, <1>5, <1>6, <1>7 DEF Books

LEMMA BranchStepBooks ==
  ASSUME TypeOK, Books, NEW p \in Project, NEW b \in Branches[p], BranchStep(p, b)
  PROVE  Books'
<1>. DEFINE Moves == \E place \in BranchPlace : place # "idle" /\ BranchMoves(p, b, place)
<1>0. "idle" \notin Gated \cup Over /\ Gated \cap Over = {} /\ Gated \cup Over \subseteq BranchPlace
  BY DEF Gated, Over, BranchPlace
<1>1. \/ /\ Moves /\ brPc[p][b] \in Gated
      \/ /\ Moves /\ b \in NonMain(p) /\ projPc[p] = "fanout" /\ brPc[p][b] = "idle"
  <2>0. {"ok", "error", "ready", "history", "historyPoll", "build", "submit", "poll"} \subseteq BranchPlace \ {"idle"}
    BY DEF Gated, Over, BranchPlace
  <2>1. CASE AdmitBranch(p, b)
    <3>1. /\ BranchMoves(p, b, "ready") \/ BranchMoves(p, b, "error")
          /\ b \in NonMain(p) /\ projPc[p] = "fanout" /\ brPc[p][b] = "idle"
      BY <2>1 DEF AdmitBranch, BranchMoves, EndBranch, Gated, Over, Status, runVars
    <3>. QED  BY <1>0, <2>0, <3>1 DEF Moves
  <2>2. CASE CancelledBeforeImport(p, b)
    <3>1. /\ BranchMoves(p, b, "error")
          /\ brPc[p][b] \in Gated
      BY <2>2 DEF CancelledBeforeImport, BranchMoves, EndBranch, Gated, Over, Status, runVars
    <3>. QED  BY <1>0, <2>0, <3>1 DEF Moves
  <2>3. CASE ImportAndRecordBranch(p, b)
    <3>1. /\ BranchMoves(p, b, "ok") \/ BranchMoves(p, b, "history")
          /\ brPc[p][b] \in Gated
      BY <2>3 DEF ImportAndRecordBranch, BranchMoves, EndBranch, Gated, Over, Status, runVars
    <3>. QED  BY <1>0, <2>0, <3>1 DEF Moves
  <2>4. CASE ReplayHistoryPoint(p, b)
    <3>1. /\ BranchMoves(p, b, "historyPoll") \/ BranchMoves(p, b, "build")
          /\ brPc[p][b] \in Gated
      BY <2>4 DEF ReplayHistoryPoint, BranchMoves, EndBranch, Gated, Over, Status, runVars
    <3>. QED  BY <1>0, <2>0, <3>1 DEF Moves
  <2>5. CASE PollHistoryPoint(p, b)
    <3>1. /\ BranchMoves(p, b, "history") \/ BranchMoves(p, b, "build")
          /\ brPc[p][b] \in Gated
      BY <2>5 DEF PollHistoryPoint, BranchMoves, EndBranch, Gated, Over, Status, runVars
    <3>. QED  BY <1>0, <2>0, <3>1 DEF Moves
  <2>6. CASE EndHistory(p, b)
    <3>1. /\ BranchMoves(p, b, "build")
          /\ brPc[p][b] \in Gated
      BY <2>6 DEF EndHistory, BranchMoves, EndBranch, Gated, Over, Status, runVars
    <3>. QED  BY <1>0, <2>0, <3>1 DEF Moves
  <2>7. CASE AcquireBuildSem(p, b)
    <3>1. /\ BranchMoves(p, b, "submit") \/ BranchMoves(p, b, "error")
          /\ brPc[p][b] \in Gated
      BY <2>7 DEF AcquireBuildSem, BranchMoves, EndBranch, Gated, Over, Status, runVars
    <3>. QED  BY <1>0, <2>0, <3>1 DEF Moves
  <2>8. CASE BuildAndSubmit(p, b)
    <3>1. /\ BranchMoves(p, b, "ok") \/ BranchMoves(p, b, "poll") \/ BranchMoves(p, b, "error")
          /\ brPc[p][b] \in Gated
      BY <2>8 DEF BuildAndSubmit, BranchMoves, EndBranch, Gated, Over, Status, runVars
    <3>. QED  BY <1>0, <2>0, <3>1 DEF Moves
  <2>9. CASE PollCETask(p, b)
    <3>1. /\ BranchMoves(p, b, "ok") \/ BranchMoves(p, b, "error")
          /\ brPc[p][b] \in Gated
      BY <2>9 DEF PollCETask, BranchMoves, EndBranch, Gated, Over, Status, runVars
    <3>. QED  BY <1>0, <2>0, <3>1 DEF Moves
  <2>. QED  BY <2>1, <2>2, <2>3, <2>4, <2>5, <2>6, <2>7, <2>8, <2>9 DEF BranchStep
<1>2. PICK place \in BranchPlace : place # "idle" /\ BranchMoves(p, b, place)
  BY <1>1
<1>3. brPc[p][b] \notin Over
  BY <1>0, <1>1 DEF Over
<1>. QED  BY <1>1, <1>2, <1>3, MovesBooks

\* A step that leaves rows and imports alone, and ends no project.
LEMMA ProjectMovesBooks ==
  ASSUME TypeOK, Books, UNCHANGED <<run, attempt, completed, brPc, rows>>, PlacesFit',
         \A q \in Project : projPc[q] = "done" <=> projPc'[q] = "done"
  PROVE  Books'
<1>1. RowsOfRuns' /\ OneRowPerRun' /\ OverIsTold'
  BY DEF Books, RowsOfRuns, OneRowPerRun, OverIsTold, Told
<1>2. RowsEndImports'
  BY DEF Books, RowsEndImports, Told
<1>3. NoBranchVanishes'
  BY DEF Books, NoBranchVanishes
<1>. QED  BY <1>1, <1>2, <1>3 DEF Books

LEMMA SkipsBooks ==
  ASSUME TypeOK, Books, NEW p \in Project, RecordPhase1Skips(p)
  PROVE  Books'
<1>0. \A q \in Project : SrcMain[q] \in Branch /\ NonMain(q) \subseteq Branch /\ Branches[q] \subseteq Branch
  BY ConstantTypes
<1>. DEFINE r == [status |-> IF cancelled THEN "cancelled" ELSE "main_failed", attempt |-> attempt]
            B == {u \in Project \X Branch : u[1] = p /\ u[2] \in NonMain(p)}
<1>1. r \in Row /\ r.attempt = attempt
  BY DEF Row, Status, TypeOK
<1>2. /\ run = "running" /\ projPc[p] = "main" /\ brPc[p][SrcMain[p]] = "error"
      /\ UNCHANGED <<run, attempt, completed, brPc>>
      /\ projPc' = [projPc EXCEPT ![p] = "done"]
      /\ rows' = [rows EXCEPT ![p] = [b \in Branch |->
                    IF b \in NonMain(p) THEN Append(rows[p][b], r) ELSE rows[p][b]]]
  BY DEF RecordPhase1Skips, GotoProject, runVars
<1>. HIDE DEF r
<1>3. /\ projPc'[p] = "done" /\ \A q \in Project : q # p => projPc'[q] = projPc[q]
      /\ \A b \in Branch : rows'[p][b] = IF b \in NonMain(p) THEN Append(rows[p][b], r) ELSE rows[p][b]
      /\ \A q \in Project : q # p => rows'[q] = rows[q]
  BY <1>2 DEF TypeOK
<1>4. \A b \in NonMain(p) : brPc[p][b] = "idle" /\ ~Told(p, b)
  BY <1>0, <1>2 DEF Books, PlacesFit, RowsEndImports, Over
<1>5. /\ RowsOfRuns' /\ OneRowPerRun'
      /\ \A q \in Project : \A b \in Branch : Told(q, b)' <=> Told(q, b) \/ <<q, b>> \in B
  <2>1. \A q \in Project : \A b \in Branch :
           IF <<q, b>> \in B
           THEN ~Told(q, b) /\ \E x \in Row : x.attempt = attempt /\ rows'[q][b] = Append(rows[q][b], x)
           ELSE rows'[q][b] = rows[q][b]
    <3>. SUFFICES ASSUME NEW q \in Project, NEW b \in Branch
         PROVE IF <<q, b>> \in B
           THEN ~Told(q, b) /\ \E x \in Row : x.attempt = attempt /\ rows'[q][b] = Append(rows[q][b], x)
           ELSE rows'[q][b] = rows[q][b]
      OBVIOUS
    <3>1. <<q, b>> \in B <=> q = p /\ b \in NonMain(p)
      OBVIOUS
    <3>2. CASE q = p
      BY <1>1, <1>3, <1>4, <3>1, <3>2
    <3>3. CASE q # p
      BY <1>3, <3>1, <3>3
    <3>. QED  BY <3>2, <3>3
  <2>2. B \in SUBSET (Project \X Branch)
    OBVIOUS
  <2>. HIDE DEF B
  <2>. QED  BY <1>2, <2>1, <2>2, RowsAppended DEF Books
<1>6. \A q \in Project : \A b \in Branch : <<q, b>> \in B <=> q = p /\ b \in NonMain(p)
  OBVIOUS
<1>. HIDE DEF B
<1>7. RowsEndImports'
  <2>. SUFFICES ASSUME NEW q \in Project, NEW b \in Branch, Told(q, b)', run # "down"
                PROVE  brPc[q][b] \in Over \/ (b \in NonMain(q) /\ projPc'[q] = "done")
    BY <1>2 DEF RowsEndImports
  <2>1. CASE <<q, b>> \in B
    BY <1>3, <1>6, <2>1
  <2>2. CASE <<q, b>> \notin B
    <3>1. brPc[q][b] \in Over \/ (b \in NonMain(q) /\ projPc[q] = "done")
      BY <1>5, <2>2 DEF Books, RowsEndImports
    <3>. QED  BY <1>3, <3>1
  <2>. QED  BY <2>1, <2>2
<1>8. OverIsTold'
  BY <1>0, <1>2, <1>5 DEF Books, OverIsTold
<1>9. PlacesFit'
  <2>. SUFFICES ASSUME NEW q \in Project
       PROVE  /\ projPc'[q] \in {"waiting", "admitted", "main", "dropped"} =>
                   \A c \in NonMain(q) : brPc[q][c] = "idle"
              /\ projPc'[q] \in {"rename", "fanout", "done"} => brPc[q][SrcMain[q]] \in Over
              /\ projPc'[q] = "done" => \A c \in NonMain(q) : brPc[q][c] \notin Gated
    BY <1>2 DEF PlacesFit
  <2>1. CASE q = p
    BY <1>2, <1>3, <1>4, <2>1 DEF Over, Gated
  <2>2. CASE q # p
    BY <1>3, <2>2 DEF Books, PlacesFit
  <2>. QED  BY <2>1, <2>2
<1>10. NoBranchVanishes'
  <2>. SUFFICES ASSUME NEW q \in Project, projPc'[q] = "done", NEW b \in Branches[q]
                PROVE  <<q, b>> \in completed \/ Told(q, b)'
    BY <1>2 DEF NoBranchVanishes, Told
  <2>0. b \in Branch
    BY <1>0
  <2>1. CASE q = p /\ b \in NonMain(p)
    BY <1>5, <1>6, <2>0, <2>1
  <2>2. CASE q = p /\ b \notin NonMain(p)
    <3>1. b = SrcMain[p]
      BY <2>2 DEF NonMain
    <3>. QED  BY <1>2, <1>5, <2>0, <2>2, <3>1 DEF Books, OverIsTold, Over
  <2>3. CASE q # p
    <3>1. projPc[q] = "done"
      BY <1>3, <2>3
    <3>2. <<q, b>> \in completed \/ Told(q, b)
      BY <3>1 DEF Books, NoBranchVanishes, Told
    <3>. QED  BY <1>5, <2>0, <3>2
  <2>. QED  BY <2>1, <2>2, <2>3
<1>. QED  BY <1>5, <1>7, <1>8, <1>9, <1>10 DEF Books

LEMMA ProjectStepBooks ==
  ASSUME TypeOK, Books, NEW p \in Project, ProjectStep(p)
  PROVE  Books'
<1>0. \A q \in Project : SrcMain[q] \in Branch /\ SrcMain[q] \in Branches[q] /\ NonMain(q) \subseteq Branch
                         /\ Branches[q] \subseteq Branch
  BY ConstantTypes
<1>. DEFINE Goes(from, to) == /\ projPc[p] = from /\ GotoProject(p, to)
                              /\ UNCHANGED <<run, attempt, completed, brPc, rows>>
<1>g. ASSUME NEW from, NEW to, Goes(from, to) PROVE projPc'[p] = to /\ \A q \in Project : q # p => projPc'[q] = projPc[q]
  BY <1>g DEF GotoProject, TypeOK
<1>1. ASSUME NEW from \in {"waiting", "admitted"}, NEW to \in {"admitted", "dropped", "main"}, Goes(from, to)
      PROVE  Books'
  <2>1. PlacesFit'
    BY <1>1, <1>g DEF Books, PlacesFit
  <2>. QED  BY <1>1, <1>g, <2>1, ProjectMovesBooks
<1>2. CASE GatedImportMain(p)
  <2>1. PICK place \in {"ready", "error"} : BranchMoves(p, SrcMain[p], place)
    BY <1>2 DEF GatedImportMain, BranchMoves, Over, Status, runVars
  <2>2. /\ place \in BranchPlace /\ place # "idle" /\ brPc[p][SrcMain[p]] \notin Over
        /\ IsMain(p, SrcMain[p]) /\ projPc[p] = "main"
    BY <1>2 DEF GatedImportMain, BranchPlace, Gated, Over, IsMain
  <2>. QED  BY <1>0, <2>1, <2>2, MovesBooks
<1>3. CASE Goes("main", "rename") /\ brPc[p][SrcMain[p]] = "ok"
  <2>1. PlacesFit'
    BY <1>3, <1>g DEF Books, PlacesFit, Over
  <2>. QED  BY <1>3, <1>g, <2>1, ProjectMovesBooks
<1>4. CASE Goes("rename", "fanout")
  <2>1. PlacesFit'
    BY <1>4, <1>g DEF Books, PlacesFit
  <2>. QED  BY <1>4, <1>g, <2>1, ProjectMovesBooks
<1>5. CASE FinishProject(p)
  <2>1. Goes("fanout", "done") /\ \A b \in NonMain(p) : brPc[p][b] \in Over
    BY <1>5 DEF FinishProject, runVars
  <2>2. projPc'[p] = "done" /\ \A q \in Project : q # p => projPc'[q] = projPc[q]
    BY <2>1, <1>g
  <2>3. RowsOfRuns' /\ OneRowPerRun' /\ OverIsTold'
    BY <2>1 DEF Books, RowsOfRuns, OneRowPerRun, OverIsTold, Told
  <2>4. RowsEndImports'
    <3>. SUFFICES ASSUME NEW q \in Project, NEW b \in Branch, Told(q, b), run # "down"
                  PROVE  brPc[q][b] \in Over \/ (b \in NonMain(q) /\ projPc'[q] = "done")
      BY <2>1 DEF RowsEndImports, Told
    <3>. QED  BY <2>2 DEF Books, RowsEndImports
  <2>5. \A b \in Branches[p] : brPc[p][b] \in Over
    BY <2>1 DEF Books, PlacesFit, NonMain
  <2>6. PlacesFit'
    <3>. SUFFICES ASSUME NEW q \in Project
         PROVE  /\ projPc'[q] \in {"waiting", "admitted", "main", "dropped"} =>
                     \A c \in NonMain(q) : brPc[q][c] = "idle"
                /\ projPc'[q] \in {"rename", "fanout", "done"} => brPc[q][SrcMain[q]] \in Over
                /\ projPc'[q] = "done" => \A c \in NonMain(q) : brPc[q][c] \notin Gated
      BY <2>1 DEF PlacesFit
    <3>1. CASE q = p
      BY <1>0, <2>2, <2>5, <3>1 DEF NonMain, Over, Gated
    <3>2. CASE q # p
      BY <2>2, <3>2 DEF Books, PlacesFit
    <3>. QED  BY <3>1, <3>2
  <2>7. NoBranchVanishes'
    <3>. SUFFICES ASSUME NEW q \in Project, projPc'[q] = "done", NEW b \in Branches[q]
                  PROVE  <<q, b>> \in completed \/ Told(q, b)
      BY <2>1 DEF NoBranchVanishes, Told
    <3>1. CASE q = p
      BY <2>5, <3>1 DEF Books, OverIsTold
    <3>2. CASE q # p
      <4>1. projPc[q] = "done"
        BY <2>2, <3>2
      <4>. QED  BY <4>1 DEF Books, NoBranchVanishes, Told
    <3>. QED  BY <3>1, <3>2
  <2>. QED  BY <2>3, <2>4, <2>6, <2>7 DEF Books
<1>6. CASE AdmitProject(p) \/ ImportProjectDataOne(p)
  <2>1. \E from \in {"waiting", "admitted"}, to \in {"admitted", "dropped", "main"} : Goes(from, to)
    BY <1>6 DEF AdmitProject, ImportProjectDataOne, runVars
  <2>. QED  BY <1>1, <2>1
<1>7. CASE EndPhase1(p)
  BY <1>3, <1>7 DEF EndPhase1, runVars
<1>8. CASE RenameSCMainBranchToSource(p)
  BY <1>4, <1>8 DEF RenameSCMainBranchToSource, runVars
<1>. QED  BY <1>2, <1>5, <1>6, <1>7, <1>8, SkipsBooks DEF ProjectStep

\* A fresh process has nothing behind it but the rows of earlier runs.
LEMMA FreshBooks ==
  ASSUME TypeOK, RowsOfRuns', OneRowPerRun', FreshProcess,
         run' = "down" \/ \A p \in Project : \A b \in Branch : ~Told(p, b)'
  PROVE  Books'
<1>0. \A q \in Project : SrcMain[q] \in Branch /\ NonMain(q) \subseteq Branch /\ Branches[q] \subseteq Branch
  BY ConstantTypes
<1>1. \A p \in Project : projPc'[p] = "waiting" /\ \A b \in Branch : brPc'[p][b] = "idle"
  BY DEF FreshProcess
<1>2. "idle" \notin Over
  BY DEF Over
<1>3. RowsEndImports' /\ OverIsTold' /\ PlacesFit' /\ NoBranchVanishes'
  BY <1>0, <1>1, <1>2 DEF RowsEndImports, OverIsTold, PlacesFit, NoBranchVanishes
<1>. QED  BY <1>3 DEF Books

LEMMA RunStepBooks ==
  ASSUME TypeOK, Books, Resume \/ StartNew \/ Crash \/ Cancel \/ Finish \/ StopAdmitting
  PROVE  Books'
<1>0. attempt \in Nat
  BY DEF TypeOK
<1>1. CASE Resume
  <2>1. rows' = rows /\ attempt' = attempt + 1 /\ FreshProcess
    BY <1>1 DEF Resume, Start
  <2>2. \A p \in Project : \A b \in Branch : \A i \in DOMAIN rows[p][b] : rows[p][b][i].attempt \in Nat
    <3>. SUFFICES ASSUME NEW p \in Project, NEW b \in Branch, NEW i \in DOMAIN rows[p][b]
                  PROVE  rows[p][b][i].attempt \in Nat
      OBVIOUS
    <3>1. rows[p][b] \in Seq(Row)
      BY DEF TypeOK
    <3>2. rows[p][b][i] \in Row
      BY <3>1
    <3>. QED  BY <3>2 DEF Row
  <2>3. RowsOfRuns' /\ \A p \in Project : \A b \in Branch : ~Told(p, b)'
    BY <1>0, <2>1, <2>2 DEF Books, RowsOfRuns, Told
  <2>4. OneRowPerRun'
    BY <2>1 DEF Books, OneRowPerRun
  <2>. QED  BY <2>1, <2>3, <2>4, FreshBooks
<1>2. CASE StartNew
  <2>1. FreshProcess /\ \A p \in Project : \A b \in Branch : rows'[p][b] = << >>
    BY <1>2 DEF StartNew, Start
  <2>2. RowsOfRuns' /\ OneRowPerRun' /\ \A p \in Project : \A b \in Branch : ~Told(p, b)'
    BY <2>1 DEF RowsOfRuns, OneRowPerRun, Told
  <2>. QED  BY <2>1, <2>2, FreshBooks
<1>3. CASE Crash
  <2>1. UNCHANGED <<rows, attempt>> /\ FreshProcess /\ run' = "down"
    BY <1>3 DEF Crash
  <2>2. RowsOfRuns' /\ OneRowPerRun'
    BY <2>1 DEF Books, RowsOfRuns, OneRowPerRun
  <2>. QED  BY <2>1, <2>2, FreshBooks
<1>4. CASE Cancel
  <2>1. UNCHANGED <<run, attempt, completed, brPc, rows, projPc>>
    BY <1>4 DEF Cancel
  <2>2. PlacesFit'
    BY <2>1 DEF Books, PlacesFit
  <2>. QED  BY <2>1, <2>2, ProjectMovesBooks
<1>5. CASE Finish
  <2>1. UNCHANGED <<attempt, completed, brPc, rows, projPc>> /\ run = "running"
    BY <1>5 DEF Finish
  <2>. QED  BY <2>1 DEF Books, RowsOfRuns, OneRowPerRun, RowsEndImports, OverIsTold, PlacesFit,
                        NoBranchVanishes, Told
<1>6. CASE StopAdmitting
  <2>1. /\ UNCHANGED <<run, attempt, completed, brPc, rows>>
        /\ \A p \in Project : projPc'[p] = IF projPc[p] = "waiting" THEN "dropped" ELSE projPc[p]
    BY <1>6 DEF StopAdmitting, runVars
  <2>2. PlacesFit'
    BY <2>1 DEF Books, PlacesFit
  <2>. QED  BY <2>1, <2>2, ProjectMovesBooks
<1>. QED  BY <1>1, <1>2, <1>3, <1>4, <1>5, <1>6

LEMMA InitBooks == Init => Books
<1>. SUFFICES ASSUME Init PROVE Books
  OBVIOUS
<1>0. \A q \in Project : SrcMain[q] \in Branch /\ NonMain(q) \subseteq Branch /\ Branches[q] \subseteq Branch
  BY ConstantTypes
<1>1. \A p \in Project : projPc[p] = "waiting" /\ \A b \in Branch : brPc[p][b] = "idle" /\ rows[p][b] = << >>
  BY DEF Init
<1>. QED  BY <1>0, <1>1 DEF Init, Books, RowsOfRuns, OneRowPerRun, RowsEndImports, OverIsTold,
              PlacesFit, NoBranchVanishes, Told, Over

LEMMA NextBooks == TypeOK /\ Books /\ [Next]_vars => Books'
<1>. SUFFICES ASSUME TypeOK, Books, [Next]_vars PROVE Books'
  OBVIOUS
<1>1. CASE Resume \/ StartNew \/ Crash \/ Cancel \/ Finish \/ StopAdmitting
  BY <1>1, RunStepBooks
<1>2. CASE \E p \in Project : ProjectStep(p)
  BY <1>2, ProjectStepBooks
<1>3. CASE \E p \in Project : \E b \in Branches[p] : BranchStep(p, b)
  BY <1>3, BranchStepBooks
<1>4. CASE ComputeEngine \/ UNCHANGED vars
  <2>1. UNCHANGED <<run, attempt, completed, brPc, rows, projPc>>
    BY <1>4, Zenon DEF ComputeEngine, ProcessReport, vars, runVars
  <2>2. PlacesFit'
    BY <2>1 DEF Books, PlacesFit
  <2>. QED  BY <2>1, <2>2, ProjectMovesBooks
<1>. QED
  BY <1>1, <1>2, <1>3, <1>4 DEF Next, Stopped

\* The rows of a run account for its branches, each once: a branch whose import
\* never began is not left out, and no path writes a second row, however many
\* runs crashed, were cancelled or resumed before.
THEOREM RowsAddUp == Spec => []BranchesAreAccounted
<1>1. Books => BranchesAreAccounted
  BY DEF Books, BranchesAreAccounted
<1>. QED  BY <1>1, InitBooks, NextBooks, ImportTypeCorrect, PTL DEF Spec

-----------------------------------------------------------------------------
(***************************************************************************)
(* What complete rows say is true, when no other branch of a project has   *)
(* the name Cloud gives to main branches.                                  *)
(***************************************************************************)
NamesApart == \A p \in Project : DefaultMain \notin NonMain(p)

\* The date from which an analysis carries the branch as it is in the extract;
\* the history of a branch is older.
Due(p, b) == IF srcDate[p][b] = 0 THEN MaxDate + 1 ELSE srcDate[p][b]

\* The analysis where the branch's reports go carries it.
HeldAt(p, b) == tDate[p][TargetName(p, b)] >= Due(p, b)

\* A main branch has Cloud's name for it or, renamed, the source's.
MainNames == \A p \in Project : tMain[p] \in {DefaultMain, SrcMain[p]}

\* A historical placeholder is older than the branch.
ReportsFit ==
  \A t \in queue :
    /\ t.src \in Branches[t.proj]
    /\ ~t.full => t.date < Due(t.proj, t.src)

\* A branch waits for at most one report, and that is the one it submitted.
PolledFit ==
  /\ \A t \in queue : t.polled =>
       /\ run = "running" /\ verdict[t.proj][t.src] = "none"
       /\ \/ brPc[t.proj][t.src] = "historyPoll" /\ ~t.full
          \/ brPc[t.proj][t.src] = "poll" /\ t.full /\ t.date = SubmitDate(t.proj, t.src)
  /\ \A t, u \in queue : t.polled /\ u.polled /\ t.proj = u.proj /\ t.src = u.src => t = u
  /\ \A p \in Project : \A b \in Branch :
       verdict[p][b] # "none" => brPc[p][b] \in {"historyPoll", "poll"}

HistoryFits ==
  \A p \in Project : \A b \in Branches[p] : \A d \in hist[p][b] : d < Due(p, b)

\* Main is imported while the project is in Phase 1.
MainInPhase1 ==
  /\ run # "down" => attempt > 0
  /\ run = "finished" => \A p \in Project : projPc[p] \in {"done", "dropped"}
  /\ run = "down" => \A p \in Project : \A b \in Branch : brPc[p][b] = "idle"
  /\ \A p \in Project :
       /\ projPc[p] \in {"waiting", "admitted", "dropped"} => brPc[p][SrcMain[p]] = "idle"
       /\ brPc[p][SrcMain[p]] \in Gated => projPc[p] = "main"

\* The branch list a project read is not ahead of the target.
SnapFits ==
  \A p \in Project :
    /\ snap[p].main = NoBranch \/ projPc[p] \in {"waiting", "admitted"} => snap[p] = UnknownTarget
    /\ \A b \in NonMain(p) : snap[p].dates[b] <= tDate[p][b]
    /\ projPc[p] = "main" /\ snap[p].main # NoBranch =>
         snap[p].main = tMain[p] /\ snap[p].dates[tMain[p]] <= tDate[p][tMain[p]]

\* An analysis at the branch's name, of its date or newer, is its snapshot.
NewestIsOwn ==
  \A p \in Project : \A b \in Branches[p] :
    HeldAt(p, b) => tSrc[p][TargetName(p, b)] = b

WordsAreTrue ==
  \A p \in Project : \A b \in Branches[p] :
    /\ RowStatuses(p, b) \cap Complete # {} => HeldAt(p, b)
    /\ brPc[p][b] = "poll" /\ verdict[p][b] = "SUCCESS" => HeldAt(p, b)

Ledger == /\ MainNames /\ ReportsFit /\ PolledFit /\ HistoryFits /\ MainInPhase1
          /\ SnapFits /\ NewestIsOwn /\ WordsAreTrue

LEMMA ReportFields ==
  ASSUME TypeOK, NEW t \in queue
  PROVE  t.proj \in Project /\ t.src \in Branch /\ t.date \in Nat /\ t.full \in BOOLEAN /\ t.polled \in BOOLEAN
BY DEF TypeOK, Report

LEMMA DueType ==
  ASSUME TypeOK, NEW p \in Project, NEW b \in Branch
  PROVE  Due(p, b) \in Nat /\ Due(p, b) >= srcDate[p][b] /\ srcDate[p][b] \in Nat /\ SubmitDate(p, b) \in Nat
         /\ (attempt > 0 => SubmitDate(p, b) >= Due(p, b))
<1>1. srcDate[p][b] \in Nat /\ MaxDate \in Nat /\ attempt \in Nat
  BY ConstantsAssumption DEF TypeOK
<1>. QED  BY <1>1 DEF Due, SubmitDate, Now

\* Two branches of a project never share a name on the target.
LEMMA NamesDiffer ==
  ASSUME NamesApart, TypeOK, MainNames, NEW p \in Project, NEW b \in Branches[p]
  PROVE  /\ TargetName(p, b) \in Branch
         /\ b \in NonMain(p) => TargetName(p, b) = b /\ b \notin {DefaultMain, SrcMain[p]}
         /\ b \notin NonMain(p) => b = SrcMain[p] /\ TargetName(p, b) = tMain[p]
         /\ \A c \in Branches[p] : TargetName(p, b) = TargetName(p, c) => b = c
<1>1. ASSUME NEW c \in Branches[p]
      PROVE  /\ TargetName(p, c) \in Branch
             /\ c \in NonMain(p) => TargetName(p, c) = c /\ c \notin {DefaultMain, SrcMain[p]}
             /\ c \notin NonMain(p) => c = SrcMain[p] /\ TargetName(p, c) = tMain[p]
  BY ConstantTypes DEF NamesApart, NonMain, TargetName, IsMain, TypeOK
<1>2. tMain[p] \in {DefaultMain, SrcMain[p]}
  BY DEF MainNames
<1>. QED  BY <1>1, <1>2

LEMMA Elsewhere ==
  ASSUME NEW S, NEW f \in [Project -> [Branch -> S]], NEW p \in Project, NEW b \in Branch, NEW x,
         NEW q \in Project, NEW c \in Branch
  PROVE  /\ q = p /\ c = b => [f EXCEPT ![p][b] = x][q][c] = x
         /\ ~(q = p /\ c = b) => [f EXCEPT ![p][b] = x][q][c] = f[q][c]
<1>1. CASE q = p /\ c = b
  BY <1>1
<1>2. CASE q = p /\ c # b
  BY <1>2
<1>3. CASE q # p
  BY <1>3
<1>. QED  BY <1>1, <1>2, <1>3

\* A step of a branch reads the run and the target, and changes neither.
LEMMA BranchFrame ==
  ASSUME TypeOK, NEW p \in Project, NEW b \in Branches[p], BranchStep(p, b)
  PROVE  /\ run = "running"
         /\ UNCHANGED <<run, attempt, cancelled, srcDate, completed, projPc, snap, tMain, tDate, tSrc>>
         /\ \A q \in Project : \A c \in Branch : <<q, c>> # <<p, b>> =>
              /\ brPc'[q][c] = brPc[q][c] /\ verdict'[q][c] = verdict[q][c]
              /\ hist'[q][c] = hist[q][c] /\ rows'[q][c] = rows[q][c]
<1>0. b \in Branch
  BY ConstantTypes
<1>1. run = "running" /\ UNCHANGED <<runVars, projPc, snap, targetVars>>
  BY Zenon DEF BranchStep, AdmitBranch, CancelledBeforeImport, ImportAndRecordBranch, ReplayHistoryPoint,
     PollHistoryPoint, EndHistory, AcquireBuildSem, BuildAndSubmit, PollCETask
<1>2. /\ \E place : Goto(p, b, place)
      /\ UNCHANGED rows \/ \E status : Record(p, b, status)
      /\ UNCHANGED verdict \/ verdict' = [verdict EXCEPT ![p][b] = "none"]
  BY Zenon DEF BranchStep, AdmitBranch, CancelledBeforeImport, ImportAndRecordBranch, ReplayHistoryPoint,
     PollHistoryPoint, EndHistory, AcquireBuildSem, BuildAndSubmit, PollCETask, EndBranch
<1>3. UNCHANGED hist \/ \E h : hist' = [hist EXCEPT ![p][b] = h]
  BY DEF BranchStep, AdmitBranch, CancelledBeforeImport, ImportAndRecordBranch, ReplayHistoryPoint,
     PollHistoryPoint, EndHistory, AcquireBuildSem, BuildAndSubmit, PollCETask, EndBranch
<1>4. ASSUME NEW q \in Project, NEW c \in Branch, <<q, c>> # <<p, b>>
      PROVE  /\ brPc'[q][c] = brPc[q][c] /\ verdict'[q][c] = verdict[q][c]
             /\ hist'[q][c] = hist[q][c] /\ rows'[q][c] = rows[q][c]
  <2>0. /\ ~(q = p /\ c = b)
        /\ brPc \in [Project -> [Branch -> BranchPlace]] /\ rows \in [Project -> [Branch -> Seq(Row)]]
        /\ verdict \in [Project -> [Branch -> {"none", "SUCCESS", "FAILED"}]]
        /\ hist \in [Project -> [Branch -> SUBSET HistoryDates]]
    BY <1>4 DEF TypeOK
  <2>1. brPc'[q][c] = brPc[q][c]
    BY <1>0, <1>2, <2>0, Elsewhere DEF Goto
  <2>2. verdict'[q][c] = verdict[q][c]
    BY <1>0, <1>2, <2>0, Elsewhere
  <2>3. rows'[q][c] = rows[q][c]
    <3>1. ASSUME NEW status, Record(p, b, status)
          PROVE  rows'[q][c] = rows[q][c]
      <4>1. rows' = [rows EXCEPT ![p][b] = Append(rows[p][b], [status |-> status, attempt |-> attempt])]
        BY <3>1 DEF Record
      <4>. QED  BY <1>0, <2>0, <4>1, Elsewhere
    <3>. QED  BY <1>2, <3>1
  <2>4. hist'[q][c] = hist[q][c]
    BY <1>0, <1>3, <2>0, Elsewhere
  <2>. QED  BY <2>1, <2>2, <2>3, <2>4
<1>. QED  BY <1>1, <1>4 DEF runVars, targetVars

LEMMA ReportFrame ==
  ASSUME NEW t \in queue, ProcessReport(t)
  PROVE  /\ UNCHANGED <<run, attempt, srcDate, completed, projPc, brPc, snap, hist, rows, tMain>>
         /\ queue' = queue \ {t}
BY DEF ProcessReport, runVars

\* The name a branch has on the target carries what it carried, or something
\* newer.
LEMMA RenameKeeps ==
  ASSUME NamesApart, TypeOK, MainNames, NEW q \in Project, RenameSCMainBranchToSource(q)
  PROVE  /\ MainNames'
         /\ \A p \in Project : \A b \in Branches[p] :
              /\ tDate'[p][TargetName(p, b)'] = tDate[p][TargetName(p, b)]
              /\ tSrc'[p][TargetName(p, b)'] = tSrc[p][TargetName(p, b)]
         /\ \A p \in Project : \A b \in NonMain(p) : tDate'[p][b] = tDate[p][b]
         /\ \A p \in Project \ {q} : tMain'[p] = tMain[p] /\ tDate'[p] = tDate[p]
<1>0. \A p \in Project : Branches[p] \subseteq Branch /\ SrcMain[p] \in Branch
                         /\ NonMain(p) = Branches[p] \ {SrcMain[p]} /\ tMain[p] \in Branch
  BY ConstantTypes DEF NonMain, TypeOK
<1>1. CASE UNCHANGED targetVars
  BY <1>1 DEF targetVars, MainNames, TargetName
<1>2. CASE RenameMain(q, SrcMain[q]) /\ tMain[q] # SrcMain[q]
  <2>. DEFINE new == SrcMain[q]
              old == tMain[q]
  <2>1. new \in Branch /\ old \in Branch /\ new # old
    BY <1>0, <1>2
  <2>2. /\ tMain' = [tMain EXCEPT ![q] = new]
        /\ tDate' = [tDate EXCEPT ![q][new] = tDate[q][old], ![q][old] = 0]
        /\ tSrc' = [tSrc EXCEPT ![q][new] = tSrc[q][old], ![q][old] = NoBranch]
    BY <1>2, Zenon DEF RenameMain
  <2>3. old \in {DefaultMain, new}
    BY DEF MainNames
  <2>4. new = SrcMain[q] /\ old = tMain[q]
    OBVIOUS
  <2>. HIDE DEF new, old
  <2>5. /\ tMain'[q] = new /\ tDate'[q][new] = tDate[q][old] /\ tSrc'[q][new] = tSrc[q][old]
        /\ \A b \in Branch : b \notin {new, old} => tDate'[q][b] = tDate[q][b] /\ tSrc'[q][b] = tSrc[q][b]
        /\ \A p \in Project : p # q => tMain'[p] = tMain[p] /\ tDate'[p] = tDate[p] /\ tSrc'[p] = tSrc[p]
    BY <2>1, <2>2 DEF TypeOK
  <2>6. MainNames'
    BY <2>4, <2>5 DEF MainNames
  <2>7. ASSUME NEW p \in Project, NEW b \in Branches[p]
        PROVE  /\ tDate'[p][TargetName(p, b)'] = tDate[p][TargetName(p, b)]
               /\ tSrc'[p][TargetName(p, b)'] = tSrc[p][TargetName(p, b)]
               /\ b \in NonMain(p) => tDate'[p][b] = tDate[p][b]
    <3>1. CASE p # q
      BY <2>5, <3>1 DEF TargetName
    <3>2. CASE p = q /\ b = SrcMain[q]
      BY <1>0, <2>4, <2>5, <3>2 DEF TargetName, IsMain
    <3>3. CASE p = q /\ b # SrcMain[q]
      <4>1. b \notin {new, old} /\ b \in Branch /\ b \in NonMain(q)
        BY <1>0, <2>3, <2>4, <3>3 DEF NamesApart
      <4>. QED  BY <2>5, <3>3, <4>1 DEF TargetName, IsMain
    <3>. QED  BY <3>1, <3>2, <3>3
  <2>. QED  BY <1>0, <2>5, <2>6, <2>7
<1>. QED  BY <1>1, <1>2 DEF RenameSCMainBranchToSource

LEMMA AnswerKeeps ==
  ASSUME TypeOK, NEW t \in queue, ProcessReport(t), NEW p \in Project, NEW n \in Branch
  PROVE  /\ tDate'[p][n] >= tDate[p][n]
         /\ (p = t.proj /\ n = TargetName(t.proj, t.src) /\ tDate'[p][n] = t.date
               /\ tSrc'[p][n] = IF t.full THEN t.src ELSE NoBranch)
            \/ (tDate'[p][n] = tDate[p][n] /\ tSrc'[p][n] = tSrc[p][n])
<1>1. t.proj \in Project /\ t.src \in Branch /\ t.date \in Nat /\ TargetName(t.proj, t.src) \in Branch
  BY ReportFields DEF TargetName, TypeOK
<1>2. tDate[p][n] \in Nat
  BY DEF TypeOK
<1>. DEFINE name == TargetName(t.proj, t.src)
            kept == IF t.full THEN t.src ELSE NoBranch
<1>3. \/ /\ CEAccepts(t)
         /\ tDate' = [tDate EXCEPT ![t.proj][name] = t.date]
         /\ tSrc' = [tSrc EXCEPT ![t.proj][name] = kept]
      \/ UNCHANGED <<tDate, tSrc>>
  BY Zenon DEF ProcessReport
<1>4. CEAccepts(t) => t.date > tDate[t.proj][name]
  BY DEF CEAccepts
<1>5. name \in Branch
  BY <1>1
<1>. HIDE DEF name, kept
<1>6. \/ p = t.proj /\ n = name /\ tDate'[p][n] = t.date /\ tSrc'[p][n] = kept /\ t.date > tDate[p][n]
      \/ tDate'[p][n] = tDate[p][n] /\ tSrc'[p][n] = tSrc[p][n]
  <2>0. tDate \in [Project -> [Branch -> Nat]] /\ tSrc \in [Project -> [Branch -> Branch \cup {NoBranch}]]
    BY DEF TypeOK
  <2>1. CASE tDate' = [tDate EXCEPT ![t.proj][name] = t.date] /\ tSrc' = [tSrc EXCEPT ![t.proj][name] = kept]
             /\ CEAccepts(t)
    <3>1. CASE p = t.proj /\ n = name
      <4>1. tDate'[p][n] = t.date /\ tSrc'[p][n] = kept
        BY <1>1, <1>5, <2>0, <2>1, <3>1, Elsewhere
      <4>. QED  BY <1>4, <2>1, <3>1, <4>1
    <3>2. CASE ~(p = t.proj /\ n = name)
      BY <1>1, <1>5, <2>0, <2>1, <3>2, Elsewhere
    <3>. QED  BY <3>1, <3>2
  <2>. QED  BY <1>3, <2>1
<1>. QED  BY <1>1, <1>2, <1>6 DEF name, kept

\* Only those two kinds of steps touch the target.
LEMMA OthersLeaveTarget ==
  ASSUME TypeOK, [Next]_vars,
         ~\E q \in Project : RenameSCMainBranchToSource(q), ~ComputeEngine
  PROVE  UNCHANGED targetVars
<1>1. CASE Resume \/ StartNew \/ Crash \/ Cancel \/ Finish \/ StopAdmitting
  BY <1>1 DEF Resume, StartNew, Start, Crash, Cancel, Finish, StopAdmitting
<1>2. CASE \E q \in Project : ProjectStep(q)
  BY <1>2 DEF ProjectStep, AdmitProject, ImportProjectDataOne, GatedImportMain, RecordPhase1Skips,
              EndPhase1, FinishProject
<1>3. CASE \E q \in Project : \E b \in Branches[q] : BranchStep(q, b)
  BY <1>3, BranchFrame DEF targetVars
<1>4. CASE UNCHANGED vars
  BY <1>4 DEF vars
<1>. QED  BY <1>1, <1>2, <1>3, <1>4 DEF Next, Stopped

\* The dates of the source only grow, and a branch never analyzed stays so.
LEMMA DueGrows ==
  ASSUME TypeOK, [Next]_vars, NEW p \in Project, NEW b \in Branch
  PROVE  Due(p, b)' >= Due(p, b) /\ Due(p, b)' \in Nat /\ (~StartNew => srcDate' = srcDate)
<1>0. TypeOK'
  BY TypeNext
<1>1. CASE StartNew
  <2>1. srcDate'[p][b] \in {srcDate[p][b], srcDate[p][b] + 1} /\ (srcDate[p][b] = 0 => srcDate'[p][b] = 0)
    BY <1>1, ConstantsAssumption DEF StartNew, TypeOK
  <2>2. srcDate[p][b] \in Nat /\ MaxDate \in Nat
    BY ConstantsAssumption DEF TypeOK
  <2>. QED  BY <1>1, <2>1, <2>2 DEF Due
<1>2. CASE ~StartNew
  <2>1. srcDate' = srcDate
    <3>1. CASE Resume \/ Crash \/ Cancel \/ Finish \/ StopAdmitting
      BY <3>1 DEF Resume, Crash, Cancel, Finish, StopAdmitting, runVars
    <3>2. CASE \E q \in Project : ProjectStep(q)
      BY <3>2 DEF ProjectStep, AdmitProject, ImportProjectDataOne, GatedImportMain, RecordPhase1Skips,
                  EndPhase1, RenameSCMainBranchToSource, FinishProject, runVars
    <3>3. CASE \E q \in Project : \E c \in Branches[q] : BranchStep(q, c)
      BY <3>3, BranchFrame
    <3>4. CASE ComputeEngine \/ UNCHANGED vars
      BY <3>4, ReportFrame DEF ComputeEngine, vars, runVars
    <3>. QED  BY <1>2, <3>1, <3>2, <3>3, <3>4 DEF Next, Stopped
  <2>2. Due(p, b)' = Due(p, b)
    BY <2>1 DEF Due
  <2>. QED  BY <1>2, <2>1, <2>2, DueType
<1>. QED  BY <1>1, <1>2

-----------------------------------------------------------------------------
LEMMA NextNames ==
  ASSUME NamesApart, TypeOK, MainNames, [Next]_vars PROVE MainNames'
<1>1. CASE \E q \in Project : RenameSCMainBranchToSource(q)
  BY <1>1, RenameKeeps
<1>2. CASE ComputeEngine
  BY <1>2, ReportFrame DEF ComputeEngine, MainNames
<1>3. CASE ~(\E q \in Project : RenameSCMainBranchToSource(q)) /\ ~ComputeEngine
  BY <1>3, OthersLeaveTarget DEF targetVars, MainNames
<1>. QED  BY <1>1, <1>2, <1>3

\* A step that does not extract anew keeps what is held.
LEMMA HeldStays ==
  ASSUME NamesApart, TypeOK, MainNames, [Next]_vars, ~StartNew,
         NEW p \in Project, NEW b \in Branches[p], HeldAt(p, b)
  PROVE  HeldAt(p, b)'
<1>0. b \in Branch /\ TargetName(p, b) \in Branch
  BY ConstantTypes, NamesDiffer
<1>1. Due(p, b)' = Due(p, b)
  BY <1>0, DueGrows DEF Due
<1>2. CASE \E q \in Project : RenameSCMainBranchToSource(q)
  BY <1>1, <1>2, RenameKeeps DEF HeldAt
<1>3. CASE ComputeEngine
  <2>1. PICK t \in queue : ProcessReport(t)
    BY <1>3 DEF ComputeEngine
  <2>2. TargetName(p, b)' = TargetName(p, b)
    BY <2>1, ReportFrame DEF TargetName
  <2>3. tDate'[p][TargetName(p, b)] >= tDate[p][TargetName(p, b)]
    BY <1>0, <2>1, AnswerKeeps
  <2>4. tDate'[p][TargetName(p, b)] \in Nat /\ tDate[p][TargetName(p, b)] \in Nat /\ Due(p, b) \in Nat
    BY <1>0, TypeNext, DueType DEF TypeOK
  <2>. QED  BY <1>1, <2>2, <2>3, <2>4 DEF HeldAt
<1>4. CASE ~(\E q \in Project : RenameSCMainBranchToSource(q)) /\ ~ComputeEngine
  BY <1>1, <1>4, OthersLeaveTarget DEF targetVars, HeldAt, TargetName
<1>. QED  BY <1>2, <1>3, <1>4

\* A historical placeholder never looks like the branch itself.
LEMMA NextNewest ==
  ASSUME NamesApart, TypeOK, MainNames, ReportsFit, NewestIsOwn, [Next]_vars
  PROVE  NewestIsOwn'
<1>. SUFFICES ASSUME NEW p \in Project, NEW b \in Branches[p], HeldAt(p, b)'
              PROVE  tSrc'[p][TargetName(p, b)'] = b
  BY DEF NewestIsOwn
<1>0. b \in Branch /\ TargetName(p, b) \in Branch
  BY ConstantTypes, NamesDiffer
<1>1. Due(p, b)' >= Due(p, b) /\ Due(p, b)' \in Nat /\ Due(p, b) \in Nat
  BY <1>0, DueGrows, DueType
<1>2. \A n \in Branch : tDate[p][n] \in Nat
  BY DEF TypeOK
<1>3. CASE \E q \in Project : RenameSCMainBranchToSource(q)
  <2>1. /\ tDate'[p][TargetName(p, b)'] = tDate[p][TargetName(p, b)]
        /\ tSrc'[p][TargetName(p, b)'] = tSrc[p][TargetName(p, b)]
    BY <1>3, RenameKeeps
  <2>. QED  BY <1>0, <1>1, <1>2, <2>1 DEF HeldAt, NewestIsOwn
<1>4. CASE ComputeEngine
  <2>1. PICK t \in queue : ProcessReport(t)
    BY <1>4 DEF ComputeEngine
  <2>2. TargetName(p, b)' = TargetName(p, b) /\ Due(p, b)' = Due(p, b)
    BY <2>1, ReportFrame DEF TargetName, Due
  <2>3. CASE tDate'[p][TargetName(p, b)] = tDate[p][TargetName(p, b)] /\ tSrc'[p][TargetName(p, b)] = tSrc[p][TargetName(p, b)]
    BY <2>2, <2>3 DEF HeldAt, NewestIsOwn
  <2>4. CASE /\ p = t.proj /\ TargetName(p, b) = TargetName(t.proj, t.src) /\ tDate'[p][TargetName(p, b)] = t.date
             /\ tSrc'[p][TargetName(p, b)] = IF t.full THEN t.src ELSE NoBranch
    <3>1. t.src = b
      BY <2>4, NamesDiffer DEF ReportsFit
    <3>2. t.date \in Nat /\ (~t.full => t.date < Due(p, b)) /\ t.date >= Due(p, b)
      BY <2>2, <2>4, <3>1, ReportFields DEF ReportsFit, HeldAt
    <3>. QED  BY <1>1, <2>2, <2>4, <3>1, <3>2
  <2>. QED  BY <1>0, <2>1, <2>3, <2>4, AnswerKeeps
<1>5. CASE ~(\E q \in Project : RenameSCMainBranchToSource(q)) /\ ~ComputeEngine
  <2>1. UNCHANGED <<tDate, tSrc>> /\ TargetName(p, b)' = TargetName(p, b)
    BY <1>5, OthersLeaveTarget DEF targetVars, TargetName
  <2>. QED  BY <1>0, <1>1, <1>2, <2>1 DEF HeldAt, NewestIsOwn
<1>. QED  BY <1>3, <1>4, <1>5

-----------------------------------------------------------------------------
\* A report in the queue was there, perhaps with somebody waiting for it, or
\* is what a branch submits now.
Submits(p, b, t) ==
  \/ brPc[p][b] = "history" /\ t.date \in hist[p][b] /\ ~t.full
  \/ brPc[p][b] = "submit" /\ t.date = SubmitDate(p, b) /\ t.full

LEMMA Submission ==
  ASSUME NEW p \in Project, NEW b \in Branch, NEW date, NEW full \in BOOLEAN,
         SubmitReport(p, b, date, full) \/ SubmitFails(p, b, date, full)
  PROVE  /\ queue \subseteq queue'
         /\ \A t \in queue' : t \in queue
              \/ (t.proj = p /\ t.src = b /\ t.date = date /\ t.full = full /\ t = ReportOf(p, b, date, full, t.polled))
         /\ SubmitFails(p, b, date, full) => \A t \in queue' : t \in queue \/ ~t.polled
<1>1. ASSUME NEW t \in queue', t \notin queue
      PROVE  /\ t.proj = p /\ t.src = b /\ t.date = date /\ t.full = full
             /\ t = ReportOf(p, b, date, full, t.polled)
             /\ SubmitFails(p, b, date, full) => ~t.polled
  <2>1. PICK polled : /\ t = ReportOf(p, b, date, full, polled)
                      /\ SubmitFails(p, b, date, full) => polled = FALSE
    <3>1. CASE SubmitFails(p, b, date, full)
      BY <1>1, <3>1 DEF SubmitFails
    <3>2. CASE ~SubmitFails(p, b, date, full)
      <4>1. queue' = queue \cup {ReportOf(p, b, date, full, TRUE)}
            \/ queue' = queue \cup {ReportOf(p, b, date, full, polled) : polled \in BOOLEAN}
        BY <3>2 DEF SubmitReport
      <4>2. \E polled : t = ReportOf(p, b, date, full, polled)
        BY <1>1, <4>1
      <4>. QED  BY <3>2, <4>2
    <3>. QED  BY <3>1, <3>2
  <2>2. t.polled = polled /\ t.proj = p /\ t.src = b /\ t.date = date /\ t.full = full
    BY <2>1, Zenon DEF ReportOf
  <2>. QED  BY <2>1, <2>2
<1>2. queue \subseteq queue'
  BY DEF SubmitReport, SubmitFails
<1>. QED  BY <1>1, <1>2

LEMMA FailedSubmission ==
  ASSUME NEW p \in Project, NEW b \in Branch, NEW date, NEW full, SubmitFails(p, b, date, full)
  PROVE  \A t \in queue' : t.polled => t \in queue
BY DEF SubmitFails, ReportOf

\* Giving up a poll leaves reports that differ in being waited for.
LEMMA Abandoned ==
  ASSUME TypeOK, NEW p \in Project, NEW b \in Branch
  PROVE  \A t \in Abandon(p, b) :
           /\ ~(t.polled /\ t.proj = p /\ t.src = b)
           /\ \E u \in queue : /\ t.proj = u.proj /\ t.src = u.src /\ t.date = u.date /\ t.full = u.full
                               /\ t.polled => t = u
<1>. SUFFICES ASSUME NEW u \in queue, NEW t,
                     t = IF u.proj = p /\ u.src = b THEN [u EXCEPT !.polled = FALSE] ELSE u
              PROVE  /\ ~(t.polled /\ t.proj = p /\ t.src = b)
                     /\ t.proj = u.proj /\ t.src = u.src /\ t.date = u.date /\ t.full = u.full
                     /\ t.polled => t = u
  BY DEF Abandon
<1>. QED  BY DEF TypeOK, Report

LEMMA QueueFrom ==
  ASSUME TypeOK, [Next]_vars, NEW t \in queue'
  PROVE  \/ \E u \in queue : /\ t.proj = u.proj /\ t.src = u.src /\ t.date = u.date /\ t.full = u.full
                             /\ t.polled => t = u
         \/ \E p \in Project : \E b \in Branches[p] :
              t.proj = p /\ t.src = b /\ BranchStep(p, b) /\ Submits(p, b, t)
<1>1. CASE Resume \/ StartNew \/ Cancel \/ Finish \/ StopAdmitting \/ UNCHANGED vars
  <2>1. queue' = queue
    BY <1>1 DEF Resume, StartNew, Start, Cancel, Finish, StopAdmitting, vars
  <2>. QED  BY <2>1
<1>2. CASE Crash
  <2>1. PICK u \in queue : t = [u EXCEPT !.polled = FALSE]
    BY <1>2 DEF Crash
  <2>2. t.proj = u.proj /\ t.src = u.src /\ t.date = u.date /\ t.full = u.full /\ ~t.polled
    BY <2>1 DEF TypeOK, Report
  <2>. QED  BY <2>2
<1>3. CASE \E q \in Project : ProjectStep(q)
  <2>1. queue' = queue
    BY <1>3 DEF ProjectStep, AdmitProject, ImportProjectDataOne, GatedImportMain, RecordPhase1Skips,
                EndPhase1, RenameSCMainBranchToSource, FinishProject
  <2>. QED  BY <2>1
<1>4. CASE \E p \in Project : \E b \in Branches[p] : BranchStep(p, b)
  <2>1. PICK p \in Project : \E b \in Branches[p] : BranchStep(p, b)
    BY <1>4
  <2>1a. PICK b \in Branches[p] : BranchStep(p, b)
    BY <2>1
  <2>2. b \in Branch
    BY ConstantTypes
  <2>3. CASE queue' = queue
    BY <2>3
  <2>4. CASE queue' = Abandon(p, b)
    BY <2>2, <2>4, Abandoned
  <2>5. CASE /\ brPc[p][b] = "history"
             /\ \E d \in hist[p][b] : SubmitReport(p, b, d, FALSE) \/ SubmitFails(p, b, d, FALSE)
    <3>1. PICK d \in hist[p][b] : SubmitReport(p, b, d, FALSE) \/ SubmitFails(p, b, d, FALSE)
      BY <2>5
    <3>2. t \in queue \/ (t.proj = p /\ t.src = b /\ t.date = d /\ t.full = FALSE)
      <4>. DEFINE full == FALSE
      <4>1. full \in BOOLEAN /\ full = FALSE /\ (SubmitReport(p, b, d, full) \/ SubmitFails(p, b, d, full))
        BY <3>1
      <4>. HIDE DEF full
      <4>. QED  BY <2>2, <4>1, Submission
    <3>3. t \in queue \/ (t.proj = p /\ t.src = b /\ Submits(p, b, t))
      BY <2>5, <3>1, <3>2 DEF Submits
    <3>. QED  BY <2>1a, <3>3, Zenon
  <2>6. CASE /\ brPc[p][b] = "submit"
             /\ SubmitReport(p, b, SubmitDate(p, b), TRUE) \/ SubmitFails(p, b, SubmitDate(p, b), TRUE)
    <3>1. t \in queue \/ (t.proj = p /\ t.src = b /\ t.date = SubmitDate(p, b) /\ t.full = TRUE)
      BY <2>2, <2>6, Submission, Zenon
    <3>2. t \in queue \/ (t.proj = p /\ t.src = b /\ Submits(p, b, t))
      BY <2>6, <3>1 DEF Submits
    <3>. QED  BY <2>1a, <3>2, Zenon
  <2>7. AdmitBranch(p, b) \/ CancelledBeforeImport(p, b) \/ ImportAndRecordBranch(p, b) \/ EndHistory(p, b)
        \/ AcquireBuildSem(p, b) => queue' = queue
    BY DEF AdmitBranch, CancelledBeforeImport, ImportAndRecordBranch, EndHistory, AcquireBuildSem
  <2>8. PollHistoryPoint(p, b) \/ PollCETask(p, b) => queue' = queue \/ queue' = Abandon(p, b)
    BY DEF PollHistoryPoint, PollCETask
  <2>9. ReplayHistoryPoint(p, b) =>
          /\ brPc[p][b] = "history"
          /\ \E d \in hist[p][b] : SubmitReport(p, b, d, FALSE) \/ SubmitFails(p, b, d, FALSE)
    BY DEF ReplayHistoryPoint
  <2>10. BuildAndSubmit(p, b) =>
          /\ brPc[p][b] = "submit"
          /\ SubmitReport(p, b, SubmitDate(p, b), TRUE) \/ SubmitFails(p, b, SubmitDate(p, b), TRUE)
             \/ queue' = queue
    BY DEF BuildAndSubmit
  <2>. QED  BY <2>1a, <2>3, <2>4, <2>5, <2>6, <2>7, <2>8, <2>9, <2>10, Zenon DEF BranchStep
<1>5. CASE ComputeEngine
  BY <1>5, ReportFrame DEF ComputeEngine
<1>. QED  BY <1>1, <1>2, <1>3, <1>4, <1>5 DEF Next, Stopped

LEMMA NextReports ==
  ASSUME TypeOK, ReportsFit, HistoryFits, [Next]_vars PROVE ReportsFit'
<1>. SUFFICES ASSUME NEW t \in queue'
              PROVE  t.src \in Branches[t.proj] /\ (~t.full => t.date < Due(t.proj, t.src)')
  BY DEF ReportsFit
<1>0. t.proj \in Project /\ t.src \in Branch /\ t.date \in Nat
  BY TypeNext DEF TypeOK, Report
<1>1. Due(t.proj, t.src)' >= Due(t.proj, t.src) /\ Due(t.proj, t.src)' \in Nat /\ Due(t.proj, t.src) \in Nat
  BY <1>0, DueGrows, DueType
<1>2. t.src \in Branches[t.proj] /\ (~t.full => t.date < Due(t.proj, t.src))
  <2>1. CASE \E u \in queue : t.proj = u.proj /\ t.src = u.src /\ t.date = u.date /\ t.full = u.full
    BY <2>1 DEF ReportsFit
  <2>2. CASE \E p \in Project : \E b \in Branches[p] : t.proj = p /\ t.src = b /\ Submits(p, b, t)
    BY <2>2 DEF Submits, HistoryFits
  <2>. QED  BY <2>1, <2>2, QueueFrom
<1>. QED  BY <1>0, <1>1, <1>2

LEMMA NextHistory ==
  ASSUME TypeOK, HistoryFits, [Next]_vars PROVE HistoryFits'
<1>. SUFFICES ASSUME NEW p \in Project, NEW b \in Branches[p], NEW d \in hist'[p][b]
              PROVE  d < Due(p, b)'
  BY DEF HistoryFits
<1>0. b \in Branch /\ hist'[p][b] \subseteq HistoryDates
  BY ConstantTypes, TypeNext DEF TypeOK
<1>1. Due(p, b)' >= Due(p, b) /\ Due(p, b)' \in Nat /\ Due(p, b) \in Nat /\ d \in Nat
  BY <1>0, DueGrows, DueType, ConstantTypes
<1>2. d \in hist[p][b] \/ d \in ReplayableHistory(p, b)
  <2>1. CASE Resume \/ StartNew \/ Crash
    <3>1. hist'[p][b] = {}
      BY <1>0, <2>1 DEF Resume, StartNew, Crash, Start, FreshProcess
    <3>. QED  BY <3>1
  <2>2. CASE Cancel \/ Finish \/ StopAdmitting \/ ComputeEngine \/ UNCHANGED vars
    BY <2>2 DEF Cancel, Finish, StopAdmitting, ComputeEngine, ProcessReport, vars
  <2>3. CASE \E q \in Project : ProjectStep(q)
    BY <2>3 DEF ProjectStep, AdmitProject, ImportProjectDataOne, GatedImportMain, RecordPhase1Skips,
                EndPhase1, RenameSCMainBranchToSource, FinishProject
  <2>4. CASE \E q \in Project : \E c \in Branches[q] : BranchStep(q, c)
    <3>0. PICK q \in Project : \E c \in Branches[q] : BranchStep(q, c)
      BY <2>4
    <3>1. PICK c \in Branches[q] : BranchStep(q, c)
      BY <3>0
    <3>2. CASE <<p, b>> # <<q, c>>
      BY <1>0, <3>1, <3>2, BranchFrame
    <3>3. CASE p = q /\ b = c
      <4>1. UNCHANGED hist \/ \E h : hist' = [hist EXCEPT ![p][b] = h] /\ (h \subseteq hist[p][b] \/ h = ReplayableHistory(p, b))
        <5>0. BranchStep(p, b)
          BY <3>1, <3>3
        <5>1. AdmitBranch(p, b) \/ CancelledBeforeImport(p, b) \/ EndHistory(p, b) \/ AcquireBuildSem(p, b)
              \/ BuildAndSubmit(p, b) \/ PollCETask(p, b) => UNCHANGED hist
          BY DEF AdmitBranch, CancelledBeforeImport, EndHistory, AcquireBuildSem, BuildAndSubmit, PollCETask
        <5>2. ImportAndRecordBranch(p, b) =>
                UNCHANGED hist \/ hist' = [hist EXCEPT ![p][b] = ReplayableHistory(p, b)]
          BY DEF ImportAndRecordBranch
        <5>3. PollHistoryPoint(p, b) => UNCHANGED hist \/ hist' = [hist EXCEPT ![p][b] = {}]
          BY DEF PollHistoryPoint
        <5>4. ReplayHistoryPoint(p, b) =>
                (\E e \in hist[p][b] : hist' = [hist EXCEPT ![p][b] = hist[p][b] \ {e}])
                \/ hist' = [hist EXCEPT ![p][b] = {}]
          BY DEF ReplayHistoryPoint
        <5>5. {} \subseteq hist[p][b] /\ \A e : hist[p][b] \ {e} \subseteq hist[p][b]
          OBVIOUS
        <5>. QED  BY <5>0, <5>1, <5>2, <5>3, <5>4, <5>5, Zenon DEF BranchStep
      <4>2. hist \in [Project -> [Branch -> SUBSET HistoryDates]]
        BY DEF TypeOK
      <4>. QED  BY <1>0, <4>1, <4>2, Elsewhere
    <3>. QED  BY <3>2, <3>3
  <2>. QED  BY <2>1, <2>2, <2>3, <2>4 DEF Next, Stopped
<1>3. d \in ReplayableHistory(p, b) => d < Due(p, b)
  <2>1. d \in HistoryDates => d <= MaxDate
    <3>1. HistoryDates \subseteq 1 .. MaxDate /\ MaxDate \in Nat
      BY ConstantsAssumption
    <3>2. d \in HistoryDates => d \in 1 .. MaxDate
      BY <3>1, Zenon
    <3>. QED  BY <3>1, <3>2
  <2>2. d \in ReplayableHistory(p, b) => d \in HistoryDates /\ (srcDate[p][b] # 0 => d < srcDate[p][b])
    BY DEF ReplayableHistory
  <2>3. MaxDate \in Nat
    BY ConstantsAssumption
  <2>. QED  BY <1>1, <2>1, <2>2, <2>3 DEF Due
<1>. QED  BY <1>1, <1>2, <1>3 DEF HistoryFits

-----------------------------------------------------------------------------
\* After a step of a branch its task has no verdict yet, and the branch waits
\* for nothing or for the report it has just submitted.
Awaits(p, b, t) ==
  \/ brPc[p][b] = "historyPoll" /\ ~t.full
  \/ brPc[p][b] = "poll" /\ t.full /\ t.date = SubmitDate(p, b)

LEMMA BranchAwaits ==
  ASSUME TypeOK, PolledFit, NEW p \in Project, NEW b \in Branches[p], BranchStep(p, b)
  PROVE  /\ verdict'[p][b] = "none"
         /\ \E r : \A t \in queue' : t.polled =>
              \/ t \in queue /\ ~(t.proj = p /\ t.src = b)
              \/ t = r /\ t.proj = p /\ t.src = b /\ Awaits(p, b, t)'
<1>0. b \in Branch /\ brPc \in [Project -> [Branch -> BranchPlace]]
      /\ verdict \in [Project -> [Branch -> {"none", "SUCCESS", "FAILED"}]]
  BY ConstantTypes DEF TypeOK
<1>1. CASE /\ brPc[p][b] \notin {"historyPoll", "poll"} /\ UNCHANGED verdict
           /\ \A t \in queue' : t.polled => t \in queue
  <2>1. verdict[p][b] = "none"
    BY <1>0, <1>1 DEF PolledFit
  <2>2. \A t \in queue : t.polled => ~(t.proj = p /\ t.src = b)
    BY <1>1 DEF PolledFit
  <2>. QED  BY <1>1, <2>1, <2>2
<1>2. ASSUME NEW date, NEW full \in BOOLEAN, SubmitReport(p, b, date, full), UNCHANGED <<verdict, srcDate, attempt>>,
             \/ brPc[p][b] = "history" /\ ~full /\ Goto(p, b, "historyPoll")
             \/ brPc[p][b] = "submit" /\ full /\ date = SubmitDate(p, b) /\ Goto(p, b, "poll")
      PROVE  /\ verdict'[p][b] = "none"
             /\ \E r : \A t \in queue' : t.polled =>
                  \/ t \in queue /\ ~(t.proj = p /\ t.src = b)
                  \/ t = r /\ t.proj = p /\ t.src = b /\ Awaits(p, b, t)'
  <2>1. verdict[p][b] = "none"
    BY <1>0, <1>2 DEF PolledFit
  <2>2. \A t \in queue : t.polled => ~(t.proj = p /\ t.src = b)
    BY <1>2 DEF PolledFit
  <2>3. \/ ~full /\ brPc'[p][b] = "historyPoll"
        \/ full /\ brPc'[p][b] = "poll" /\ date = SubmitDate(p, b)'
    <3>1. SubmitDate(p, b)' = SubmitDate(p, b)
      BY <1>2 DEF SubmitDate, Now
    <3>. QED  BY <1>0, <1>2, <3>1 DEF Goto
  <2>4. ASSUME NEW t \in queue', t.polled, t \notin queue
        PROVE  t = ReportOf(p, b, date, full, TRUE) /\ t.proj = p /\ t.src = b /\ Awaits(p, b, t)'
    <3>1. PICK polled \in BOOLEAN : t = ReportOf(p, b, date, full, polled)
      BY <1>2, <2>4 DEF SubmitReport
    <3>2. t.proj = p /\ t.src = b /\ t.date = date /\ t.full = full /\ t.polled = polled
      BY <3>1, Zenon DEF ReportOf
    <3>3. polled = TRUE
      BY <2>4, <3>2
    <3>4. t = ReportOf(p, b, date, full, TRUE)
      BY <3>1, <3>3
    <3>5. Awaits(p, b, t)'
      BY <2>3, <3>2 DEF Awaits
    <3>. QED  BY <3>2, <3>4, <3>5
  <2>5. verdict'[p][b] = "none"
    BY <1>2, <2>1
  <2>. DEFINE r == ReportOf(p, b, date, full, TRUE)
  <2>6. \A t \in queue' : t.polled => \/ t \in queue /\ ~(t.proj = p /\ t.src = b)
                                      \/ t = r /\ t.proj = p /\ t.src = b /\ Awaits(p, b, t)'
    BY <2>2, <2>4
  <2>. HIDE DEF r
  <2>. QED  BY <2>5, <2>6
<1>3. CASE queue' = Abandon(p, b) /\ verdict' = [verdict EXCEPT ![p][b] = "none"]
  <2>1. \A t \in queue' : t.polled => t \in queue /\ ~(t.proj = p /\ t.src = b)
    BY <1>0, <1>3, Abandoned
  <2>2. verdict'[p][b] = "none"
    BY <1>0, <1>3
  <2>. QED  BY <2>1, <2>2, Zenon
<1>4. CASE verdict[p][b] = "SUCCESS" /\ queue' = queue /\ verdict' = [verdict EXCEPT ![p][b] = "none"]
  <2>1. \A t \in queue : t.polled => ~(t.proj = p /\ t.src = b)
    BY <1>4 DEF PolledFit
  <2>2. verdict'[p][b] = "none"
    BY <1>0, <1>4
  <2>. QED  BY <1>4, <2>1, <2>2, Zenon
<1>5. CASE AdmitBranch(p, b) \/ CancelledBeforeImport(p, b) \/ ImportAndRecordBranch(p, b)
           \/ EndHistory(p, b) \/ AcquireBuildSem(p, b)
  <2>1. brPc[p][b] \notin {"historyPoll", "poll"} /\ UNCHANGED <<verdict, queue>>
    BY <1>5 DEF AdmitBranch, CancelledBeforeImport, ImportAndRecordBranch, EndHistory, AcquireBuildSem
  <2>. QED  BY <1>1, <2>1
<1>6. CASE PollHistoryPoint(p, b) \/ PollCETask(p, b)
  BY <1>3, <1>4, <1>6 DEF PollHistoryPoint, PollCETask
<1>7. CASE ReplayHistoryPoint(p, b)
  <2>1. /\ brPc[p][b] = "history" /\ UNCHANGED <<verdict, srcDate, attempt>>
        /\ \E d \in hist[p][b] : \/ SubmitReport(p, b, d, FALSE) /\ Goto(p, b, "historyPoll")
                                 \/ SubmitFails(p, b, d, FALSE)
    BY <1>7 DEF ReplayHistoryPoint, runVars
  <2>2. PICK d \in hist[p][b] : \/ SubmitReport(p, b, d, FALSE) /\ Goto(p, b, "historyPoll")
                                \/ SubmitFails(p, b, d, FALSE)
    BY <2>1
  <2>. DEFINE full == FALSE
  <2>3. /\ full \in BOOLEAN /\ ~full
        /\ \/ SubmitReport(p, b, d, full) /\ Goto(p, b, "historyPoll")
           \/ SubmitFails(p, b, d, full)
    BY <2>2
  <2>. HIDE DEF full
  <2>4. CASE SubmitReport(p, b, d, full) /\ Goto(p, b, "historyPoll")
    BY <1>2, <2>1, <2>3, <2>4
  <2>5. CASE SubmitFails(p, b, d, full)
    <3>1. \A t \in queue' : t.polled => t \in queue
      BY <1>0, <2>5, FailedSubmission
    <3>. QED  BY <1>1, <2>1, <3>1
  <2>. QED  BY <2>3, <2>4, <2>5
<1>8. CASE BuildAndSubmit(p, b)
  <2>. DEFINE full == TRUE
  <2>1. /\ brPc[p][b] = "submit" /\ UNCHANGED <<verdict, srcDate, attempt>>
        /\ \/ queue' = queue
           \/ SubmitReport(p, b, SubmitDate(p, b), full) /\ Goto(p, b, "poll")
           \/ SubmitFails(p, b, SubmitDate(p, b), full)
    BY <1>8 DEF BuildAndSubmit, runVars
  <2>2. full \in BOOLEAN /\ full
    OBVIOUS
  <2>. HIDE DEF full
  <2>3. CASE queue' = queue
    BY <1>1, <2>1, <2>3
  <2>4. CASE SubmitReport(p, b, SubmitDate(p, b), full) /\ Goto(p, b, "poll")
    BY <1>2, <2>1, <2>2, <2>4
  <2>5. CASE SubmitFails(p, b, SubmitDate(p, b), full)
    <3>1. \A t \in queue' : t.polled => t \in queue
      BY <1>0, <2>5, FailedSubmission
    <3>. QED  BY <1>1, <2>1, <3>1
  <2>. QED  BY <2>1, <2>3, <2>4, <2>5
<1>. QED  BY <1>5, <1>6, <1>7, <1>8 DEF BranchStep

LEMMA NextPolled ==
  ASSUME TypeOK, PlacesFit, ReportsFit, PolledFit, MainInPhase1, [Next]_vars PROVE PolledFit'
<1>1. CASE Resume \/ StartNew
  <2>1. run # "running" /\ queue' = queue /\ \A p \in Project : \A b \in Branch : verdict'[p][b] = "none"
    BY <1>1 DEF Resume, StartNew, Start, FreshProcess
  <2>. QED  BY <2>1 DEF PolledFit
<1>2. CASE Crash
  <2>1. \A t \in queue' : ~t.polled
    BY <1>2 DEF Crash, TypeOK, Report
  <2>2. \A p \in Project : \A b \in Branch : verdict'[p][b] = "none"
    BY <1>2 DEF Crash, FreshProcess
  <2>. QED  BY <2>1, <2>2 DEF PolledFit
<1>3. CASE Finish
  <2>1. ASSUME NEW t \in queue, t.polled
        PROVE  FALSE
    <3>1. t.proj \in Project /\ t.src \in Branches[t.proj] /\ brPc[t.proj][t.src] \in {"historyPoll", "poll"}
      BY <2>1, ReportFields DEF ReportsFit, PolledFit
    <3>2. projPc[t.proj] \in {"done", "dropped"}
      BY <1>3, <3>1 DEF Finish
    <3>3. t.src = SrcMain[t.proj] \/ t.src \in NonMain(t.proj)
      BY <3>1 DEF NonMain
    <3>. QED  BY <3>1, <3>2, <3>3 DEF PlacesFit, MainInPhase1, Gated, Over
  <2>2. UNCHANGED <<queue, verdict, brPc>>
    BY <1>3 DEF Finish
  <2>. QED  BY <2>1, <2>2 DEF PolledFit
<1>4. ASSUME UNCHANGED <<run, queue, verdict, srcDate, attempt>>,
             \A p \in Project : \A b \in Branch :
               brPc[p][b] \in {"historyPoll", "poll"} => brPc'[p][b] = brPc[p][b]
      PROVE  PolledFit'
  <2>1. \A p \in Project : \A b \in Branch : SubmitDate(p, b)' = SubmitDate(p, b)
    BY <1>4 DEF SubmitDate, Now
  <2>2. ASSUME NEW t \in queue, t.polled
        PROVE  /\ run = "running" /\ verdict[t.proj][t.src] = "none"
               /\ \/ brPc'[t.proj][t.src] = "historyPoll" /\ ~t.full
                  \/ brPc'[t.proj][t.src] = "poll" /\ t.full /\ t.date = SubmitDate(t.proj, t.src)'
    <3>1. t.proj \in Project /\ t.src \in Branch
      BY ReportFields
    <3>. QED  BY <1>4, <2>1, <2>2, <3>1 DEF PolledFit
  <2>3. ASSUME NEW p \in Project, NEW b \in Branch, verdict[p][b] # "none"
        PROVE  brPc'[p][b] \in {"historyPoll", "poll"}
    BY <1>4, <2>3 DEF PolledFit
  <2>. QED  BY <1>4, <2>2, <2>3 DEF PolledFit
<1>5. CASE Cancel \/ StopAdmitting \/ UNCHANGED vars
  BY <1>4, <1>5 DEF Cancel, StopAdmitting, vars, runVars
<1>6. CASE \E p \in Project : ProjectStep(p)
  <2>1. PICK p \in Project : ProjectStep(p)
    BY <1>6
  <2>2. UNCHANGED <<run, queue, verdict, srcDate, attempt>>
    BY <2>1 DEF ProjectStep, AdmitProject, ImportProjectDataOne, GatedImportMain, RecordPhase1Skips,
                EndPhase1, RenameSCMainBranchToSource, FinishProject, runVars
  <2>3. UNCHANGED brPc \/ (brPc[p][SrcMain[p]] = "idle" /\ \E place : Goto(p, SrcMain[p], place))
    BY <2>1 DEF ProjectStep, AdmitProject, ImportProjectDataOne, GatedImportMain, RecordPhase1Skips,
                EndPhase1, RenameSCMainBranchToSource, FinishProject
  <2>4. ASSUME NEW q \in Project, NEW b \in Branch, brPc[q][b] \in {"historyPoll", "poll"}
        PROVE  brPc'[q][b] = brPc[q][b]
    <3>1. brPc \in [Project -> [Branch -> BranchPlace]] /\ SrcMain[p] \in Branch
      BY ConstantTypes DEF TypeOK
    <3>2. CASE brPc[p][SrcMain[p]] = "idle" /\ \E place : Goto(p, SrcMain[p], place)
      <4>1. ~(q = p /\ b = SrcMain[p])
        BY <2>4, <3>2
      <4>. QED  BY <3>1, <3>2, <4>1, Elsewhere DEF Goto
    <3>. QED  BY <2>3, <3>2
  <2>. QED  BY <1>4, <2>2, <2>4
<1>7. CASE \E p \in Project : \E b \in Branches[p] : BranchStep(p, b)
  <2>1. PICK p \in Project : \E b \in Branches[p] : BranchStep(p, b)
    BY <1>7
  <2>2. PICK b \in Branches[p] : BranchStep(p, b)
    BY <2>1
  <2>3. /\ run = "running" /\ UNCHANGED <<run, attempt, srcDate>> /\ b \in Branch
        /\ \A q \in Project : \A c \in Branch : ~(q = p /\ c = b) =>
             brPc'[q][c] = brPc[q][c] /\ verdict'[q][c] = verdict[q][c]
    BY <2>2, BranchFrame, ConstantTypes
  <2>4. \A q \in Project : \A c \in Branch : SubmitDate(q, c)' = SubmitDate(q, c)
    BY <2>3 DEF SubmitDate, Now
  <2>5. verdict'[p][b] = "none"
    BY <2>2, BranchAwaits
  <2>6. PICK r : \A t \in queue' : t.polled =>
              \/ t \in queue /\ ~(t.proj = p /\ t.src = b)
              \/ t = r /\ t.proj = p /\ t.src = b /\ Awaits(p, b, t)'
    BY <2>2, BranchAwaits
  <2>7. ASSUME NEW t \in queue', t.polled
        PROVE  /\ run' = "running" /\ verdict'[t.proj][t.src] = "none"
               /\ \/ brPc'[t.proj][t.src] = "historyPoll" /\ ~t.full
                  \/ brPc'[t.proj][t.src] = "poll" /\ t.full /\ t.date = SubmitDate(t.proj, t.src)'
    <3>1. CASE t \in queue /\ ~(t.proj = p /\ t.src = b)
      <4>1. t.proj \in Project /\ t.src \in Branch
        BY <3>1, ReportFields
      <4>. QED  BY <2>3, <2>4, <2>7, <3>1, <4>1 DEF PolledFit
    <3>2. CASE t.proj = p /\ t.src = b /\ Awaits(p, b, t)'
      BY <2>3, <2>5, <3>2 DEF Awaits
    <3>. QED  BY <2>6, <2>7, <3>1, <3>2
  <2>8. ASSUME NEW t \in queue', NEW u \in queue', t.polled, u.polled, t.proj = u.proj, t.src = u.src
        PROVE  t = u
    BY <2>6, <2>8 DEF PolledFit
  <2>9. ASSUME NEW q \in Project, NEW c \in Branch, verdict'[q][c] # "none"
        PROVE  brPc'[q][c] \in {"historyPoll", "poll"}
    BY <2>3, <2>5, <2>9 DEF PolledFit
  <2>. QED  BY <2>7, <2>8, <2>9 DEF PolledFit
<1>8. CASE ComputeEngine
  <2>1. PICK t \in queue : ProcessReport(t)
    BY <1>8 DEF ComputeEngine
  <2>2. /\ UNCHANGED <<run, attempt, srcDate, brPc>> /\ queue' = queue \ {t}
        /\ t.proj \in Project /\ t.src \in Branch
    BY <2>1, ReportFrame, ReportFields
  <2>3. \A q \in Project : \A c \in Branch : SubmitDate(q, c)' = SubmitDate(q, c)
    BY <2>2 DEF SubmitDate, Now
  <2>4. \A q \in Project : \A c \in Branch :
          (verdict'[q][c] # verdict[q][c]) => t.polled /\ q = t.proj /\ c = t.src
    <3>1. verdict' = verdict \/ (t.polled /\ \E x : verdict' = [verdict EXCEPT ![t.proj][t.src] = x])
      BY <2>1 DEF ProcessReport, Answer
    <3>2. verdict \in [Project -> [Branch -> {"none", "SUCCESS", "FAILED"}]]
      BY DEF TypeOK
    <3>3. ASSUME NEW q \in Project, NEW c \in Branch, ~(q = t.proj /\ c = t.src)
          PROVE  verdict'[q][c] = verdict[q][c]
      <4>1. CASE verdict' = verdict
        BY <4>1
      <4>2. ASSUME NEW x, verdict' = [verdict EXCEPT ![t.proj][t.src] = x]
            PROVE  verdict'[q][c] = verdict[q][c]
        <5>1. CASE q # t.proj
          BY <2>2, <3>2, <4>2, <5>1
        <5>2. CASE q = t.proj /\ c # t.src
          BY <2>2, <3>2, <4>2, <5>2
        <5>. QED  BY <3>3, <5>1, <5>2
      <4>. QED  BY <3>1, <4>1, <4>2
    <3>. QED  BY <3>1, <3>3
  <2>5. ASSUME NEW u \in queue', u.polled
        PROVE  /\ run' = "running" /\ verdict'[u.proj][u.src] = "none"
               /\ \/ brPc'[u.proj][u.src] = "historyPoll" /\ ~u.full
                  \/ brPc'[u.proj][u.src] = "poll" /\ u.full /\ u.date = SubmitDate(u.proj, u.src)'
    <3>1. u \in queue /\ u # t /\ u.proj \in Project /\ u.src \in Branch
      BY <2>2, ReportFields
    <3>2. verdict'[u.proj][u.src] = verdict[u.proj][u.src]
      BY <2>4, <2>5, <3>1 DEF PolledFit
    <3>3. /\ run = "running" /\ verdict[u.proj][u.src] = "none"
          /\ \/ brPc[u.proj][u.src] = "historyPoll" /\ ~u.full
             \/ brPc[u.proj][u.src] = "poll" /\ u.full /\ u.date = SubmitDate(u.proj, u.src)
      BY <2>5, <3>1 DEF PolledFit
    <3>4. SubmitDate(u.proj, u.src)' = SubmitDate(u.proj, u.src)
      BY <2>3, <3>1
    <3>. QED  BY <2>2, <3>2, <3>3, <3>4
  <2>6. ASSUME NEW q \in Project, NEW c \in Branch, verdict'[q][c] # "none"
        PROVE  brPc'[q][c] \in {"historyPoll", "poll"}
    BY <2>2, <2>4, <2>6 DEF PolledFit
  <2>. QED  BY <2>2, <2>5, <2>6 DEF PolledFit
<1>. QED  BY <1>1, <1>2, <1>3, <1>5, <1>6, <1>7, <1>8 DEF Next, Stopped

\* A branch import that moves holds a slot, or is one of Phase 2 that begins.
LEMMA BranchPlaces ==
  ASSUME NEW p \in Project, NEW b \in Branches[p], BranchStep(p, b)
  PROVE  brPc[p][b] \in Gated \/ (b \in NonMain(p) /\ projPc[p] = "fanout" /\ brPc[p][b] = "idle")
BY DEF BranchStep, AdmitBranch, CancelledBeforeImport, ImportAndRecordBranch, ReplayHistoryPoint,
       PollHistoryPoint, EndHistory, AcquireBuildSem, BuildAndSubmit, PollCETask, Gated

LEMMA NextMainInPhase1 ==
  ASSUME TypeOK, MainInPhase1, [Next]_vars PROVE MainInPhase1'
<1>0. /\ \A p \in Project : SrcMain[p] \in Branch /\ SrcMain[p] \notin NonMain(p)
      /\ attempt \in Nat /\ projPc \in [Project -> ProjectPlace] /\ brPc \in [Project -> [Branch -> BranchPlace]]
  BY ConstantTypes DEF NonMain, TypeOK
<1>1. CASE Resume \/ StartNew \/ Crash
  <2>1. /\ \A p \in Project : projPc'[p] = "waiting" /\ \A b \in Branch : brPc'[p][b] = "idle"
        /\ run' # "finished" /\ (run' # "down" => attempt' = attempt + 1)
    BY <1>1 DEF Resume, StartNew, Start, Crash, FreshProcess
  <2>. QED  BY <1>0, <2>1 DEF MainInPhase1, Gated
<1>2. CASE Cancel \/ UNCHANGED vars \/ ComputeEngine
  <2>1. UNCHANGED <<run, attempt, projPc, brPc>>
    BY <1>2, ReportFrame DEF Cancel, vars, runVars, ComputeEngine
  <2>. QED  BY <2>1 DEF MainInPhase1
<1>3. CASE Finish
  <2>1. /\ UNCHANGED <<attempt, projPc, brPc>> /\ run = "running" /\ run' = "finished"
        /\ \A p \in Project : projPc[p] \in {"done", "dropped"}
    BY <1>3 DEF Finish
  <2>. QED  BY <2>1 DEF MainInPhase1
<1>4. CASE StopAdmitting
  <2>1. /\ UNCHANGED <<run, attempt, brPc>> /\ run = "running"
        /\ \A p \in Project : projPc'[p] = IF projPc[p] = "waiting" THEN "dropped" ELSE projPc[p]
    BY <1>4 DEF StopAdmitting, runVars
  <2>. QED  BY <1>0, <2>1 DEF MainInPhase1, Gated
<1>5. CASE \E p \in Project : ProjectStep(p)
  <2>1. PICK p \in Project : ProjectStep(p)
    BY <1>5
  <2>2. run = "running" /\ UNCHANGED <<run, attempt>>
    BY <2>1 DEF ProjectStep, AdmitProject, ImportProjectDataOne, GatedImportMain, RecordPhase1Skips,
                EndPhase1, RenameSCMainBranchToSource, FinishProject, runVars
  <2>3. CASE GatedImportMain(p)
    <3>1. UNCHANGED projPc /\ projPc[p] = "main" /\ \E place : Goto(p, SrcMain[p], place)
      BY <2>3 DEF GatedImportMain
    <3>2. \A q \in Project : q # p => brPc'[q] = brPc[q]
      BY <1>0, <3>1 DEF Goto
    <3>. QED  BY <2>2, <3>1, <3>2 DEF MainInPhase1
  <2>4. CASE ~GatedImportMain(p)
    <3>1. UNCHANGED brPc /\ \E place : GotoProject(p, place)
            /\ (projPc[p] = "main" => brPc[p][SrcMain[p]] \in Over)
            /\ (place \in {"waiting", "admitted", "dropped"} => projPc[p] \in {"waiting", "admitted"})
      BY <2>1, <2>4 DEF ProjectStep, AdmitProject, ImportProjectDataOne, RecordPhase1Skips,
                EndPhase1, RenameSCMainBranchToSource, FinishProject, Over
    <3>2. \A q \in Project : q # p => projPc'[q] = projPc[q]
      BY <1>0, <3>1 DEF GotoProject
    <3>3. projPc'[p] \in {"waiting", "admitted", "dropped"} => projPc[p] \in {"waiting", "admitted"}
      BY <1>0, <3>1 DEF GotoProject
    <3>. QED  BY <2>2, <3>1, <3>2, <3>3 DEF MainInPhase1, Gated, Over
  <2>. QED  BY <2>3, <2>4
<1>6. CASE \E p \in Project : \E b \in Branches[p] : BranchStep(p, b)
  <2>1. PICK p \in Project : \E b \in Branches[p] : BranchStep(p, b)
    BY <1>6
  <2>2. PICK b \in Branches[p] : BranchStep(p, b)
    BY <2>1
  <2>3. /\ run = "running" /\ UNCHANGED <<run, attempt, projPc>> /\ b \in Branch
        /\ \A q \in Project : \A c \in Branch : ~(q = p /\ c = b) => brPc'[q][c] = brPc[q][c]
    BY <2>2, BranchFrame, ConstantTypes
  <2>4. b = SrcMain[p] => brPc[p][b] \in Gated
    BY <1>0, <2>2, BranchPlaces
  <2>. QED  BY <1>0, <2>3, <2>4 DEF MainInPhase1, Gated
<1>. QED  BY <1>1, <1>2, <1>3, <1>4, <1>5, <1>6 DEF Next, Stopped

LEMMA NextSnap ==
  ASSUME NamesApart, TypeOK, MainNames, SnapFits, [Next]_vars PROVE SnapFits'
<1>0. /\ \A p \in Project : NonMain(p) \subseteq Branch /\ tMain[p] \in Branch
      /\ \A p \in Project : \A n \in Branch : tDate[p][n] \in Nat /\ tDate'[p][n] \in Nat /\ snap[p].dates[n] \in Nat
      /\ UnknownTarget.main = NoBranch /\ \A n \in Branch : UnknownTarget.dates[n] = 0
      /\ NoBranch \notin Branch /\ projPc \in [Project -> ProjectPlace] /\ snap \in [Project -> Snapshot]
  <2>1. \A p \in Project : \A n \in Branch : tDate[p][n] \in Nat /\ tDate'[p][n] \in Nat
    BY TypeNext, ZenonT(40) DEF TypeOK
  <2>2. \A p \in Project : \A n \in Branch : snap[p].dates[n] \in Nat
    BY DEF TypeOK, Snapshot
  <2>3. UnknownTarget.main = NoBranch /\ \A n \in Branch : UnknownTarget.dates[n] = 0
    BY DEF UnknownTarget
  <2>. QED  BY <2>1, <2>2, <2>3, ConstantTypes, ConstantsAssumption DEF TypeOK
<1>1. CASE Resume \/ StartNew \/ Crash
  <2>1. \A p \in Project : snap'[p] = UnknownTarget
    BY <1>1 DEF Resume, StartNew, Start, Crash, FreshProcess
  <2>. QED  BY <1>0, <2>1 DEF SnapFits
\* Projects that did not read their list in this step.
<1>2. ASSUME NEW p \in Project, snap'[p] = snap[p],
             projPc'[p] \in {"waiting", "admitted"} => projPc[p] \in {"waiting", "admitted"},
             projPc'[p] = "main" => /\ projPc[p] = "main" /\ tMain'[p] = tMain[p]
                                    /\ tDate'[p][tMain[p]] >= tDate[p][tMain[p]],
             \A b \in NonMain(p) : tDate'[p][b] >= tDate[p][b]
      PROVE  /\ snap'[p].main = NoBranch \/ projPc'[p] \in {"waiting", "admitted"} => snap'[p] = UnknownTarget
             /\ \A b \in NonMain(p) : snap'[p].dates[b] <= tDate'[p][b]
             /\ projPc'[p] = "main" /\ snap'[p].main # NoBranch =>
                  snap'[p].main = tMain'[p] /\ snap'[p].dates[tMain'[p]] <= tDate'[p][tMain'[p]]
  <2>1. snap'[p].main = NoBranch \/ projPc'[p] \in {"waiting", "admitted"} => snap'[p] = UnknownTarget
    BY <1>2 DEF SnapFits
  <2>2. \A b \in NonMain(p) : snap'[p].dates[b] <= tDate'[p][b]
    BY <1>0, <1>2 DEF SnapFits
  <2>3. projPc'[p] = "main" /\ snap'[p].main # NoBranch =>
          snap'[p].main = tMain'[p] /\ snap'[p].dates[tMain'[p]] <= tDate'[p][tMain'[p]]
    BY <1>0, <1>2 DEF SnapFits
  <2>. QED  BY <2>1, <2>2, <2>3
<1>3. CASE Cancel \/ Finish \/ StopAdmitting \/ UNCHANGED vars
  <2>1. /\ UNCHANGED <<snap, tMain, tDate>>
        /\ UNCHANGED projPc \/ projPc' = [p \in Project |-> IF projPc[p] = "waiting" THEN "dropped" ELSE projPc[p]]
    BY <1>3 DEF Cancel, Finish, StopAdmitting, vars, targetVars
  <2>2. \A p \in Project : projPc'[p] = projPc[p] \/ projPc'[p] = "dropped"
    BY <2>1
  <2>. QED  BY <1>0, <1>2, <2>1, <2>2 DEF SnapFits
<1>4. CASE \E q \in Project : ProjectStep(q)
  <2>1. PICK q \in Project : ProjectStep(q)
    BY <1>4
  <2>2. CASE ImportProjectDataOne(q)
    <3>1. /\ projPc[q] = "admitted" /\ UNCHANGED targetVars
          /\ \/ UNCHANGED snap /\ \E place \in {"dropped", "main"} : GotoProject(q, place)
             \/ /\ snap' = [snap EXCEPT ![q] = [main |-> tMain[q], dates |-> tDate[q]]]
                /\ GotoProject(q, "main")
      BY <2>2 DEF ImportProjectDataOne
    <3>2. ASSUME NEW p \in Project, p # q
          PROVE  snap'[p] = snap[p] /\ projPc'[p] = projPc[p] /\ tMain'[p] = tMain[p] /\ tDate'[p] = tDate[p]
      BY <1>0, <3>1, <3>2 DEF GotoProject, targetVars
    <3>3. /\ projPc'[q] \in {"dropped", "main"} /\ tMain'[q] = tMain[q] /\ tDate'[q] = tDate[q]
          /\ snap'[q] = UnknownTarget \/ (snap'[q].main = tMain[q] /\ snap'[q].dates = tDate[q])
      <4>1. projPc'[q] \in {"dropped", "main"} /\ tMain'[q] = tMain[q] /\ tDate'[q] = tDate[q]
        BY <1>0, <3>1 DEF GotoProject, targetVars
      <4>2. snap[q] = UnknownTarget
        BY <3>1 DEF SnapFits
      <4>3. CASE snap' = [snap EXCEPT ![q] = [main |-> tMain[q], dates |-> tDate[q]]]
        <5>1. snap'[q] = [main |-> tMain[q], dates |-> tDate[q]]
          BY <1>0, <4>3
        <5>. QED  BY <4>1, <5>1
      <4>. QED  BY <3>1, <4>1, <4>2, <4>3
    <3>4. ASSUME NEW p \in Project
          PROVE  /\ snap'[p].main = NoBranch \/ projPc'[p] \in {"waiting", "admitted"} => snap'[p] = UnknownTarget
                 /\ \A b \in NonMain(p) : snap'[p].dates[b] <= tDate'[p][b]
                 /\ projPc'[p] = "main" /\ snap'[p].main # NoBranch =>
                      snap'[p].main = tMain'[p] /\ snap'[p].dates[tMain'[p]] <= tDate'[p][tMain'[p]]
      <4>1. CASE p # q
        BY <1>0, <1>2, <3>2, <4>1
      <4>2. CASE p = q
        BY <1>0, <3>3, <4>2
      <4>. QED  BY <4>1, <4>2
    <3>. QED  BY <3>4 DEF SnapFits
  <2>3. CASE ~ImportProjectDataOne(q)
    <3>1. /\ UNCHANGED snap
          /\ UNCHANGED projPc \/ \E place \in ProjectPlace \ {"waiting", "main"} :
               GotoProject(q, place) /\ (place = "admitted" => projPc[q] = "waiting")
          /\ UNCHANGED targetVars \/ RenameSCMainBranchToSource(q)
      <4>1. {"admitted", "rename", "fanout", "done"} \subseteq ProjectPlace \ {"waiting", "main"}
        BY DEF ProjectPlace, Admitted
      <4>. QED  BY <2>1, <2>3, <4>1 DEF ProjectStep, AdmitProject, GatedImportMain, RecordPhase1Skips,
                EndPhase1, RenameSCMainBranchToSource, FinishProject
    <3>2. \A p \in Project : /\ projPc'[p] \in {"waiting", "admitted"} => projPc[p] \in {"waiting", "admitted"}
                             /\ projPc'[p] = "main" => projPc[p] = "main"
      <4>. SUFFICES ASSUME NEW p \in Project, projPc'[p] # projPc[p]
                    PROVE  projPc'[p] # "waiting" /\ projPc'[p] # "main"
                           /\ (projPc'[p] = "admitted" => projPc[p] = "waiting")
        OBVIOUS
      <4>1. PICK place \in ProjectPlace \ {"waiting", "main"} :
               GotoProject(q, place) /\ (place = "admitted" => projPc[q] = "waiting")
        BY <3>1
      <4>. QED  BY <1>0, <4>1 DEF GotoProject
    <3>3. \A p \in Project : /\ \A b \in NonMain(p) : tDate'[p][b] = tDate[p][b]
                             /\ projPc'[p] = "main" => tMain'[p] = tMain[p] /\ tDate'[p] = tDate[p]
      <4>1. CASE UNCHANGED targetVars
        BY <4>1 DEF targetVars
      <4>2. CASE RenameSCMainBranchToSource(q)
        <5>1. projPc'[q] = "fanout"
          BY <1>0, <4>2 DEF RenameSCMainBranchToSource, GotoProject
        <5>. QED  BY <4>2, <5>1, RenameKeeps
      <4>. QED  BY <3>1, <4>1, <4>2
    <3>. QED  BY <1>0, <1>2, <3>1, <3>2, <3>3 DEF SnapFits
  <2>. QED  BY <2>2, <2>3
<1>5. CASE \E q \in Project : \E c \in Branches[q] : BranchStep(q, c)
  <2>1. UNCHANGED <<snap, projPc, tMain, tDate>>
    BY <1>5, BranchFrame
  <2>. QED  BY <2>1 DEF SnapFits
<1>6. CASE ComputeEngine
  <2>1. PICK t \in queue : ProcessReport(t)
    BY <1>6 DEF ComputeEngine
  <2>2. UNCHANGED <<snap, projPc, tMain>> /\ \A p \in Project : \A n \in Branch : tDate'[p][n] >= tDate[p][n]
    BY <2>1, ReportFrame, AnswerKeeps
  <2>. QED  BY <1>0, <1>2, <2>2 DEF SnapFits
<1>. QED  BY <1>1, <1>3, <1>4, <1>5, <1>6 DEF Next, Stopped

-----------------------------------------------------------------------------
\* Only two steps of a branch write a row that says it is migrated.
LEMMA OtherWordsStay ==
  ASSUME TypeOK, [Next]_vars, ~StartNew, NEW p \in Project, NEW b \in Branches[p],
         RowStatuses(p, b) \cap Complete = {},
         ~(BranchStep(p, b) /\ brPc[p][b] = "ready" /\ TargetUpToDate(p, b)),
         ~(BranchStep(p, b) /\ brPc[p][b] = "poll" /\ verdict[p][b] = "SUCCESS")
  PROVE  RowStatuses(p, b)' \cap Complete = {}
<1>0. /\ b \in Branch /\ \A q \in Project : SrcMain[q] \in Branch
      /\ rows \in [Project -> [Branch -> Seq(Row)]]
      /\ {"cancelled", "failed", "skipped", "no_data", "main_failed"} \subseteq Status \ Complete
  BY ConstantTypes DEF TypeOK, Status, Complete
<1>1. CASE rows'[p][b] = rows[p][b]
  BY <1>1 DEF RowStatuses
<1>2. ASSUME NEW q \in Project, NEW c \in Branch, NEW status \in Status \ Complete, Record(q, c, status)
      PROVE  RowStatuses(p, b)' \cap Complete = {}
  <2>1. CASE q = p
    BY <1>0, <1>2, <2>1, RecordKeepsIncomplete
  <2>2. CASE q # p
    <3>1. rows'[p] = rows[p]
      BY <1>0, <1>2, <2>2 DEF Record
    <3>. QED  BY <1>1, <3>1
  <2>. QED  BY <2>1, <2>2
<1>3. CASE Resume \/ Crash \/ Cancel \/ Finish \/ StopAdmitting \/ ComputeEngine \/ UNCHANGED vars
  <2>1. UNCHANGED rows
    BY <1>3, Zenon DEF Resume, Crash, Cancel, Finish, StopAdmitting, ComputeEngine, ProcessReport, vars
  <2>. QED  BY <1>1, <2>1
<1>4. CASE \E q \in Project : ProjectStep(q)
  <2>1. PICK q \in Project : ProjectStep(q)
    BY <1>4
  <2>2. CASE RecordPhase1Skips(q)
    <3>. DEFINE r == [status |-> IF cancelled THEN "cancelled" ELSE "main_failed", attempt |-> attempt]
    <3>1. r \in Row /\ r.status \notin Complete
      BY DEF TypeOK, Row, Status, Complete
    <3>2. rows'[p][b] = rows[p][b] \/ rows'[p][b] = Append(rows[p][b], r)
      <4>1. CASE q # p
        BY <1>0, <2>2, <4>1 DEF RecordPhase1Skips
      <4>2. CASE q = p
        <5>1. rows'[p] = [c \in Branch |-> IF c \in NonMain(p) THEN Append(rows[p][c], r) ELSE rows[p][c]]
          BY <1>0, <2>2, <4>2 DEF RecordPhase1Skips
        <5>. QED  BY <1>0, <5>1
      <4>. QED  BY <4>1, <4>2
    <3>. HIDE DEF r
    <3>3. rows[p][b] \in Seq(Row)
      BY <1>0
    <3>4. ASSUME rows'[p][b] = Append(rows[p][b], r)
          PROVE  RowStatuses(p, b)' \cap Complete = {}
      <4>1. \A i \in DOMAIN rows'[p][b] :
              rows'[p][b][i] = r \/ (i \in DOMAIN rows[p][b] /\ rows'[p][b][i] = rows[p][b][i])
        BY <3>1, <3>3, <3>4, AppendStatus
      <4>. QED  BY <3>1, <4>1 DEF RowStatuses
    <3>. QED  BY <1>1, <3>2, <3>4
  <2>3. CASE GatedImportMain(q)
    BY <1>0, <1>1, <1>2, <2>3 DEF GatedImportMain
  <2>4. CASE ~RecordPhase1Skips(q) /\ ~GatedImportMain(q)
    <3>1. UNCHANGED rows
      BY <2>1, <2>4 DEF ProjectStep, AdmitProject, ImportProjectDataOne, EndPhase1,
                        RenameSCMainBranchToSource, FinishProject
    <3>. QED  BY <1>1, <3>1
  <2>. QED  BY <2>2, <2>3, <2>4
<1>5. CASE \E q \in Project : \E c \in Branches[q] : BranchStep(q, c)
  <2>1. PICK q \in Project : \E c \in Branches[q] : BranchStep(q, c)
    BY <1>5
  <2>2. PICK c \in Branches[q] : BranchStep(q, c)
    BY <2>1
  <2>3. CASE <<p, b>> # <<q, c>>
    BY <1>0, <1>1, <2>2, <2>3, BranchFrame
  <2>4. CASE p = q /\ b = c
    <3>1. BranchStep(p, b)
      BY <2>2, <2>4
    <3>2. UNCHANGED rows \/ \E status \in Status \ Complete : Record(p, b, status)
      <4>1. CASE ImportAndRecordBranch(p, b)
        <5>1. ~TargetUpToDate(p, b)
          BY <3>1, <4>1 DEF ImportAndRecordBranch
        <5>. QED  BY <4>1, <5>1 DEF ImportAndRecordBranch
      <4>2. CASE PollCETask(p, b)
        BY <1>0, <3>1, <4>2 DEF PollCETask, EndBranch
      <4>3. CASE ReplayHistoryPoint(p, b) \/ PollHistoryPoint(p, b) \/ EndHistory(p, b)
        BY <4>3 DEF ReplayHistoryPoint, PollHistoryPoint, EndHistory
      <4>4. CASE AdmitBranch(p, b) \/ CancelledBeforeImport(p, b) \/ AcquireBuildSem(p, b)
        BY <1>0, <4>4 DEF AdmitBranch, CancelledBeforeImport, AcquireBuildSem, EndBranch
      <4>5. CASE BuildAndSubmit(p, b)
        BY <1>0, <4>5 DEF BuildAndSubmit, EndBranch
      <4>. QED  BY <3>1, <4>1, <4>2, <4>3, <4>4, <4>5 DEF BranchStep
    <3>. QED  BY <1>0, <1>1, <1>2, <3>2
  <2>. QED  BY <2>3, <2>4
<1>. QED  BY <1>3, <1>4, <1>5 DEF Next, Stopped

\* What a list entry says of a branch is true of the target.
LEMMA UpToDateIsHeld ==
  ASSUME NamesApart, TypeOK, MainNames, MainInPhase1, SnapFits, NEW p \in Project, NEW b \in Branches[p],
         brPc[p][b] \in Gated, TargetUpToDate(p, b)
  PROVE  HeldAt(p, b)
<1>1. /\ b \in Branch /\ tMain[p] \in Branch
      /\ \A n \in Branch : tDate[p][n] \in Nat /\ snap[p].dates[n] \in Nat
      /\ \A n \in Branch : UnknownTarget.dates[n] = 0
  BY ConstantTypes DEF TypeOK, Snapshot, UnknownTarget
<1>2. snap[p].dates[LookupName(p, b)] >= Due(p, b) /\ Due(p, b) \in Nat /\ Due(p, b) # 0
  BY <1>1, DueType DEF TargetUpToDate, Due
<1>3. CASE IsMain(p, b)
  <2>1. projPc[p] = "main"
    BY <1>3 DEF IsMain, MainInPhase1
  <2>2. snap[p].main # NoBranch
    BY <1>1, <1>2, <1>3 DEF SnapFits, LookupName
  <2>3. LookupName(p, b) = tMain[p] /\ snap[p].dates[tMain[p]] <= tDate[p][tMain[p]]
    BY <1>3, <2>1, <2>2 DEF SnapFits, LookupName
  <2>. QED  BY <1>1, <1>2, <1>3, <2>3 DEF HeldAt, TargetName
<1>4. CASE ~IsMain(p, b)
  <2>1. b \in NonMain(p) /\ LookupName(p, b) = b
    BY <1>4 DEF NonMain, IsMain, LookupName
  <2>2. snap[p].dates[b] <= tDate[p][b]
    BY <2>1 DEF SnapFits
  <2>. QED  BY <1>1, <1>2, <1>4, <2>1, <2>2 DEF HeldAt, TargetName
<1>. QED  BY <1>3, <1>4

\* A SUCCESS answers the report the branch polls, which carries its snapshot.
LEMMA VerdictFrom ==
  ASSUME NamesApart, TypeOK, MainNames, PolledFit, MainInPhase1, [Next]_vars,
         NEW p \in Project, NEW b \in Branches[p],
         brPc'[p][b] = "poll", verdict'[p][b] = "SUCCESS"
  PROVE  (brPc[p][b] = "poll" /\ verdict[p][b] = "SUCCESS") \/ HeldAt(p, b)'
<1>0. /\ b \in Branch /\ SrcMain[p] \in Branch
      /\ brPc \in [Project -> [Branch -> BranchPlace]]
      /\ verdict \in [Project -> [Branch -> {"none", "SUCCESS", "FAILED"}]]
  BY ConstantTypes DEF TypeOK
<1>1. CASE Resume \/ StartNew \/ Crash
  BY <1>0, <1>1 DEF Resume, StartNew, Start, Crash, FreshProcess
<1>2. CASE Cancel \/ Finish \/ StopAdmitting \/ UNCHANGED vars
  BY <1>2 DEF Cancel, Finish, StopAdmitting, vars
<1>3. CASE \E q \in Project : ProjectStep(q)
  <2>1. PICK q \in Project : ProjectStep(q)
    BY <1>3
  <2>2. UNCHANGED verdict /\ (UNCHANGED brPc \/ \E place \in {"ready", "error"} : Goto(q, SrcMain[q], place))
    BY <2>1 DEF ProjectStep, AdmitProject, ImportProjectDataOne, GatedImportMain, RecordPhase1Skips,
                EndPhase1, RenameSCMainBranchToSource, FinishProject
  <2>3. brPc[p][b] = "poll"
    <3>1. CASE UNCHANGED brPc
      BY <3>1
    <3>2. ASSUME NEW place \in {"ready", "error"}, Goto(q, SrcMain[q], place) PROVE brPc[p][b] = "poll"
      BY <1>0, <3>2 DEF Goto
    <3>. QED  BY <2>2, <3>1, <3>2
  <2>. QED  BY <2>2, <2>3
<1>4. CASE \E q \in Project : \E c \in Branches[q] : BranchStep(q, c)
  <2>1. PICK q \in Project : \E c \in Branches[q] : BranchStep(q, c)
    BY <1>4
  <2>2. PICK c \in Branches[q] : BranchStep(q, c)
    BY <2>1
  <2>3. <<p, b>> # <<q, c>>
    BY <2>2, BranchAwaits
  <2>. QED  BY <1>0, <2>2, <2>3, BranchFrame
<1>5. CASE ComputeEngine
  <2>1. PICK t \in queue : ProcessReport(t)
    BY <1>5 DEF ComputeEngine
  <2>2. UNCHANGED <<run, brPc, tMain, srcDate>> /\ t.proj \in Project /\ t.src \in Branch
    BY <2>1, ReportFrame, ReportFields
  <2>3. CASE verdict[p][b] = "SUCCESS"
    BY <2>2, <2>3
  <2>4. CASE verdict[p][b] # "SUCCESS"
    <3>1. /\ t.polled /\ CEAccepts(t) /\ p = t.proj /\ b = t.src
          /\ tDate' = [tDate EXCEPT ![t.proj][TargetName(t.proj, t.src)] = t.date]
      <4>1. \/ /\ CEAccepts(t) /\ Answer(t, "SUCCESS")
               /\ tDate' = [tDate EXCEPT ![t.proj][TargetName(t.proj, t.src)] = t.date]
            \/ Answer(t, "FAILED")
        BY <2>1 DEF ProcessReport
      <4>2. verdict' # verdict
        BY <2>4
      <4>3. t.polled /\ \/ verdict' = [verdict EXCEPT ![t.proj][t.src] = "SUCCESS"] /\ Answer(t, "SUCCESS")
                        \/ verdict' = [verdict EXCEPT ![t.proj][t.src] = "FAILED"] /\ Answer(t, "FAILED")
        BY <4>1, <4>2 DEF Answer
      <4>4. p = t.proj /\ b = t.src /\ ~Answer(t, "FAILED")
        <5>1. ASSUME NEW x \in {"SUCCESS", "FAILED"}, verdict' = [verdict EXCEPT ![t.proj][t.src] = x]
              PROVE  p = t.proj /\ b = t.src /\ x = "SUCCESS"
          BY <1>0, <2>2, <2>4, <5>1
        <5>. QED  BY <4>3, <5>1 DEF Answer
      <4>. QED  BY <4>1, <4>3, <4>4
    <3>2. run = "running" /\ attempt > 0 /\ t.date = SubmitDate(p, b)
      BY <2>2, <3>1 DEF PolledFit, MainInPhase1
    <3>3. t.date >= Due(p, b) /\ Due(p, b)' = Due(p, b) /\ TargetName(p, b)' = TargetName(p, b)
      BY <1>0, <2>2, <3>2, DueType DEF Due, TargetName
    <3>4. tDate'[p][TargetName(p, b)] = t.date
      <4>1. TargetName(p, b) \in Branch /\ tDate \in [Project -> [Branch -> Nat]]
        BY <1>0 DEF TargetName, TypeOK
      <4>. QED  BY <3>1, <4>1
    <3>. QED  BY <3>3, <3>4 DEF HeldAt
  <2>. QED  BY <2>3, <2>4
<1>. QED  BY <1>1, <1>2, <1>3, <1>4, <1>5 DEF Next, Stopped

LEMMA NextWords ==
  ASSUME NamesApart, TypeOK, Ledger, [Next]_vars PROVE WordsAreTrue'
<1>1. CASE StartNew
  <2>1. \A p \in Project : \A b \in Branch : rows'[p][b] = << >> /\ brPc'[p][b] = "idle"
    BY <1>1 DEF StartNew, Start, FreshProcess
  <2>2. \A p \in Project : \A b \in Branches[p] : RowStatuses(p, b)' = {} /\ brPc'[p][b] # "poll"
    BY <2>1, ConstantTypes DEF RowStatuses
  <2>. QED  BY <2>2 DEF WordsAreTrue
<1>2. CASE ~StartNew
  <2>. SUFFICES ASSUME NEW p \in Project, NEW b \in Branches[p]
                PROVE  /\ RowStatuses(p, b)' \cap Complete # {} => HeldAt(p, b)'
                       /\ brPc'[p][b] = "poll" /\ verdict'[p][b] = "SUCCESS" => HeldAt(p, b)'
    BY DEF WordsAreTrue
  <2>1. HeldAt(p, b) => HeldAt(p, b)'
    BY <1>2, HeldStays DEF Ledger
  <2>2. ASSUME RowStatuses(p, b)' \cap Complete # {}
        PROVE  HeldAt(p, b)'
    <3>1. CASE RowStatuses(p, b) \cap Complete # {} \/ (brPc[p][b] = "poll" /\ verdict[p][b] = "SUCCESS")
      BY <2>1, <3>1 DEF Ledger, WordsAreTrue
    <3>2. CASE brPc[p][b] = "ready" /\ TargetUpToDate(p, b)
      BY <2>1, <3>2, UpToDateIsHeld DEF Ledger, Gated
    <3>. QED  BY <1>2, <2>2, <3>1, <3>2, OtherWordsStay
  <2>3. ASSUME brPc'[p][b] = "poll", verdict'[p][b] = "SUCCESS"
        PROVE  HeldAt(p, b)'
    BY <2>1, <2>3, VerdictFrom DEF Ledger, WordsAreTrue
  <2>. QED  BY <2>2, <2>3
<1>. QED  BY <1>1, <1>2

LEMMA InitLedger == ASSUME Init, NamesApart PROVE Ledger
<1>1. /\ run = "down" /\ attempt = 0 /\ queue = {} /\ \A p \in Project : projPc[p] = "waiting" /\ snap[p] = UnknownTarget
      /\ \A p \in Project : tMain[p] = DefaultMain
      /\ \A p \in Project : \A b \in Branch :
           brPc[p][b] = "idle" /\ verdict[p][b] = "none" /\ hist[p][b] = {} /\ tDate[p][b] = 0 /\ rows[p][b] = << >>
  BY DEF Init
<1>2. /\ UnknownTarget.main = NoBranch /\ \A b \in Branch : UnknownTarget.dates[b] = 0
      /\ \A p \in Project : SrcMain[p] \in Branch /\ Branches[p] \subseteq Branch /\ NonMain(p) \subseteq Branch
  BY ConstantTypes DEF UnknownTarget
<1>3. MainNames /\ ReportsFit /\ PolledFit /\ HistoryFits
  BY <1>1, <1>2 DEF MainNames, ReportsFit, PolledFit, HistoryFits
<1>4. MainInPhase1
  BY <1>1, <1>2 DEF MainInPhase1, Gated
<1>5. SnapFits
  BY <1>1, <1>2 DEF SnapFits
<1>6. NewestIsOwn
  <2>1. ASSUME NEW p \in Project, NEW b \in Branches[p]
        PROVE  ~HeldAt(p, b)
    <3>1. b \in Branch /\ TypeOK /\ tMain[p] = DefaultMain /\ DefaultMain \in Branch
      BY <1>1, <1>2, TypeInit, ConstantsAssumption
    <3>2. srcDate[p][b] \in Nat /\ MaxDate \in Nat
      BY <3>1, ConstantsAssumption DEF TypeOK
    <3>3. Due(p, b) > 0
      BY <3>2 DEF Due
    <3>4. TargetName(p, b) \in Branch
      BY <3>1 DEF TargetName
    <3>5. tDate[p][TargetName(p, b)] = 0 /\ Due(p, b) \in Nat
      BY <1>1, <3>2, <3>4 DEF Due
    <3>. QED  BY <3>3, <3>5 DEF HeldAt
  <2>. QED  BY <2>1 DEF NewestIsOwn
<1>7. WordsAreTrue
  BY <1>1, <1>2 DEF WordsAreTrue, RowStatuses
<1>. QED  BY <1>3, <1>4, <1>5, <1>6, <1>7 DEF Ledger

LEMMA NextLedger ==
  ASSUME NamesApart, TypeOK, Books, Ledger, [Next]_vars PROVE Ledger'
BY NextNames, NextReports, NextPolled, NextHistory, NextMainInPhase1, NextSnap, NextNewest, NextWords
   DEF Ledger, Books

\* The target a run talks about is the one it wrote to: a row that says that a
\* branch is migrated is true of Cloud, through crashes, retries and resumed
\* runs, when no other branch of a project has the name Cloud gives to main.
THEOREM CompleteRowsAreTrue ==
  ASSUME NamesApart PROVE Spec => []CompleteRowsAreMigrated
<1>1. ASSUME TypeOK, Ledger PROVE CompleteRowsAreMigrated
  <2>1. ASSUME NEW p \in Project, NEW b \in Branches[p], RowStatuses(p, b) \cap Complete # {}
        PROVE  Held(p, b)
    <3>1. HeldAt(p, b) /\ tSrc[p][TargetName(p, b)] = b
      BY <1>1, <2>1 DEF Ledger, WordsAreTrue, NewestIsOwn
    <3>2. b \in Branch /\ TargetName(p, b) \in Branch
      BY <1>1, ConstantTypes DEF TargetName, TypeOK
    <3>3. tDate[p][TargetName(p, b)] \in Nat /\ Due(p, b) \in Nat /\ Due(p, b) >= srcDate[p][b] /\ srcDate[p][b] \in Nat
      BY <1>1, <3>2, DueType DEF TypeOK
    <3>4. tDate[p][TargetName(p, b)] >= srcDate[p][b]
      BY <3>1, <3>3 DEF HeldAt
    <3>. QED  BY <3>1, <3>2, <3>4 DEF Held
  <2>. QED  BY <2>1 DEF CompleteRowsAreMigrated
<1>2. Init => Ledger
  BY InitLedger
<1>3. TypeOK /\ Books /\ Ledger /\ [Next]_vars => Ledger'
  BY NextLedger
<1>4. TypeOK /\ Ledger => CompleteRowsAreMigrated
  BY <1>1
<1>. QED  BY <1>2, <1>3, <1>4, InitBooks, NextBooks, ImportTypeCorrect, PTL DEF Spec

\* The report a run waits for is refused as too old only when the target holds
\* the branch already: what earlier runs left in the Compute Engine, reports
\* sent twice and the replay of the history cannot cost it its snapshot.
THEOREM NoReportIsOvertaken ==
  ASSUME NamesApart PROVE Spec => []TooOldMeansHeld
<1>1. ASSUME TypeOK, Ledger PROVE TooOldMeansHeld
  <2>1. ASSUME NEW t \in queue, t.full, t.polled, t.date <= tDate[t.proj][TargetName(t.proj, t.src)]
        PROVE  Held(t.proj, t.src)
    <3>. DEFINE p == t.proj
                b == t.src
    <3>1. p \in Project /\ b \in Branches[p] /\ b \in Branch /\ t.date \in Nat /\ TargetName(p, b) \in Branch
      BY <1>1, ReportFields DEF Ledger, ReportsFit, TargetName, TypeOK
    <3>2. run = "running" /\ attempt > 0 /\ t.date = SubmitDate(p, b)
      BY <1>1, <2>1 DEF Ledger, PolledFit, MainInPhase1
    <3>3. /\ t.date >= Due(p, b) /\ tDate[p][TargetName(p, b)] \in Nat
          /\ Due(p, b) \in Nat /\ Due(p, b) >= srcDate[p][b] /\ srcDate[p][b] \in Nat
      BY <1>1, <3>1, <3>2, DueType DEF TypeOK
    <3>4. HeldAt(p, b) /\ tDate[p][TargetName(p, b)] >= srcDate[p][b]
      BY <2>1, <3>1, <3>3 DEF HeldAt
    <3>5. tSrc[p][TargetName(p, b)] = b
      BY <1>1, <3>1, <3>4 DEF Ledger, NewestIsOwn
    <3>. QED  BY <3>1, <3>4, <3>5 DEF Held
  <2>. QED  BY <2>1 DEF TooOldMeansHeld
<1>2. Init => Ledger
  BY InitLedger
<1>3. TypeOK /\ Books /\ Ledger /\ [Next]_vars => Ledger'
  BY NextLedger
<1>4. TypeOK /\ Ledger => TooOldMeansHeld
  BY <1>1
<1>. QED  BY <1>2, <1>3, <1>4, InitBooks, NextBooks, ImportTypeCorrect, PTL DEF Spec
=============================================================================
