---------------------------- MODULE WizardPhases ----------------------------
(***************************************************************************)
(* The wizard (go/internal/wizard): phases that extract, structure, ask    *)
(* for the Cloud organizations, map, validate and migrate, with the user   *)
(* asked at every turn.  Its state is saved after each phase and when one  *)
(* fails; the user may go back to an earlier phase, or back from one       *)
(* organization to the one before.  Every prompt may fail (the user        *)
(* cancels), the process may be killed, and the next run resumes from what *)
(* was saved.                                                              *)
(*                                                                         *)
(* Extracts and structures are numbered, and the files remember which they *)
(* were made from.  A prompt and what its answer leads to are one step.    *)
(***************************************************************************)
EXTENDS Integers, Sequences, FiniteSets

CONSTANTS
  NumOrgs,   \* rows of organizations.csv
  MaxWizardExtracts, MaxStructures, MaxKills, MaxSessions, MaxBacks   \* bounds

ASSUME WizardAssumption ==
  /\ NumOrgs \in Nat \ {0}
  /\ {MaxWizardExtracts, MaxStructures, MaxKills, MaxSessions, MaxBacks} \subseteq Nat

\* phaseSequence, between "init" and "complete".
PhaseSequence == <<"extract", "structure", "org_mapping", "mappings", "validate", "migrate">>
WizardPhaseNames == {PhaseSequence[k] : k \in DOMAIN PhaseSequence}
PhaseIndex(p) == CASE p = "init" -> 0
                 [] p = "complete" -> Len(PhaseSequence) + 1
                 [] OTHER -> CHOOSE k \in DOMAIN PhaseSequence : PhaseSequence[k] = p

NextPhase(p) == IF p = "migrate" THEN "complete" ELSE PhaseSequence[PhaseIndex(p) + 1]

OrgRows == 1 .. NumOrgs
\* sonarcloud_org_key of a row: blank, SkippedOrgSentinel, or a key.
OrgCells == {"", "SKIPPED", "key"}
Unmapped == [o \in OrgRows |-> ""]

VARIABLES
  savedState,   \* disk: .wizard_state.json, its phase and extract_id (0 if none)
  newest,       \* disk: the newest extract directory, and whether it is complete
  structured,   \* disk: number of the projects.csv, and its extract
  orgsFile,     \* disk: organizations.csv
  mappings,     \* disk: the structure the mapping files were made from
  wizardAt,     \* "off", or what the wizard is about to do
  wizardState,  \* the WizardState in memory
  current,      \* currentPhase
  orgs, question,  \* organizations.csv in memory, the row asked for
  said,         \* history: the user's last word on each row, "none" if asked for anew
  killedBack,   \* history: the process was killed while an earlier phase ran again
  sessions, kills, backs

wizardDisk == <<savedState, newest, structured, orgsFile, mappings>>
mappingVars == <<orgs, question, said>>
wizardCounts == <<sessions, kills, backs>>
wvars == <<wizardDisk, wizardAt, wizardState, current, mappingVars, killedBack, wizardCounts>>

\* The rows are local to mapAllOrganizations.
ForgetRows == orgs' = Unmapped /\ said' = Unmapped /\ question' = 1

NewState == [phase |-> "init", extract |-> 0]

WizardInit ==
  /\ savedState = NewState /\ newest = [id |-> 0, whole |-> FALSE]
  /\ structured = [id |-> 0, of |-> 0] /\ orgsFile = Unmapped /\ mappings = 0
  /\ wizardAt = "off" /\ wizardState = NewState /\ current = "init"
  /\ orgs = Unmapped /\ question = 1 /\ said = Unmapped
  /\ killedBack = FALSE /\ sessions = 0 /\ kills = 0 /\ backs = 0

\* RunWithSeed: Load; a session in progress is asked about first (handleResume).
OpenWizard ==
  /\ wizardAt = "off" /\ sessions < MaxSessions
  /\ sessions' = sessions + 1
  /\ wizardState' = savedState
  /\ IF savedState.phase = "init" THEN wizardAt' = "phase" /\ current' = "extract"
                             ELSE wizardAt' = "resume?" /\ UNCHANGED current
  /\ UNCHANGED <<wizardDisk, mappingVars, killedBack, kills, backs>>

\* handleResume and determineStartingPhase, when the user resumes.
ResumeSession ==
  /\ wizardAt = "resume?"
  /\ IF wizardState.phase = "complete" THEN wizardAt' = "new migration?" /\ UNCHANGED current
                                 ELSE wizardAt' = "phase" /\ current' = wizardState.phase
  /\ UNCHANGED <<wizardDisk, wizardState, mappingVars, killedBack, wizardCounts>>

\* handleResume, when the user starts over.
StartNewSession ==
  /\ wizardAt = "resume?"
  /\ savedState' = NewState /\ wizardState' = NewState
  /\ wizardAt' = "phase" /\ current' = "extract"
  /\ UNCHANGED <<newest, structured, orgsFile, mappings, mappingVars, killedBack, wizardCounts>>

\* A new migration after a complete one: the file is reset, the state in memory is not.
StartNewMigration ==
  /\ wizardAt = "new migration?"
  /\ savedState' = NewState
  /\ wizardAt' = "phase" /\ current' = "extract"
  /\ UNCHANGED <<newest, structured, orgsFile, mappings, wizardState, mappingVars, killedBack, wizardCounts>>

\* The user declines, or a prompt before the first phase fails: nothing is saved.
Decline ==
  /\ wizardAt \in {"resume?", "new migration?"}
  /\ wizardAt' = "off"
  /\ UNCHANGED <<wizardDisk, wizardState, current, mappingVars, killedBack, wizardCounts>>

\* Variant: a failed phase leaves the file as it was.
FailsUnsaved == wizardAt' = "restart?" /\ UNCHANGED savedState

\* A phase returns an error: the state is saved, and the user asked where to restart.
PhaseFails == wizardAt' = "restart?" /\ savedState' = wizardState

\* verifyPhasePrerequisites: the files of the phases before are there.
Prerequisites(p) ==
  /\ PhaseIndex(p) >= PhaseIndex("org_mapping") => wizardState.extract # 0 /\ structured.id # 0
  /\ PhaseIndex(p) >= PhaseIndex("validate") => mappings # 0

\* A phase is done: the state names the next one and is saved.
AdvancePhase(s) ==
  LET next == [s EXCEPT !.phase = NextPhase(current)] IN
  /\ wizardState' = next /\ savedState' = next
  /\ current' = next.phase /\ wizardAt' = IF next.phase = "complete" THEN "off" ELSE "phase"

\* runPhaseLoop enters a phase, or finds the context done or its inputs missing.
EnterPhase ==
  /\ wizardAt = "phase"
  /\ IF current \in {"extract", "structure"} \/ Prerequisites(current)
     THEN /\ wizardAt' = current
          /\ IF current = "org_mapping" THEN orgs' = orgsFile /\ question' = 1 /\ said' = orgsFile
                                   ELSE UNCHANGED mappingVars
          /\ UNCHANGED savedState
     ELSE PhaseFails /\ UNCHANGED mappingVars
  /\ UNCHANGED <<newest, structured, orgsFile, mappings, wizardState, current, killedBack, wizardCounts>>

\* The context is done between two phases.
InterruptWizard ==
  /\ wizardAt = "phase"
  /\ wizardAt' = "off" /\ savedState' = wizardState
  /\ UNCHANGED <<newest, structured, orgsFile, mappings, wizardState, current, mappingVars, killedBack, wizardCounts>>

\* A prompt or the work of a phase fails.  A phase the user may try again fails
\* when he does not.
FailPhase ==
  /\ wizardAt \in WizardPhaseNames \union {"retry extract?", "orgs written", "retry migrate?"}
  /\ PhaseFails /\ ForgetRows
  /\ UNCHANGED <<newest, structured, orgsFile, mappings, wizardState, current, killedBack, wizardCounts>>

\* phaseExtract: RunExtract in a directory of its own; the first thing it writes.
BeginExtract ==
  /\ wizardAt \in {"extract", "retry extract?"} /\ newest.id < MaxWizardExtracts
  /\ newest' = [id |-> newest.id + 1, whole |-> FALSE]
  /\ wizardAt' = "extracting"
  /\ UNCHANGED <<savedState, structured, orgsFile, mappings, wizardState, current, mappingVars, killedBack, wizardCounts>>

EndExtract ==
  /\ wizardAt = "extracting"
  /\ \/ /\ newest' = [newest EXCEPT !.whole = TRUE]
        /\ AdvancePhase([wizardState EXCEPT !.extract = newest.id])
     \/ wizardAt' = "retry extract?" /\ UNCHANGED <<newest, wizardState, savedState, current>>
  /\ UNCHANGED <<structured, orgsFile, mappings, mappingVars, killedBack, wizardCounts>>

\* phaseStructure: RunStructure reads the newest extract and writes
\* organizations.csv, with no organization mapped, then projects.csv.
ExportOrganizations ==
  /\ wizardAt = "structure" /\ structured.id < MaxStructures
  /\ orgsFile' = Unmapped
  /\ wizardAt' = "orgs written"
  /\ UNCHANGED <<savedState, newest, structured, mappings, wizardState, current, mappingVars,
                 killedBack, wizardCounts>>

ExportProjects ==
  /\ wizardAt = "orgs written"
  /\ structured' = [id |-> structured.id + 1, of |-> newest.id]
  /\ wizardAt' = "structured"
  /\ UNCHANGED <<savedState, newest, orgsFile, mappings, wizardState, current, mappingVars,
                 killedBack, wizardCounts>>

EndStructure ==
  /\ wizardAt = "structured" /\ AdvancePhase(wizardState)
  /\ UNCHANGED <<newest, structured, orgsFile, mappings, mappingVars, killedBack, wizardCounts>>

\* processOrgMapping leaves a mapped row alone.
Mapped(cell) == cell \notin {"", "SKIPPED"}

KeepRow ==
  /\ wizardAt = "org_mapping" /\ question <= NumOrgs /\ Mapped(orgs[question])
  /\ question' = question + 1
  /\ UNCHANGED <<wizardDisk, wizardAt, wizardState, current, orgs, said, killedBack, wizardCounts>>

AnswerRow(cell) ==
  /\ wizardAt = "org_mapping" /\ question <= NumOrgs /\ ~Mapped(orgs[question])
  /\ orgs' = [orgs EXCEPT ![question] = cell] /\ said' = [said EXCEPT ![question] = cell]
  /\ question' = question + 1
  /\ UNCHANGED <<wizardDisk, wizardAt, wizardState, current, killedBack, wizardCounts>>

\* ErrBack: the key of the row before is cleared, so that it is asked for again.
BackRows == [orgs EXCEPT ![question - 1] = ""]

GoBack ==
  /\ wizardAt = "org_mapping" /\ question \in 2 .. NumOrgs /\ ~Mapped(orgs[question]) /\ backs < MaxBacks
  /\ orgs' = BackRows /\ said' = [said EXCEPT ![question - 1] = "none"]
  /\ question' = question - 1 /\ backs' = backs + 1
  /\ UNCHANGED <<wizardDisk, wizardAt, wizardState, current, killedBack, sessions, kills>>

\* Every row was gone through: organizations.csv is written, then the state saved.
ExportOrgs ==
  /\ wizardAt = "org_mapping" /\ question > NumOrgs
  /\ orgsFile' = orgs
  /\ AdvancePhase(wizardState) /\ ForgetRows
  /\ UNCHANGED <<newest, structured, mappings, killedBack, wizardCounts>>

\* phaseMappings and phaseValidate
RunMappings ==
  /\ wizardAt = "mappings"
  /\ mappings' = structured.id
  /\ AdvancePhase(wizardState)
  /\ UNCHANGED <<newest, structured, orgsFile, mappingVars, killedBack, wizardCounts>>

ValidatePhase ==
  /\ wizardAt = "validate" /\ AdvancePhase(wizardState)
  /\ UNCHANGED <<newest, structured, orgsFile, mappings, mappingVars, killedBack, wizardCounts>>

\* phaseMigrate: RunMigrate starts; it ends well, or the user is asked to try again.
BeginMigrate ==
  /\ wizardAt \in {"migrate", "retry migrate?"} /\ wizardAt' = "migrating"
  /\ UNCHANGED <<wizardDisk, wizardState, current, mappingVars, killedBack, wizardCounts>>

EndMigrate ==
  /\ wizardAt = "migrating"
  /\ \/ AdvancePhase(wizardState)
     \/ wizardAt' = "retry migrate?" /\ UNCHANGED <<savedState, wizardState, current>>
  /\ UNCHANGED <<newest, structured, orgsFile, mappings, mappingVars, killedBack, wizardCounts>>

\* offerPhaseRestart and resetPhaseState: nothing of it is saved.
RestartFrom(p) ==
  /\ wizardAt = "restart?" /\ PhaseIndex(p) <= PhaseIndex(current)
  /\ wizardState' = [phase |-> p, extract |-> IF p = "extract" THEN 0 ELSE wizardState.extract]
  /\ current' = p /\ wizardAt' = "phase"
  /\ UNCHANGED <<wizardDisk, mappingVars, killedBack, wizardCounts>>

LeaveWizard ==
  /\ wizardAt = "restart?" /\ wizardAt' = "off"
  /\ UNCHANGED <<wizardDisk, wizardState, current, mappingVars, killedBack, wizardCounts>>

\* Where a phase is under way.
AtWork == WizardPhaseNames \union
  {"phase", "extracting", "retry extract?", "orgs written", "structured", "migrating",
   "retry migrate?"}

\* An earlier phase than the saved one runs again.
GoingBack == wizardAt \in AtWork /\ PhaseIndex(current) < PhaseIndex(savedState.phase)

\* The process is killed.
KillWizard ==
  /\ wizardAt # "off" /\ kills < MaxKills
  /\ wizardAt' = "off" /\ kills' = kills + 1 /\ ForgetRows
  /\ killedBack' = (killedBack \/ GoingBack)
  /\ UNCHANGED <<wizardDisk, wizardState, current, sessions, backs>>

WizardNext ==
  \/ OpenWizard \/ ResumeSession \/ StartNewSession \/ StartNewMigration \/ Decline
  \/ EnterPhase \/ InterruptWizard \/ FailPhase
  \/ BeginExtract \/ EndExtract
  \/ ExportOrganizations \/ ExportProjects \/ EndStructure
  \/ KeepRow \/ (\E cell \in OrgCells : AnswerRow(cell)) \/ GoBack \/ ExportOrgs
  \/ RunMappings \/ ValidatePhase \/ BeginMigrate \/ EndMigrate
  \/ (\E p \in WizardPhaseNames : RestartFrom(p)) \/ LeaveWizard \/ KillWizard

WizardSpec == WizardInit /\ [][WizardNext]_wvars

-----------------------------------------------------------------------------
(* Properties. *)

WizardTypeOK ==
  /\ {savedState, wizardState} \subseteq
       [phase : WizardPhaseNames \union {"init", "complete"}, extract : 0 .. MaxWizardExtracts]
  /\ newest \in [id : 0 .. MaxWizardExtracts, whole : BOOLEAN]
  /\ structured \in [id : 0 .. MaxStructures, of : 0 .. MaxWizardExtracts]
  /\ mappings \in 0 .. MaxStructures
  /\ {orgsFile, orgs} \subseteq [OrgRows -> OrgCells]
  /\ said \in [OrgRows -> OrgCells \union {"none"}]
  /\ wizardAt \in AtWork \union {"off", "resume?", "new migration?", "restart?"}
  /\ current \in WizardPhaseNames \union {"init", "complete"}
  /\ question \in 1 .. NumOrgs + 1
  /\ killedBack \in BOOLEAN
  /\ wizardAt = "phase" => current \in WizardPhaseNames

\* The inputs of a phase are there, and each was made from the one before it.
InputsOf(s) ==
  /\ PhaseIndex(s.phase) > PhaseIndex("extract") => newest = [id |-> s.extract, whole |-> TRUE]
  /\ PhaseIndex(s.phase) > PhaseIndex("structure") => structured.of = s.extract
  /\ PhaseIndex(s.phase) > PhaseIndex("mappings") => mappings = structured.id

\* Migrate runs on what was extracted last: a complete extract, its structure and
\* the mappings of that structure, however often the user failed, went back, gave
\* up and came back.  Only a process killed while an earlier phase ran again
\* escapes this, since going back is not saved.
MigratesWhatWasExtracted ==
  wizardAt = "migrating" /\ ~killedBack => InputsOf(wizardState)

\* What a later run resumes from is true: the saved phase finds its inputs
\* (verifyPhasePrerequisites only looks whether files exist).
ResumeIsSafe ==
  savedState.phase # "complete" /\ wizardAt = "off" /\ ~killedBack => InputsOf(savedState)

\* A phase never works on inputs of another migration, in this session or in
\* one that takes it up.
WizardInv == WizardTypeOK /\ MigratesWhatWasExtracted /\ ResumeIsSafe

\* organizations.csv gets the last word of the user on every organization: a row
\* he went back to is asked for again and not kept (mapAllOrganizations).
LastWordIsExported ==
  [][orgsFile' # orgsFile /\ wizardAt = "org_mapping" => orgsFile' = said]_wvars
=============================================================================
