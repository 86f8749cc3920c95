---------------------------- MODULE MCResumption ----------------------------
(***************************************************************************)
(* Three parts that share no state, checked in one run: the import of one  *)
(* project that is resumed, the extracts a resume merges and the wizard's  *)
(* session.  Each behaviour is of one of them; the others rest in their    *)
(* initial state.                                                          *)
(***************************************************************************)
EXTENDS MCImportProjectData, MCExtractMerge, WizardPhases

VARIABLE turn

ResumptionInit ==
  /\ Init /\ MergeInit /\ WizardInit
  /\ turn \in {"import", "merge", "wizard"}

ResumptionNext ==
  \/ turn = "import" /\ Next /\ UNCHANGED <<turn, mvars, wvars>>
  \/ turn = "merge" /\ MergeNext /\ UNCHANGED <<turn, vars, wvars>>
  \/ turn = "wizard" /\ WizardNext /\ UNCHANGED <<turn, vars, mvars>>
  \* Only the import is to have a next step at all times.
  \/ turn # "import" /\ UNCHANGED <<turn, vars, mvars, wvars>>

ResumptionSpec == /\ ResumptionInit
                  /\ [][ResumptionNext]_<<turn, vars, mvars, wvars>>

\* What was done before stands: a resumed extract pushes no other one out of
\* what is read, and an answer of the user is exported as he gave it last.
EarlierWorkStands == ResumeHidesNoExtract /\ LastWordIsExported
=============================================================================
