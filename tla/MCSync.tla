------------------------------- MODULE MCSync -------------------------------
(***************************************************************************)
(* Three parts that share no state, checked in one run: the sync of issues *)
(* and hotspots, the migration of global settings, and that of quality     *)
(* gates.  Each behaviour is of one of them; the others rest in an initial *)
(* state.                                                                  *)
(***************************************************************************)
EXTENDS MCIssueSync, MCSettingsMigration, MCGateConditions

VARIABLE turn

SomeWorld     == world = CHOOSE x \in Worlds : TRUE
SomeSetup     == setup = CHOOSE x \in Scenarios : TRUE
SomeGateSetup == gateSetup = CHOOSE x \in GateSetups : TRUE

SideInit ==
  /\ Init /\ SettingsInit /\ GatesInit
  /\ \/ turn = "sync" /\ SomeSetup /\ known = {} /\ SomeGateSetup
     \/ turn = "settings" /\ SomeWorld /\ SomeGateSetup
     \/ turn = "gates" /\ SomeWorld /\ SomeSetup /\ known = {}

SideNext ==
  \/ turn = "sync" /\ Next /\ UNCHANGED <<turn, svars, qvars>>
  \/ turn = "settings" /\ SettingsNext /\ UNCHANGED <<turn, vars, qvars>>
  \/ turn = "gates" /\ GatesNext /\ UNCHANGED <<turn, vars, svars>>

SideSpec == SideInit /\ [][SideNext]_<<turn, vars, svars, qvars>>
=============================================================================
