----------------------------- MODULE MCMigration -----------------------------
(***************************************************************************)
(* What surrounds the import in a migration, checked in one run: the task  *)
(* engine, the report on what it left, and the reset that undoes it, with  *)
(* the branch guard.  They share no state: each behaviour is of one of     *)
(* them, and the others rest in an initial state.                          *)
(***************************************************************************)
EXTENDS MCMigrateRun, MCMigrationReport, MCOrgReset

VARIABLE side

SomeReport == section = "groups" /\ befell = [o \in MCObject |-> {}]
SomeReset  == default = Usual.default /\ named = Usual.named /\ home = Usual.home
SomeGuard  == /\ org = "matches" /\ own = "none" /\ consults = FALSE
              /\ target = [b \in Branch |-> "absent"]
SomeCloud  == cloud = [i \in Item |-> "absent"]

MigrationInit ==
  /\ \/ side = "engine" /\ turn = "reset" /\ SomeReport /\ SomeReset /\ SomeGuard
     \/ side = "report" /\ turn = "reset" /\ SomeCloud /\ SomeReset /\ SomeGuard
     \/ side = "reset"  /\ turn = "reset" /\ SomeCloud /\ SomeReport /\ SomeGuard
     \/ side = "reset"  /\ turn = "guard" /\ SomeCloud /\ SomeReport /\ SomeReset
                                           /\ folios = Usual.folios
  /\ Init /\ ReportInit /\ ResetInit /\ GuardInit

MigrationNext ==
  \/ side = "engine" /\ Next /\ UNCHANGED <<side, turn, rvars, ovars, tvars>>
  \/ side = "report" /\ ReportNext /\ UNCHANGED <<side, turn, vars, ovars, tvars>>
  \/ side = "reset" /\ BothNext /\ UNCHANGED <<side, vars, rvars>>

MigrationSpec ==
  MigrationInit /\ [][MigrationNext]_<<side, turn, vars, rvars, ovars, tvars>>
=============================================================================
