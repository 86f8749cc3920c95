--------------------------- MODULE AdmissionGate ---------------------------
(***************************************************************************)
(* What a gate with a moving limit promises: a unit of work enters when    *)
(* fewer units are inside than a limit that was in force while it asked,   *)
(* checked and entered in one step.  Units inside are never evicted when   *)
(* the limit drops.                                                        *)
(***************************************************************************)
EXTENDS Naturals, FiniteSets

CONSTANT Thread
VARIABLES
  inside,   \* the units admitted and not released
  limit,    \* the limit in force
  offer     \* offer[t]: a limit in force since t asked

gateVars == <<inside, limit, offer>>

GateInit ==
  /\ inside = {}
  /\ limit \in Nat \ {0}
  /\ offer \in [Thread -> Nat]

Ask(t) ==
  /\ t \notin inside
  /\ offer' = [offer EXCEPT ![t] = limit]
  /\ UNCHANGED <<inside, limit>>

Admit(t) ==
  /\ t \notin inside
  /\ Cardinality(inside) < offer[t]
  /\ inside' = inside \cup {t}
  /\ UNCHANGED <<limit, offer>>

Leave(t) ==
  /\ t \in inside
  /\ inside' = inside \ {t}
  /\ UNCHANGED <<limit, offer>>

MoveLimit ==
  /\ limit' \in Nat \ {0}
  /\ UNCHANGED <<inside, offer>>

GateNext ==
  \/ MoveLimit
  \/ \E t \in Thread : Ask(t) \/ Admit(t) \/ Leave(t)

GateSpec == GateInit /\ [][GateNext]_gateVars
=============================================================================
