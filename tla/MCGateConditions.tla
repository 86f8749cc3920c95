-------------------------- MODULE MCGateConditions --------------------------
(***************************************************************************)
(* GateConditions on three rows, two of which come to one gate.            *)
(***************************************************************************)
EXTENDS GateConditions, TLC

MCGateRow == {"east", "west", "alone"}
MCTargetGate == {"shared", "single"}
MCTargetOf == [r \in MCGateRow |-> IF r = "alone" THEN "single" ELSE "shared"]

Cond(m, o, e) == [metric |-> m, op |-> o, error |-> e]

\* One metric for two, with thresholds of its own; a new name; one that is dropped.
MCReplacement ==
    ("issues" :> <<Cond("security", "GT", 1), Cond("reliability", "GT", 1)>>)
    @@ ("software_reliability" :> <<[metric |-> "reliability", op |-> Inherit, error |-> -1]>>)
    @@ ("prioritized" :> <<>>)

MCSome == Cond("security", "GT", 9)
MCNoGate == {[gate |-> "none"]}

UsualGates == [conditions |-> [r \in MCGateRow |->
              CASE r = "east" -> <<Cond("coverage", "LT", 5), Cond("issues", "GT", 0)>>
                [] r = "west" -> <<Cond("coverage", "LT", 8), Cond("software_reliability", "GT", 3)>>
                [] OTHER      -> <<Cond("prioritized", "GT", 0)>>],
          before |-> [g \in MCTargetGate |-> MCNoGate]]

\* Nothing there; both gates there, with other thresholds and metrics; operators
\* that do not compare; nothing to migrate.
MCGateSetups == {
    UsualGates,
    [UsualGates EXCEPT !.before = [g \in MCTargetGate |-> {Cond("coverage", "LT", 2), Cond("old", "GT", 7)}]],
    [UsualGates EXCEPT !.conditions["west"] = <<Cond("coverage", "GT", 8), Cond("coverage", "LT", 8)>>,
                  !.before["shared"] = {}],
    [UsualGates EXCEPT !.conditions["alone"] = <<>>, !.conditions["east"] = <<>>,
                  !.before["single"] = {Cond("old", "GT", 7)}]}
=============================================================================
