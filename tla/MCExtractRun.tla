---------------------------- MODULE MCExtractRun ---------------------------
(* Small instances of ExtractRun for TLC. *)
EXTENDS ExtractRun

CONSTANTS issues, measures, rules, p1, p2, p3
OnePhase == <<{issues, measures}>>
TwoPhases == <<{issues, measures}, {rules}>>
=============================================================================
