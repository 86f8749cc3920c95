------------------------- MODULE MCSyntheticHistory -------------------------
(***************************************************************************)
(* Points of small files: one part of the measures varies, the others are  *)
(* missing, for each part.  More is uncovered than there is to cover, and  *)
(* more blocks are duplicated than lines, as the code allows for.          *)
(***************************************************************************)
EXTENDS SyntheticHistory

NoMeasures == [m \in Metric |-> 0]

Upto == 0..4

CoveragePoints ==
    {[NoMeasures EXCEPT !.lines = l, !.lines_to_cover = a, !.uncovered_lines = b,
                        !.conditions_to_cover = c, !.uncovered_conditions = d]
       : l \in {0, 2}, a, b, c, d \in Upto}
DuplicationPoints ==
    {[NoMeasures EXCEPT !.ncloc = l, !.duplicated_lines = a, !.duplicated_blocks = b]
       : l \in {0, 3}, a \in 0..9, b \in Upto}
IssuePoints ==
    {[NoMeasures EXCEPT !.bugs = a, !.reliability_rating = r, !.vulnerabilities = b,
                        !.security_rating = 5, !.code_smells = c, !.sqale_index = d]
       : a \in 0..2, r \in 0..5, b \in 0..2, c \in 0..3, d \in {0, 1, 7}}

MCPoint == CoveragePoints \cup DuplicationPoints \cup IssuePoints
=============================================================================
