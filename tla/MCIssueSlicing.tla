--------------------------- MODULE MCIssueSlicing ---------------------------
(***************************************************************************)
(* IssueSlicing on projects of up to seven issues, two of which a fetch    *)
(* returns.                                                                *)
(***************************************************************************)
EXTENDS IssueSlicing

MCIssue == 1..7

Attributes(kinds, rules, files) == [kind |-> kinds, rule |-> rules, file |-> files]
Apart == <<"a", "b", "a", "b", "c", "c", "a">>
Same  == <<"a", "a", "a", "a", "a", "a", "a">>
Unfiled == <<"a", "b", NoValue, NoValue, "c", "c", NoValue>>

\* Dates spread over the range; most issues of one second, in cells that fit;
\* in one cell, with files that do not account for all; a second at the end of
\* the range in one cell that nothing splits; more buckets than the server returns.
MCProjects == {
    [second |-> <<0, 1, 2, 2, 5, 3, 6>>, facet |-> Attributes(Apart, Same, Same), atFirst |-> 1..5],
    [second |-> <<3, 3, 3, 3, 0, 3, 5>>, facet |-> Attributes(Apart, Apart, Same), atFirst |-> 1..5],
    [second |-> <<2, 2, 2, 2, 5, 2, 2>>, facet |-> Attributes(Same, Same, Unfiled), atFirst |-> 1..5],
    [second |-> <<5, 5, 5, 4, 4, 6, 6>>, facet |-> Attributes(Same, Same, Same), atFirst |-> 1..5],
    [second |-> <<4, 4, 4, 4, 4, 4, 0>>,
     facet |-> Attributes(Same, <<"a", "b", "c", "d", "b", "c", "a">>, Apart), atFirst |-> 1..5]}
=============================================================================
