----------------------------- MODULE MCIssueSync -----------------------------
(***************************************************************************)
(* IssueSync on two findings and two issues, in worlds that each show one  *)
(* of the cases the sync tells apart.                                      *)
(***************************************************************************)
EXTENDS IssueSync

CONSTANTS c1, c2

Finding == [branch |-> "main", line |-> 1, offset |-> 0, msg |-> 0, author |-> "ann",
            review |-> "OPEN", comments |-> <<>>, tags |-> {}]
OpenIssue == [branch |-> "main", line |-> 1, msg |-> 0, author |-> "ann",
          acceptable |-> TRUE, tags |-> {"cwe"}]
World == [kind |-> "issue", fast |-> FALSE, lag |-> FALSE, readable |-> TRUE, rows |-> <<2>>,
          technical |-> {"opened"}, ruleTags |-> {"cwe"},
          source |-> <<Finding, Finding>>, cloud |-> (c1 :> OpenIssue @@ c2 :> [OpenIssue EXCEPT !.line = 2])]

Accepted == [Finding EXCEPT !.review = "ACCEPTED", !.comments = <<"a", "b", "c">>, !.tags = {"cwe", "mine"}]
Noted    == [Finding EXCEPT !.line = 2, !.comments = <<"c">>]
Issues == [World EXCEPT !.source = <<Accepted, Noted>>]

Lagging == [Issues EXCEPT !.lag = TRUE, !.source[1].comments = <<"a">>, !.source[2].comments = <<>>,
                          !.source[2].tags = {"mine"}]

IssueWorlds == {
    Issues,
    \* indexing lags: the one may be taken for the other; the rows say nothing
    [Lagging EXCEPT !.rows = <<0, NoField>>],
    [Lagging EXCEPT !.readable = FALSE, !.rows = <<>>],
    \* the two fall on one line; the message differs slightly; no accept
    [Issues EXCEPT !.source[2].line = 1, !.cloud[c2].line = 1],
    [Issues EXCEPT !.source[2].review = "FALSE_POSITIVE", !.cloud[c2].msg = 1,
                   !.cloud[c1].acceptable = FALSE],
    \* one is not matchable, one nobody touched
    [Issues EXCEPT !.source[1].line = 0, !.source[2] = [Finding EXCEPT !.tags = {"cwe"}]],
    \* nothing was submitted, nothing is there
    [Issues EXCEPT !.rows = <<0, 0>>, !.cloud = <<>>]}

Safe  == [Finding EXCEPT !.review = "SAFE", !.comments = <<"a", "opened">>]
Acked == [Finding EXCEPT !.review = "ACKNOWLEDGED"]
Hots  == [World EXCEPT !.kind = "hotspot", !.source = <<Safe, [Acked EXCEPT !.line = 2]>>]

HotspotWorlds == {
    Hots,
    [Hots EXCEPT !.lag = TRUE, !.source[1].comments = <<>>],
    \* the same hotspot on two branches, which disagree
    [Hots EXCEPT !.source[2] = [Acked EXCEPT !.branch = "dev", !.comments = <<"b">>],
                 !.cloud[c2] = [OpenIssue EXCEPT !.branch = "dev"]],
    \* two columns of one line
    [Hots EXCEPT !.source[2] = [Acked EXCEPT !.offset = 8], !.cloud[c2].line = 1],
    \* fast: the untouched one is not marked
    [Hots EXCEPT !.fast = TRUE, !.source[1].review = "FIXED", !.source[2].review = "TO_REVIEW",
                 !.source[2].comments = <<"opened">>]}

MCWorlds == IssueWorlds \cup HotspotWorlds
=============================================================================
