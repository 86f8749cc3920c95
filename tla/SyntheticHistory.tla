-------------------------- MODULE SyntheticHistory --------------------------
(***************************************************************************)
(* The report of a historical point.  Only the measures of the past are    *)
(* known, and the Compute Engine derives coverage, duplication, ratings    *)
(* and debt from lines, ranges and issues: submitHistoricalSnapshot makes  *)
(* up one file with lines, ranges and issues that come to those measures.  *)
(*                                                                         *)
(* What the engine adds up is in the properties; it is external.  Numbers  *)
(* stand for the strings of the measures: 0 is one that is missing, not a  *)
(* number, or not positive.                                                *)
(***************************************************************************)
EXTENDS Integers, FiniteSets, SequencesExt

CONSTANT Point      \* the measures of a point, by metric

Metric == {"lines", "ncloc", "lines_to_cover", "uncovered_lines", "conditions_to_cover",
           "uncovered_conditions", "duplicated_lines", "duplicated_blocks", "bugs",
           "reliability_rating", "vulnerabilities", "security_rating", "code_smells",
           "sqale_index"}

ASSUME HistoryAssumption ==
    /\ Point \subseteq [Metric -> Nat]
    /\ \A p \in Point : p.reliability_rating <= 5 /\ p.security_rating <= 5   \* E

VARIABLES point, snapshot
pvars == <<point, snapshot>>

NoSnapshot == <<>>        \* no snapshot yet

-----------------------------------------------------------------------------
\* snapshotLineCount
LineCount(p) == Max({1, p.lines, p.ncloc, p.lines_to_cover, p.duplicated_lines})

Clamp(v, max) == IF v > max THEN max ELSE v

\* buildSyntheticLineCoverage: the first lines are uncovered, and the first of
\* all holds every condition, even if no line is to be covered.
LineCoverage(p) ==
    LET toCover == p.lines_to_cover
        uncoveredLines == Clamp(p.uncovered_lines, toCover)
        uncoveredConditions == Clamp(p.uncovered_conditions, p.conditions_to_cover)
        n == IF toCover = 0 /\ p.conditions_to_cover > 0 THEN 1 ELSE toCover
    IN  [i \in 1..n |->
            [hasHits    |-> i <= toCover,
             hits       |-> i <= toCover /\ i > uncoveredLines,
             conditions |-> IF i = 1 THEN p.conditions_to_cover ELSE 0,
             covered    |-> IF i = 1 THEN p.conditions_to_cover - uncoveredConditions ELSE 0]]

\* Variant: the remainder is lost.
EvenShares(total, n) == [i \in 1..n |-> total \div n]

\* distributeInt
DistributeInt(total, n) ==
    [i \in 1..n |-> total \div n + IF i = n THEN total % n ELSE 0]

\* How far the sizes have come, one after the other.
Running(sizes) ==
    LET sum[n \in 0..Len(sizes)] == IF n = 0 THEN 0 ELSE sum[n - 1] + sizes[n]
    IN  sum

\* buildSyntheticDuplication: ranges one after the other, from line 1.
Duplication(p) ==
    IF p.duplicated_lines < 2 \/ p.duplicated_blocks < 2 THEN <<>>
    ELSE LET blocks == Clamp(p.duplicated_blocks, p.duplicated_lines)
             line   == Running(DistributeInt(p.duplicated_lines, blocks))
         IN  [i \in 1..blocks |-> [start |-> line[i - 1] + 1, end |-> line[i]]]

Severity == <<"INFO", "MINOR", "MAJOR", "CRITICAL", "BLOCKER">>

\* ratingToSeverity; A to E are 1 to 5
RatingToSeverity(rating) == Severity[Max({rating, 1})]

\* buildSeverities
Severities(count, rating, hasRating) ==
    [i \in 1..count |-> IF i = count /\ hasRating THEN RatingToSeverity(rating) ELSE "MINOR"]

\* buildEfforts; no effort is 0
Efforts(type, count, sqaleIndex) ==
    IF type # "CODE_SMELL" THEN [i \in 1..count |-> 0] ELSE DistributeInt(sqaleIndex, count)

\* buildIssuesForType
IssuesOf(type, count, rating, hasRating, sqaleIndex) ==
    [i \in 1..count |-> [type     |-> type,
                         severity |-> Severities(count, rating, hasRating)[i],
                         effort   |-> Efforts(type, count, sqaleIndex)[i]]]

\* buildSyntheticIssues
SyntheticIssues(p) ==
    IssuesOf("BUG", p.bugs, p.reliability_rating, TRUE, 0)
    \o IssuesOf("VULNERABILITY", p.vulnerabilities, p.security_rating, TRUE, 0)
    \o IssuesOf("CODE_SMELL", p.code_smells, 0, FALSE, p.sqale_index)

-----------------------------------------------------------------------------
HistoryInit == point \in Point /\ snapshot = NoSnapshot

\* The file of submitHistoricalSnapshot's report.
BuildSnapshot ==
    /\ snapshot = NoSnapshot
    /\ snapshot' = [lines       |-> LineCount(point),
                    coverage    |-> LineCoverage(point),
                    duplication |-> Duplication(point),
                    issues      |-> SyntheticIssues(point)]
    /\ UNCHANGED point

HistoryNext == BuildSnapshot
HistorySpec == HistoryInit /\ [][HistoryNext]_pvars

-----------------------------------------------------------------------------
(* What the Compute Engine derives from a report, and the measures.        *)

Total(s) == Running(s)[Len(s)]

\* Coverage comes out as it was, with no more uncovered than there is to cover.
CoverageAddsUp ==
    LET lines == snapshot.coverage
        Known == {i \in DOMAIN lines : lines[i].hasHits}
    IN  /\ Cardinality(Known) = point.lines_to_cover
        /\ Cardinality({i \in Known : ~lines[i].hits})
              = Min({point.uncovered_lines, point.lines_to_cover})
        /\ Total([i \in DOMAIN lines |-> lines[i].conditions]) = point.conditions_to_cover
        /\ Total([i \in DOMAIN lines |-> lines[i].conditions - lines[i].covered])
              = Min({point.uncovered_conditions, point.conditions_to_cover})

\* Duplicated lines come out as they were, in ranges that do not overlap and
\* are not empty; or there is too little of them for a duplication.
DuplicationAddsUp ==
    LET ranges == snapshot.duplication
        LinesOf(r) == r.start..r.end
    IN  IF point.duplicated_lines < 2 \/ point.duplicated_blocks < 2 THEN ranges = <<>>
        ELSE /\ Len(ranges) = Min({point.duplicated_blocks, point.duplicated_lines})
             /\ \A i \in DOMAIN ranges : LinesOf(ranges[i]) # {}
             /\ \A i, j \in DOMAIN ranges : i # j => LinesOf(ranges[i]) \cap LinesOf(ranges[j]) = {}
             /\ Cardinality(UNION {LinesOf(ranges[i]) : i \in DOMAIN ranges})
                   = point.duplicated_lines

\* No line is named that the file does not have: the engine rejects the report.
LinesExist ==
    /\ Len(snapshot.coverage) <= snapshot.lines
    /\ \A i \in DOMAIN snapshot.duplication : snapshot.duplication[i].end <= snapshot.lines

Issues(type) == {i \in DOMAIN snapshot.issues : snapshot.issues[i].type = type}

\* The rating the engine gives: that of the worst issue.
RatingFor(type) ==
    Max({1} \cup {r \in 1..5 : \E i \in Issues(type) : snapshot.issues[i].severity = Severity[r]})

\* Counts and debt come out as they were, and so does a rating that is worse
\* than what the other issues, all minor, have by themselves.
RatingAddsUp(type, rating) ==
    RatingFor(type) = Max({rating, IF Cardinality(Issues(type)) > 1 THEN 2 ELSE 1})
IssuesAddUp ==
    /\ Cardinality(Issues("BUG")) = point.bugs
    /\ Cardinality(Issues("VULNERABILITY")) = point.vulnerabilities
    /\ Cardinality(Issues("CODE_SMELL")) = point.code_smells
    /\ point.bugs > 0 => RatingAddsUp("BUG", point.reliability_rating)
    /\ point.vulnerabilities > 0 => RatingAddsUp("VULNERABILITY", point.security_rating)
    /\ Total([i \in DOMAIN snapshot.issues |-> snapshot.issues[i].effort])
          = IF point.code_smells = 0 THEN 0 ELSE point.sqale_index

\* What is made up for a point of the past adds up to what was measured then,
\* and names only lines that the file has.
SnapshotAddsUp ==
    snapshot # NoSnapshot => CoverageAddsUp /\ DuplicationAddsUp /\ LinesExist /\ IssuesAddUp

\* NOT true of the code.  "Reproduce this point's [...] reliability_rating/
\* security_rating [...] as aggregates" (buildSyntheticIssues): with several
\* issues and a rating of A, the rating comes out as B.
RatingIsReproduced ==
    snapshot # NoSnapshot /\ point.bugs > 0 /\ point.reliability_rating > 0
        => RatingFor("BUG") = point.reliability_rating
=============================================================================
