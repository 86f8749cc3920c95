---------------------------- MODULE IssueSlicing ----------------------------
(***************************************************************************)
(* The extract of a project with more issues than a search returns: the    *)
(* project is cut into windows of creation dates, and a single second that *)
(* is still too large into cells of facet values.  Every request is a step *)
(* of its own; between two of them issues are created, with any creation   *)
(* date, and closed.  What could not be fetched has to be on record, and   *)
(* the closing reconciliation has to tell a loss from a busy server.       *)
(*                                                                         *)
(* A capped fetch reads at most the ceiling issues; its pages are one step *)
(* here, see AdaptivePaging.  types and severities are one facet, "kind",  *)
(* with one value per issue, as in Standard Experience.                    *)
(***************************************************************************)
EXTENDS Integers, Sequences, FiniteSets, SequencesExt, FiniteSetsExt

CONSTANTS
    Issue,       \* issues that exist at some time, numbers: the order of a fetch
    Server,      \* how it treats dates: "honours", "ignores", "rejects"
    SlicedProjects,    \* per project: second and facet values of its issues, those there at first
    ResultCeiling,     \* issues a capped fetch returns (10000 in the code)
    Today,       \* the range of creation dates is 0..Today
    MaxDepth,    \* maxSliceDepth (48 in the code)
    MaxBuckets,  \* maxFacetValues (100 in the code)
    MaxMoves,    \* bound: issues created or closed during the walk
    MaxTroubles  \* bound: requests that fail

ASSUME SlicingAssumption ==
    /\ Issue \subseteq Nat /\ IsFiniteSet(Issue)
    /\ {ResultCeiling, MaxDepth, MaxBuckets} \subseteq Nat \ {0}
    /\ {Today, MaxMoves, MaxTroubles} \subseteq Nat
    /\ \A p \in SlicedProjects : p.second \in [Issue -> 0..Today] /\ p.atFirst \subseteq Issue

NoValue == "no value"   \* an issue of a project or a directory has no file

\* "One type and one severity per issue", in few enough cells for a response
\* (standardTaxonomy, slice_facets.go:75-78).
ASSUME KindAssumption ==
    \A p \in SlicedProjects :
       LET kinds == {p.facet["kind"][i] : i \in Issue} IN
       NoValue \notin kinds /\ Cardinality(kinds) <= MaxBuckets

\* What is left to cut of the widest range after so many bisections, and that
\* "a one-second window is what actually stops the recursion" (slice.go:33-38).
Span[depth \in 0..MaxDepth] == IF depth = 0 THEN Today ELSE Span[depth - 1] \div 2
ASSUME DepthAssumption == Span[MaxDepth - 1] = 0

VARIABLES
    project,    \* the project of this behaviour
    serverKind,     \* how the server treats dates
    live,       \* issues that exist
    phase,      \* "entry", "range", "check", "walk", "done" or "failed"
    stack,      \* the calls of the recursion that are still to make
    root,       \* the window the walk starts from
    before,     \* initialTotal
    collected,  \* seen: issues handed to the sink
    twice,      \* duplicates
    lost,       \* expectedLoss: losses on record
    reasons,    \* reasons on record
    atomics,    \* windows of atomic_window records
    degraded,   \* degradedReason, or "no"
    fellBack,
    births, closings, troubles

lvars == <<project, serverKind, live, phase, stack, root, before, collected, twice, lost,
           reasons, atomics, degraded, fellBack, births, closings, troubles>>

Second(i) == project.second[i]
Facets == <<"kind", "rule", "file">>

-----------------------------------------------------------------------------
(* Windows: half-open ranges of seconds.  An open edge sends no bound.     *)

RootWindow == [lo |-> 0, hi |-> 0, openLo |-> TRUE, openHi |-> TRUE]

Splittable(w) == w.hi - w.lo > 1

Mid(w) == w.lo + (w.hi - w.lo) \div 2
SafeToRequest(w) == w.openLo \/ w.openHi \/ w.lo # w.hi
Dated(w) == ~w.openLo \/ ~w.openHi

LeftHalf(w) == [w EXCEPT !.hi = Mid(w), !.openHi = FALSE]

RightHalf(w) == [w EXCEPT !.lo = Mid(w), !.openLo = FALSE]

In(second, w) == (w.openLo \/ second >= w.lo) /\ (w.openHi \/ second < w.hi)

\* What the server selects for the bounds it is sent.
Within(second, w) == In(second, w)

Selected(w) == IF serverKind = "ignores" THEN live ELSE {i \in live : Within(Second(i), w)}

\* What it selects for a cell: a value for each of some facets.
InCell(w, cell) == {i \in Selected(w) : \A f \in DOMAIN cell : project.facet[f][i] = cell[f]}

\* A capped fetch.
FirstOf(issues) == {i \in issues : Cardinality({j \in issues : j < i}) < ResultCeiling}

NoFilter == {}   \* the cell without filters
NoCell == [f \in NoFilter |-> NoValue]
Frame(do, w, cell, total, depth) ==
    [do |-> do, w |-> w, cell |-> cell, total |-> total, depth |-> depth]

SlicingTypeOK ==
    /\ live \subseteq Issue /\ collected \subseteq Issue
    /\ phase \in {"entry", "range", "check", "walk", "done", "failed"}
    /\ \A n \in DOMAIN stack :
          /\ stack[n].do \in {"window", "fetch", "atomic", "close", "facets", "cell", "give up"}
          /\ stack[n].w.lo \in 0..Today + 1 /\ stack[n].w.hi \in 0..Today + 1
          /\ stack[n].w.lo <= stack[n].w.hi
          /\ stack[n].total \in 0..Cardinality(Issue) /\ stack[n].depth \in 0..MaxDepth
    /\ before \in 0..Cardinality(Issue) /\ lost \in Nat /\ twice \in Nat
    /\ reasons \subseteq {"page_limit_clamp", "atomic_window", "dates_ignored", "dates_rejected",
                          "max_depth", "incomplete_slice", "count_drift"}
    /\ births + closings <= MaxMoves /\ troubles <= MaxTroubles

SlicingInit ==
    /\ project \in SlicedProjects /\ serverKind \in Server
    /\ live = project.atFirst
    /\ phase = "entry" /\ stack = <<>> /\ root = RootWindow
    /\ before = 0 /\ collected = {} /\ twice = 0
    /\ lost = 0 /\ reasons = {} /\ atomics = {}
    /\ degraded = "no" /\ fellBack = FALSE
    /\ births = 0 /\ closings = 0 /\ troubles = 0

-----------------------------------------------------------------------------
(* The server.                                                             *)

WalkOver == phase \in {"done", "failed"}

Born(i) ==
    /\ ~WalkOver /\ phase # "entry" /\ births + closings < MaxMoves
    /\ i \in Issue \ (live \cup collected \cup project.atFirst)
    /\ live' = live \cup {i}
    /\ births' = births + 1
    /\ UNCHANGED <<project, serverKind, phase, stack, root, before, collected, twice, lost,
                   reasons, atomics, degraded, fellBack, closings, troubles>>

Close(i) ==
    /\ ~WalkOver /\ phase # "entry" /\ births + closings < MaxMoves
    /\ i \in live
    /\ live' = live \ {i}
    /\ closings' = closings + 1
    /\ UNCHANGED <<project, serverKind, phase, stack, root, before, collected, twice, lost,
                   reasons, atomics, degraded, fellBack, births, troubles>>

-----------------------------------------------------------------------------
(* What the steps of the walk have in common.                              *)

\* absorb: the sink gets what it has not seen.
Absorb(issues) ==
    /\ collected' = collected \cup issues
    /\ twice' = twice + Cardinality(issues \cap collected)
AbsorbsNothing == UNCHANGED <<collected, twice>>

\* record
PutOnRecord(reason, loss) ==
    /\ reasons' = reasons \cup {reason}
    /\ lost' = lost + loss
RecordsNothing == UNCHANGED <<reasons, lost>>

Pop == stack' = Tail(stack)
Push(calls) == stack' = calls \o Tail(stack)
Top == Head(stack)
Doing(do) == phase = "walk" /\ stack # <<>> /\ Top.do = do

\* A dated request needs a server that does not refuse dates.
ServerTakes(w) == Dated(w) => serverKind # "rejects"

SlicerSame == UNCHANGED <<project, serverKind, live, births, closings>>

\* degrade: the undated fetch, once in a walk.
Degrade(reason) ==
    /\ degraded' = IF degraded = "no" THEN reason ELSE degraded
    /\ fellBack' = TRUE
    /\ IF fellBack THEN AbsorbsNothing ELSE Absorb(FirstOf(live))

\* unaccounted, after the absorption of this step; what is on record already
\* is not counted again.
CountsTwice(done) == Max({0, before - Cardinality(done)})

Unaccounted(done) == Max({0, before - Cardinality(done) - lost})

\* Churn and UnexplainedDrift: the source's own movement explains a drift of
\* as much, the other way round.
Churn == Cardinality(live) - before

Band == Min({0, -Churn})..Max({0, -Churn})

Drift(done, booked) == before - (Cardinality(done) + booked)

UnexplainedDrift(done, booked) ==
    LET d == Drift(done, booked) IN
    IF d \in Band THEN 0 ELSE IF d > Max(Band) THEN d - Max(Band) ELSE d - Min(Band)

\* The walk ends: recordDegradation when it was refused, then reconcile.
Conclude(reason, done) ==
    LET short == IF reason = "no" THEN 0 ELSE Unaccounted(done)
        quiet == reason = "no" \/ (lost > 0 /\ short = 0)   \* fullyBooked
        drift == UnexplainedDrift(done, lost + short)
    IN /\ reasons' = reasons \cup (IF quiet THEN {} ELSE {reason})
                             \cup (IF drift = 0 THEN {} ELSE {"count_drift"})
       /\ lost' = lost + short + Max({0, drift})
       /\ phase' = "done" /\ stack' = <<>>

-----------------------------------------------------------------------------
(* fetchProjectIssues and sliceProjectIssues, up to the walk.              *)

EntryFetch ==
    /\ phase = "entry"
    /\ before' = Cardinality(live)
    /\ IF Cardinality(live) <= ResultCeiling
       THEN phase' = "done" /\ Absorb(live)
       ELSE phase' = "range" /\ AbsorbsNothing
    /\ RecordsNothing /\ SlicerSame
    /\ UNCHANGED <<stack, root, atomics, degraded, fellBack, troubles>>

Oldest(issues) == Min({Second(i) : i \in issues})
Newest(issues) == Max({Second(i) : i \in issues})

\* newest is a second of an issue, hi the exclusive end of the range.
ProbedRange == [RootWindow EXCEPT !.lo = Oldest(live), !.hi = Newest(live) + 1]

DefaultRange == [RootWindow EXCEPT !.hi = Today + 1]

\* probeIssueRange: a probe that failed, or a range too narrow to cut, leaves
\* the default range.
ProbeRange ==
    /\ phase = "range"
    /\ \/ /\ root' = IF live # {} /\ Splittable(ProbedRange) THEN ProbedRange ELSE DefaultRange
          /\ UNCHANGED troubles
       \/ /\ troubles < MaxTroubles
          /\ root' = DefaultRange
          /\ troubles' = troubles + 1
    /\ phase' = "check"
    /\ AbsorbsNothing /\ RecordsNothing /\ SlicerSame
    /\ UNCHANGED <<stack, before, atomics, degraded, fellBack>>

\* datesRespected: a server that drops the dates counts all issues in both halves.
HalvesAreWhole == /\ Cardinality(Selected(LeftHalf(root))) >= before
                  /\ Cardinality(Selected(RightHalf(root))) >= before

CheckDates ==
    /\ phase = "check" /\ serverKind # "rejects"
    /\ IF HalvesAreWhole
       THEN /\ Degrade("dates_ignored")
            /\ Conclude("dates_ignored", collected \cup FirstOf(live))
            /\ UNCHANGED <<root, before, atomics, troubles>>
       ELSE /\ phase' = "walk"
            /\ stack' = <<Frame("window", root, NoCell, 0, 0)>>
            /\ AbsorbsNothing /\ RecordsNothing
            /\ UNCHANGED <<root, before, atomics, degraded, fellBack, troubles>>
    /\ SlicerSame

-----------------------------------------------------------------------------
(* The walk.                                                               *)

WalkSame == SlicerSame /\ UNCHANGED <<phase, root, before>>
NoTrouble == UNCHANGED troubles

\* fetchIssueWindow: the backstops, then the count of the window.
Backstop ==
    /\ Doing("window")
    /\ ~SafeToRequest(Top.w) \/ Top.depth >= MaxDepth
    /\ Degrade("max_depth") /\ Pop
    /\ RecordsNothing /\ NoTrouble /\ WalkSame /\ UNCHANGED atomics

\* fetchAtomicWindow closes an open edge before it splits by facets.
OneSecond(w) == IF w.openLo \/ w.openHi THEN "atomic" ELSE "facets"

BothHalves(w, depth) == <<Frame("window", LeftHalf(w), NoCell, 0, depth + 1),
                      Frame("window", RightHalf(w), NoCell, 0, depth + 1)>>

CountWindow ==
    /\ Doing("window")
    /\ SafeToRequest(Top.w) /\ Top.depth < MaxDepth /\ ServerTakes(Top.w)
    /\ LET w == Top.w
           count == Cardinality(Selected(w)) IN
       Push(IF count = 0 THEN <<>>
            ELSE IF count <= ResultCeiling THEN <<Frame("fetch", w, NoCell, count, Top.depth)>>
            ELSE IF Splittable(w) THEN BothHalves(w, Top.depth)
            ELSE <<Frame(OneSecond(w), w, NoCell, count, Top.depth)>>)
    /\ AbsorbsNothing /\ RecordsNothing /\ NoTrouble /\ WalkSame
    /\ UNCHANGED <<atomics, degraded, fellBack>>

\* fetchWindowItems: a window that grew since it was counted is a loss.
FetchWindow ==
    /\ Doing("fetch") /\ ServerTakes(Top.w)
    /\ LET found == Selected(Top.w) IN
       /\ Absorb(FirstOf(found))
       /\ IF Cardinality(found) > ResultCeiling
          THEN PutOnRecord("page_limit_clamp", Cardinality(found) - ResultCeiling) ELSE RecordsNothing
    /\ Pop /\ NoTrouble /\ WalkSame /\ UNCHANGED <<atomics, degraded, fellBack>>

\* widenOpenEdge: the open edge reaches past the bound of the arithmetic.
ReachesLater(w) == w.openHi /\ Selected(w) # {} /\ Newest(Selected(w)) >= w.hi

ReachesEarlier(w) == w.openLo /\ Selected(w) # {} /\ Oldest(Selected(w)) < w.lo

Widened(w) == IF ReachesLater(w) THEN [w EXCEPT !.hi = Newest(Selected(w)) + 1]
              ELSE [w EXCEPT !.lo = Oldest(Selected(w))]

\* closeAtomicWindow, its first half; a probe that fails finds nothing.
WidenOrClose ==
    /\ Doing("atomic")
    /\ LET closed == Frame("close", [Top.w EXCEPT !.openLo = FALSE, !.openHi = FALSE],
                          NoCell, 0, Top.depth) IN
       \/ /\ IF ReachesLater(Top.w) \/ ReachesEarlier(Top.w)
             THEN Push(<<Frame("window", Widened(Top.w), NoCell, 0, Top.depth + 1)>>)
             ELSE Push(<<closed>>)
          /\ NoTrouble
       \/ /\ troubles < MaxTroubles
          /\ Push(<<closed>>)
          /\ troubles' = troubles + 1
    /\ AbsorbsNothing /\ RecordsNothing /\ WalkSame /\ UNCHANGED <<atomics, degraded, fellBack>>

\* Its second half: the second is counted again, with both bounds.
CountSecond ==
    /\ Doing("close") /\ ServerTakes(Top.w)
    /\ LET count == Cardinality(Selected(Top.w)) IN
       Push(IF count = 0 THEN <<>>
            ELSE <<Frame(IF count <= ResultCeiling THEN "fetch" ELSE "facets",
                        Top.w, NoCell, count, Top.depth)>>)
    /\ AbsorbsNothing /\ RecordsNothing /\ NoTrouble /\ WalkSame
    /\ UNCHANGED <<atomics, degraded, fellBack>>

-----------------------------------------------------------------------------
(* fetchByFacets: the cells of one second.                                 *)

CountOf(w, cell, f, v) == Cardinality({i \in InCell(w, cell) : project.facet[f][i] = v})
ValuesOf(w, cell, f) == {project.facet[f][i] : i \in InCell(w, cell)} \ {NoValue}

\* The server returns the largest buckets and does not say that there are more.
Buckets(w, cell, f) ==
    LET values == ValuesOf(w, cell, f) IN
    CHOOSE kept \in SUBSET values :
        /\ Cardinality(kept) = Min({MaxBuckets, Cardinality(values)})
        /\ \A v \in kept, u \in values \ kept : CountOf(w, cell, f, v) >= CountOf(w, cell, f, u)

\* The issues of the cell in one of the buckets, which "are a partition of the
\* filtered selection": as many as their counts add up to.
Bucketed(w, cell, f) == {i \in InCell(w, cell) : project.facet[f][i] \in Buckets(w, cell, f)}

TrustsAnyFacet(w, cell, f, total) == TRUE

\* facetCoversCell; types and severities are taken as they come.
Accounts(w, cell, f, total) == f = "kind" \/ Cardinality(Bucketed(w, cell, f)) >= total

\* The next facet: each filter of a cell used one up.
NextFacet(cell) == Cardinality(DOMAIN cell) + 1
Finer(cell) == NextFacet(cell) <= Len(Facets)
Narrowed(cell, f, v) == [g \in DOMAIN cell \cup {f} |-> IF g = f THEN v ELSE cell[g]]
GiveUpOn(call) == <<[call EXCEPT !.do = "give up"]>>

\* fetchByFacets, fetchTypeCell and fetchByRemainingFacets: the second, or a
\* cell that does not fit, is split by the next facet.  A probe that fails
\* gives up on the cell.
SplitByFacet ==
    /\ Doing("facets")
    /\ LET w == Top.w
           cell == Top.cell
           f == Facets[NextFacet(cell)]
           parts == SetToSeq(Buckets(w, cell, f)) IN
       \/ /\ ~Finer(cell) /\ Push(GiveUpOn(Top)) /\ NoTrouble
       \/ /\ Finer(cell) /\ ServerTakes(w) /\ NoTrouble
          /\ IF ValuesOf(w, cell, f) # {} /\ Accounts(w, cell, f, Top.total)
             THEN Push([n \in DOMAIN parts |->
                          LET count == CountOf(w, cell, f, parts[n]) IN
                          Frame(IF count <= ResultCeiling THEN "cell" ELSE "facets",
                               w, Narrowed(cell, f, parts[n]), count, Top.depth)])
             ELSE Push(GiveUpOn(Top))
       \/ /\ Finer(cell) /\ troubles < MaxTroubles
          /\ troubles' = troubles + 1 /\ Push(GiveUpOn(Top))
    /\ AbsorbsNothing /\ RecordsNothing /\ WalkSame /\ UNCHANGED <<atomics, degraded, fellBack>>

\* recordGiveUp: what the fetch returned is kept, the rest is a loss.
RecordGiveUp(w, found, total) ==
    /\ Absorb(FirstOf(found))
    /\ PutOnRecord("atomic_window", Max({0, total - Cardinality(FirstOf(found))}))
    /\ atomics' = atomics \cup {w}
    /\ Pop

\* fetchCellOrError: a cell that grew is split further, if there is a facet.
FetchCell ==
    /\ Doing("cell") /\ ServerTakes(Top.w)
    /\ LET found == InCell(Top.w, Top.cell)
           count == Cardinality(found) IN
       \/ /\ count <= ResultCeiling
          /\ Absorb(found) /\ RecordsNothing /\ Pop /\ UNCHANGED atomics
       \/ /\ count > ResultCeiling /\ Finer(Top.cell)
          /\ Push(<<[Top EXCEPT !.do = "facets", !.total = count]>>)
          /\ AbsorbsNothing /\ RecordsNothing /\ UNCHANGED atomics
       \/ /\ count > ResultCeiling /\ ~Finer(Top.cell)
          /\ RecordGiveUp(Top.w, found, count)
    /\ NoTrouble /\ WalkSame /\ UNCHANGED <<degraded, fellBack>>

\* giveUpOnWindow
GiveUp ==
    /\ Doing("give up") /\ ServerTakes(Top.w)
    /\ RecordGiveUp(Top.w, InCell(Top.w, Top.cell), Top.total)
    /\ NoTrouble /\ WalkSame /\ UNCHANGED <<degraded, fellBack>>

-----------------------------------------------------------------------------
(* How the walk ends.                                                      *)

FinishWalk ==
    /\ phase = "walk" /\ stack = <<>>
    /\ Conclude(degraded, collected)
    /\ AbsorbsNothing /\ SlicerSame
    /\ UNCHANGED <<root, before, atomics, degraded, fellBack, troubles>>

InWalk == phase = "check" \/ (phase = "walk" /\ stack # <<>>)
DatedNext == phase = "walk" => Dated(Top.w) /\ Top.do # "atomic"

\* handleWalkError, dates refused.
DatesRefused ==
    /\ InWalk /\ DatedNext /\ serverKind = "rejects"
    /\ phase = "walk" => Top.do # "window" \/ (SafeToRequest(Top.w) /\ Top.depth < MaxDepth)
    /\ Degrade("dates_rejected")
    /\ Conclude(IF degraded = "no" THEN "dates_rejected" ELSE degraded,
                IF fellBack THEN collected ELSE collected \cup FirstOf(live))
    /\ SlicerSame /\ UNCHANGED <<root, before, atomics, troubles>>

\* handleWalkError, any other error: what was fetched stays on disk.
WalkFails ==
    /\ InWalk /\ troubles < MaxTroubles
    /\ LET short == Unaccounted(collected) IN
       IF lost > 0 /\ short = 0 THEN RecordsNothing ELSE PutOnRecord("incomplete_slice", short)
    /\ phase' = "failed" /\ stack' = <<>>
    /\ troubles' = troubles + 1
    /\ AbsorbsNothing /\ SlicerSame
    /\ UNCHANGED <<root, before, atomics, degraded, fellBack>>

SlicingNext ==
    \/ EntryFetch \/ ProbeRange \/ CheckDates
    \/ Backstop \/ CountWindow \/ FetchWindow \/ WidenOrClose \/ CountSecond
    \/ SplitByFacet \/ FetchCell \/ GiveUp
    \/ FinishWalk \/ DatesRefused \/ WalkFails
    \/ \E i \in Issue : Born(i) \/ Close(i)

SlicingSpec == SlicingInit /\ [][SlicingNext]_lvars

-----------------------------------------------------------------------------
(* Properties.                                                             *)

Still == births = 0 /\ closings = 0

\* On a source that does not change, the losses on record add up to exactly
\* the issues that were not fetched, however the walk ends: a seam that drops
\* issues, a cell that is not covered, or a loss that is counted by a window
\* and by the walk would show here (reconcile, unaccounted, slice.go:1084-1100).
LossIsExact == WalkOver /\ Still => lost = Cardinality(live) - Cardinality(collected)

\* An issue that was there all the time and was not fetched leaves a record,
\* unless issues were created meanwhile, or a probe failed.
MissingIsOnRecord ==
    WalkOver /\ births = 0 /\ troubles = 0 /\ serverKind # "ignores" /\ ~(live \subseteq collected)
    => reasons # {}

\* Issues that only appear, or only disappear, during the walk are no drift
\* (UnexplainedDrift: the band of the churn).
BusyIsNoDrift ==
    WalkOver /\ (births = 0 \/ closings = 0) /\ troubles = 0 /\ serverKind = "honours"
    => "count_drift" \notin reasons

\* The windows overlap nowhere: no issue comes twice, but through the undated
\* fallback (absorb: "a correct half-open partition cannot return the same
\* issue twice", slice.go:318-323).
NothingTwiceInWindows == twice = 0 \/ fellBack \/ serverKind = "ignores"

\* The depth backstop never fires on a server that honours dates: bisection and
\* widening stop by themselves, at one second (maxSliceDepth, slice.go:33-38).
DepthIsOnlyABackstop == serverKind = "honours" => "max_depth" \notin reasons \cup {degraded}

\* A server that ignores dates is found out before the walk, as long as no
\* issue is closed between the first count and the check of the halves
\* (datesRespected; truncation.go:53-57).
IgnoredDatesAreCaught == serverKind = "ignores" /\ closings = 0 => phase # "walk"

\* A loss filed as unavoidable is about one second with both bounds
\* (fetchAtomicWindow, slice.go:549-556).
AtomicIsOneSecond == \A w \in atomics : ~w.openLo /\ ~w.openHi /\ w.hi = w.lo + 1

\* The walk cuts the range into windows that do not overlap and leave nothing
\* out: what is missing is what it counts as lost, and no loss goes unrecorded.
WalkIsExact ==
    /\ SlicingTypeOK /\ LossIsExact /\ NothingTwiceInWindows /\ AtomicIsOneSecond
    /\ MissingIsOnRecord /\ IgnoredDatesAreCaught

\* What goes on record is what happened: no loss that was only churn, and no
\* backstop.
RecordsAreHonest == BusyIsNoDrift /\ DepthIsOnlyABackstop

=============================================================================
