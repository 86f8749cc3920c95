-------------------------- MODULE TransportProofs ---------------------------
(***************************************************************************)
(* Theorems of the SDK's transport: the retrying round tripper with its    *)
(* rate-limit gate, for every set of requests, every schedule and every    *)
(* Retry-After; the sliding-window limiter, for any callers, any rate and  *)
(* any window; and the gate with a moving limit, for any goroutines, any   *)
(* target rate and any latency.                                            *)
(***************************************************************************)
EXTENDS RetryTransport, SlidingWindowLimiter, DynamicGate, SequenceTheorems,
        LoopFacts

-----------------------------------------------------------------------------
(* The retrying transport *)

\* A wait the schedule or the server asks for is a number of ticks.
LEMMA WaitIsNat ==
  ASSUME TypeOK, NEW r \in Requests, NEW o \in Outcomes, NEW after \in RetryAfters, More(r, o)
  PROVE  NextWait(r, o, after) \in Nat
  <1>1. ScheduleFor(o) \in Seq(Nat)
    BY TransportAssumption DEF ScheduleFor, Schedules
  <1>2. attempt[r] + 1 \in 1 .. Len(ScheduleFor(o))
    BY <1>1 DEF More, TypeOK
  <1>3. ScheduleFor(o)[attempt[r] + 1] \in Nat
    BY <1>1, <1>2
  <1>4. after \in Nat /\ RetryAfterCap \in Nat
    BY TransportAssumption
  <1>. QED BY <1>3, <1>4 DEF NextWait, Smaller, Larger

\* Each kind of step keeps the types.
LEMMA TypeStep == TypeOK /\ [Next]_vars => TypeOK'
  <1>. SUFFICES ASSUME TypeOK, [Next]_vars PROVE TypeOK'
    OBVIOUS
  <1>. USE DEF TypeOK
  <1>1. ASSUME NEW r \in Requests, Issue(r) PROVE TypeOK'
    BY <1>1 DEF Issue, Park, gateVars
  <1>2. ASSUME NEW r \in Requests, Send(r) PROVE TypeOK'
    BY <1>2 DEF Send, gateVars
  <1>3. ASSUME NEW r \in Requests, NEW o \in Outcomes, Outcome(r, o) PROVE TypeOK'
    <2>0. last' \in [Requests -> Outcomes \union {"none"}] /\ cancelled' \subseteq Requests
      BY <1>3 DEF Outcome
    <2>1. CASE Finish(r, o)
      BY <2>0, <2>1 DEF Finish, Return, gateVars
    <2>2. CASE PlanRetry(r, o)
      <3>1. PICK after \in RetryAfters :
              LET wait == NextWait(r, o, after)
              IN  /\ IF o = "sqc429" THEN Extend(wait) ELSE UNCHANGED gateVars
                  /\ \E jitter \in 0 .. wait \div 2 : timer' = [timer EXCEPT ![r] = wait + jitter]
        BY <2>2 DEF PlanRetry
      <3>. DEFINE wait == NextWait(r, o, after)
      <3>2. wait \in Nat
        BY <2>2, WaitIsNat DEF PlanRetry
      <3>3. blocked' \in Nat /\ reported' \in Nat /\ held' \in Nat
        BY <3>1, <3>2 DEF Extend, Larger, gateVars
      <3>4. timer' \in [Requests -> Nat]
        <4>1. PICK jitter \in 0 .. wait \div 2 : timer' = [timer EXCEPT ![r] = wait + jitter]
          BY <3>1
        <4>2. wait + jitter \in Nat
          BY <3>2
        <4>. QED BY <4>1, <4>2
      <3>. HIDE DEF wait
      <3>. QED BY <2>0, <2>2, <3>3, <3>4 DEF PlanRetry
    <2>. QED BY <1>3, <2>1, <2>2 DEF Outcome
  <1>4. ASSUME NEW r \in Requests, Retry(r) PROVE TypeOK'
    BY <1>4 DEF Retry, Park, gateVars
  <1>5. ASSUME NEW r \in Requests, Abort(r) PROVE TypeOK'
    BY <1>5 DEF Abort, gateVars
  <1>6. ASSUME NEW r \in Requests, Cancel(r) PROVE TypeOK'
    BY <1>6 DEF Cancel, callVars, gateVars
  <1>7. CASE Tick
    BY <1>7 DEF Tick, Larger
  <1>8. CASE UNCHANGED vars
    BY <1>8 DEF vars, callVars, gateVars
  <1>. QED BY <1>1, <1>2, <1>3, <1>4, <1>5, <1>6, <1>7, <1>8 DEF Next, Step

\* Every variable keeps its type.
THEOREM RetryTypeCorrect == Spec => []TypeOK
  <1>1. Init => TypeOK
    BY DEF Init, TypeOK
  <1>. QED BY <1>1, TypeStep, PTL DEF Spec

(***************************************************************************)
(* Only extend and the clock move the gate and its accounts, and both keep *)
(* the sum: what extend adds to the report it adds to the deadline.        *)
(***************************************************************************)
LEMMA PauseStep == TypeOK /\ PauseIsWallClock /\ [Next]_vars => PauseIsWallClock'
  <1>. SUFFICES ASSUME TypeOK, PauseIsWallClock, [Next]_vars PROVE PauseIsWallClock'
    OBVIOUS
  <1>. USE DEF PauseIsWallClock
  <1>1. CASE UNCHANGED gateVars
    BY <1>1 DEF gateVars
  <1>2. CASE Tick
    BY <1>2 DEF Tick, Larger, TypeOK
  <1>3. ASSUME NEW r \in Requests, NEW o \in Outcomes, NEW after \in RetryAfters, More(r, o),
               Extend(NextWait(r, o, after))
        PROVE  PauseIsWallClock'
    <2>1. NextWait(r, o, after) \in Nat
      BY <1>3, WaitIsNat
    <2>2. blocked' \in Nat /\ reported' = reported + (blocked' - blocked) /\ held' = held
      BY <1>3, <2>1 DEF Extend, Larger, TypeOK
    <2>. QED BY <2>2 DEF TypeOK
  <1>4. ASSUME NEW r \in Requests, NEW o \in Outcomes, Outcome(r, o)
        PROVE  PauseIsWallClock'
    <2>1. CASE Finish(r, o)
      BY <1>1, <2>1 DEF Finish, Return
    <2>2. CASE PlanRetry(r, o)
      <3>1. PICK after \in RetryAfters :
              IF o = "sqc429" THEN Extend(NextWait(r, o, after)) ELSE UNCHANGED gateVars
        BY <2>2 DEF PlanRetry
      <3>. QED BY <1>1, <1>3, <2>2, <3>1 DEF PlanRetry
    <2>. QED BY <1>4, <2>1, <2>2 DEF Outcome
  <1>5. ASSUME NEW r \in Requests, Issue(r) \/ Send(r) \/ Retry(r) \/ Abort(r) \/ Cancel(r)
        PROVE  UNCHANGED gateVars
    BY <1>5, Zenon DEF Issue, Send, Retry, Abort, Cancel
  <1>6. CASE UNCHANGED vars
    BY <1>1, <1>6 DEF vars
  <1>. QED BY <1>1, <1>2, <1>4, <1>5, <1>6 DEF Next, Step

(***************************************************************************)
(* The pause the observers were told of is wall-clock time of the gate,    *)
(* whatever the schedules and the order in which the limits are met.       *)
(***************************************************************************)
THEOREM PauseAccounted == Spec => []PauseIsWallClock
  <1>1. Init => PauseIsWallClock
    BY DEF Init, PauseIsWallClock
  <1>. QED BY <1>1, RetryTypeCorrect, PauseStep, PTL DEF Spec

(***************************************************************************)
(* What makes BodiesAreWhole inductive: a request that sleeps before its   *)
(* next attempt had its body rewound, which only a replayable one allows.  *)
(***************************************************************************)
RewoundBeforeSleep ==
  \A r \in Requests : /\ pc[r] = "idle" => attempt[r] = 0 /\ body[r] = "whole"
                      /\ pc[r] = "backoff" => r \in Replayable /\ body[r] = "whole"

BodyInv == TypeOK /\ BodiesAreWhole /\ RewoundBeforeSleep

LEMMA BodyStep == BodyInv /\ [Next]_vars => BodiesAreWhole' /\ RewoundBeforeSleep'
  <1>. SUFFICES ASSUME BodyInv, [Next]_vars PROVE BodiesAreWhole' /\ RewoundBeforeSleep'
    OBVIOUS
  <1>. USE DEF BodyInv, BodiesAreWhole, RewoundBeforeSleep, TypeOK
  <1>1. ASSUME NEW r \in Requests, Issue(r) PROVE BodiesAreWhole' /\ RewoundBeforeSleep'
    BY <1>1 DEF Issue, Park
  <1>2. ASSUME NEW r \in Requests, Send(r) PROVE BodiesAreWhole' /\ RewoundBeforeSleep'
    BY <1>2 DEF Send
  <1>3. ASSUME NEW r \in Requests, NEW o \in Outcomes, Outcome(r, o)
        PROVE  BodiesAreWhole' /\ RewoundBeforeSleep'
    <2>1. CASE Finish(r, o)
      BY <2>1 DEF Finish, Return
    <2>2. CASE PlanRetry(r, o)
      <3>1. /\ pc' = [pc EXCEPT ![r] = "backoff"] /\ body' = [body EXCEPT ![r] = "whole"]
            /\ attempt' = attempt /\ r \in Replayable
            /\ response' = [response EXCEPT ![r] = IF o = "network" THEN "none" ELSE "closed"]
        BY <2>2 DEF PlanRetry, More
      <3>. QED BY <3>1
    <2>. QED BY <1>3, <2>1, <2>2 DEF Outcome
  <1>4. ASSUME NEW r \in Requests, Retry(r) PROVE BodiesAreWhole' /\ RewoundBeforeSleep'
    BY <1>4 DEF Retry, Park
  <1>5. ASSUME NEW r \in Requests, Abort(r) PROVE BodiesAreWhole' /\ RewoundBeforeSleep'
    BY <1>5 DEF Abort
  <1>6. ASSUME NEW r \in Requests, Cancel(r) PROVE BodiesAreWhole' /\ RewoundBeforeSleep'
    BY <1>6 DEF Cancel, callVars
  <1>7. CASE Tick
    BY <1>7 DEF Tick
  <1>8. CASE UNCHANGED vars
    BY <1>8 DEF vars, callVars
  <1>. QED BY <1>1, <1>2, <1>3, <1>4, <1>5, <1>6, <1>7, <1>8 DEF Next, Step

(***************************************************************************)
(* No attempt is made with a spent body, and no response is handed to the  *)
(* caller with its body closed, under any mix of outcomes.                 *)
(***************************************************************************)
THEOREM BodiesKept == Spec => []BodiesAreWhole
  <1>1. Init => BodiesAreWhole /\ RewoundBeforeSleep
    BY DEF Init, BodiesAreWhole, RewoundBeforeSleep
  <1>. QED BY <1>1, RetryTypeCorrect, BodyStep, PTL DEF Spec, BodyInv
-----------------------------------------------------------------------------
(* The log of grants *)

\* The log is kept in order of age.
OldestFirst(ages) == \A i, j \in DOMAIN ages : i < j => ages[i] >= ages[j]

\* The number of leading stale ages.
Splits(ages, k) ==
  /\ k \in 0 .. Len(ages)
  /\ \A i \in 1 .. k : ages[i] > Window
  /\ \A i \in k + 1 .. Len(ages) : ages[i] <= Window

LEMMA StaleSplits ==
  ASSUME NEW ages \in Seq(Ages), OldestFirst(ages) PROVE Splits(ages, Stale(ages))
<1> DEFINE Ends == {i \in 0 .. Len(ages) : i < Len(ages) => ages[i + 1] <= Window}
           IsStale(i) == /\ \A j \in 1 .. i : ages[j] > Window
                         /\ i < Len(ages) => ages[i + 1] <= Window
<1>1. /\ Len(ages) \in Nat /\ DOMAIN ages = 1 .. Len(ages) /\ Window \in Nat
      /\ \A i \in 1 .. Len(ages) : ages[i] \in Nat
      BY WindowAssumption DEF Ages
<1>2. Ends \in SUBSET Int /\ Len(ages) \in Ends /\ IsFiniteSet(Ends)
  <2>1. Ends \in SUBSET (0 .. Len(ages)) /\ Len(ages) \in Ends
        BY <1>1
  <2>2. IsFiniteSet(0 .. Len(ages))
        BY <1>1, FS_Interval
  <2>3. 0 .. Len(ages) \subseteq Int
        BY <1>1
  <2> HIDE DEF Ends
  <2>4. IsFiniteSet(Ends)
        BY <2>1, <2>2, FS_Subset
  <2>. QED BY <2>1, <2>3, <2>4
<1>3. PICK k \in Ends : \A m \in Ends : k <= m
  <2> HIDE DEF Ends
  <2>. QED BY <1>2, LeastElement
<1>4. \A j \in 1 .. k : ages[j] > Window
  <2> TAKE j \in 1 .. k
  <2>1. j - 1 \in 0 .. Len(ages) /\ j - 1 < k /\ j - 1 < Len(ages) /\ (j - 1) + 1 = j
        BY <1>1
  <2>2. j - 1 \notin Ends
    <3> HIDE DEF Ends
    <3>1. k \in Int /\ j \in Int
          BY <1>2
    <3>. QED BY <1>3, <3>1
  <2>. QED BY <1>1, <2>1, <2>2
<1>5. k \in 0 .. Len(ages) /\ IsStale(k)
      BY <1>3, <1>4
<1>6. Stale(ages) = CHOOSE i \in 0 .. Len(ages) : IsStale(i)
      BY DEF Stale
<1>7. Stale(ages) \in 0 .. Len(ages) /\ IsStale(Stale(ages))
  <2> HIDE DEF IsStale
  <2>. QED BY <1>5, <1>6
<1>8. \A i \in Stale(ages) + 1 .. Len(ages) : ages[i] <= Window
  <2> TAKE i \in Stale(ages) + 1 .. Len(ages)
  <2>1. ages[Stale(ages) + 1] <= Window /\ Stale(ages) + 1 \in DOMAIN ages /\ i \in DOMAIN ages
        BY <1>1, <1>7
  <2>2. i = Stale(ages) + 1 \/ ages[Stale(ages) + 1] >= ages[i]
        BY <1>1, <2>1 DEF OldestFirst
  <2>. QED BY <1>1, <2>1, <2>2
<1>. QED BY <1>7, <1>8 DEF Splits

\* Where the stale ages end is where the purge cuts.
LEMMA FreshAfter ==
  ASSUME NEW ages \in Seq(Ages), OldestFirst(ages), NEW k, Splits(ages, k)
  PROVE  /\ Stale(ages) = k
         /\ Fresh(ages) \in Seq(0 .. Window)
         /\ Len(Fresh(ages)) = Len(ages) - k
         /\ \A i \in 1 .. Len(ages) - k : Fresh(ages)[i] = ages[k + i]
<1>1. /\ Len(ages) \in Nat /\ Window \in Nat
      /\ \A i \in 1 .. Len(ages) : ages[i] \in Nat
      BY WindowAssumption DEF Ages
<1>2. Splits(ages, Stale(ages))
      BY StaleSplits
<1>3. Stale(ages) = k
  <2>1. CASE Stale(ages) < k
    <3>1. k \in 1 .. Len(ages) /\ ages[k] > Window /\ ages[k] <= Window
          BY <1>1, <1>2, <2>1 DEF Splits
    <3>. QED BY <1>1, <3>1
  <2>2. CASE Stale(ages) > k
    <3>1. Stale(ages) \in 1 .. Len(ages) /\ ages[Stale(ages)] > Window /\ ages[Stale(ages)] <= Window
          BY <1>1, <1>2, <2>2 DEF Splits
    <3>. QED BY <1>1, <3>1
  <2>. QED BY <1>1, <1>2, <2>1, <2>2 DEF Splits
<1>4. \A i \in k + 1 .. Len(ages) : ages[i] \in 0 .. Window
      BY <1>1 DEF Splits
<1>5. k + 1 \in Int /\ Len(ages) \in Int /\ k \in Nat /\ k <= Len(ages)
      BY <1>1 DEF Splits
<1>6. /\ SubSeq(ages, k + 1, Len(ages)) \in Seq(0 .. Window)
      /\ Len(SubSeq(ages, k + 1, Len(ages))) = IF k + 1 <= Len(ages) THEN Len(ages) - (k + 1) + 1 ELSE 0
      /\ \A i \in 1 .. Len(ages) - (k + 1) + 1 :
            SubSeq(ages, k + 1, Len(ages))[i] = ages[(k + 1) + i - 1]
      BY <1>4, <1>5, SubSeqProperties
<1>7. \A i \in 1 .. Len(ages) - k : (k + 1) + i - 1 = k + i
      BY <1>5
<1>. QED BY <1>3, <1>5, <1>6, <1>7 DEF Fresh

\* A log without stale ages is left as it is.
LEMMA FreshIsKept ==
  ASSUME NEW ages \in Seq(0 .. Window), OldestFirst(ages) PROVE Fresh(ages) = ages
<1>1. ages \in Seq(Ages) /\ Window \in Nat /\ Len(ages) \in Nat
  <2>1. 0 .. Window \subseteq Ages /\ Window \in Nat
        BY WindowAssumption DEF Ages
  <2>. QED BY <2>1, SeqMonotonic
<1>2. Splits(ages, 0)
      BY <1>1 DEF Splits
<1>3. /\ Fresh(ages) \in Seq(0 .. Window) /\ Len(Fresh(ages)) = Len(ages)
      /\ \A i \in 1 .. Len(ages) : Fresh(ages)[i] = ages[i]
      BY <1>1, <1>2, FreshAfter
<1>. QED BY <1>3, SeqEqual

\* What is left is in the order it was.
LEMMA FreshIsOrdered ==
  ASSUME NEW ages \in Seq(Ages), OldestFirst(ages)
  PROVE  OldestFirst(Fresh(ages)) /\ Fresh(ages) \in Seq(0 .. Window) /\ Fresh(ages) \in Seq(Ages)
<1> DEFINE k == Stale(ages)
<1>1. /\ k \in 0 .. Len(ages) /\ Len(ages) \in Nat /\ Window \in Nat
      BY StaleSplits, WindowAssumption DEF Splits
<1>2. /\ Fresh(ages) \in Seq(0 .. Window)
      /\ Len(Fresh(ages)) = Len(ages) - k
      /\ \A i \in 1 .. Len(ages) - k : Fresh(ages)[i] = ages[k + i]
      BY StaleSplits, FreshAfter
<1> HIDE DEF k
<1>3. ASSUME NEW i \in DOMAIN Fresh(ages), NEW j \in DOMAIN Fresh(ages), i < j
      PROVE  Fresh(ages)[i] >= Fresh(ages)[j]
  <2>1. i \in 1 .. Len(ages) - k /\ j \in 1 .. Len(ages) - k
        BY <1>1, <1>2
  <2>2. k + i \in DOMAIN ages /\ k + j \in DOMAIN ages /\ k + i < k + j
        BY <1>1, <1>3, <2>1
  <2>. QED BY <1>2, <2>1, <2>2 DEF OldestFirst
<1>4. 0 .. Window \subseteq Ages
      BY <1>1 DEF Ages
<1>. QED BY <1>2, <1>3, <1>4, SeqMonotonic DEF OldestFirst

\* A grant is logged as the youngest.
LEMMA FreshWithGrant ==
  ASSUME NEW ages \in Seq(0 .. Window), OldestFirst(ages)
  PROVE  /\ Append(ages, 0) \in Seq(0 .. Window) /\ OldestFirst(Append(ages, 0))
         /\ Fresh(Append(ages, 0)) = Append(ages, 0)
<1>1. Window \in Nat /\ 0 \in 0 .. Window /\ Len(ages) \in Nat
      BY WindowAssumption
<1>2. Append(ages, 0) \in Seq(0 .. Window)
      BY <1>1
<1>3. /\ DOMAIN Append(ages, 0) = 1 .. Len(ages) + 1
      /\ \A i \in 1 .. Len(ages) + 1 :
           Append(ages, 0)[i] = IF i = Len(ages) + 1 THEN 0 ELSE ages[i]
      BY <1>1
<1>4. \A i \in 1 .. Len(ages) : ages[i] \in Nat
      BY <1>1
<1>5. OldestFirst(Append(ages, 0))
      BY <1>1, <1>3, <1>4 DEF OldestFirst
<1>. QED BY <1>2, <1>5, FreshIsKept

\* Ageing keeps the order.
LEMMA AgedIsOrdered ==
  ASSUME NEW ages \in Seq(Ages), OldestFirst(ages)
  PROVE  Aged(ages) \in Seq(Ages) /\ OldestFirst(Aged(ages)) /\ Len(Aged(ages)) = Len(ages)
<1>1. /\ Window \in Nat /\ Len(ages) \in Nat /\ DOMAIN ages = 1 .. Len(ages)
      /\ \A i \in 1 .. Len(ages) : ages[i] \in Ages
      BY WindowAssumption
<1>2. \A age \in Ages : Older(age) \in Ages /\ Older(age) \in Nat
      BY <1>1 DEF Older, Ages
<1>3. Aged(ages) = [i \in 1 .. Len(ages) |-> Older(ages[i])]
      BY <1>1 DEF Aged
<1>4. Aged(ages) \in [1 .. Len(ages) -> Ages]
      BY <1>1, <1>2, <1>3
<1>5. Aged(ages) \in Seq(Ages) /\ Len(Aged(ages)) = Len(ages)
      BY <1>1, <1>4
<1>6. \A a, b \in Ages : a >= b => Older(a) >= Older(b)
      BY <1>1 DEF Older, Ages
<1>. QED BY <1>1, <1>3, <1>5, <1>6 DEF OldestFirst

\* Purging before a tick or only after it leaves the same grants.
LEMMA FreshAges ==
  ASSUME NEW ages \in Seq(Ages), OldestFirst(ages)
  PROVE  Fresh(Aged(ages)) = Fresh(Aged(Fresh(ages)))
<1> DEFINE k == Stale(ages)
           r == Fresh(ages)
           m == Stale(Aged(r))
<1>1. /\ Window \in Nat /\ Len(ages) \in Nat /\ k \in 0 .. Len(ages)
      /\ \A i \in 1 .. k : ages[i] > Window
      /\ \A i \in 1 .. Len(ages) : ages[i] \in Nat /\ ages[i] \in Ages
      BY StaleSplits, WindowAssumption DEF Splits, Ages
<1>2. /\ r \in Seq(Ages) /\ OldestFirst(r) /\ Len(r) = Len(ages) - k
      /\ \A i \in 1 .. Len(ages) - k : r[i] = ages[k + i]
      BY StaleSplits, FreshAfter, FreshIsOrdered
<1>3. /\ Aged(ages) \in Seq(Ages) /\ OldestFirst(Aged(ages)) /\ Len(Aged(ages)) = Len(ages)
      /\ Aged(r) \in Seq(Ages) /\ OldestFirst(Aged(r)) /\ Len(Aged(r)) = Len(ages) - k
      BY <1>2, AgedIsOrdered
<1>4. Splits(Aged(r), m)
      BY <1>3, StaleSplits
<1> HIDE DEF k, r, m
<1>5. /\ \A i \in 1 .. Len(ages) : Aged(ages)[i] = Older(ages[i])
      /\ \A i \in 1 .. Len(ages) - k : Aged(r)[i] = Aged(ages)[k + i]
  <2>1. \A i \in 1 .. Len(ages) : Aged(ages)[i] = Older(ages[i])
        BY <1>1 DEF Aged
  <2>2. \A i \in 1 .. Len(ages) - k : Aged(r)[i] = Older(r[i])
        BY <1>1, <1>2 DEF Aged
  <2>3. \A i \in 1 .. Len(ages) - k : k + i \in 1 .. Len(ages)
        BY <1>1
  <2>. QED BY <1>2, <2>1, <2>2, <2>3
<1>6. Splits(Aged(ages), k + m)
  <2>1. m \in 0 .. Len(ages) - k /\ k + m \in 0 .. Len(ages)
        BY <1>1, <1>3, <1>4 DEF Splits
  <2>2. ASSUME NEW i \in 1 .. k + m PROVE Aged(ages)[i] > Window
    <3>1. CASE i <= k
      <4>1. i \in 1 .. k /\ i \in 1 .. Len(ages)
            BY <1>1, <2>1, <3>1
      <4>. QED BY <1>1, <1>5, <4>1 DEF Older
    <3>2. CASE i > k
      <4>1. i - k \in 1 .. m /\ i - k \in 1 .. Len(ages) - k /\ k + (i - k) = i
            BY <1>1, <2>1, <3>2
      <4>2. Aged(r)[i - k] > Window /\ Aged(r)[i - k] = Aged(ages)[k + (i - k)]
            BY <1>4, <1>5, <4>1 DEF Splits
      <4>. QED BY <4>1, <4>2
    <3>. QED BY <1>1, <2>1, <3>1, <3>2
  <2>3. ASSUME NEW i \in k + m + 1 .. Len(ages) PROVE Aged(ages)[i] <= Window
    <3>1. i - k \in m + 1 .. Len(ages) - k /\ i - k \in 1 .. Len(ages) - k /\ k + (i - k) = i
          BY <1>1, <2>1
    <3>2. Aged(r)[i - k] <= Window /\ Aged(r)[i - k] = Aged(ages)[k + (i - k)]
          BY <1>3, <1>4, <1>5, <3>1 DEF Splits
    <3>. QED BY <3>1, <3>2
  <2>. QED BY <1>3, <2>1, <2>2, <2>3 DEF Splits
<1>7. /\ Fresh(Aged(ages)) \in Seq(0 .. Window)
      /\ Len(Fresh(Aged(ages))) = Len(ages) - (k + m)
      /\ \A i \in 1 .. Len(ages) - (k + m) : Fresh(Aged(ages))[i] = Aged(ages)[(k + m) + i]
      BY <1>3, <1>6, FreshAfter
<1>8. /\ Fresh(Aged(r)) \in Seq(0 .. Window)
      /\ Len(Fresh(Aged(r))) = Len(ages) - k - m
      /\ \A i \in 1 .. Len(ages) - k - m : Fresh(Aged(r))[i] = Aged(r)[m + i]
      BY <1>3, <1>4, FreshAfter
<1>9. m \in Nat /\ m <= Len(ages) - k /\ k \in Nat
      BY <1>1, <1>3, <1>4 DEF Splits
<1>10. \A i \in 1 .. Len(ages) - k - m : Fresh(Aged(ages))[i] = Fresh(Aged(r))[i]
  <2> TAKE i \in 1 .. Len(ages) - k - m
  <2>1. /\ i \in 1 .. Len(ages) - (k + m) /\ m + i \in 1 .. Len(ages) - k
        /\ k + (m + i) = (k + m) + i
        BY <1>1, <1>9
  <2>. QED BY <1>5, <1>7, <1>8, <2>1
<1>11. Len(Fresh(Aged(ages))) = Len(Fresh(Aged(r))) /\ Len(Fresh(Aged(ages))) = Len(ages) - k - m
      BY <1>1, <1>7, <1>8, <1>9
<1>12. Fresh(Aged(ages)) = Fresh(Aged(r))
      BY <1>7, <1>8, <1>10, <1>11, SeqEqual
<1>. QED BY <1>12 DEF r
-----------------------------------------------------------------------------
(* The queue *)

\* A caller that joins is added to those queued.
LEMMA QueueJoined ==
  ASSUME NEW q \in Seq(Callers), IsInjective(q), NEW c \in Callers, c \notin ToSet(q)
  PROVE  /\ Append(q, c) \in Seq(Callers) /\ IsInjective(Append(q, c))
         /\ ToSet(Append(q, c)) = ToSet(q) \union {c}
<1> DEFINE qq == Append(q, c)
<1>1. /\ Len(q) \in Nat /\ DOMAIN q = 1 .. Len(q)
      /\ qq \in Seq(Callers) /\ Len(qq) = Len(q) + 1 /\ DOMAIN qq = 1 .. Len(q) + 1
      /\ \A i \in 1 .. Len(q) : qq[i] = q[i]
      /\ qq[Len(q) + 1] = c
      BY AppendProperties, LenProperties
<1>2. \A i \in 1 .. Len(q) : q[i] # c
      BY <1>1 DEF ToSet
<1> HIDE DEF qq
<1>3. IsInjective(qq)
  <2> SUFFICES ASSUME NEW a \in 1 .. Len(q) + 1, NEW b \in 1 .. Len(q) + 1, qq[a] = qq[b]
               PROVE  a = b
      BY <1>1 DEF IsInjective
  <2>1. CASE a = Len(q) + 1 /\ b # Len(q) + 1
    <3>1. b \in 1 .. Len(q)
          BY <1>1, <2>1
    <3>. QED BY <1>1, <1>2, <2>1, <3>1
  <2>2. CASE b = Len(q) + 1 /\ a # Len(q) + 1
    <3>1. a \in 1 .. Len(q)
          BY <1>1, <2>2
    <3>. QED BY <1>1, <1>2, <2>2, <3>1
  <2>3. CASE a # Len(q) + 1 /\ b # Len(q) + 1
    <3>1. a \in 1 .. Len(q) /\ b \in 1 .. Len(q)
          BY <1>1, <2>3
    <3>. QED BY <1>1, <3>1 DEF IsInjective
  <2>. QED BY <2>1, <2>2, <2>3
<1>4. ToSet(qq) = ToSet(q) \union {c}
  <2>1. ASSUME NEW x \in ToSet(qq) PROVE x \in ToSet(q) \union {c}
    <3>1. PICK i \in 1 .. Len(q) + 1 : x = qq[i]
          BY <1>1 DEF ToSet
    <3>2. i = Len(q) + 1 \/ i \in 1 .. Len(q)
          BY <1>1
    <3>. QED BY <1>1, <3>1, <3>2 DEF ToSet
  <2>2. ASSUME NEW x \in ToSet(q) PROVE x \in ToSet(qq)
    <3>1. PICK i \in 1 .. Len(q) : x = q[i]
          BY <1>1 DEF ToSet
    <3>2. i \in 1 .. Len(q) + 1 /\ x = qq[i]
          BY <1>1, <3>1
    <3>. QED BY <1>1, <3>2 DEF ToSet
  <2>3. c \in ToSet(qq)
    <3>1. Len(q) + 1 \in 1 .. Len(q) + 1
          BY <1>1
    <3>. QED BY <1>1, <3>1 DEF ToSet
  <2>. QED BY <2>1, <2>2, <2>3
<1>. QED BY <1>1, <1>3, <1>4 DEF qq

\* Whoever leaves, from whatever place, is no longer among those queued.
LEMMA QueueLeft ==
  ASSUME NEW q \in Seq(Callers), IsInjective(q), NEW i \in DOMAIN q
  PROVE  /\ RemoveAt(q, i) \in Seq(Callers) /\ IsInjective(RemoveAt(q, i))
         /\ ToSet(RemoveAt(q, i)) = ToSet(q) \ {q[i]}
<1> DEFINE qq == RemoveAt(q, i)
           at(j) == IF j < i THEN j ELSE j + 1
<1>1. /\ Len(q) \in Nat /\ DOMAIN q = 1 .. Len(q) /\ i \in 1 .. Len(q)
      /\ \A j \in 1 .. Len(q) : q[j] \in Callers
      BY LenProperties, ElementOfSeq
<1>2. /\ SubSeq(q, 1, i - 1) \in Seq(Callers) /\ Len(SubSeq(q, 1, i - 1)) = i - 1
      /\ \A j \in 1 .. i - 1 : SubSeq(q, 1, i - 1)[j] = q[j]
  <2>1. 1 \in Int /\ i - 1 \in Int /\ \A j \in 1 .. i - 1 : q[j] \in Callers
        BY <1>1
  <2>2. /\ SubSeq(q, 1, i - 1) \in Seq(Callers)
        /\ Len(SubSeq(q, 1, i - 1)) = IF 1 <= i - 1 THEN (i - 1) - 1 + 1 ELSE 0
        /\ \A j \in 1 .. (i - 1) - 1 + 1 : SubSeq(q, 1, i - 1)[j] = q[1 + j - 1]
        BY <2>1, SubSeqProperties
  <2>. QED BY <1>1, <2>2
<1>3. /\ SubSeq(q, i + 1, Len(q)) \in Seq(Callers) /\ Len(SubSeq(q, i + 1, Len(q))) = Len(q) - i
      /\ \A j \in 1 .. Len(q) - i : SubSeq(q, i + 1, Len(q))[j] = q[i + j]
  <2>1. i + 1 \in Int /\ Len(q) \in Int /\ \A j \in i + 1 .. Len(q) : q[j] \in Callers
        BY <1>1
  <2>2. /\ SubSeq(q, i + 1, Len(q)) \in Seq(Callers)
        /\ Len(SubSeq(q, i + 1, Len(q))) = IF i + 1 <= Len(q) THEN Len(q) - (i + 1) + 1 ELSE 0
        /\ \A j \in 1 .. Len(q) - (i + 1) + 1 : SubSeq(q, i + 1, Len(q))[j] = q[(i + 1) + j - 1]
        BY <2>1, SubSeqProperties
  <2>3. \A j \in 1 .. Len(q) - i : (i + 1) + j - 1 = i + j
        BY <1>1
  <2>. QED BY <1>1, <2>2, <2>3
<1>4. /\ qq \in Seq(Callers) /\ Len(qq) = Len(q) - 1 /\ DOMAIN qq = 1 .. Len(q) - 1
      /\ \A j \in 1 .. Len(q) - 1 : qq[j] = q[at(j)]
  <2>1. /\ qq \in Seq(Callers) /\ Len(qq) = (i - 1) + (Len(q) - i)
        /\ \A j \in 1 .. (i - 1) + (Len(q) - i) :
             qq[j] = IF j <= i - 1 THEN SubSeq(q, 1, i - 1)[j]
                     ELSE SubSeq(q, i + 1, Len(q))[j - (i - 1)]
    <3> DEFINE before == SubSeq(q, 1, i - 1)
               after == SubSeq(q, i + 1, Len(q))
    <3>1. qq = before \o after
          BY DEF RemoveAt
    <3>2. before \in Seq(Callers) /\ after \in Seq(Callers) /\ Len(before) = i - 1 /\ Len(after) = Len(q) - i
          BY <1>2, <1>3
    <3> HIDE DEF before, after
    <3>3. /\ before \o after \in Seq(Callers)
          /\ Len(before \o after) = Len(before) + Len(after)
          /\ \A j \in 1 .. Len(before) + Len(after) :
               (before \o after)[j] = IF j <= Len(before) THEN before[j] ELSE after[j - Len(before)]
          BY <3>2, ConcatProperties
    <3> HIDE DEF qq
    <3>4. /\ qq \in Seq(Callers) /\ Len(qq) = (i - 1) + (Len(q) - i)
          /\ \A j \in 1 .. (i - 1) + (Len(q) - i) :
               qq[j] = IF j <= i - 1 THEN before[j] ELSE after[j - (i - 1)]
          BY <3>1, <3>2, <3>3
    <3>. QED BY <3>4 DEF before, after
  <2> HIDE DEF qq
  <2>2. ASSUME NEW j \in 1 .. Len(q) - 1 PROVE qq[j] = q[at(j)]
    <3>1. CASE j < i
      <4>1. j \in 1 .. i - 1 /\ j \in 1 .. (i - 1) + (Len(q) - i) /\ j <= i - 1
            BY <1>1, <3>1
      <4>. QED BY <1>2, <2>1, <3>1, <4>1
    <3>2. CASE ~(j < i)
      <4>1. /\ j - (i - 1) \in 1 .. Len(q) - i /\ j \in 1 .. (i - 1) + (Len(q) - i)
            /\ ~(j <= i - 1) /\ i + (j - (i - 1)) = j + 1
            BY <1>1, <3>2
      <4>2. qq[j] = q[i + (j - (i - 1))]
            BY <1>3, <2>1, <4>1
      <4>. QED BY <3>2, <4>1, <4>2
    <3>. QED BY <3>1, <3>2
  <2>. QED BY <1>1, <2>1, <2>2, LenProperties
<1>5. /\ \A j \in 1 .. Len(q) - 1 : at(j) \in 1 .. Len(q) /\ at(j) # i
      /\ \A j, k \in 1 .. Len(q) - 1 : at(j) = at(k) => j = k
      /\ \A m \in 1 .. Len(q) : m # i => \E j \in 1 .. Len(q) - 1 : at(j) = m
  <2>1. /\ \A j \in 1 .. Len(q) - 1 : at(j) \in 1 .. Len(q) /\ at(j) # i
        /\ \A j, k \in 1 .. Len(q) - 1 : at(j) = at(k) => j = k
        BY <1>1
  <2>2. ASSUME NEW m \in 1 .. Len(q), m # i PROVE \E j \in 1 .. Len(q) - 1 : at(j) = m
    <3>1. CASE m < i
      <4>1. m \in 1 .. Len(q) - 1 /\ at(m) = m
            BY <1>1, <3>1
      <4>. QED BY <4>1
    <3>2. CASE m > i
      <4>1. m - 1 \in 1 .. Len(q) - 1 /\ at(m - 1) = m
            BY <1>1, <3>2
      <4>. QED BY <4>1
    <3>. QED BY <1>1, <2>2, <3>1, <3>2
  <2>. QED BY <2>1, <2>2
<1> HIDE DEF qq, at
<1>6. IsInjective(qq)
  <2> SUFFICES ASSUME NEW a \in 1 .. Len(q) - 1, NEW b \in 1 .. Len(q) - 1, qq[a] = qq[b]
               PROVE  a = b
      BY <1>4 DEF IsInjective
  <2>1. q[at(a)] = q[at(b)] /\ at(a) \in DOMAIN q /\ at(b) \in DOMAIN q
        BY <1>1, <1>4, <1>5
  <2>2. at(a) = at(b)
        BY <2>1 DEF IsInjective
  <2>. QED BY <1>5, <2>2
<1>7. ToSet(qq) = ToSet(q) \ {q[i]}
  <2>1. ASSUME NEW x \in ToSet(qq) PROVE x \in ToSet(q) \ {q[i]}
    <3>1. PICK j \in 1 .. Len(q) - 1 : x = qq[j]
          BY <1>4 DEF ToSet
    <3>2. x = q[at(j)] /\ at(j) \in DOMAIN q /\ at(j) # i
          BY <1>1, <1>4, <1>5, <3>1
    <3>3. x # q[i]
          BY <1>1, <3>2 DEF IsInjective
    <3>. QED BY <3>2, <3>3 DEF ToSet
  <2>2. ASSUME NEW x \in ToSet(q), x # q[i] PROVE x \in ToSet(qq)
    <3>1. PICK m \in 1 .. Len(q) : x = q[m]
          BY <1>1 DEF ToSet
    <3>2. PICK j \in 1 .. Len(q) - 1 : at(j) = m
          BY <1>5, <2>2, <3>1
    <3>3. x = qq[j] /\ j \in DOMAIN qq
          BY <1>4, <3>1, <3>2
    <3>. QED BY <3>3 DEF ToSet
  <2>. QED BY <2>1, <2>2
<1>. QED BY <1>4, <1>6, <1>7 DEF qq

\* The head leaves as anyone else does.
LEMMA HeadLeaves ==
  ASSUME NEW q \in Seq(Callers), q # <<>>
  PROVE  1 \in DOMAIN q /\ q[1] = Head(q) /\ Tail(q) = RemoveAt(q, 1)
<1>1. Len(q) \in Nat \ {0} /\ DOMAIN q = 1 .. Len(q) /\ Head(q) = q[1]
      BY EmptySeq, LenProperties
<1>2. 1 \in DOMAIN q
      BY <1>1
<1>3. RemoveAt(q, 1) = SubSeq(q, 1, 0) \o SubSeq(q, 2, Len(q))
      BY DEF RemoveAt
<1>4. SubSeq(q, 1, 0) = <<>>
      BY SubSeqEmpty
<1>5. SubSeq(q, 2, Len(q)) = Tail(q) /\ Tail(q) \in Seq(Callers)
      BY TailIsSubSeq, HeadTailProperties
<1>. QED BY <1>1, <1>2, <1>3, <1>4, <1>5, ConcatEmptySeq

\* The head of the queue is queued.
LEMMA HeadIsQueued ==
  ASSUME NEW q \in Seq(Callers), q # <<>>
  PROVE  Head(q) \in ToSet(q)
BY HeadLeaves DEF ToSet
-----------------------------------------------------------------------------
(* The window *)

\* The log is in order of age, and purging it leaves exactly the recent grants.
LogIsRecent == OldestFirst(timestamps) /\ recent = Fresh(timestamps)

(***************************************************************************)
(* The wait of an unwarned head: its timer fires no later than the oldest  *)
(* of Limit recent grants leaves the window.                               *)
(***************************************************************************)
InTime(c) == \/ c \in woken
             \/ nap[c] <= 1
             \/ Len(recent) = Limit /\ nap[c] + recent[1] <= Window

HeadIsTimed == \A c \in Callers : AtHead(c) /\ callerAt[c] = "asleep" => InTime(c)

WindowIInv == WindowTypeOK /\ RateKept /\ LogIsRecent /\ HeadIsTimed

LEMMA WindowFacts ==
  ASSUME WindowIInv
  PROVE  /\ Window \in Nat \ {0} /\ Limit \in Nat \ {0}
         /\ Fresh(timestamps) = recent /\ recent \in Seq(0 .. Window) /\ OldestFirst(recent)
         /\ Fresh(recent) = recent /\ Len(recent) \in Nat /\ DOMAIN recent = 1 .. Len(recent)
<1>1. timestamps \in Seq(Ages) /\ recent \in Seq(0 .. Window)
      BY DEF WindowIInv, WindowTypeOK
<1>2. recent = Fresh(timestamps) /\ OldestFirst(recent)
      BY <1>1, FreshIsOrdered DEF WindowIInv, LogIsRecent
<1>3. Fresh(recent) = recent
      BY <1>1, <1>2, FreshIsKept
<1>4. Window \in Nat \ {0} /\ Limit \in Nat \ {0}
      BY WindowAssumption DEF Limit
<1>. QED BY <1>1, <1>2, <1>3, <1>4, LenProperties

LEMMA SleepIsShort ==
  ASSUME NEW log \in Seq(0 .. Window)
  PROVE  /\ NapAfter(log) \in 0 .. Window
         /\ log # <<>> => NapAfter(log) <= 1 \/ NapAfter(log) + log[1] <= Window
<1>1. Window \in Nat \ {0}
      BY WindowAssumption
<1>2. CASE log = <<>>
      BY <1>1, <1>2 DEF NapAfter
<1>3. CASE log # <<>>
  <2>1. Head(log) = log[1] /\ Head(log) \in 0 .. Window
    <3>1. Len(log) \in Nat \ {0}
          BY <1>3, EmptySeq
    <3>2. Head(log) = log[1]
          OBVIOUS
    <3>3. 1 \in 1 .. Len(log)
          BY <3>1
    <3>4. log[1] \in 0 .. Window
          BY <3>3, ElementOfSeq
    <3>. QED BY <3>2, <3>4
  <2>2. NapAfter(log) = IF Window - Head(log) <= 0 THEN 1 ELSE Window - Head(log)
        BY <1>3 DEF NapAfter
  <2>. QED BY <1>1, <2>1, <2>2
<1>. QED BY <1>2, <1>3

\* Before anyone waits.
LEMMA WindowInvHoldsFirst == ASSUME WindowInit PROVE WindowIInv
<1>1. Window \in Nat \ {0} /\ Limit \in Nat \ {0}
      BY WindowAssumption DEF Limit
<1>2. <<>> \in Seq(Ages) /\ <<>> \in Seq(0 .. Window) /\ <<>> \in Seq(Callers) /\ Len(<<>>) = 0
      BY EmptySeq
<1>3. DOMAIN <<>> = {} /\ ToSet(<<>>) = {} /\ IsInjective(<<>>) /\ OldestFirst(<<>>)
  <2>1. DOMAIN <<>> = {}
        BY <1>2, LenProperties
  <2>. QED BY <2>1 DEF ToSet, IsInjective, OldestFirst
<1>4. Fresh(<<>>) = <<>>
      BY <1>2, <1>3, FreshIsKept
<1>5. callerAt = [c \in Callers |-> "idle"] /\ nap = [c \in Callers |-> 0]
      BY DEF WindowInit
<1>6. WindowTypeOK
      BY <1>1, <1>2, <1>3, <1>5 DEF WindowInit, WindowTypeOK
<1>7. RateKept /\ LogIsRecent
      BY <1>1, <1>2, <1>3, <1>4 DEF WindowInit, RateKept, LogIsRecent
<1>8. HeadIsTimed
      BY <1>5 DEF HeadIsTimed
<1>. QED BY <1>6, <1>7, <1>8 DEF WindowIInv

LEMMA EnqueueKeeps ==
  ASSUME WindowIInv, NEW c \in Callers, Enqueue(c) PROVE WindowIInv'
<1> USE DEF Enqueue, WindowIInv
<1>1. c \notin ToSet(waitQueue)
      BY DEF WindowTypeOK
<1>2. /\ waitQueue' \in Seq(Callers) /\ IsInjective(waitQueue')
      /\ ToSet(waitQueue') = ToSet(waitQueue) \union {c}
      BY <1>1, QueueJoined DEF WindowTypeOK
<1>3. /\ callerAt' \in [Callers -> {"idle", "checking", "asleep", "leaving"}]
      /\ \A x \in Callers : callerAt'[x] = IF x = c THEN "checking" ELSE callerAt[x]
      BY DEF WindowTypeOK
<1>4. ToSet(waitQueue') = {x \in Callers : callerAt'[x] # "idle"}
      BY <1>2, <1>3 DEF WindowTypeOK
<1>5. WindowTypeOK'
      BY <1>2, <1>3, <1>4 DEF WindowTypeOK
<1>6. RateKept' /\ LogIsRecent'
      BY DEF RateKept, LogIsRecent
<1>7. HeadIsTimed'
  <2> SUFFICES ASSUME NEW x \in Callers, AtHead(x)', callerAt'[x] = "asleep"
               PROVE  InTime(x)'
      BY DEF HeadIsTimed
  <2>1. x # c
        BY <1>3
  <2>2. Head(waitQueue') = IF waitQueue = <<>> THEN c ELSE Head(waitQueue)
        BY HeadTailAppend DEF WindowTypeOK
  <2>3. AtHead(x) /\ callerAt[x] = "asleep"
        BY <1>3, <2>1, <2>2 DEF AtHead
  <2>4. InTime(x)
        BY <2>3 DEF HeadIsTimed
  <2>. QED BY <2>1, <2>4 DEF InTime
<1>. QED BY <1>5, <1>6, <1>7

\* After a departure the new head has its notification.
LEMMA DepartureKeepsQueue ==
  ASSUME WindowIInv, NEW c \in Callers, callerAt[c] # "idle",
         NEW i \in DOMAIN waitQueue, waitQueue[i] = c,
         waitQueue' = RemoveAt(waitQueue, i),
         woken' = WakeHead(waitQueue') \ {c},
         callerAt' = [callerAt EXCEPT ![c] = "idle"],
         nap' = nap
  PROVE  /\ callerAt' \in [Callers -> {"idle", "checking", "asleep", "leaving"}]
         /\ waitQueue' \in Seq(Callers) /\ IsInjective(waitQueue')
         /\ ToSet(waitQueue') = {x \in Callers : callerAt'[x] # "idle"}
         /\ woken' \subseteq ToSet(waitQueue')
         /\ HeadIsTimed'
<1> USE DEF WindowIInv
<1>1. /\ waitQueue' \in Seq(Callers) /\ IsInjective(waitQueue')
      /\ ToSet(waitQueue') = ToSet(waitQueue) \ {c}
      BY QueueLeft DEF WindowTypeOK
<1>2. /\ callerAt' \in [Callers -> {"idle", "checking", "asleep", "leaving"}]
      /\ \A x \in Callers : callerAt'[x] = IF x = c THEN "idle" ELSE callerAt[x]
      BY DEF WindowTypeOK
<1>3. ToSet(waitQueue') = {x \in Callers : callerAt'[x] # "idle"}
      BY <1>1, <1>2 DEF WindowTypeOK
<1>4. woken' \subseteq ToSet(waitQueue')
  <2>1. waitQueue' # <<>> => Head(waitQueue') \in ToSet(waitQueue')
        BY <1>1, HeadIsQueued
  <2>. QED BY <1>1, <2>1 DEF WakeHead, WindowTypeOK
<1>5. HeadIsTimed'
  <2> SUFFICES ASSUME NEW x \in Callers, AtHead(x)', callerAt'[x] = "asleep"
               PROVE  x \in woken'
      BY DEF HeadIsTimed, InTime
  <2>1. x # c
        BY <1>2
  <2>. QED BY <2>1 DEF AtHead, WakeHead
<1>. QED BY <1>1, <1>2, <1>3, <1>4, <1>5

LEMMA GrantKeeps ==
  ASSUME WindowIInv, NEW c \in Callers, Grant(c) PROVE WindowIInv'
<1>1. /\ 1 \in DOMAIN waitQueue /\ waitQueue[1] = c /\ waitQueue' = RemoveAt(waitQueue, 1)
      BY HeadLeaves DEF Grant, AtHead, WindowIInv, WindowTypeOK
<1>2. /\ callerAt' \in [Callers -> {"idle", "checking", "asleep", "leaving"}]
      /\ waitQueue' \in Seq(Callers) /\ IsInjective(waitQueue')
      /\ ToSet(waitQueue') = {x \in Callers : callerAt'[x] # "idle"}
      /\ woken' \subseteq ToSet(waitQueue')
      /\ HeadIsTimed'
      BY <1>1, DepartureKeepsQueue DEF Grant
<1>3. timestamps' = Append(recent, 0) /\ recent' = Append(recent, 0) /\ Len(recent) < Limit
      BY WindowFacts DEF Grant
<1>4. /\ recent' \in Seq(0 .. Window) /\ OldestFirst(recent') /\ Fresh(recent') = recent'
      BY <1>3, WindowFacts, FreshWithGrant
<1>5. LogIsRecent'
  <2>1. OldestFirst(timestamps') /\ recent' = Fresh(timestamps')
        BY <1>3, <1>4
  <2>. QED BY <2>1 DEF LogIsRecent
<1>6. RateKept'
  <2>1. Len(recent') = Len(recent) + 1
        BY <1>3, WindowFacts
  <2>. QED BY <1>3, <2>1, WindowFacts DEF RateKept
<1>7. timestamps' \in Seq(Ages)
  <2>1. 0 .. Window \subseteq Ages
        BY WindowFacts DEF Ages
  <2>. QED BY <1>3, <1>4, <2>1, SeqMonotonic
<1>8. WindowTypeOK'
      BY <1>2, <1>4, <1>7 DEF WindowTypeOK, WindowIInv, Grant
<1>. QED BY <1>2, <1>5, <1>6, <1>8 DEF WindowIInv

LEMMA RefuseKeeps ==
  ASSUME WindowIInv, NEW c \in Callers, Refuse(c) PROVE WindowIInv'
<1> DEFINE free == Len(recent) < Limit
<1>1. /\ callerAt[c] = "checking" /\ ~(free /\ AtHead(c))
      /\ timestamps' = recent /\ recent' = recent /\ waitQueue' = waitQueue
      /\ woken' = IF free THEN WakeHead(waitQueue) ELSE woken
      /\ nap' = [nap EXCEPT ![c] = NapAfter(recent)]
      /\ callerAt' = [callerAt EXCEPT ![c] = "asleep"]
      BY WindowFacts DEF Refuse
<1>2. NapAfter(recent) \in 0 .. Window
      BY WindowFacts, SleepIsShort
<1>3. /\ callerAt' \in [Callers -> {"idle", "checking", "asleep", "leaving"}]
      /\ \A x \in Callers : callerAt'[x] = IF x = c THEN "asleep" ELSE callerAt[x]
      /\ nap' \in [Callers -> 0 .. Window]
      /\ \A x \in Callers : nap'[x] = IF x = c THEN NapAfter(recent) ELSE nap[x]
      BY <1>1, <1>2 DEF WindowIInv, WindowTypeOK
<1>4. timestamps' \in Seq(Ages)
  <2>1. 0 .. Window \subseteq Ages
        BY WindowFacts DEF Ages
  <2>. QED BY <1>1, <2>1, WindowFacts, SeqMonotonic
<1>5. woken' \subseteq ToSet(waitQueue')
  <2>1. waitQueue # <<>> => Head(waitQueue) \in ToSet(waitQueue)
        BY HeadIsQueued DEF WindowIInv, WindowTypeOK
  <2>. QED BY <1>1, <2>1 DEF WakeHead, WindowIInv, WindowTypeOK
<1>6. ToSet(waitQueue') = {x \in Callers : callerAt'[x] # "idle"}
      BY <1>1, <1>3 DEF WindowIInv, WindowTypeOK
<1>7. WindowTypeOK'
      BY <1>1, <1>3, <1>4, <1>5, <1>6 DEF WindowIInv, WindowTypeOK
<1>8. RateKept' /\ LogIsRecent'
  <2>1. OldestFirst(timestamps') /\ recent' = Fresh(timestamps') /\ Len(recent') <= Limit
        BY <1>1, WindowFacts DEF WindowIInv, RateKept
  <2>. QED BY <2>1 DEF RateKept, LogIsRecent
<1>9. HeadIsTimed'
  <2> SUFFICES ASSUME NEW x \in Callers, AtHead(x)', callerAt'[x] = "asleep"
               PROVE  InTime(x)'
      BY DEF HeadIsTimed
  <2>0. AtHead(x) /\ waitQueue # <<>> /\ Head(waitQueue) = x
        BY <1>1 DEF AtHead
  <2>1. CASE free
        BY <1>1, <2>0, <2>1 DEF WakeHead, InTime
  <2>2. CASE ~free /\ x = c
    <3>1. Len(recent) = Limit /\ recent # <<>>
      <4>1. Len(recent) = Limit /\ Len(recent) # 0
            BY <2>2, WindowFacts DEF WindowIInv, RateKept
      <4>. QED BY <4>1, EmptySeq
    <3>2. NapAfter(recent) <= 1 \/ NapAfter(recent) + recent[1] <= Window
          BY <3>1, SleepIsShort, WindowFacts
    <3>. QED BY <1>1, <1>3, <2>2, <3>1, <3>2 DEF InTime
  <2>3. CASE ~free /\ x # c
    <3>1. InTime(x)
          BY <1>3, <2>0, <2>3 DEF WindowIInv, HeadIsTimed
    <3>. QED BY <1>1, <1>3, <2>3, <3>1 DEF InTime
  <2>. QED BY <2>1, <2>2, <2>3
<1>. QED BY <1>7, <1>8, <1>9 DEF WindowIInv

\* A waiter that stops sleeping leaves the others as they were.
LEMMA AwakeKeeps ==
  ASSUME WindowIInv, NEW c \in Callers, Notified(c) \/ TimerFires(c) \/ GiveUp(c) PROVE WindowIInv'
<1> DEFINE next == IF GiveUp(c) THEN "leaving" ELSE "checking"
<1>1. /\ callerAt[c] = "asleep" /\ callerAt'[c] \in {"checking", "leaving"}
      /\ callerAt' \in [Callers -> {"idle", "checking", "asleep", "leaving"}]
      /\ \A x \in Callers : x # c => callerAt'[x] = callerAt[x]
      /\ nap' \in [Callers -> 0 .. Window]
      /\ \A x \in Callers : x # c => nap'[x] = nap[x]
      /\ woken' \subseteq woken /\ woken \subseteq woken' \union {c}
      /\ UNCHANGED <<timestamps, waitQueue, recent>>
  <2>1. Window \in Nat
        BY WindowFacts
  <2>2. CASE Notified(c)
        BY <2>1, <2>2 DEF Notified, WindowIInv, WindowTypeOK
  <2>3. CASE TimerFires(c)
        BY <2>1, <2>3 DEF TimerFires, WindowIInv, WindowTypeOK
  <2>4. CASE GiveUp(c)
        BY <2>1, <2>4 DEF GiveUp, WindowIInv, WindowTypeOK
  <2>. QED BY <2>2, <2>3, <2>4
<1>2. ToSet(waitQueue') = {x \in Callers : callerAt'[x] # "idle"}
      BY <1>1 DEF WindowIInv, WindowTypeOK
<1>3. WindowTypeOK'
      BY <1>1, <1>2 DEF WindowIInv, WindowTypeOK
<1>4. RateKept' /\ LogIsRecent'
      BY <1>1 DEF WindowIInv, RateKept, LogIsRecent
<1>5. HeadIsTimed'
  <2> SUFFICES ASSUME NEW x \in Callers, AtHead(x)', callerAt'[x] = "asleep"
               PROVE  InTime(x)'
      BY DEF HeadIsTimed
  <2>1. x # c /\ AtHead(x) /\ callerAt[x] = "asleep"
        BY <1>1 DEF AtHead
  <2>2. InTime(x)
        BY <2>1 DEF WindowIInv, HeadIsTimed
  <2>. QED BY <1>1, <2>1, <2>2 DEF InTime
<1>. QED BY <1>3, <1>4, <1>5 DEF WindowIInv

LEMMA DequeueKeeps ==
  ASSUME WindowIInv, NEW c \in Callers, Dequeue(c) PROVE WindowIInv'
<1>1. PICK i \in DOMAIN waitQueue : waitQueue[i] = c /\ waitQueue' = RemoveAt(waitQueue, i)
      BY DEF Dequeue
<1>2. /\ callerAt' \in [Callers -> {"idle", "checking", "asleep", "leaving"}]
      /\ waitQueue' \in Seq(Callers) /\ IsInjective(waitQueue')
      /\ ToSet(waitQueue') = {x \in Callers : callerAt'[x] # "idle"}
      /\ woken' \subseteq ToSet(waitQueue')
      /\ HeadIsTimed'
      BY <1>1, DepartureKeepsQueue DEF Dequeue
<1>3. RateKept' /\ LogIsRecent'
      BY DEF Dequeue, WindowIInv, RateKept, LogIsRecent
<1>4. WindowTypeOK'
      BY <1>2 DEF Dequeue, WindowIInv, WindowTypeOK
<1>. QED BY <1>2, <1>3, <1>4 DEF WindowIInv

LEMMA WindowTickKeeps ==
  ASSUME WindowIInv, WindowTick PROVE WindowIInv'
<1>1. /\ timestamps' = Aged(timestamps) /\ recent' = Fresh(Aged(recent))
      /\ nap' = [c \in Callers |-> IF nap[c] = 0 THEN 0 ELSE nap[c] - 1]
      /\ callerAt' = callerAt /\ waitQueue' = waitQueue /\ woken' = woken
      BY DEF WindowTick
<1>2. timestamps \in Seq(Ages) /\ recent \in Seq(Ages) /\ OldestFirst(timestamps)
  <2>1. 0 .. Window \subseteq Ages
        BY WindowFacts DEF Ages
  <2>. QED BY <2>1, WindowFacts, SeqMonotonic DEF WindowIInv, WindowTypeOK, LogIsRecent
<1>3. /\ timestamps' \in Seq(Ages) /\ OldestFirst(timestamps')
      /\ Aged(recent) \in Seq(Ages) /\ OldestFirst(Aged(recent)) /\ Len(Aged(recent)) = Len(recent)
      BY <1>1, <1>2, AgedIsOrdered, WindowFacts
<1>4. recent' = Fresh(timestamps')
      BY <1>1, <1>2, FreshAges, WindowFacts
<1>5. LogIsRecent'
      BY <1>3, <1>4 DEF LogIsRecent
<1>6. /\ Splits(Aged(recent), Stale(Aged(recent)))
      /\ recent' \in Seq(0 .. Window) /\ Len(recent') = Len(recent) - Stale(Aged(recent))
      BY <1>1, <1>3, StaleSplits, FreshAfter
<1>7. RateKept'
  <2>1. Stale(Aged(recent)) \in Nat /\ Len(recent) \in Nat /\ Len(recent) <= Limit /\ Limit \in Nat
        BY <1>3, <1>6, WindowFacts DEF Splits, WindowIInv, RateKept
  <2>2. Len(recent') <= Limit
        BY <1>6, <2>1
  <2>. QED BY <2>2 DEF RateKept
<1>8. /\ nap' \in [Callers -> 0 .. Window]
      /\ \A x \in Callers : nap'[x] = IF nap[x] = 0 THEN 0 ELSE nap[x] - 1
      BY <1>1, WindowFacts DEF WindowIInv, WindowTypeOK
<1>9. WindowTypeOK'
      BY <1>1, <1>3, <1>6, <1>8 DEF WindowIInv, WindowTypeOK
<1>10. HeadIsTimed'
  <2> SUFFICES ASSUME NEW x \in Callers, AtHead(x)', callerAt'[x] = "asleep"
               PROVE  InTime(x)'
      BY DEF HeadIsTimed
  <2>1. InTime(x)
        BY <1>1 DEF AtHead, WindowIInv, HeadIsTimed
  <2>2. nap[x] \in 0 .. Window /\ Window \in Nat
        BY WindowFacts DEF WindowIInv, WindowTypeOK
  <2>3. CASE x \in woken
        BY <1>1, <2>3 DEF InTime
  <2>4. CASE nap[x] <= 1
        BY <1>8, <2>2, <2>4 DEF InTime
  <2>5. CASE nap[x] > 1 /\ Len(recent) = Limit /\ nap[x] + recent[1] <= Window
    <3>1. 1 \in 1 .. Len(recent) /\ \A i \in 1 .. Len(recent) : recent[i] \in 0 .. Window
          BY <2>5, WindowFacts
    <3>2. \A i \in 1 .. Len(recent) : Aged(recent)[i] = Older(recent[i])
          BY WindowFacts DEF Aged
    <3>3. \A i \in 1 .. Len(recent) : recent[1] >= recent[i]
      <4> TAKE i \in 1 .. Len(recent)
      <4>1. i = 1 \/ 1 < i
            BY WindowFacts
      <4>2. recent[1] \in Int /\ recent[i] \in Int
            BY <3>1
      <4>. QED BY <3>1, <4>1, <4>2, WindowFacts DEF OldestFirst
    <3>4. \A i \in 1 .. Len(recent) : Aged(recent)[i] = recent[i] + 1 /\ Aged(recent)[i] <= Window
      <4> TAKE i \in 1 .. Len(recent)
      <4>1. recent[i] < Window /\ recent[i] + 1 <= Window /\ recent[i] \in Int
            BY <2>2, <2>5, <3>1, <3>3
      <4>. QED BY <2>2, <3>2, <4>1 DEF Older
    <3>5. Splits(Aged(recent), 0)
          BY <1>3, <3>4, WindowFacts DEF Splits
    <3>6. /\ Len(recent') = Len(recent) - 0
          /\ \A i \in 1 .. Len(recent) - 0 : recent'[i] = Aged(recent)[0 + i]
          BY <1>1, <1>3, <3>5, FreshAfter
    <3>7. Len(recent') = Limit /\ recent'[1] = recent[1] + 1
          BY <2>5, <3>1, <3>4, <3>6, WindowFacts
    <3>. QED BY <1>8, <2>2, <2>5, <3>1, <3>7 DEF InTime
  <2>. QED BY <2>1, <2>2, <2>3, <2>4, <2>5 DEF InTime
<1>. QED BY <1>5, <1>7, <1>9, <1>10 DEF WindowIInv

(***************************************************************************)
(* The rate limiter keeps the published rate in every trailing window and  *)
(* never strands a free slot, for any callers, rate and window.            *)
(***************************************************************************)
THEOREM WindowIsKept == WindowSpec => []WindowInv
<1>1. WindowInit => WindowIInv
      BY WindowInvHoldsFirst
<1>2. WindowIInv /\ [WindowNext]_windowVars => WindowIInv'
  <2> SUFFICES ASSUME WindowIInv, [WindowNext]_windowVars PROVE WindowIInv'
      OBVIOUS
  <2>1. ASSUME NEW c \in Callers, Enqueue(c) PROVE WindowIInv'
        BY <2>1, EnqueueKeeps
  <2>2. ASSUME NEW c \in Callers, CallerStep(c) \/ GiveUp(c) PROVE WindowIInv'
        BY <2>2, GrantKeeps, RefuseKeeps, AwakeKeeps, DequeueKeeps DEF CallerStep
  <2>3. CASE WindowTick
        BY <2>3, WindowTickKeeps
  <2>4. CASE UNCHANGED windowVars
        BY <2>4 DEF windowVars, WindowIInv, WindowTypeOK, RateKept, LogIsRecent, HeadIsTimed, InTime, AtHead
  <2>. QED BY <2>1, <2>2, <2>3, <2>4 DEF WindowNext
<1>3. WindowIInv => WindowInv
  <2> SUFFICES ASSUME WindowIInv, Len(recent) < Limit,
                      NEW c \in Callers, AtHead(c), callerAt[c] = "asleep"
               PROVE  c \in woken \/ nap[c] <= 1
      BY DEF WindowIInv, WindowInv, NoSlotStranded
  <2>1. Len(recent) # Limit
        BY WindowFacts
  <2>. QED BY <2>1 DEF WindowIInv, HeadIsTimed, InTime
<1>. QED BY <1>1, <1>2, <1>3, PTL DEF WindowSpec

-----------------------------------------------------------------------------
(* The gate with a moving limit *)

\* Whatever is asked of it, clampConcurrency answers within its two bounds.
LEMMA ClampInRange ==
  ASSUME NEW n \in Int
  PROVE  ClampConcurrency(n) \in minConcurrency .. Ceiling
BY LimiterAssumption DEF ClampConcurrency, minConcurrency

\* The average latency asks for a figure in range, and capGrowth, between a
\* figure in range and one in range, stays in range.
LEMMA CapGrowthInRange ==
  ASSUME NEW prev \in minConcurrency .. Ceiling,
         NEW desired \in minConcurrency .. Ceiling
  PROVE  CapGrowth(prev, desired) \in minConcurrency .. Ceiling
<1>. DEFINE half == CeilDiv(3 * prev, 2)
            capped == IF half <= prev THEN prev + 1 ELSE half
<1>1. /\ prev \in Nat /\ desired \in Nat /\ prev >= 1 /\ desired >= 1
      /\ prev <= Ceiling /\ desired <= Ceiling
  BY LimiterAssumption DEF minConcurrency
<1>2. half \in Int
  BY <1>1 DEF CeilDiv
<1>3. capped \in Int /\ capped >= 1
  BY <1>1, <1>2
<1>. HIDE DEF half, capped
<1>4. CapGrowth(prev, desired) =
        IF desired <= prev THEN desired
        ELSE IF capped > desired THEN desired ELSE capped
  BY DEF CapGrowth, half, capped
<1>. QED  BY <1>1, <1>3, <1>4, LimiterAssumption DEF minConcurrency

LEMMA DesiredInRange ==
  ASSUME NEW avg \in Nat
  PROVE  DesiredConcurrency(avg) \in minConcurrency .. Ceiling
<1>1. Target * avg \in Int
  BY LimiterAssumption
<1>2. CeilDiv(Target * avg, 60000) \in Int
  BY <1>1 DEF CeilDiv
<1>. QED  BY <1>2, ClampInRange DEF DesiredConcurrency

-----------------------------------------------------------------------------
\* The limiter keeps its type, in particular its figure stays between one and
\* the ceiling.
LEMMA LimiterTypeStep ==
  ASSUME LimiterTypeOK, LimiterNext
  PROVE  LimiterTypeOK'
<1>. USE LimiterAssumption DEF LimiterTypeOK
<1>1. CASE Observe
  <2>1. latency \in Nat
    OBVIOUS
  <2>2. window.sum + latency \in Nat /\ window.count + 1 \in Nat
    BY <2>1
  <2>. QED  BY <1>1, <2>2 DEF Observe
<1>2. CASE Recalculate
  <2>1. window.sum \div window.count \in Nat
    BY <1>2 DEF Recalculate
  <2>2. DesiredConcurrency(window.sum \div window.count)
          \in minConcurrency .. Ceiling
    BY <2>1, DesiredInRange
  <2>3. current' \in minConcurrency .. Ceiling
    BY <1>2, <2>2, CapGrowthInRange DEF Recalculate
  <2>. QED  BY <1>2, <2>3 DEF Recalculate
<1>3. CASE Shift
  BY <1>3 DEF Shift
<1>. QED  BY <1>1, <1>2, <1>3 DEF LimiterNext

LEMMA LimiterTypeInit == LimiterInit => LimiterTypeOK
BY LimiterAssumption, ClampInRange DEF LimiterInit, LimiterTypeOK

\* capGrowth climbs by half at most, rounded up.
LEMMA CapGrowthIsSlow ==
  ASSUME NEW prev \in minConcurrency .. Ceiling,
         NEW desired \in minConcurrency .. Ceiling
  PROVE  2 * CapGrowth(prev, desired) <= 3 * prev + 1
<1>. DEFINE half == CeilDiv(3 * prev, 2)
            capped == IF half <= prev THEN prev + 1 ELSE half
<1>1. prev \in Nat /\ desired \in Nat /\ prev >= 1
  BY LimiterAssumption DEF minConcurrency
<1>2. half \in Int /\ 2 * half <= 3 * prev + 1
  BY <1>1 DEF CeilDiv
<1>3. capped \in Int /\ 2 * capped <= 3 * prev + 1
  BY <1>1, <1>2
<1>4. CapGrowth(prev, desired) =
        IF desired <= prev THEN desired
        ELSE IF capped > desired THEN desired ELSE capped
  BY DEF CapGrowth
<1>. HIDE DEF half, capped
<1>. QED  BY <1>1, <1>3, <1>4

\* At any rate, any ceiling and any latencies, a tick never multiplies the
\* figure by more than one and a half (capGrowth, concurrency.go).
THEOREM FigureClimbsSlowly == LimiterSpec => SlowStart
<1>1. ASSUME LimiterTypeOK, [LimiterNext]_limiterVars
      PROVE  LimiterTypeOK' /\ [2 * current' <= 3 * current + 1]_current
  <2>1. LimiterTypeOK'
    <3>1. CASE UNCHANGED limiterVars
      BY <1>1, <3>1 DEF limiterVars, LimiterTypeOK
    <3>. QED  BY <1>1, <3>1, LimiterTypeStep
  <2>2. CASE Recalculate
    <3>1. window.sum \div window.count \in Nat
      BY <1>1, <2>2 DEF Recalculate, LimiterTypeOK
    <3>2. DesiredConcurrency(window.sum \div window.count) \in minConcurrency .. Ceiling
      BY <3>1, DesiredInRange
    <3>3. current \in minConcurrency .. Ceiling
      BY <1>1 DEF LimiterTypeOK
    <3>. QED  BY <2>1, <2>2, <3>2, <3>3, CapGrowthIsSlow DEF Recalculate
  <2>3. CASE ~Recalculate
    <3>1. current' = current
      BY <1>1, <2>3 DEF LimiterNext, Observe, Shift, limiterVars
    <3>. QED  BY <2>1, <3>1
  <2>. QED  BY <2>2, <2>3
<1>. QED  BY <1>1, LimiterTypeInit, PTL DEF LimiterSpec, SlowStart

-----------------------------------------------------------------------------
(***************************************************************************)
(* The counter.  DynTypeOK alone is not inductive: that Release leaves the *)
(* counter a natural number is because the counter counts the units        *)
(* inside, so the two are proved together.                                 *)
(***************************************************************************)
GateInv == DynTypeOK /\ ActiveCountsInside

LEMMA InsideFinite == IsFiniteSet(Inside) /\ Cardinality(Inside) \in Nat
BY ThreadAssumption, FS_Subset, FS_CardinalityType DEF Inside

\* A step of a goroutine that neither enters nor leaves does not change who is
\* inside.
LEMMA InsideUnchanged ==
  ASSUME DynTypeOK, NEW t \in Thread, NEW place \in Place, MoveTo(t, place),
         unitAt[t] # "inside", place # "inside"
  PROVE  Inside' = Inside
BY DEF DynTypeOK, MoveTo, Inside

LEMMA InsideGrows ==
  ASSUME DynTypeOK, NEW t \in Thread, MoveTo(t, "inside"), unitAt[t] # "inside"
  PROVE  /\ Inside' = Inside \cup {t}
         /\ Cardinality(Inside') = Cardinality(Inside) + 1
<1>1. Inside' = Inside \cup {t} /\ t \notin Inside
  BY DEF DynTypeOK, MoveTo, Inside
<1>. QED  BY <1>1, InsideFinite, FS_AddElement

LEMMA InsideShrinks ==
  ASSUME DynTypeOK, NEW t \in Thread, MoveTo(t, "signal"), unitAt[t] = "inside"
  PROVE  /\ Inside' = Inside \ {t}
         /\ Cardinality(Inside') = Cardinality(Inside) - 1
         /\ Cardinality(Inside) >= 1
<1>1. Inside' = Inside \ {t} /\ t \in Inside
  BY DEF DynTypeOK, MoveTo, Inside
<1>2. Cardinality(Inside) # 0
  BY <1>1, InsideFinite, FS_EmptySet
<1>. QED  BY <1>1, <1>2, InsideFinite, FS_RemoveElement

LEMMA GateInvInit == DynInit => GateInv
<1> SUFFICES ASSUME DynInit PROVE GateInv
  OBVIOUS
<1>1. DynTypeOK
  BY LimiterTypeInit DEF DynInit, DynTypeOK, Place, Acquiring
<1>2. Inside = {}
  BY DEF DynInit, Inside
<1>. QED  BY <1>1, <1>2, FS_EmptySet DEF DynInit, GateInv, ActiveCountsInside

LEMMA GateInvStep ==
  ASSUME GateInv, NEW t \in Thread, GateStep(t)
  PROVE  GateInv'
<1>. USE DEF GateInv
<1>. DynTypeOK /\ ActiveCountsInside
  OBVIOUS
<1>0. current \in Nat /\ LimiterTypeOK
  BY LimiterAssumption DEF DynTypeOK, LimiterTypeOK, minConcurrency
<1>10. UNCHANGED limiterVars
  BY DEF GateStep, Call, CheckContext, ReadLimit, LoadActive, CompareAndSwap,
         Wait, Release, Signal
<1>11. LimiterTypeOK'
  BY <1>0, <1>10 DEF LimiterTypeOK, limiterVars
<1>1. CASE Call(t)
  <2>1. Inside' = Inside
    BY <1>1, InsideUnchanged DEF Call, Place, Acquiring
  <2>2. DynTypeOK'
    BY <1>1, <1>11 DEF Call, DynTypeOK, Place, Acquiring, MoveTo
  <2>. QED  BY <1>1, <2>1, <2>2 DEF Call, ActiveCountsInside
<1>2. CASE CheckContext(t)
  <2>1. Inside' = Inside
    BY <1>2, InsideUnchanged DEF CheckContext, Place, Acquiring
  <2>2. DynTypeOK'
    BY <1>2, <1>11 DEF CheckContext, DynTypeOK, Place, Acquiring, MoveTo
  <2>. QED  BY <1>2, <2>1, <2>2 DEF CheckContext, ActiveCountsInside
<1>3. CASE ReadLimit(t)
  <2>1. Inside' = Inside
    BY <1>3, InsideUnchanged DEF ReadLimit, Place, Acquiring
  <2>2. DynTypeOK'
    BY <1>3, <1>0, <1>11 DEF ReadLimit, DynTypeOK, Place, Acquiring, MoveTo
  <2>. QED  BY <1>3, <2>1, <2>2 DEF ReadLimit, ActiveCountsInside
<1>4. CASE LoadActive(t)
  <2>1. Inside' = Inside
    BY <1>4, InsideUnchanged DEF LoadActive, Place, Acquiring
  <2>2. DynTypeOK'
    BY <1>4, <1>11 DEF LoadActive, DynTypeOK, Place, Acquiring, MoveTo
  <2>. QED  BY <1>4, <2>1, <2>2 DEF LoadActive, ActiveCountsInside
<1>5. CASE CompareAndSwap(t)
  <2>1. CASE active = cur[t]
    <3>1. active' = active + 1 /\ MoveTo(t, "inside") /\ unitAt[t] = "cas"
      BY <1>5, <2>1 DEF CompareAndSwap
    <3>2. Cardinality(Inside') = Cardinality(Inside) + 1
      BY <3>1, InsideGrows
    <3>3. DynTypeOK'
      BY <1>5, <3>1, <1>11 DEF CompareAndSwap, DynTypeOK, Place, Acquiring, MoveTo
    <3>. QED  BY <3>1, <3>2, <3>3 DEF ActiveCountsInside
  <2>2. CASE active # cur[t]
    <3>1. UNCHANGED active /\ MoveTo(t, "load") /\ unitAt[t] = "cas"
      BY <1>5, <2>2 DEF CompareAndSwap
    <3>2. Inside' = Inside
      BY <3>1, InsideUnchanged DEF Place, Acquiring
    <3>3. DynTypeOK'
      BY <1>5, <3>1, <1>11 DEF CompareAndSwap, DynTypeOK, Place, Acquiring, MoveTo
    <3>. QED  BY <3>1, <3>2, <3>3 DEF ActiveCountsInside
  <2>. QED  BY <2>1, <2>2
<1>6. CASE Wait(t)
  <2>1. PICK place \in {"refused", "check"} : MoveTo(t, place)
    BY <1>6 DEF Wait
  <2>2. Inside' = Inside
    BY <1>6, <2>1, InsideUnchanged DEF Wait, Place, Acquiring
  <2>3. DynTypeOK'
    BY <1>6, <2>1, <1>11 DEF Wait, DynTypeOK, Place, Acquiring, MoveTo
  <2>. QED  BY <1>6, <2>2, <2>3 DEF Wait, ActiveCountsInside
<1>7. CASE Release(t)
  <2>1. active' = active - 1 /\ MoveTo(t, "signal") /\ unitAt[t] = "inside"
    BY <1>7 DEF Release
  <2>2. /\ Cardinality(Inside') = Cardinality(Inside) - 1
        /\ Cardinality(Inside) >= 1
    BY <2>1, InsideShrinks
  <2>3. active' \in Nat
    BY <2>1, <2>2 DEF DynTypeOK, ActiveCountsInside
  <2>4. DynTypeOK'
    BY <1>7, <2>3, <1>11 DEF Release, DynTypeOK, Place, Acquiring, MoveTo
  <2>. QED  BY <2>1, <2>2, <2>4 DEF ActiveCountsInside
<1>8. CASE Signal(t)
  <2>1. Inside' = Inside
    BY <1>8, InsideUnchanged DEF Signal, Place, Acquiring
  <2>2. DynTypeOK'
    BY <1>8, <1>11 DEF Signal, DynTypeOK, Place, Acquiring, MoveTo
  <2>. QED  BY <1>8, <2>1, <2>2 DEF Signal, ActiveCountsInside
<1>. QED
  BY <1>1, <1>2, <1>3, <1>4, <1>5, <1>6, <1>7, <1>8 DEF GateStep

LEMMA GateInvNext == GateInv /\ [DynNext]_dynVars => GateInv'
<1> SUFFICES ASSUME GateInv, [DynNext]_dynVars PROVE GateInv'
  OBVIOUS
<1>1. ASSUME NEW t \in Thread, GateStep(t) PROVE GateInv'
  BY <1>1, GateInvStep
<1>2. CASE Limiter
  <2>1. LimiterTypeOK'
    BY <1>2, LimiterTypeStep DEF Limiter, GateInv, DynTypeOK
  <2>. QED
    BY <1>2, <2>1 DEF Limiter, GateInv, DynTypeOK, ActiveCountsInside, Inside
<1>3. CASE CancelContext
  BY <1>3 DEF CancelContext, GateInv, DynTypeOK, ActiveCountsInside, Inside,
              limiterVars, LimiterTypeOK
<1>4. CASE UNCHANGED dynVars
  BY <1>4 DEF dynVars, GateInv, DynTypeOK, ActiveCountsInside, Inside, limiterVars,
              LimiterTypeOK
<1>. QED  BY <1>1, <1>2, <1>3, <1>4 DEF DynNext

\* The variables of the gate and its limiter keep their types; the figure of
\* the limiter stays between one and the ceiling.
THEOREM GateTypeCorrect == DynSpec => []DynTypeOK
<1>1. GateInv => DynTypeOK
  BY DEF GateInv
<1>. QED  BY <1>1, GateInvInit, GateInvNext, PTL DEF DynSpec

\* The atomic counter counts the units inside the gate, for any number of
\* goroutines racing in Acquire and Release.
THEOREM CounterCorrect == DynSpec => []ActiveCountsInside
<1>1. GateInv => ActiveCountsInside
  BY DEF GateInv
<1>. QED  BY <1>1, GateInvInit, GateInvNext, PTL DEF DynSpec

-----------------------------------------------------------------------------
(***************************************************************************)
(* The gate implements the atomic gate.  What makes the compare-and-swap   *)
(* an atomic admission: a goroutine that is about to swap has read a       *)
(* counter below the limit it read, and swaps only if the counter, which   *)
(* counts the units inside, is still the one it read.                      *)
(***************************************************************************)
SwapBelowLimit == \A t \in Thread : unitAt[t] = "cas" => cur[t] < lim[t]

LEMMA SwapBelowLimitInit == DynInit => SwapBelowLimit
BY DEF DynInit, SwapBelowLimit

LEMMA SwapBelowLimitNext ==
  DynTypeOK /\ SwapBelowLimit /\ [DynNext]_dynVars => SwapBelowLimit'
<1> SUFFICES ASSUME DynTypeOK, SwapBelowLimit, [DynNext]_dynVars PROVE SwapBelowLimit'
  OBVIOUS
<1>. USE DEF SwapBelowLimit, DynTypeOK, MoveTo
<1>1. ASSUME NEW t \in Thread, LoadActive(t) PROVE SwapBelowLimit'
  BY <1>1 DEF LoadActive
<1>2. ASSUME NEW t \in Thread, ReadLimit(t) PROVE SwapBelowLimit'
  BY <1>2 DEF ReadLimit
<1>3. ASSUME NEW t \in Thread,
             Call(t) \/ CheckContext(t) \/ CompareAndSwap(t) \/ Wait(t)
               \/ Release(t) \/ Signal(t)
      PROVE  SwapBelowLimit'
  BY <1>3 DEF Call, CheckContext, CompareAndSwap, Wait, Release, Signal
<1>4. CASE Limiter \/ CancelContext \/ UNCHANGED dynVars
  BY <1>4 DEF Limiter, CancelContext, dynVars
<1>. QED  BY <1>1, <1>2, <1>3, <1>4 DEF DynNext, GateStep

LEMMA GateInitRefines == DynInit => Gate!GateInit
<1> SUFFICES ASSUME DynInit PROVE Gate!GateInit
  OBVIOUS
<1>1. Inside = {}
  BY DEF DynInit, Inside
<1>2. current \in Nat \ {0}
  BY LimiterTypeInit, LimiterAssumption
     DEF DynInit, LimiterTypeOK, minConcurrency
<1>. QED  BY <1>1, <1>2 DEF DynInit, Gate!GateInit

\* Cardinality means the same in the two modules.
LEMMA SameCardinality == \A S : Gate!Cardinality(S) = Cardinality(S)
BY DEF Gate!Cardinality, Cardinality

LEMMA GateNextRefines ==
  ASSUME GateInv, GateInv', SwapBelowLimit, [DynNext]_dynVars
  PROVE  [Gate!GateNext]_Gate!gateVars
<1>. DynTypeOK /\ ActiveCountsInside /\ DynTypeOK'
  BY DEF GateInv
<1>. DEFINE Stutter == UNCHANGED <<Inside, current, lim>>
<1>1. ASSUME NEW t \in Thread, ReadLimit(t) PROVE Gate!Ask(t)
  <2>1. Inside' = Inside /\ t \notin Inside
    BY <1>1, InsideUnchanged DEF ReadLimit, Place, Acquiring, Inside
  <2>. QED  BY <1>1, <2>1 DEF ReadLimit, Gate!Ask, limiterVars
<1>2. ASSUME NEW t \in Thread, CompareAndSwap(t)
      PROVE  Gate!Admit(t) \/ Stutter
  <2>1. CASE active = cur[t]
    <3>1. MoveTo(t, "inside") /\ unitAt[t] = "cas"
      BY <1>2, <2>1 DEF CompareAndSwap
    <3>2. Inside' = Inside \cup {t} /\ t \notin Inside
      BY <3>1, InsideGrows DEF Inside
    <3>3. Cardinality(Inside) < lim[t]
      BY <2>1, <3>1 DEF SwapBelowLimit, ActiveCountsInside
    <3>. QED
      BY <1>2, <3>2, <3>3, SameCardinality
         DEF CompareAndSwap, Gate!Admit, limiterVars
  <2>2. CASE active # cur[t]
    <3>1. MoveTo(t, "load") /\ unitAt[t] = "cas"
      BY <1>2, <2>2 DEF CompareAndSwap
    <3>2. Inside' = Inside
      BY <3>1, InsideUnchanged DEF Place, Acquiring
    <3>. QED  BY <1>2, <3>2 DEF CompareAndSwap, limiterVars
  <2>. QED  BY <2>1, <2>2
<1>3. ASSUME NEW t \in Thread, Release(t) PROVE Gate!Leave(t)
  <2>1. MoveTo(t, "signal") /\ unitAt[t] = "inside"
    BY <1>3 DEF Release
  <2>2. Inside' = Inside \ {t} /\ t \in Inside
    BY <2>1, InsideShrinks DEF Inside
  <2>. QED  BY <1>3, <2>2 DEF Release, Gate!Leave, limiterVars
<1>4. ASSUME NEW t \in Thread,
             Call(t) \/ CheckContext(t) \/ LoadActive(t) \/ Wait(t) \/ Signal(t)
      PROVE  Stutter
  <2>1. PICK place \in Place \ {"inside"} : MoveTo(t, place)
    BY <1>4 DEF Call, CheckContext, LoadActive, Wait, Signal, Place, Acquiring
  <2>2. unitAt[t] # "inside"
    BY <1>4 DEF Call, CheckContext, LoadActive, Wait, Signal
  <2>3. Inside' = Inside
    BY <2>1, <2>2, InsideUnchanged
  <2>. QED
    BY <1>4, <2>3
       DEF Call, CheckContext, LoadActive, Wait, Signal, limiterVars
<1>5. CASE Limiter
  <2>1. current' \in Nat \ {0}
    BY LimiterAssumption DEF DynTypeOK, LimiterTypeOK, minConcurrency
  <2>. QED
    BY <1>5, <2>1 DEF Limiter, Gate!MoveLimit, Gate!GateNext, Inside
<1>6. CASE CancelContext \/ UNCHANGED dynVars
  BY <1>6 DEF CancelContext, dynVars, Inside, limiterVars, Gate!gateVars
<1>7. ASSUME NEW t \in Thread, GateStep(t)
      PROVE  [Gate!GateNext]_Gate!gateVars
  BY <1>1, <1>2, <1>3, <1>4, <1>7 DEF GateStep, Gate!GateNext, Gate!gateVars
<1>. QED  BY <1>5, <1>6, <1>7 DEF DynNext

\* Every behaviour of the compare-and-swap gate under a recalculated figure is
\* a behaviour of the atomic gate: no unit is admitted unless fewer are inside
\* than a limit that was in force while it asked.
THEOREM GateImplementsGate == DynSpec => ImplementsGate
<1>1. DynInit => Gate!GateInit
  BY GateInitRefines
<1>2. /\ GateInv /\ GateInv' /\ SwapBelowLimit /\ [DynNext]_dynVars
      => [Gate!GateNext]_Gate!gateVars
  BY GateNextRefines
<1>3. GateInv => DynTypeOK
  BY DEF GateInv
<1>. QED
  BY <1>1, <1>2, <1>3, GateInvInit, GateInvNext, SwapBelowLimitInit,
     SwapBelowLimitNext, PTL DEF DynSpec, ImplementsGate, Gate!GateSpec

=============================================================================
