--------------------------- MODULE RetryTransport --------------------------
(***************************************************************************)
(* The retrying HTTP transport of the SDK (retry.go).  A failed attempt is *)
(* sent again on the schedule its outcome calls for; a rate limit Sonar    *)
(* itself announced also closes a gate, shared by all requests, that holds *)
(* back what is sent next.  planRetry decides, disposes of the body and    *)
(* reports the pause in one go: it is one action, the gate's lock included.*)
(*                                                                         *)
(* Deadlines are kept as the ticks left until they pass.                   *)
(***************************************************************************)
EXTENDS Integers, Sequences

CONSTANTS Requests,
          Replayable,     \* requests whose body can be sent again (or that have none)
          Hasty,          \* requests under WithoutRetryOnSlowStatus
          Backoff, SqcBackoff, NonSqcBackoff,   \* waits, in ticks
          RetryAfters,    \* what a 429 of Sonar's asks for (0: no header)
          RetryAfterCap

Schedules == {Backoff, SqcBackoff, NonSqcBackoff}

ASSUME TransportAssumption ==
  /\ Replayable \subseteq Requests /\ Hasty \subseteq Requests
  /\ Schedules \subseteq Seq(Nat)
  /\ RetryAfters \subseteq Nat
  /\ RetryAfterCap \in Nat

VARIABLES pc,          \* where each request is in RoundTrip
          timer,       \* ticks left of each request's sleep
          attempt,     \* attempts that failed so far
          body,        \* the request body: whole, or spent by an attempt
          response,    \* the response body: none, readable or closed
          throttled,   \* requests that slept for a 429
          recovered,   \* requests whose recovery was reported
          cancelled,   \* requests whose context is done
          last,        \* outcome of each request's last attempt
          blocked,     \* ticks left until the gate opens
          reported,    \* sum of WallClockAdded over Sonar's rate limits
          held         \* ticks during which the gate was closed (history)

callVars == <<pc, timer, attempt, body, response, throttled, recovered, last>>
gateVars == <<blocked, reported, held>>
vars == <<callVars, cancelled, gateVars>>

Larger(a, b) == IF a > b THEN a ELSE b
Smaller(a, b) == IF a < b THEN a ELSE b

\* What inner.RoundTrip comes back with; "slow" is a slow 5xx, "other429" any
\* rate limit that is not Sonar's own.
Outcomes == {"answered", "sqc429", "other429", "fast5xx", "slow5xx", "network"}
Is429(o) == o \in {"sqc429", "other429"}
ShouldRetry(o) == o # "answered"

Init == /\ pc = [r \in Requests |-> "idle"]
        /\ timer = [r \in Requests |-> 0]
        /\ attempt = [r \in Requests |-> 0]
        /\ body = [r \in Requests |-> "whole"]
        /\ response = [r \in Requests |-> "none"]
        /\ last = [r \in Requests |-> "none"]
        /\ throttled = {} /\ recovered = {} /\ cancelled = {}
        /\ blocked = 0 /\ reported = 0 /\ held = 0

\* waitIfBlocked reads the gate once and sleeps until the deadline it read.
Park(r) == /\ pc' = [pc EXCEPT ![r] = "parked"]
           /\ timer' = [timer EXCEPT ![r] = blocked]

Issue(r) == /\ pc[r] = "idle"
            /\ Park(r)
            /\ UNCHANGED <<attempt, body, response, throttled, recovered, last, cancelled, gateVars>>

\* The attempt goes out, and the inner transport spends the body.
Send(r) == /\ pc[r] = "parked"
           /\ timer[r] = 0 \/ r \in cancelled
           /\ pc' = [pc EXCEPT ![r] = "sent"]
           /\ timer' = [timer EXCEPT ![r] = 0]
           /\ body' = [body EXCEPT ![r] = "spent"]
           /\ UNCHANGED <<attempt, response, throttled, recovered, last, cancelled, gateVars>>

ScheduleFor(o) == CASE o = "sqc429" -> SqcBackoff
                    [] o = "other429" -> NonSqcBackoff
                    [] OTHER -> Backoff

\* Variant: the body is not looked at.
ScheduledOnly(r, o) == attempt[r] < Len(ScheduleFor(o))

\* Another attempt is scheduled and the request body can be rewound.
More(r, o) == attempt[r] < Len(ScheduleFor(o)) /\ r \in Replayable

\* nextWait with clampRetryAfter, for a retry after outcome o.
NextWait(r, o, retryAfter) ==
  LET scheduled == ScheduleFor(o)[attempt[r] + 1]
  IN  IF o = "sqc429" /\ retryAfter > 0
      THEN Smaller(Larger(retryAfter, scheduled), RetryAfterCap)
      ELSE scheduled

\* Variant: each event reports its own wait.
ExtendForEach(wait) == /\ blocked' = Larger(blocked, wait)
                       /\ reported' = reported + wait
                       /\ UNCHANGED held

\* rateLimitGate.extend: the gate closes for longer and tells by how much.
Extend(wait) == /\ blocked' = Larger(blocked, wait)
                /\ reported' = reported + (blocked' - blocked)
                /\ UNCHANGED held

\* RoundTrip returns the response of the attempt to its caller, body readable.
Return(r, o) == /\ pc' = [pc EXCEPT ![r] = "done"]
                /\ response' = [response EXCEPT ![r] = IF o = "network" THEN "none" ELSE "readable"]
                /\ UNCHANGED <<timer, attempt, body, throttled, gateVars>>

HandedBack(r, o) == ~ShouldRetry(o) \/ (o = "slow5xx" /\ r \in Hasty)

Recovers(r, o) == ~ShouldRetry(o) /\ r \in throttled

\* No retry follows outcome o: the request is over.
Finish(r, o) == /\ HandedBack(r, o) \/ ~More(r, o)
                /\ Return(r, o)
                /\ recovered' = IF Recovers(r, o) THEN recovered \union {r} ELSE recovered

\* planRetry: body rewound, response drained, gate extended; then the sleep, with jitter.
PlanRetry(r, o) ==
  /\ ~HandedBack(r, o) /\ More(r, o)
  /\ \E after \in RetryAfters :
       LET wait == NextWait(r, o, after)
       IN  /\ IF o = "sqc429" THEN Extend(wait) ELSE UNCHANGED gateVars
           /\ \E jitter \in 0 .. wait \div 2 : timer' = [timer EXCEPT ![r] = wait + jitter]
  /\ body' = [body EXCEPT ![r] = "whole"]
  /\ response' = [response EXCEPT ![r] = IF o = "network" THEN "none" ELSE "closed"]
  /\ throttled' = IF Is429(o) THEN throttled \union {r} ELSE throttled
  /\ pc' = [pc EXCEPT ![r] = "backoff"]
  /\ UNCHANGED <<attempt, recovered>>

\* A request whose context is done gets no answer.
Outcome(r, o) == /\ pc[r] = "sent"
                 /\ r \in cancelled => o = "network"
                 /\ last' = [last EXCEPT ![r] = o]
                 /\ Finish(r, o) \/ PlanRetry(r, o)
                 /\ UNCHANGED cancelled

\* The backoff is over: the next attempt waits on the gate first.
Retry(r) == /\ pc[r] = "backoff"
            /\ timer[r] = 0
            /\ attempt' = [attempt EXCEPT ![r] = @ + 1]
            /\ Park(r)
            /\ UNCHANGED <<body, response, throttled, recovered, last, cancelled, gateVars>>

\* ctx.Done wins the select of the backoff: the context's error is returned.
Abort(r) == /\ pc[r] = "backoff"
            /\ r \in cancelled
            /\ pc' = [pc EXCEPT ![r] = "aborted"]
            /\ timer' = [timer EXCEPT ![r] = 0]
            /\ UNCHANGED <<attempt, body, response, throttled, recovered, last, cancelled, gateVars>>

Cancel(r) == /\ pc[r] \notin {"idle", "done", "aborted"}
             /\ cancelled' = cancelled \union {r}
             /\ UNCHANGED <<callVars, gateVars>>

\* A deadline that has passed holds nobody, and adds nothing to a later pause.
Tick == /\ timer' = [r \in Requests |-> Larger(timer[r] - 1, 0)]
        /\ blocked' = Larger(blocked - 1, 0)
        /\ held' = IF blocked > 0 THEN held + 1 ELSE held
        /\ UNCHANGED <<pc, attempt, body, response, throttled, recovered, last, cancelled, reported>>

Step(r) == \/ Issue(r) \/ Send(r) \/ Retry(r) \/ Abort(r)
           \/ \E o \in Outcomes : Outcome(r, o)

Next == \/ \E r \in Requests : Step(r) \/ Cancel(r)
        \/ Tick

Spec == Init /\ [][Next]_vars

\* Time passes, goroutines run and the network answers or times out.
FairSpec == Spec /\ WF_vars(Tick) /\ \A r \in Requests : WF_vars(Step(r))
-----------------------------------------------------------------------------
Over(r) == pc[r] \in {"done", "aborted"}

\* Types of all variables.
TypeOK == /\ pc \in [Requests -> {"idle", "parked", "sent", "backoff", "done", "aborted"}]
          /\ timer \in [Requests -> Nat] /\ attempt \in [Requests -> Nat]
          /\ body \in [Requests -> {"whole", "spent"}]
          /\ response \in [Requests -> {"none", "readable", "closed"}]
          /\ last \in [Requests -> Outcomes \union {"none"}]
          /\ throttled \subseteq Requests /\ recovered \subseteq Requests
          /\ cancelled \subseteq Requests
          /\ blocked \in Nat /\ reported \in Nat /\ held \in Nat

(***************************************************************************)
(* What the observers were told the rate limits cost is the time the gate  *)
(* has been closed plus what is left of it, however many requests met the  *)
(* limit and in whatever order (comment of rateLimitGate.extend).          *)
(***************************************************************************)
PauseIsWallClock == reported = held + blocked

(***************************************************************************)
(* No attempt goes out with a body an earlier one has spent (comment of    *)
(* rewindRequestBody: a failed write must not become an empty one), and a  *)
(* response handed to the caller can still be read.                        *)
(***************************************************************************)
BodiesAreWhole ==
  \A r \in Requests : /\ pc[r] = "parked" => r \in Replayable \/ attempt[r] = 0
                      /\ pc[r] = "parked" => body[r] = "whole"
                      /\ pc[r] = "done" => response[r] # "closed"

(***************************************************************************)
(* A recovery is reported exactly for the requests a 429 delayed and that  *)
(* then got through, never for one that ends on a failure (comment of      *)
(* RecoveryLogFunc).                                                       *)
(***************************************************************************)
RecoveryIsHonest ==
  recovered = {r \in throttled : pc[r] = "done" /\ ~ShouldRetry(last[r])}

(***************************************************************************)
(* Every request comes back to its caller, although the outcomes of its    *)
(* attempts may mix the schedules and the gate may close again and again.  *)
(***************************************************************************)
EveryRequestEnds == []<>(\A r \in Requests : pc[r] = "idle" \/ Over(r))

(***************************************************************************)
(* Requests end, and what is told of their end is true.                    *)
(***************************************************************************)
EndsAreHonest == EveryRequestEnds /\ []RecoveryIsHonest
=============================================================================
