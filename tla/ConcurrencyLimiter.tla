------------------------- MODULE ConcurrencyLimiter ------------------------
(***************************************************************************)
(* The adaptive concurrency figure of the migrate phase                    *)
(* (go/internal/migrate/concurrency.go): API calls record their latency in *)
(* a tumbling window, and on every tick a background goroutine drains it   *)
(* and moves the figure towards the concurrency that would spend the       *)
(* configured calls-per-minute budget: down at once, up by half at most.   *)
(***************************************************************************)
EXTENDS Integers

CONSTANTS
  Initial,      \* figure the limiter is built with
  Target,       \* targetRatePerMin
  Ceiling,      \* maxConcurrencyCeiling
  Latencies,    \* latencies of an API call, in milliseconds
  MaxSamples,   \* bound: samples in one window
  MaxShifts     \* bound: changes of the backend's latency

ASSUME LimiterAssumption ==
  /\ Initial \in Int
  /\ Target \in Nat
  /\ Ceiling \in Nat \ {0}
  /\ Latencies \subseteq Nat /\ Latencies # {}
  /\ MaxSamples \in Nat
  /\ MaxShifts \in Nat

VARIABLES
  current,   \* the figure Current() returns
  window,    \* latencyWindow: sum and count of the samples since a drain
  latency,   \* what an API call takes at the moment (environment)
  shifts     \* changes of latency so far (bounds the model)

limiterVars == <<current, window, latency, shifts>>

minConcurrency == 1

LimiterTypeOK ==
  /\ current \in minConcurrency .. Ceiling
  /\ window \in [sum : Nat, count : Nat]
  /\ latency \in Latencies
  /\ shifts \in Nat

-----------------------------------------------------------------------------

ClampConcurrency(n) ==
  IF n < minConcurrency THEN minConcurrency
  ELSE IF n > Ceiling THEN Ceiling ELSE n

\* ceil(a / b)
CeilDiv(a, b) == (a + b - 1) \div b

\* ceil(targetRatePerMin * average seconds / 60), clamped
DesiredConcurrency(avg) == ClampConcurrency(CeilDiv(Target * avg, 60000))

\* Variant: no bound on the climb.
JumpToDesired(prev, desired) == desired

\* maxGrowthFactor is 1.5; a climb makes at least one step of progress.
CapGrowth(prev, desired) ==
  LET half == CeilDiv(3 * prev, 2)
      capped == IF half <= prev THEN prev + 1 ELSE half
  IN  IF desired <= prev THEN desired
      ELSE IF capped > desired THEN desired ELSE capped

LimiterInit ==
  /\ current = ClampConcurrency(Initial)
  /\ window = [sum |-> 0, count |-> 0]
  /\ latency \in Latencies
  /\ shifts = 0

\* An API call returns and its latency is added to the window.
Observe ==
  /\ window.count < MaxSamples
  /\ window' = [sum |-> window.sum + latency, count |-> window.count + 1]
  /\ UNCHANGED <<current, latency, shifts>>

\* A tick: without a sample the figure is left unchanged.
Recalculate ==
  /\ window.count > 0
  /\ current' = CapGrowth(current,
                  DesiredConcurrency(window.sum \div window.count))
  /\ window' = [sum |-> 0, count |-> 0]
  /\ UNCHANGED <<latency, shifts>>

\* The backend becomes slower or faster.
Shift ==
  /\ shifts < MaxShifts
  /\ latency' \in Latencies \ {latency}
  /\ shifts' = shifts + 1
  /\ UNCHANGED <<current, window>>

LimiterNext == Observe \/ Recalculate \/ Shift

LimiterSpec == LimiterInit /\ [][LimiterNext]_limiterVars
                 /\ WF_limiterVars(Observe) /\ WF_limiterVars(Recalculate)

-----------------------------------------------------------------------------
\* Whatever the latencies were, once they are stable the figure settles on
\* the one that spends the budget at that latency; it does not oscillate.
Settles == <>[](current = DesiredConcurrency(latency))

\* A tick never multiplies the figure by more than 1.5 (rounded up): no burst
\* of admissions after a spell of high latency.
SlowStart == [][2 * current' <= 3 * current + 1]_current

\* The figure follows the latency neither too fast nor for ever.
FigureIsSteady == SlowStart /\ Settles

=============================================================================
