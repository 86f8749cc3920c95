---------------------------- MODULE DynamicGate ----------------------------
(***************************************************************************)
(* DynamicGate (go/internal/migrate/concurrency.go): goroutines admitted   *)
(* by compare-and-swap on an atomic counter, under the figure a            *)
(* ConcurrencyLimiter recalculates meanwhile.  One step per atomic         *)
(* operation.  A goroutine of a fan-out asks once.                         *)
(***************************************************************************)
EXTENDS ConcurrencyLimiter, FiniteSets

CONSTANT Thread
ASSUME ThreadAssumption == IsFiniteSet(Thread)

VARIABLES
  active,   \* the atomic counter of admitted units
  freed,    \* a signal is in the channel (buffered, capacity 1)
  done,     \* the context is done
  unitAt,       \* where a goroutine is in Acquire or Release
  lim,      \* the limit tryAcquire read
  cur       \* the counter tryAcquire read

dynVars == <<active, freed, done, unitAt, lim, cur, limiterVars>>

Acquiring == {"check", "limit", "load", "cas", "wait"}
Place == Acquiring \cup {"outside", "inside", "signal", "refused", "over"}

DynTypeOK ==
  /\ LimiterTypeOK
  /\ active \in Nat
  /\ freed \in BOOLEAN
  /\ done \in BOOLEAN
  /\ unitAt \in [Thread -> Place]
  /\ lim \in [Thread -> Nat]
  /\ cur \in [Thread -> Nat]

DynInit ==
  /\ LimiterInit
  /\ active = 0 /\ freed = FALSE /\ done = FALSE
  /\ unitAt = [t \in Thread |-> "outside"]
  /\ lim = [t \in Thread |-> 0]
  /\ cur = [t \in Thread |-> 0]

MoveTo(t, place) == unitAt' = [unitAt EXCEPT ![t] = place]

Call(t) ==
  /\ unitAt[t] = "outside"
  /\ MoveTo(t, "check")
  /\ UNCHANGED <<active, freed, done, lim, cur, limiterVars>>

\* ctx.Err() at the head of the loop, before every attempt
CheckContext(t) ==
  /\ unitAt[t] = "check"
  /\ MoveTo(t, IF done THEN "refused" ELSE "limit")
  /\ UNCHANGED <<active, freed, done, lim, cur, limiterVars>>

ReadLimit(t) ==
  /\ unitAt[t] = "limit"
  /\ lim' = [lim EXCEPT ![t] = current]
  /\ MoveTo(t, "load")
  /\ UNCHANGED <<active, freed, done, cur, limiterVars>>

\* Variant: one unit too many is let through.
LoadActiveOffByOne(t) ==
  /\ unitAt[t] = "load"
  /\ cur' = [cur EXCEPT ![t] = active]
  /\ MoveTo(t, IF active > lim[t] THEN "wait" ELSE "cas")
  /\ UNCHANGED <<active, freed, done, lim, limiterVars>>

LoadActive(t) ==
  /\ unitAt[t] = "load"
  /\ cur' = [cur EXCEPT ![t] = active]
  /\ MoveTo(t, IF active >= lim[t] THEN "wait" ELSE "cas")
  /\ UNCHANGED <<active, freed, done, lim, limiterVars>>

CompareAndSwap(t) ==
  /\ unitAt[t] = "cas"
  /\ IF active = cur[t]
     THEN active' = cur[t] + 1 /\ MoveTo(t, "inside")
     ELSE MoveTo(t, "load") /\ UNCHANGED active
  /\ UNCHANGED <<freed, done, lim, cur, limiterVars>>

\* Variant: no poll timer, a waiter counts on the signal alone.
WaitForSignal(t) ==
  /\ unitAt[t] = "wait"
  /\ \/ done /\ MoveTo(t, "refused") /\ UNCHANGED freed
     \/ freed /\ freed' = FALSE /\ MoveTo(t, "check")
  /\ UNCHANGED <<active, done, lim, cur, limiterVars>>

\* The three cases of the select in Acquire.
Wait(t) ==
  /\ unitAt[t] = "wait"
  /\ \/ done /\ MoveTo(t, "refused") /\ UNCHANGED freed
     \/ freed /\ freed' = FALSE /\ MoveTo(t, "check")
     \/ MoveTo(t, "check") /\ UNCHANGED freed
  /\ UNCHANGED <<active, done, lim, cur, limiterVars>>

Release(t) ==
  /\ unitAt[t] = "inside"
  /\ active' = active - 1
  /\ MoveTo(t, "signal")
  /\ UNCHANGED <<freed, done, lim, cur, limiterVars>>

\* The signal is dropped when one is pending.
Signal(t) ==
  /\ unitAt[t] = "signal"
  /\ freed' = TRUE
  /\ MoveTo(t, "over")
  /\ UNCHANGED <<active, done, lim, cur, limiterVars>>

CancelContext ==
  /\ ~done /\ done' = TRUE
  /\ UNCHANGED <<active, freed, unitAt, lim, cur, limiterVars>>

GateStep(t) ==
  \/ Call(t) \/ CheckContext(t) \/ ReadLimit(t) \/ LoadActive(t)
  \/ CompareAndSwap(t) \/ Wait(t) \/ Release(t) \/ Signal(t)

Limiter == LimiterNext /\ UNCHANGED <<active, freed, done, unitAt, lim, cur>>

DynNext == (\E t \in Thread : GateStep(t)) \/ Limiter \/ CancelContext

DynSpec == DynInit /\ [][DynNext]_dynVars

\* Goroutines are scheduled.  A unit inside may stay for as long as it likes:
\* no fairness for Release.
Prompt(t) ==
  \/ Call(t) \/ CheckContext(t) \/ ReadLimit(t) \/ LoadActive(t)
  \/ CompareAndSwap(t) \/ Wait(t) \/ Signal(t)

DynFairSpec == DynSpec /\ \A t \in Thread : WF_dynVars(Prompt(t))

-----------------------------------------------------------------------------
Inside == {t \in Thread : unitAt[t] = "inside"}

\* The counter counts the units inside: no update of the compare-and-swap
\* loop or of Release is lost.
ActiveCountsInside == active = Cardinality(Inside)

\* The gate implements the atomic gate: a unit enters only when fewer are
\* inside than a limit it read, although the read of the limit, the read of
\* the counter and the admission are separate steps.
Gate == INSTANCE AdmissionGate
          WITH inside <- Inside, limit <- current, offer <- lim
ImplementsGate == Gate!GateSpec

\* While there is room for good, nobody keeps waiting: a waiter is stranded
\* neither by a signal another one took or that was dropped, nor by a limit
\* that grew although nobody released.  (Each goroutine calls once.)
RoomIsNoticed == []<>(active >= current \/ \A t \in Thread : unitAt[t] \notin Acquiring)

=============================================================================
