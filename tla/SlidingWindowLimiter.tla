----------------------- MODULE SlidingWindowLimiter -----------------------
(***************************************************************************)
(* The sliding-log rate limiter of the SDK (ratelimiter.go): at most Limit *)
(* calls in any trailing window, admitted in the order they arrived.       *)
(* Every access to the log and the queue holds l.mu, so one locked section *)
(* is one action; a goroutine sleeps between its sections.                 *)
(*                                                                         *)
(* Time is relative: a grant is kept as its age, a sleep as what remains   *)
(* of it, so the state is finite without bounding the run.  One tick is    *)
(* the limiter's millisecond; an age stops counting one tick past the      *)
(* window, where only "older than the window" matters.                     *)
(***************************************************************************)
EXTENDS Integers, Sequences, FiniteSets, SequencesExt

CONSTANTS Callers,        \* goroutines that call Wait
          MaxPerMinute,   \* the configured rate, before it is clamped
          Window          \* the trailing window, in ticks

ASSUME WindowAssumption == MaxPerMinute \in Int /\ Window \in Nat \ {0}

Limit == IF MaxPerMinute <= 0 THEN 1 ELSE MaxPerMinute

VARIABLES callerAt,           \* where each goroutine is in Wait
          timestamps,   \* ages of the grants logged, oldest first
          waitQueue,        \* waiters, oldest first
          woken,        \* the waiters whose channel holds a notification
          nap,          \* ticks left on each waiter's timer
          recent        \* ages of all grants not older than the window (history)

windowVars == <<callerAt, timestamps, waitQueue, woken, nap, recent>>

Older(age) == IF age > Window THEN age ELSE age + 1
Aged(ages) == [i \in DOMAIN ages |-> Older(ages[i])]

\* tryAcquire's purge: grants are logged oldest first, so the stale ones are a prefix.
Stale(ages) == CHOOSE i \in 0 .. Len(ages) :
                 /\ \A j \in 1 .. i : ages[j] > Window
                 /\ i < Len(ages) => ages[i + 1] <= Window
Fresh(ages) == SubSeq(ages, Stale(ages) + 1, Len(ages))

WindowInit == /\ callerAt = [c \in Callers |-> "idle"]
        /\ timestamps = <<>>
        /\ waitQueue = <<>>
        /\ woken = {}
        /\ nap = [c \in Callers |-> 0]
        /\ recent = <<>>

\* Variant: a departure or a grant notifies nobody.
WakeNobody(q) == woken

\* The waiters notified once the head of q, if any, has been.
WakeHead(q) == IF q = <<>> THEN woken ELSE woken \union {Head(q)}

\* A call of Wait joins the tail of the queue with an empty channel.
Enqueue(c) == /\ callerAt[c] = "idle"
              /\ waitQueue' = Append(waitQueue, c)
              /\ woken' = woken \ {c}
              /\ callerAt' = [callerAt EXCEPT ![c] = "checking"]
              /\ UNCHANGED <<timestamps, nap, recent>>

\* Variant: any waiter may claim a free slot.
AnyWaiter(c) == waitQueue # <<>>

AtHead(c) == waitQueue # <<>> /\ Head(waitQueue) = c

\* The sleep tryAcquire returns to a caller it refuses.
NapAfter(log) == LET left == Window - Head(log)
                 IN  IF log = <<>> \/ left <= 0 THEN 1 ELSE left

\* tryAcquire purges the log, then grants the head of the queue a slot.
Grant(c) == /\ callerAt[c] = "checking"
            /\ Len(Fresh(timestamps)) < Limit
            /\ AtHead(c)
            /\ timestamps' = Append(Fresh(timestamps), 0)
            /\ recent' = Append(recent, 0)
            /\ waitQueue' = Tail(waitQueue)
            /\ woken' = WakeHead(waitQueue') \ {c}
            /\ callerAt' = [callerAt EXCEPT ![c] = "idle"]
            /\ UNCHANGED nap

\* tryAcquire refuses: the head is told of a slot it may claim, the caller sleeps.
Refuse(c) == LET log == Fresh(timestamps)
                 free == Len(log) < Limit
             IN  /\ callerAt[c] = "checking"
                 /\ ~(free /\ AtHead(c))
                 /\ timestamps' = log
                 /\ woken' = IF free THEN WakeHead(waitQueue) ELSE woken
                 /\ nap' = [nap EXCEPT ![c] = NapAfter(log)]
                 /\ callerAt' = [callerAt EXCEPT ![c] = "asleep"]
                 /\ UNCHANGED <<waitQueue, recent>>

\* The select of Wait: a notification is consumed, or the timer has fired.
Notified(c) == /\ callerAt[c] = "asleep"
               /\ c \in woken
               /\ woken' = woken \ {c}
               /\ callerAt' = [callerAt EXCEPT ![c] = "checking"]
               /\ nap' = [nap EXCEPT ![c] = 0]
               /\ UNCHANGED <<timestamps, waitQueue, recent>>

TimerFires(c) == /\ callerAt[c] = "asleep"
                 /\ nap[c] = 0
                 /\ callerAt' = [callerAt EXCEPT ![c] = "checking"]
                 /\ UNCHANGED <<timestamps, waitQueue, woken, nap, recent>>

\* ctx.Done wins the select: Wait returns the error, its deferred dequeue is due.
GiveUp(c) == /\ callerAt[c] = "asleep"
             /\ callerAt' = [callerAt EXCEPT ![c] = "leaving"]
             /\ nap' = [nap EXCEPT ![c] = 0]
             /\ UNCHANGED <<timestamps, waitQueue, woken, recent>>

Dequeue(c) == /\ callerAt[c] = "leaving"
              /\ \E i \in DOMAIN waitQueue : waitQueue[i] = c /\ waitQueue' = RemoveAt(waitQueue, i)
              /\ woken' = WakeHead(waitQueue') \ {c}
              /\ callerAt' = [callerAt EXCEPT ![c] = "idle"]
              /\ UNCHANGED <<timestamps, nap, recent>>

WindowTick ==
        /\ timestamps' = Aged(timestamps)
        /\ recent' = Fresh(Aged(recent))
        /\ nap' = [c \in Callers |-> IF nap[c] = 0 THEN 0 ELSE nap[c] - 1]
        /\ UNCHANGED <<callerAt, waitQueue, woken>>

CallerStep(c) == Grant(c) \/ Refuse(c) \/ Notified(c) \/ TimerFires(c) \/ Dequeue(c)

WindowNext == \/ \E c \in Callers : Enqueue(c) \/ CallerStep(c) \/ GiveUp(c)
        \/ WindowTick

WindowSpec == WindowInit /\ [][WindowNext]_windowVars

(***************************************************************************)
(* Time passes and a goroutine that can run is eventually scheduled;       *)
(* nobody has to call Wait and no context has to be cancelled.             *)
(***************************************************************************)
WindowFairSpec == /\ WindowSpec
            /\ WF_windowVars(WindowTick)
            /\ \A c \in Callers : WF_windowVars(CallerStep(c))
-----------------------------------------------------------------------------
Ages == 0 .. Window + 1

\* Every variable keeps its type, and the queue holds each caller once.
WindowTypeOK == /\ callerAt \in [Callers -> {"idle", "checking", "asleep", "leaving"}]
          /\ timestamps \in Seq(Ages) /\ recent \in Seq(0 .. Window)
          /\ waitQueue \in Seq(Callers) /\ IsInjective(waitQueue)
          /\ ToSet(waitQueue) = {c \in Callers : callerAt[c] # "idle"}
          /\ woken \subseteq ToSet(waitQueue)
          /\ nap \in [Callers -> 0 .. Window]

(***************************************************************************)
(* The limiter's promise (NewSlidingWindowLimiter): no trailing window     *)
(* holds more than Limit granted calls, however the log was purged.        *)
(***************************************************************************)
RateKept == Len(recent) <= Limit

(***************************************************************************)
(* A slot that is free is never left to a head that sleeps on: the head    *)
(* has a notification, or its own timer fires no later than now.  It is  *)
(* what the wakeHead calls of tryAcquire and dequeue are for: the timer of *)
(* a waiter refused behind another one tells nothing of the next slot.     *)
(***************************************************************************)
NoSlotStranded ==
  Len(recent) < Limit =>
    \A c \in Callers : AtHead(c) /\ callerAt[c] = "asleep" => c \in woken \/ nap[c] <= 1

(***************************************************************************)
(* The rate limiter's invariant: the published rate is kept, and none of   *)
(* it is wasted while somebody waits.                                      *)
(***************************************************************************)
WindowInv == WindowTypeOK /\ RateKept /\ NoSlotStranded

(***************************************************************************)
(* FIFO fairness (comment of Wait): whoever joins the queue is admitted or *)
(* gives up, even while other callers come back for ever.                  *)
(***************************************************************************)
NobodyStarves == \A c \in Callers : callerAt[c] # "idle" ~> callerAt[c] = "idle"
=============================================================================
