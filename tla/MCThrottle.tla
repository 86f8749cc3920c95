----------------------------- MODULE MCThrottle -----------------------------
(***************************************************************************)
(* The two gates that hold work back, which share no state, in one run:    *)
(* the admission gate of migrate and the rate-limit gate of the transport. *)
(* Each behaviour is of one of them; the other rests in its initial state. *)
(***************************************************************************)
EXTENDS DynamicGate, RetryTransport

CONSTANTS g1, g2, g3
Goroutines == {g1, g2, g3}

OneRetry == <<1>>
TwoRetries == <<1, 3>>

VARIABLE turn

\* The limit of the gate at rest.
SomeLatency == latency = CHOOSE x \in Latencies : TRUE

ThrottleInit == /\ DynInit /\ Init
                /\ \/ turn = "admission"
                   \/ turn = "transport" /\ SomeLatency

ThrottleNext == \/ turn = "admission" /\ DynNext /\ UNCHANGED <<turn, vars>>
                \/ turn = "transport" /\ Next /\ UNCHANGED <<turn, dynVars>>

\* The fairness of each part, while it is its turn.
ThrottleSpec ==
  /\ ThrottleInit /\ [][ThrottleNext]_<<turn, vars, dynVars>>
  /\ \A t \in Thread : WF_dynVars(turn = "admission" /\ Prompt(t))
  /\ WF_vars(turn = "transport" /\ Tick)
  /\ \A r \in Requests : WF_vars(turn = "transport" /\ Step(r))

\* Whoever is held back gets through or is told: a goroutine at the admission
\* gate once there is room, a request when its schedules are spent.
EveryoneGetsThrough == RoomIsNoticed /\ EndsAreHonest
=============================================================================
