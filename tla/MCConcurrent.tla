---------------------------- MODULE MCConcurrent ----------------------------
(***************************************************************************)
(* Four parts that share no state, checked in one run: the import of       *)
(* projects, the concurrency limiter, the rate limiter and the wizard's    *)
(* page.  Each behaviour is of one of them; the others rest in their       *)
(* initial state.                                                          *)
(***************************************************************************)
EXTENDS MCImportProjectData, ConcurrencyLimiter, SlidingWindowLimiter, GuiSession

VARIABLE turn

\* The figure already is what the latency asks for.
Settled == latency = 20 /\ current = DesiredConcurrency(20)

ConcurrentInit ==
  /\ Init /\ WindowInit /\ GuiInit
  /\ \/ turn \in {"import", "window", "gui"} /\ window = [sum |-> 0, count |-> 0] /\ shifts = 0
        /\ Settled
     \/ turn = "limiter" /\ LimiterInit

ConcurrentNext ==
  \/ turn = "import" /\ Next
       /\ UNCHANGED <<turn, limiterVars, windowVars, gvars>>
  \/ turn = "limiter" /\ LimiterNext
       /\ UNCHANGED <<turn, vars, windowVars, gvars>>
  \/ turn = "window" /\ WindowNext
       /\ UNCHANGED <<turn, vars, limiterVars, gvars>>
  \/ turn = "gui" /\ GuiNext
       /\ UNCHANGED <<turn, vars, limiterVars, windowVars>>
  \* No connection is left to the page.
  \/ turn = "gui" /\ UNCHANGED <<turn, vars, limiterVars, windowVars, gvars>>

\* The fairness of each part, while it is its turn.
ConcurrentFairness ==
  /\ WF_vars(turn = "import" /\ Finish)
  /\ WF_vars(turn = "import" /\ StopAdmitting)
  /\ \A p \in Project : WF_vars(turn = "import" /\ ProjectStep(p))
  /\ \A p \in Project : \A b \in Branches[p] : WF_vars(turn = "import" /\ BranchStep(p, b))
  /\ WF_vars(turn = "import" /\ ComputeEngine)
  /\ WF_limiterVars(turn = "limiter" /\ Observe)
  /\ WF_limiterVars(turn = "limiter" /\ Recalculate)
  /\ WF_windowVars(turn = "window" /\ WindowTick)
  /\ \A c \in Callers : WF_windowVars(turn = "window" /\ CallerStep(c))
  /\ \A r \in Runs : WF_gvars(turn = "gui" /\ WizardStep(r))

ConcurrentSpec ==
  /\ ConcurrentInit
  /\ [][ConcurrentNext]_<<turn, vars, limiterVars, windowVars, gvars>>
  /\ ConcurrentFairness
=============================================================================
