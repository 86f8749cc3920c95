--------------------------- MODULE MCLargeResults ---------------------------
(***************************************************************************)
(* Three parts that share no state, checked in one run: the paging through *)
(* a large result, the walk over the issues of a project that has more     *)
(* than a search returns, and the made-up report of a historical point.    *)
(* Each behaviour is of one of them; the others rest in an initial state.  *)
(***************************************************************************)
EXTENDS MCAdaptivePaging, MCIssueSlicing, MCSyntheticHistory

VARIABLE turn

SomeServer  == server = CHOOSE x \in [total : Totals, hidden : {{}}, known : {TRUE}] : TRUE
SomeProject == /\ project = CHOOSE x \in SlicedProjects : TRUE
               /\ serverKind = CHOOSE x \in Server : TRUE
SomePoint   == point = NoMeasures

LargeInit == /\ Init /\ SlicingInit /\ HistoryInit
             /\ \/ turn = "paging" /\ SomeProject /\ SomePoint
                \/ turn = "slicing" /\ SomeServer /\ SomePoint
                \/ turn = "history" /\ SomeServer /\ SomeProject

LargeNext ==
  \/ turn = "paging" /\ Next /\ UNCHANGED <<turn, lvars, pvars>>
  \/ turn = "slicing" /\ SlicingNext /\ UNCHANGED <<turn, vars, pvars>>
  \/ turn = "history" /\ HistoryNext /\ UNCHANGED <<turn, vars, lvars>>
  \* A walk that is over takes no further step, nor does a snapshot that is built.
  \/ turn = "slicing" /\ WalkOver /\ UNCHANGED <<turn, vars, lvars, pvars>>
  \/ turn = "history" /\ snapshot # NoSnapshot /\ UNCHANGED <<turn, vars, lvars, pvars>>

LargeSpec == LargeInit /\ [][LargeNext]_<<turn, vars, lvars, pvars>>
=============================================================================
