------------------------ MODULE MCImportProjectData ------------------------
(***************************************************************************)
(* Small instances of ImportProjectData for TLC.  Branch names: Cloud's    *)
(* own name for a main branch (master), the main branch of some sources    *)
(* (develop), and other branches.                                          *)
(***************************************************************************)
EXTENDS ImportProjectData

CONSTANTS p1, p2, master, develop, feature

\* Two projects, one whose main branch keeps Cloud's name, one renamed.
TwoProjects == {p1, p2}
TwoBranches == [p \in {p1, p2} |->
                  IF p = p1 THEN {master, feature, develop} ELSE {develop, feature}]
TwoMains == [p \in {p1, p2} |-> IF p = p1 THEN master ELSE develop]
\* One feature branch was never analyzed.
DatesTwo == [p \in {p1, p2} |-> [b \in {master, develop, feature} |->
                                  IF p = p2 /\ b = feature THEN 0 ELSE 2]]

\* One project whose main branch has to be renamed, with one other branch.
OneProject == {p1}
RenamedMain == [p \in {p1} |-> develop]
MainAndFeature == [p \in {p1} |-> {develop, feature}]
\* Main has a point of history before its last analysis, the other branch has one
\* on the instant of it.
DatesOne == [p \in {p1} |-> [b \in {master, develop, feature} |->
                              IF b = develop THEN 2 ELSE 1]]
\* The other branch has the name Cloud gives to a main branch.
MainAndMaster == [p \in {p1} |-> {develop, master}]

NoPairs == {}
FeaturesUnbuildable == {<<p1, feature>>}
Environment == FaultKind
=============================================================================
