-------------------------- MODULE MCMigrationReport --------------------------
(***************************************************************************)
(* MigrationReport on three objects that go to two organizations.  But for *)
(* portfolios, two share a name in different organizations; profiles, of   *)
(* different languages, share it in one organization too.                  *)
(***************************************************************************)
EXTENDS MigrationReport

CONSTANTS o1, o2, o3, here, there

MCObject == {o1, o2, o3}
MCGoesTo == [o \in MCObject |-> IF o = o1 THEN here ELSE there]
OwnNames == [o \in MCObject |-> o]
Shared   == [o \in MCObject |-> IF o = o2 THEN o1 ELSE o]
MCNameOf == [s \in Section |-> CASE s = "portfolios" -> OwnNames
                                 [] s = "profiles"   -> [o \in MCObject |-> o1]
                                 [] OTHER            -> Shared]

Fate == {{}, {"refused"}, {"conflict"}, {"unmapped"}, {"recovered"}}
Noting == {{"yellow"}, {"orange"}, {"config"}, {"config", "yellow"}, {"config", "orange"}}

\* The project whose branches are imported meets up to two mishaps; or it and
\* another of its name show how creation may end.
Mishap == {"yellowOp", "orangeOp", "orange", "override", "mismatch", "syncError", "unbound"}
Mishaps == {{}} \cup {{a} : a \in Mishap}
    \cup {{a, b} : a \in {"yellowOp", "orange"}, b \in Mishap}
Projects ==
    {[o \in MCObject |-> CASE o = o1 -> m [] o = o2 -> {} [] OTHER -> {"refused"}] : m \in Mishaps}
    \cup {[o \in MCObject |-> IF o = o3 THEN {"unmapped"} ELSE IF o = o1 THEN f ELSE g] :
             f \in Fate, g \in Fate}

MCEvidence == [s \in Section |->
    CASE s = "projects"   -> Projects
      [] s = "portfolios" -> [MCObject -> {{}, {"refused"}, {"yellow"}, {"orange"}, {"orangeOp"},
                                           {"yellow", "orangeOp"}, {"orange", "orangeOp"}, {"empty"},
                                           {"empty", "refused"}}]
      [] s \in {"gates", "profiles"} -> [MCObject -> Fate \cup Noting \cup {{"builtin"}}]
      [] s = "groups"     -> [MCObject -> Fate \cup {{"builtin"}, {"orangeOp"}}]
      [] OTHER            -> [MCObject -> Fate \cup {{"yellowOp"}}]]
=============================================================================
