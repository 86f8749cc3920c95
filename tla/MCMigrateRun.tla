---------------------------- MODULE MCMigrateRun ----------------------------
(***************************************************************************)
(* MigrateRun on a registry of five tasks: a loader, a creator, two        *)
(* appliers side by side, and an importer with a resume of its own behind  *)
(* one of them.                                                            *)
(***************************************************************************)
EXTENDS MigrateRun

CONSTANTS generate, create, configure, tag, import, i1, i2

MCTask == {generate, create, configure, tag, import}
MCDep == [t \in MCTask |->
    CASE t = generate  -> {}
      [] t = create    -> {generate}
      [] t \in {configure, tag} -> {create}
      [] t = import    -> {create, configure}]
MCSource == [t \in MCTask |->
    CASE t = generate -> NoTask
      [] t = create   -> generate
      [] OTHER        -> create]
MCCreator == {create}
MCReentrant == {import}
MCGoals == {{import, tag}}
MCExclusions == {{}, {create, import}}
MCTaken == {{}, {i1}}
=============================================================================
