--------------------------- MODULE MCExtractMerge ---------------------------
(* A server with two projects and a portfolio: what the readers see of up to *)
(* three extracts.                                                           *)
EXTENDS ExtractMerge

AllTasks == {"projects", "details", "issues", "folios", "gates"}
OfProjects == {"projects", "details", "issues"}
OfFolios == {"folios"}

Slice(keys, folios, tasks) == [keys |-> keys, folios |-> folios, tasks |-> tasks]
Full == Slice({}, {}, AllTasks)

\* Full; one project; either project; some objects only.
MCScopes == {Full, Slice({"a"}, {}, AllTasks), Slice({}, {}, {"projects", "details"})}
MCHalves == {{"a", "f", "server"}}
MCFlags == {Full, Slice({"b"}, {}, AllTasks)}
=============================================================================
