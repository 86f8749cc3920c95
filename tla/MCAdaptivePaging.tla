-------------------------- MODULE MCAdaptivePaging -------------------------
(* Small instances of AdaptivePaging for TLC, in units of 100 items. *)
EXTENDS AdaptivePaging

CONSTANTS f1, f2
Sizes == <<5, 2, 1>>
Interchangeable == Permutations({f1, f2})
=============================================================================
