--------------------------- MODULE MCDynamicCache ---------------------------
(* Small instances of DynamicCache. *)
EXTENDS DynamicCache, TLC

\* Requests are interchangeable; a fresh object is chosen, so objects are not.
Symmetry == Permutations(Requests)
=============================================================================
