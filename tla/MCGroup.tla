------------------------------- MODULE MCGroup -------------------------------
(* Small instances of Group. *)
EXTENDS Group, TLC

\* A fresh server and a fresh channel are all alike, whichever CHOOSE takes.
Symmetry == Permutations(Servers) \cup Permutations(Chans)
=============================================================================
