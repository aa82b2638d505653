---------------------------- MODULE MCStoreWatch ----------------------------
(* Model-checking instance of StoreWatch. *)
EXTENDS StoreWatch, TLC

\* Clients are interchangeable.  Not used for the liveness runs.
Symmetry == Permutations(Watchers)
=============================================================================
