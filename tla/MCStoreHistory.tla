--------------------------- MODULE MCStoreHistory ---------------------------
(* Model-checking instance of StoreHistory. *)
EXTENDS StoreHistory, TLC

\* Entities, what they hold and requests are interchangeable.
Symmetry == Permutations(Keys) \cup Permutations(Data) \cup Permutations(Readers)
=============================================================================
