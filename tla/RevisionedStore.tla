--------------------------- MODULE RevisionedStore ---------------------------
(***************************************************************************)
(* What the topology store of bgPLS promises to its clients, without        *)
(* caches, locks, commits or crashes: a map from entities to values, one    *)
(* revision number for every accepted mutation, and a journal that can be   *)
(* pruned from its old end only.  Store.tla is shown to implement it.       *)
(***************************************************************************)
EXTENDS Naturals

CONSTANTS Keys, Data, Absent

VARIABLES
    rev,     \* the number of mutations accepted so far
    state,   \* the value of every entity, Absent when there is none
    journal  \* revision -> [key, before, after], for the retained revisions

absVars == <<rev, state, journal>>

Init ==
    /\ rev = 0
    /\ state = [k \in Keys |-> Absent]
    /\ journal = [r \in {} |-> Absent]

\* Exactly one entity changes, under the next revision, and the journal records
\* the value it had and the value it gets.
Accept(k, v) ==
    /\ rev' = rev + 1
    /\ state' = [state EXCEPT ![k] = v]
    /\ journal' = [r \in DOMAIN journal \cup {rev + 1} |->
                     IF r = rev + 1 THEN [key |-> k, before |-> state[k], after |-> v]
                                    ELSE journal[r]]

Upsert(k, d) == Accept(k, [data |-> d, revision |-> rev + 1])

Delete(k) == Accept(k, Absent)

\* Everything up to n is forgotten.
Prune(n) ==
    /\ journal' = [r \in {x \in DOMAIN journal : x > n} |-> journal[r]]
    /\ UNCHANGED <<rev, state>>

Next ==
    \/ \E k \in Keys, d \in Data : Upsert(k, d)
    \/ \E k \in Keys : Delete(k)
    \/ \E n \in DOMAIN journal : Prune(n)

Spec == Init /\ [][Next]_absVars
=============================================================================
