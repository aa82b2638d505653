------------------------------- MODULE MCMerge -------------------------------
(* Every set of sources of one entity, reached one update at a time. *)
EXTENDS Merge, TLC

CONSTANTS
    Vals,   \* what a field can be
    TLVs,   \* decoded TLVs
    Rests   \* freshness, node ids, bandwidths, SIDs, ...

ASSUME NoValAssumption == NoVal \notin Vals

Advert == [val : [Fields -> Vals \cup {NoVal}], tlvs : SUBSET TLVs, rest : Rests]

VARIABLE advertised

MergeInit == advertised = NoSources

Announce(p, a) == advertised' = PutSource(advertised, p, a)

Withdraw(p) == p \in DOMAIN advertised /\ advertised' = DropSource(advertised, p)

MergeNext == \E p \in Peers : (\E a \in Advert : Announce(p, a)) \/ Withdraw(p)

MergeSpec == MergeInit /\ [][MergeNext]_advertised

\* Two peers share a preference, so that the peer id decides between them.
MCPreference == (1 :> 10) @@ (2 :> 20) @@ (3 :> 10)

\* Reconciler.Apply computes the reference, for every set of sources.
CanonicalIsRight == advertised # NoSources => MergeIsRight(advertised, Canonical(advertised))
=============================================================================
