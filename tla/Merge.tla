-------------------------------- MODULE Merge --------------------------------
(***************************************************************************)
(* How several producers of one entity become one canonical value:          *)
(* the pure part of Reconciler.Apply (internal/topology/reconcile.go) and   *)
(* its reference definition.                                                *)
(*                                                                         *)
(* A source is what one peer advertises: the fields mergeEntity looks at,   *)
(* whose zero value means "not advertised", the TLVs it unites, and the     *)
(* rest, which it takes from the most preferred source.                     *)
(***************************************************************************)
EXTENDS Naturals, FiniteSets

CONSTANTS
    Peers,       \* peers: a number is the place of the peer id in string order
    Preference,  \* Preference[p]: source_preference of the peer
    Fields,      \* the merged fields: name, igp_metric, ...
    NoVal        \* the empty string, 0

ASSUME PeersAssumption == Peers \subseteq Nat /\ IsFiniteSet(Peers)

ASSUME PreferenceAssumption == Preference \in [Peers -> Nat]

NoSources == [p \in {} |-> NoVal]

\* sources[a.PeerID] = a
PutSource(src, p, a) == [q \in DOMAIN src \cup {p} |-> IF q = p THEN a ELSE src[q]]

\* delete(sources, a.PeerID)
DropSource(src, p) == [q \in DOMAIN src \ {p} |-> src[q]]

\* The comparison given to sort.Slice.
Before(p, q) ==
    IF Preference[p] = Preference[q] THEN p < q ELSE Preference[p] > Preference[q]

\* ordered: the i-th source is the one with i - 1 before it.
Ordered(src) ==
    [i \in 1..Cardinality(DOMAIN src) |->
        CHOOSE p \in DOMAIN src : Cardinality({q \in DOMAIN src : Before(q, p)}) = i - 1]

Conflict(f, selected, selectedPeer, rejected, rejectedPeer) ==
    [field |-> f, selected |-> selected, selectedPeer |-> selectedPeer,
     rejected |-> rejected, rejectedPeer |-> rejectedPeer]

\* mergeTLVs: those of the other source that are not there already.
MergeTLVs(selected, other) == selected \cup (other \ selected)

\* Mutant: a conflict is reported against an empty field too.
MergeEntityEmptyConflict(canonical, other, selectedPeer, otherPeer) ==
    [val |-> [f \in Fields |-> IF canonical.val[f] = NoVal THEN other.val[f] ELSE canonical.val[f]],
     tlvs |-> MergeTLVs(canonical.tlvs, other.tlvs),
     conflicts |-> canonical.conflicts \cup
        {Conflict(f, canonical.val[f], selectedPeer, other.val[f], otherPeer) :
            f \in {g \in Fields : other.val[g] # canonical.val[g]}}]

\* mergeEntity, one mergeString or mergeUint64 per field: an empty field is filled,
\* a different value is a conflict.
MergeEntity(canonical, other, selectedPeer, otherPeer) ==
    [val |-> [f \in Fields |-> IF canonical.val[f] = NoVal THEN other.val[f] ELSE canonical.val[f]],
     tlvs |-> MergeTLVs(canonical.tlvs, other.tlvs),
     conflicts |-> canonical.conflicts \cup
        {Conflict(f, canonical.val[f], selectedPeer, other.val[f], otherPeer) :
            f \in {g \in Fields : /\ canonical.val[g] # NoVal
                                  /\ other.val[g] # NoVal
                                  /\ other.val[g] # canonical.val[g]}}]

\* The canonical value of a non-empty set of sources: the first one, the others
\* merged into it in order, and the list of the peers.
Canonical(src) ==
    LET ordered == Ordered(src)
        merged[i \in DOMAIN ordered] ==
            IF i = 1 THEN [val |-> src[ordered[1]].val, tlvs |-> src[ordered[1]].tlvs, conflicts |-> {}]
            ELSE MergeEntity(merged[i - 1], src[ordered[i]], ordered[1], ordered[i])
        all == merged[Cardinality(DOMAIN src)]
    IN  [val |-> all.val, tlvs |-> all.tlvs, conflicts |-> all.conflicts,
         rest |-> src[ordered[1]].rest, sources |-> ordered]

-----------------------------------------------------------------------------
(* The reference.                                                           *)

\* The peers that advertise a field, and the one of them that decides it.
Having(src, f) == {p \in DOMAIN src : src[p].val[f] # NoVal}

Decider(src, f) ==
    CHOOSE p \in Having(src, f) : \A q \in Having(src, f) : q = p \/ Before(p, q)

\* "Deterministic source preference": each field has the value of the most preferred
\* peer that advertises it; every other advertised value is exposed as a conflict,
\* with the peer it comes from, and nothing else is; no TLV of a source is lost.
MergeIsRight(src, canonical) ==
    /\ \A f \in Fields :
         canonical.val[f] = IF Having(src, f) = {} THEN NoVal ELSE src[Decider(src, f)].val[f]
    /\ {<<c.field, c.selected, c.rejected, c.rejectedPeer>> : c \in canonical.conflicts} =
         UNION {{<<f, canonical.val[f], src[p].val[f], p>> :
                    p \in {q \in Having(src, f) : src[q].val[f] # canonical.val[f]}} : f \in Fields}
    /\ canonical.tlvs = UNION {src[p].tlvs : p \in DOMAIN src}
    /\ {canonical.sources[i] : i \in DOMAIN canonical.sources} = DOMAIN src
    /\ \A i, j \in DOMAIN canonical.sources :
         i < j => Preference[canonical.sources[i]] >= Preference[canonical.sources[j]]
=============================================================================
