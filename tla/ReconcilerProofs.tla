--------------------------- MODULE ReconcilerProofs ---------------------------
(***************************************************************************)
(* Proofs about Merge.tla and Reconciler.tla.  The canonical value is the   *)
(* one the reference definition asks for, for any peers, preferences,       *)
(* fields and values, and so it is after any announcements and withdrawals  *)
(* (MCMerge.tla).  What the reconciler keeps and stores is consistent for   *)
(* any peers, NLRIs and offers, and any number of updates, crashes and      *)
(* refused mutations.                                                       *)
(*                                                                         *)
(* Facts about every number or every place in an order are shown by the     *)
(* smallest one for which they would fail (LeastOf).                        *)
(***************************************************************************)
EXTENDS Reconciler, MCMerge, FiniteSetTheorems, WellFoundedInduction, SequenceTheorems, TLAPS

\* A set of numbers has a least one.
LEMMA LeastOf ==
  ASSUME NEW T, T \subseteq Nat, T # {}
  PROVE  \E x \in T : \A y \in T : x <= y
  <1>1. PICK x \in T : \A y \in T : ~(<<y, x>> \in OpToRel(<, Nat))
    BY NatLessThanWellFounded, WFMin
  <1>2. \A y \in T : ~(y < x)
    BY <1>1 DEF OpToRel
  <1> QED
    BY <1>2

-----------------------------------------------------------------------------
(* The order of the sources.                                                *)

\* The comparison is a strict total order on the peers.
LEMMA BeforeIsOrder ==
  /\ \A p \in Peers : ~Before(p, p)
  /\ \A p, q \in Peers : p # q => Before(p, q) \/ Before(q, p)
  /\ \A p, q \in Peers : ~(Before(p, q) /\ Before(q, p))
  /\ \A p, q, r \in Peers : Before(p, q) /\ Before(q, r) => Before(p, r)
  BY PeersAssumption, PreferenceAssumption DEF Before

\* The number of the peers of D before p.
Rank(D, p) == Cardinality({q \in D : Before(q, p)})

LEMMA RankType ==
  ASSUME NEW D \in SUBSET Peers, NEW p \in D
  PROVE  /\ IsFiniteSet(D) /\ Cardinality(D) \in Nat
         /\ Rank(D, p) \in 0..(Cardinality(D) - 1)
  <1> DEFINE B == {q \in D : Before(q, p)}
  <1>1. IsFiniteSet(D) /\ Cardinality(D) \in Nat
    BY PeersAssumption, FS_Subset, FS_CardinalityType
  <1>2. B \in SUBSET (D \ {p})
    BY BeforeIsOrder
  <1>3. IsFiniteSet(D \ {p}) /\ Cardinality(D \ {p}) = Cardinality(D) - 1
    BY <1>1, FS_RemoveElement
  <1>4. IsFiniteSet(B) /\ Cardinality(B) <= Cardinality(D \ {p})
    BY <1>2, <1>3, FS_Subset
  <1>5. Cardinality(B) \in Nat
    BY <1>4, FS_CardinalityType
  <1> HIDE DEF B
  <1>6. Cardinality(B) \in 0..(Cardinality(D) - 1)
    BY <1>1, <1>3, <1>4, <1>5
  <1> QED
    BY <1>1, <1>6 DEF B, Rank

LEMMA RankGrows ==
  ASSUME NEW D \in SUBSET Peers, NEW p \in D, NEW q \in D, Before(p, q)
  PROVE  Rank(D, p) < Rank(D, q)
  <1> DEFINE B == {r \in D : Before(r, p)}
             C == {r \in D : Before(r, q)}
  <1>1. IsFiniteSet(D)
    BY RankType
  <1>2. B \cup {p} \in SUBSET C /\ p \notin B /\ B \in SUBSET D /\ C \in SUBSET D
    BY BeforeIsOrder
  <1>3. IsFiniteSet(B) /\ IsFiniteSet(C)
    BY <1>1, <1>2, FS_Subset
  <1>4. Cardinality(B) \in Nat /\ Cardinality(C) \in Nat
    BY <1>3, FS_CardinalityType
  <1>5. Cardinality(B \cup {p}) = Cardinality(B) + 1
    BY <1>2, <1>3, FS_AddElement
  <1>6. Cardinality(B \cup {p}) <= Cardinality(C)
    BY <1>2, <1>3, FS_Subset
  <1> HIDE DEF B, C
  <1>7. Cardinality(B) < Cardinality(C)
    BY <1>4, <1>5, <1>6
  <1> QED
    BY <1>7 DEF B, C, Rank

\* Every place has its peer.
LEMMA RankReaches ==
  ASSUME NEW D \in SUBSET Peers, NEW k \in 0..(Cardinality(D) - 1), D # {}
  PROVE  \E p \in D : Rank(D, p) = k
  <1> SUFFICES ASSUME \A p \in D : Rank(D, p) # k PROVE FALSE
    OBVIOUS
  <1> DEFINE N == 0..(Cardinality(D) - 1)
             f == [p \in D |-> Rank(D, p)]
  <1>1. IsFiniteSet(D) /\ Cardinality(D) \in Nat
    BY RankType
  <1>2. Cardinality(D) # 0
    BY <1>1, FS_EmptySet
  <1>3. IsFiniteSet(N) /\ Cardinality(N) = Cardinality(D)
    <2> DEFINE m == Cardinality(D) - 1
    <2>1. 0 \in Int /\ m \in Int /\ ~(0 > m) /\ m - 0 + 1 = Cardinality(D)
      BY <1>1, <1>2
    <2> HIDE DEF m
    <2>2. IsFiniteSet(0..m) /\ Cardinality(0..m) = IF 0 > m THEN 0 ELSE m - 0 + 1
      BY <2>1, FS_Interval
    <2> QED
      BY <2>1, <2>2 DEF m
  <1>4. IsFiniteSet(N \ {k}) /\ Cardinality(N \ {k}) = Cardinality(D) - 1
    BY <1>3, FS_RemoveElement
  <1>5. f \in [D -> N \ {k}]
    BY RankType
  <1>6. Cardinality(N \ {k}) < Cardinality(D)
    BY <1>1, <1>4
  <1>7. \E p, q \in D : p # q /\ f[p] = f[q]
    <2> DEFINE M == N \ {k}
    <2>1. IsFiniteSet(M) /\ Cardinality(M) < Cardinality(D) /\ f \in [D -> M]
      BY <1>4, <1>5, <1>6
    <2> HIDE DEF M, f
    <2> QED
      BY <1>1, <2>1, FS_PigeonHole
  <1>8. PICK p \in D, q \in D : p # q /\ Rank(D, p) = Rank(D, q)
    BY <1>7
  <1>9. Rank(D, p) \in Nat /\ Rank(D, q) \in Nat
    BY RankType
  <1>10. Rank(D, p) < Rank(D, q) \/ Rank(D, q) < Rank(D, p)
    BY <1>8, BeforeIsOrder, RankGrows
  <1> QED
    BY <1>8, <1>9, <1>10

\* sort.Slice: every source has one place, a better one than those it is before.
LEMMA OrderedOK ==
  ASSUME NEW src, DOMAIN src \subseteq Peers, DOMAIN src # {}
  PROVE  LET n == Cardinality(DOMAIN src) IN
         /\ n \in Nat /\ n >= 1
         /\ Ordered(src) \in [1..n -> DOMAIN src]
         /\ \A p \in DOMAIN src : \E i \in 1..n : Ordered(src)[i] = p
         /\ \A i, j \in 1..n : i < j => Before(Ordered(src)[i], Ordered(src)[j])
  <1> DEFINE D == DOMAIN src
             n == Cardinality(D)
             o == Ordered(src)
  <1>1. IsFiniteSet(D) /\ n \in Nat
    BY RankType
  <1>2. n # 0
    BY <1>1, FS_EmptySet
  <1>3. o = [i \in 1..n |-> CHOOSE p \in D : Rank(D, p) = i - 1]
    BY DEF Ordered, Rank
  <1>4. ASSUME NEW i \in 1..n PROVE o[i] \in D /\ Rank(D, o[i]) = i - 1
    <2>1. i - 1 \in 0..(n - 1)
      BY <1>1
    <2>2. \E p \in D : Rank(D, p) = i - 1
      BY <2>1, RankReaches
    <2> QED
      BY <1>3, <2>2
  <1>5. ASSUME NEW p \in D PROVE \E i \in 1..n : o[i] = p
    <2>1. Rank(D, p) \in 0..(n - 1)
      BY RankType
    <2>2. Rank(D, p) + 1 \in 1..n /\ (Rank(D, p) + 1) - 1 = Rank(D, p)
      BY <1>1, <2>1
    <2> DEFINE i == Rank(D, p) + 1
               q == o[i]
    <2>3. q \in D /\ Rank(D, q) = Rank(D, p)
      BY <1>4, <2>2
    <2>4. q = p
      <3>1. Before(p, q) => Rank(D, p) < Rank(D, q)
        BY <2>3, RankGrows
      <3>2. Before(q, p) => Rank(D, q) < Rank(D, p)
        BY <2>3, RankGrows
      <3>3. ~(Rank(D, p) < Rank(D, p))
        BY <2>1
      <3> QED
        BY <2>3, <3>1, <3>2, <3>3, BeforeIsOrder
    <2> QED
      BY <2>2, <2>4
  <1>6. ASSUME NEW i \in 1..n, NEW j \in 1..n, i < j PROVE Before(o[i], o[j])
    <2>1. /\ o[i] \in D /\ o[j] \in D
          /\ Rank(D, o[i]) = i - 1 /\ Rank(D, o[j]) = j - 1
      BY <1>4
    <2>2. Before(o[j], o[i]) => Rank(D, o[j]) < Rank(D, o[i])
      BY <2>1, RankGrows
    <2>3. ~(j - 1 < i - 1) /\ j - 1 # i - 1
      BY <1>1, <1>6
    <2> QED
      BY <2>1, <2>2, <2>3, BeforeIsOrder
  <1>7. o \in [1..n -> D]
    BY <1>3, <1>4
  <1> QED
    BY <1>1, <1>2, <1>5, <1>6, <1>7

-----------------------------------------------------------------------------
(* The loop of Reconciler.Apply over the ordered sources.                   *)

\* What the loop makes of the i-th source, with what g says of the ones before it.
Round(src, g, i) ==
    IF i = 1
    THEN [val |-> src[Ordered(src)[1]].val, tlvs |-> src[Ordered(src)[1]].tlvs, conflicts |-> {}]
    ELSE MergeEntity(g[i - 1], src[Ordered(src)[i]], Ordered(src)[1], Ordered(src)[i])

Merged(src) == CHOOSE g : g = [i \in DOMAIN Ordered(src) |-> Round(src, g, i)]

LEMMA CanonicalIsMerged ==
  ASSUME NEW src
  PROVE  LET all == Merged(src)[Cardinality(DOMAIN src)] IN
         /\ Canonical(src).val = all.val /\ Canonical(src).tlvs = all.tlvs
         /\ Canonical(src).conflicts = all.conflicts
         /\ Canonical(src).rest = src[Ordered(src)[1]].rest
         /\ Canonical(src).sources = Ordered(src)
  BY DEF Canonical, Merged, Round

\* The recursion is well founded: the function it defines exists.
LEMMA MergedExists ==
  ASSUME NEW src, DOMAIN src \subseteq Peers, DOMAIN src # {}
  PROVE  Merged(src) = [i \in 1..Cardinality(DOMAIN src) |-> Round(src, Merged(src), i)]
  <1> DEFINE n == Cardinality(DOMAIN src)
             T == {k \in 1..n : ~\E g : g = [i \in 1..k |-> Round(src, g, i)]}
  <1>1. n \in Nat /\ n >= 1 /\ DOMAIN Ordered(src) = 1..n
    BY OrderedOK
  <1> HIDE DEF n
  <1>2. T = {}
    <2> SUFFICES ASSUME T # {} PROVE FALSE
      OBVIOUS
    <2>0. T \subseteq Nat
      BY <1>1
    <2>1. PICK k \in T : \A y \in T : k <= y
      <3> HIDE DEF T
      <3> QED
        BY <2>0, LeastOf
    <2>2. k # 1
      <3>1. \E g : g = [i \in 1..1 |-> Round(src, g, i)]
        <4> DEFINE h == [i \in 1..1 |-> Round(src, src, i)]
        <4>1. \A g : Round(src, g, 1) = Round(src, src, 1)
          BY DEF Round
        <4>2. \A i \in 1..1 : i = 1
          OBVIOUS
        <4> HIDE DEF Round
        <4>3. h = [i \in 1..1 |-> Round(src, h, i)]
          BY <4>1, <4>2
        <4> QED
          BY <4>3
      <3> QED
        BY <3>1
    <2>3. k \in 1..n /\ k - 1 \in 1..n /\ k - 1 \notin T
      BY <1>1, <2>1, <2>2
    <2>4. PICK g : g = [i \in 1..(k - 1) |-> Round(src, g, i)]
      BY <2>3
    <2> DEFINE h == [i \in 1..k |-> Round(src, g, i)]
    <2>5. ASSUME NEW i \in 1..k PROVE Round(src, h, i) = Round(src, g, i)
      <3>1. CASE i = 1
        BY <3>1 DEF Round
      <3>2. CASE i # 1
        <4>1. i - 1 \in 1..k /\ i - 1 \in 1..(k - 1)
          BY <2>3, <3>2
        <4>2. h[i - 1] = g[i - 1]
          BY <2>4, <4>1
        <4> HIDE DEF h
        <4> QED
          BY <3>2, <4>2 DEF Round
      <3> QED
        BY <3>1, <3>2
    <2>6. h = [i \in 1..k |-> Round(src, h, i)]
      BY <2>5
    <2>7. k \notin T
      BY <2>6
    <2> QED
      BY <2>7
  <1>3. \E g : g = [i \in 1..n |-> Round(src, g, i)]
    BY <1>1, <1>2
  <1>4. Merged(src) = CHOOSE g : g = [i \in 1..n |-> Round(src, g, i)]
    BY <1>1 DEF Merged
  <1>5. Merged(src) = [i \in 1..n |-> Round(src, Merged(src), i)]
    BY <1>3, <1>4
  <1> QED
    BY <1>5 DEF n

\* After i sources each field has the value of the first of them that has one, the other
\* values are conflicts, and the TLVs are those of all of them.
RoundOK(src, i) ==
    LET m == Merged(src)[i]
        o == Ordered(src)
    IN  /\ \A f \in Fields :
             \/ m.val[f] = NoVal /\ \A j \in 1..i : src[o[j]].val[f] = NoVal
             \/ m.val[f] # NoVal /\ \E k \in 1..i : /\ m.val[f] = src[o[k]].val[f]
                                                  /\ \A j \in 1..(k - 1) : src[o[j]].val[f] = NoVal
        /\ \A c : c \in m.conflicts <=>
             \E f \in Fields : \E j \in 1..i :
                 /\ m.val[f] # NoVal /\ src[o[j]].val[f] # NoVal /\ src[o[j]].val[f] # m.val[f]
                 /\ c = Conflict(f, m.val[f], o[1], src[o[j]].val[f], o[j])
        /\ \A x : x \in m.tlvs <=> \E j \in 1..i : x \in src[o[j]].tlvs

LEMMA FirstRound ==
  ASSUME NEW src, DOMAIN src \subseteq Peers, DOMAIN src # {}
  PROVE  RoundOK(src, 1)
  <1> DEFINE n == Cardinality(DOMAIN src)
             o == Ordered(src)
             m == Merged(src)[1]
  <1>1. 1 \in 1..n /\ \A j : j \in 1..1 <=> j = 1
    BY OrderedOK
  <1>2. Merged(src)[1] = Round(src, Merged(src), 1)
    BY <1>1, MergedExists
  <1>3. m.val = src[o[1]].val /\ m.tlvs = src[o[1]].tlvs /\ m.conflicts = {}
    BY <1>2 DEF Round
  <1>4. \A f \in Fields :
           \/ m.val[f] = NoVal /\ \A j \in 1..1 : src[o[j]].val[f] = NoVal
           \/ m.val[f] # NoVal /\ \E k \in 1..1 : /\ m.val[f] = src[o[k]].val[f]
                                                /\ \A j \in 1..(k - 1) : src[o[j]].val[f] = NoVal
    <2>1. \A j \in 1..(1 - 1) : FALSE
      OBVIOUS
    <2> QED
      BY <1>1, <1>3, <2>1
  <1>5. \A c : c \in m.conflicts <=>
           \E f \in Fields : \E j \in 1..1 :
               /\ m.val[f] # NoVal /\ src[o[j]].val[f] # NoVal /\ src[o[j]].val[f] # m.val[f]
               /\ c = Conflict(f, m.val[f], o[1], src[o[j]].val[f], o[j])
    BY <1>1, <1>3
  <1>6. \A x : x \in m.tlvs <=> \E j \in 1..1 : x \in src[o[j]].tlvs
    BY <1>1, <1>3
  <1> QED
    BY <1>4, <1>5, <1>6 DEF RoundOK

LEMMA NextRound ==
  ASSUME NEW src, DOMAIN src \subseteq Peers, DOMAIN src # {},
         NEW i \in 2..Cardinality(DOMAIN src), RoundOK(src, i - 1)
  PROVE  RoundOK(src, i)
  <1> DEFINE n == Cardinality(DOMAIN src)
             o == Ordered(src)
             s == src[o[i]]
             l == Merged(src)[i - 1]
             m == Merged(src)[i]
             v(j, f) == src[o[j]].val[f]
  <1>1. /\ n \in Nat /\ i \in 1..n /\ i # 1 /\ i - 1 \in Nat
        /\ \A j : j \in 1..i <=> j \in 1..(i - 1) \/ j = i
        /\ \A k \in 1..(i - 1) : k - 1 < i /\ k \in 1..i
    BY OrderedOK
  <1>2. m = MergeEntity(l, s, o[1], o[i])
    BY <1>1, MergedExists DEF Round
  <1>3. /\ \A f \in Fields : m.val[f] = IF l.val[f] = NoVal THEN v(i, f) ELSE l.val[f]
        /\ m.tlvs = l.tlvs \cup s.tlvs
        /\ m.conflicts = l.conflicts \cup
             {Conflict(f, l.val[f], o[1], v(i, f), o[i]) :
                f \in {g \in Fields : l.val[g] # NoVal /\ v(i, g) # NoVal /\ v(i, g) # l.val[g]}}
    BY <1>2 DEF MergeEntity, MergeTLVs
  <1>4. /\ \A f \in Fields :
             \/ l.val[f] = NoVal /\ \A j \in 1..(i - 1) : v(j, f) = NoVal
             \/ l.val[f] # NoVal /\ \E k \in 1..(i - 1) : /\ l.val[f] = v(k, f)
                                                        /\ \A j \in 1..(k - 1) : v(j, f) = NoVal
        /\ \A c : c \in l.conflicts <=>
             \E f \in Fields : \E j \in 1..(i - 1) :
                 /\ l.val[f] # NoVal /\ v(j, f) # NoVal /\ v(j, f) # l.val[f]
                 /\ c = Conflict(f, l.val[f], o[1], v(j, f), o[j])
        /\ \A x : x \in l.tlvs <=> \E j \in 1..(i - 1) : x \in src[o[j]].tlvs
    BY DEF RoundOK
  <1> HIDE DEF l, m, o, n
  <1>5. ASSUME NEW f \in Fields
        PROVE  \/ m.val[f] = NoVal /\ \A j \in 1..i : v(j, f) = NoVal
               \/ m.val[f] # NoVal /\ \E k \in 1..i : /\ m.val[f] = v(k, f)
                                                    /\ \A j \in 1..(k - 1) : v(j, f) = NoVal
    <2>1. CASE l.val[f] = NoVal
      BY <1>1, <1>3, <1>4, <2>1
    <2>2. CASE l.val[f] # NoVal
      BY <1>1, <1>3, <1>4, <2>2
    <2> QED
      BY <2>1, <2>2
  <1>6. ASSUME NEW c
        PROVE  c \in m.conflicts <=>
                 \E f \in Fields : \E j \in 1..i :
                     /\ m.val[f] # NoVal /\ v(j, f) # NoVal /\ v(j, f) # m.val[f]
                     /\ c = Conflict(f, m.val[f], o[1], v(j, f), o[j])
    <2>1. ASSUME c \in l.conflicts
          PROVE  \E f \in Fields : \E j \in 1..i :
                     /\ m.val[f] # NoVal /\ v(j, f) # NoVal /\ v(j, f) # m.val[f]
                     /\ c = Conflict(f, m.val[f], o[1], v(j, f), o[j])
      BY <1>1, <1>3, <1>4, <2>1
    <2>2. ASSUME NEW f \in Fields, l.val[f] # NoVal, v(i, f) # NoVal, v(i, f) # l.val[f]
          PROVE  m.val[f] = l.val[f] /\ i \in 1..i
      BY <1>1, <1>3, <2>2
    <2>3. ASSUME NEW f \in Fields, NEW j \in 1..i,
                 m.val[f] # NoVal, v(j, f) # NoVal, v(j, f) # m.val[f]
          PROVE  /\ l.val[f] # NoVal /\ m.val[f] = l.val[f]
                 /\ j \in 1..(i - 1) \/ j = i
      BY <1>1, <1>3, <1>4, <2>3
    <2> QED
      BY <1>3, <1>4, <2>1, <2>2, <2>3
  <1>7. \A x : x \in m.tlvs <=> \E j \in 1..i : x \in src[o[j]].tlvs
    BY <1>1, <1>3, <1>4
  <1> QED
    BY <1>5, <1>6, <1>7 DEF RoundOK, m, o

LEMMA RoundsOK ==
  ASSUME NEW src, DOMAIN src \subseteq Peers, DOMAIN src # {}
  PROVE  RoundOK(src, Cardinality(DOMAIN src))
  <1> DEFINE n == Cardinality(DOMAIN src)
             T == {i \in 1..n : ~RoundOK(src, i)}
  <1>1. n \in Nat /\ n >= 1
    BY OrderedOK
  <1>2. T \subseteq Nat
    BY <1>1
  <1>3. T = {}
    <2> SUFFICES ASSUME T # {} PROVE FALSE
      OBVIOUS
    <2>1. PICK i \in T : \A k \in T : i <= k
      <3> HIDE DEF T
      <3> QED
        BY <1>2, LeastOf
    <2>2. i \in 1..n /\ ~RoundOK(src, i)
      OBVIOUS
    <2>3. i # 1
      BY <2>2, FirstRound
    <2>4. i \in 2..n /\ i - 1 \in 1..n /\ ~(i <= i - 1)
      BY <1>1, <2>2, <2>3
    <2>5. RoundOK(src, i - 1)
      BY <2>1, <2>4
    <2> QED
      BY <2>2, <2>4, <2>5, NextRound
  <1> QED
    BY <1>1, <1>3

-----------------------------------------------------------------------------
(* The reference.                                                           *)

\* The peer that decides a field is the first that has it.
LEMMA DeciderIsFirst ==
  ASSUME NEW src, DOMAIN src \subseteq Peers, DOMAIN src # {}, NEW f,
         NEW k \in 1..Cardinality(DOMAIN src), src[Ordered(src)[k]].val[f] # NoVal,
         \A j \in 1..(k - 1) : src[Ordered(src)[j]].val[f] = NoVal
  PROVE  Having(src, f) # {} /\ Decider(src, f) = Ordered(src)[k]
  <1> DEFINE n == Cardinality(DOMAIN src)
             o == Ordered(src)
             p == o[k]
             H == Having(src, f)
  <1>1. /\ n \in Nat /\ o \in [1..n -> DOMAIN src]
        /\ \A q \in DOMAIN src : \E i \in 1..n : o[i] = q
        /\ \A i, j \in 1..n : i < j => Before(o[i], o[j])
    BY OrderedOK
  <1>2. p \in H /\ H \subseteq DOMAIN src
    BY <1>1 DEF Having
  <1>3. ASSUME NEW q \in H PROVE q = p \/ Before(p, q)
    <2>1. PICK j \in 1..n : o[j] = q
      BY <1>1, <1>2
    <2>2. j \notin 1..(k - 1)
      BY <1>3, <2>1 DEF Having
    <2>3. j = k \/ k < j
      BY <1>1, <2>1, <2>2
    <2> QED
      BY <1>1, <2>1, <2>3
  <1>4. ASSUME NEW q \in H, \A r \in H : r = q \/ Before(q, r) PROVE q = p
    BY <1>2, <1>3, <1>4, BeforeIsOrder
  <1>5. Decider(src, f) = CHOOSE q \in H : \A r \in H : r = q \/ Before(q, r)
    BY DEF Decider
  <1> HIDE DEF H, p
  <1>6. Decider(src, f) = p
    BY <1>2, <1>3, <1>4, <1>5
  <1> QED
    BY <1>2, <1>6 DEF H, p

\* "Deterministic source preference", whatever the peers, their preferences and what they
\* advertise: Reconciler.Apply gives each field the value of the most preferred peer
\* that has one, reports exactly the other values as conflicts, with their peers, and
\* keeps the TLVs of all of them.
THEOREM CanonicalOK ==
  ASSUME NEW src, DOMAIN src \subseteq Peers, DOMAIN src # {}
  PROVE  MergeIsRight(src, Canonical(src))
  <1> DEFINE n == Cardinality(DOMAIN src)
             o == Ordered(src)
             c == Canonical(src)
             v(j, f) == src[o[j]].val[f]
  <1>1. /\ n \in Nat /\ o \in [1..n -> DOMAIN src]
        /\ \A q \in DOMAIN src : \E i \in 1..n : o[i] = q
        /\ \A i, j \in 1..n : i < j => Before(o[i], o[j])
    BY OrderedOK
  <1>2. /\ \A f \in Fields :
             \/ c.val[f] = NoVal /\ \A j \in 1..n : v(j, f) = NoVal
             \/ c.val[f] # NoVal /\ \E k \in 1..n : /\ c.val[f] = v(k, f)
                                                  /\ \A j \in 1..(k - 1) : v(j, f) = NoVal
        /\ \A x : x \in c.conflicts <=>
             \E f \in Fields : \E j \in 1..n :
                 /\ c.val[f] # NoVal /\ v(j, f) # NoVal /\ v(j, f) # c.val[f]
                 /\ x = Conflict(f, c.val[f], o[1], v(j, f), o[j])
        /\ \A x : x \in c.tlvs <=> \E j \in 1..n : x \in src[o[j]].tlvs
        /\ c.sources = o
    <2> DEFINE m == Merged(src)[n]
    <2>1. c.val = m.val /\ c.tlvs = m.tlvs /\ c.conflicts = m.conflicts /\ c.sources = o
      BY CanonicalIsMerged
    <2>2. RoundOK(src, n)
      BY RoundsOK
    <2> HIDE DEF c, n
    <2> QED
      BY <2>1, <2>2 DEF RoundOK
  <1> HIDE DEF c, o, n
  <1>3. ASSUME NEW f \in Fields
        PROVE  /\ c.val[f] = IF Having(src, f) = {} THEN NoVal ELSE src[Decider(src, f)].val[f]
               /\ c.val[f] = NoVal => Having(src, f) = {}
    <2>1. CASE c.val[f] = NoVal /\ \A j \in 1..n : v(j, f) = NoVal
      <3>1. Having(src, f) = {}
        BY <1>1, <2>1 DEF Having
      <3> QED
        BY <2>1, <3>1
    <2>2. CASE c.val[f] # NoVal
      <3>1. PICK k \in 1..n : c.val[f] = v(k, f) /\ \A j \in 1..(k - 1) : v(j, f) = NoVal
        BY <1>2, <2>2
      <3>2. Having(src, f) # {} /\ Decider(src, f) = o[k]
        BY <2>2, <3>1, DeciderIsFirst DEF n, o
      <3> QED
        BY <2>2, <3>1, <3>2
    <2> QED
      BY <1>2, <2>1, <2>2
  <1>4. {<<x.field, x.selected, x.rejected, x.rejectedPeer>> : x \in c.conflicts} =
           UNION {{<<f, c.val[f], src[p].val[f], p>> :
                      p \in {q \in Having(src, f) : src[q].val[f] # c.val[f]}} : f \in Fields}
    <2>1. ASSUME NEW x \in c.conflicts
          PROVE  \E f \in Fields : \E p \in {q \in Having(src, f) : src[q].val[f] # c.val[f]} :
                   <<x.field, x.selected, x.rejected, x.rejectedPeer>>
                     = <<f, c.val[f], src[p].val[f], p>>
      <3>1. PICK f \in Fields, j \in 1..n :
              /\ c.val[f] # NoVal /\ v(j, f) # NoVal /\ v(j, f) # c.val[f]
              /\ x = Conflict(f, c.val[f], o[1], v(j, f), o[j])
        BY <1>2, <2>1
      <3>2. o[j] \in {q \in Having(src, f) : src[q].val[f] # c.val[f]}
        BY <1>1, <3>1 DEF Having
      <3>3. <<x.field, x.selected, x.rejected, x.rejectedPeer>>
              = <<f, c.val[f], src[o[j]].val[f], o[j]>>
        BY <3>1 DEF Conflict
      <3> QED
        BY <3>2, <3>3
    <2>2. ASSUME NEW f \in Fields, NEW p \in {q \in Having(src, f) : src[q].val[f] # c.val[f]}
          PROVE  \E x \in c.conflicts :
                   <<x.field, x.selected, x.rejected, x.rejectedPeer>>
                     = <<f, c.val[f], src[p].val[f], p>>
      <3>1. p \in DOMAIN src /\ src[p].val[f] # NoVal /\ src[p].val[f] # c.val[f]
        BY <2>2 DEF Having
      <3>2. c.val[f] # NoVal
        BY <1>3, <2>2
      <3>3. PICK j \in 1..n : o[j] = p
        BY <1>1, <3>1
      <3> DEFINE x == Conflict(f, c.val[f], o[1], v(j, f), o[j])
      <3>4. x \in c.conflicts
        BY <1>2, <3>1, <3>2, <3>3
      <3>5. /\ x.field = f /\ x.selected = c.val[f] /\ x.rejected = src[p].val[f]
            /\ x.rejectedPeer = p
        BY <3>3 DEF Conflict
      <3> HIDE DEF x
      <3> QED
        BY <3>4, <3>5
    <2> QED
      BY <2>1, <2>2
  <1>5. c.tlvs = UNION {src[p].tlvs : p \in DOMAIN src}
    BY <1>1, <1>2
  <1>6. {c.sources[i] : i \in DOMAIN c.sources} = DOMAIN src
    <2>1. {o[i] : i \in 1..n} = DOMAIN src /\ DOMAIN o = 1..n
      BY <1>1
    <2>2. c.sources = o
      BY <1>2
    <2> HIDE DEF c, o
    <2> QED
      BY <2>1, <2>2
  <1>7. ASSUME NEW i \in DOMAIN c.sources, NEW j \in DOMAIN c.sources, i < j
        PROVE  Preference[c.sources[i]] >= Preference[c.sources[j]]
    <2>1. /\ Before(o[i], o[j]) /\ o[i] \in Peers /\ o[j] \in Peers
      BY <1>1, <1>2, <1>7
    <2> QED
      BY <1>2, <2>1, PreferenceAssumption DEF Before
  <1> QED
    BY <1>3, <1>4, <1>5, <1>6, <1>7 DEF MergeIsRight, c

-----------------------------------------------------------------------------
(* The behaviours of MCMerge.tla.                                           *)

\* The sources are a map from peers.
AdvertisedTyped == DOMAIN advertised \subseteq Peers /\ advertised = [p \in DOMAIN advertised |-> advertised[p]]

LEMMA AdvertisedAlwaysTyped == MergeSpec => []AdvertisedTyped
  <1>1. MergeInit => AdvertisedTyped
    BY DEF MergeInit, AdvertisedTyped, NoSources
  <1>2. AdvertisedTyped /\ [MergeNext]_advertised => AdvertisedTyped'
    BY DEF AdvertisedTyped, MergeNext, Announce, Withdraw, PutSource, DropSource
  <1> QED
    BY <1>1, <1>2, PTL DEF MergeSpec

\* After any announcements and withdrawals, by any number of peers, what
\* Reconciler.Apply computes from the sources is the reference.
THEOREM MergeIsAlwaysRight == MergeSpec => []CanonicalIsRight
  <1>1. AdvertisedTyped => CanonicalIsRight
    <2> SUFFICES ASSUME AdvertisedTyped, advertised # NoSources
                 PROVE  MergeIsRight(advertised, Canonical(advertised))
      BY DEF CanonicalIsRight
    <2>1. DOMAIN advertised # {}
      BY DEF AdvertisedTyped, NoSources
    <2> QED
      BY <2>1, CanonicalOK DEF AdvertisedTyped
  <1> QED
    BY <1>1, AdvertisedAlwaysTyped, PTL

-----------------------------------------------------------------------------
(* The reconciler.                                                          *)

AllOffers == {NoAdvert} \cup UNION {Offers[p][n] : p \in Peers, n \in Nlris}

\* The reports of an NLRI in a queue, and the places of an entity in what is left of a path.
ReportsIn(q, p, n) == {i \in 1..Len(q) : q[i].peer = p /\ q[i].nlri = n}

UnderIn(w, p, e) == {i \in 1..Len(w) : w[i].peer = p /\ w[i].id = e}

LastIn(q, p, n, k) == k \in ReportsIn(q, p, n) /\ \A j \in ReportsIn(q, p, n) : j <= k

Reports(p, n) == ReportsIn(queue, p, n)

Under(p, e) == UnderIn(work, p, e)

\* The types of the variables: the path at hand is one path, or what is left of it.
BgpTyped ==
    /\ rib \in [Peers -> [Nlris -> AllOffers]]
    /\ \A p \in Peers, n \in Nlris : rib[p][n] \in Offers[p][n] \cup {NoAdvert}
    /\ sent \in 0..MaxUpdates
    /\ queue \in Seq(Paths) /\ Len(queue) <= QueueCap
    /\ toSync \subseteq Peers \X Nlris
    /\ up \in BOOLEAN

WorkTyped == work # <<>> => \E path \in Paths : work \in Seq(AdvertsOf(path))

SourcesTyped == sources \in [Ids -> SourceMaps]

CanonTyped ==
    /\ rev \in 0..MaxRev
    /\ canon = [e \in Ids |-> canon[e]]
    /\ \A e \in Ids : canon[e] # Absent => canon[e].firstSeen \in 1..rev

HistoryTyped == rejected \subseteq Peers \X Ids /\ unsaved \subseteq Ids /\ orphans \subseteq Ids

\* Nothing is in memory while the process is down.
DownOK ==
    ~up => /\ queue = <<>> /\ work = <<>> /\ toSync = {} /\ rejected = {} /\ unsaved = {}
           /\ \A e \in Ids : sources[e] = NoSources

\* The reports of an NLRI have a last one.
QueueOK ==
    \A p \in Peers, n \in Nlris :
        Reports(p, n) # {} => \E k \in Reports(p, n) : LastIn(queue, p, n, k)

\* A peer is a source only of what one of its NLRIs names.
NamedOK == \A e \in Ids : \A p \in DOMAIN sources[e] : \E n \in Nlris : e \in IdsOf(p, n)

\* SourcesFollowPeers, and that a rejected entity is made good by any report that
\* follows and by the path at hand.
FollowsAt(p, n, e) ==
    /\ <<p, n>> \notin toSync
    /\ <<p, e>> \notin rejected \/ Reports(p, n) # {} \/ Under(p, e) # {}
    => Heard(p, n, e) = Says(Path(p, n, rib[p][n]), e)

FollowsOK == up => \A p \in Peers : \A n \in Nlris : \A e \in IdsOf(p, n) : FollowsAt(p, n, e)

\* Nobody has sent an orphan again.
OrphansOK == \A e \in orphans \ unsaved : sources[e] = NoSources

\* The inductive invariant.
RInv ==
    /\ BgpTyped /\ WorkTyped /\ SourcesTyped /\ CanonTyped /\ HistoryTyped
    /\ DownOK /\ QueueOK /\ NamedOK /\ FollowsOK /\ OrphansOK
    /\ CanonIsMerge

-----------------------------------------------------------------------------
(* What a path says.                                                        *)

\* The nodes an entity is attached to are part of its id.
RefsOf(id) ==
    IF id[1] = "node" THEN <<>> ELSE IF id[1] = "link" THEN <<id[5], id[6]>> ELSE <<id[5]>>

\* The advertisements of an NLRI: its ids, and for each its value.
Shape(adverts, path, D, id, val) ==
    adverts = [i \in D |-> Advertisement(path, id[i], val, RefsOf(id[i]))]

\* handlePath makes the same entities of an announcement and of a withdrawal, unless
\* it fails.
LEMMA DecodeShape ==
  ASSUME NEW p \in Peers, NEW n \in Nlris
  PROVE  \E k \in Nat : \E id :
           \A o : LET d == Decode(Path(p, n, o)) IN
             \/ d.error # "none" /\ d.adverts = <<>> /\ (o = NoAdvert => k = 0)
             \/ d.error = "none" /\ \E val : Shape(d.adverts, Path(p, n, o), 1..k, id, val)
  <1> DEFINE m == Domain[p]
             d(o) == Decode(Path(p, n, o))
             Fits(o, k, id) ==
               \/ d(o).error # "none" /\ d(o).adverts = <<>> /\ (o = NoAdvert => k = 0)
               \/ d(o).error = "none" /\ \E val : Shape(d(o).adverts, Path(p, n, o), 1..k, id, val)
  <1>1. \A o : /\ Path(p, n, o).peer = p /\ Path(p, n, o).nlri = n /\ Path(p, n, o).offer = o
    BY DEF Path
  <1>2. AttrsOf(Path(p, n, NoAdvert)) # Malformed
    BY <1>1, MarksAssumption DEF AttrsOf
  <1>3. \A c : Failed(c).adverts = <<>> /\ Failed(c).error = c
    BY DEF Failed
  <1>4. \A a : Accepted(a).adverts = a /\ Accepted(a).error = "none"
    BY DEF Accepted
  <1>5. ASSUME NEW o, AttrsOf(Path(p, n, o)) = Malformed
        PROVE  d(o).error # "none" /\ d(o).adverts = <<>> /\ o # NoAdvert
    <2>1. d(o) = IF n.type = "unexpected" THEN Failed("unexpected_nlri")
                 ELSE Failed("malformed_decoded_path")
      BY <1>1, <1>5 DEF Decode
    <2> QED
      BY <1>2, <1>3, <1>5, <2>1
  <1>6. CASE n.type \notin {"node", "link", "prefix_v4", "prefix_v6"}
    <2>1. ASSUME NEW o PROVE Fits(o, 0, <<>>)
      <3>1. CASE AttrsOf(Path(p, n, o)) # Malformed
        <4>1. d(o) = Failed("unexpected_nlri") \/ d(o) = Failed("unsupported_nlri")
          BY <1>1, <1>6, <3>1 DEF Decode
        <4> QED
          BY <1>3, <4>1
      <3> QED
        BY <1>5, <3>1
    <2> QED
      BY <2>1
  <1>7. CASE n.type = "node"
    <2> DEFINE id == <<NodeID(m, n, n.local)>>
               k == IF n.local = NoDescriptor THEN 0 ELSE 1
    <2>1. ASSUME NEW o, AttrsOf(Path(p, n, o)) # Malformed PROVE Fits(o, k, id)
      <3>1. d(o) = DecodeNode(Path(p, n, o), n, m)
        BY <1>1, <1>7, <2>1 DEF Decode
      <3>2. CASE n.local = NoDescriptor
        <4>1. d(o) = Failed("missing_descriptor")
          BY <3>1, <3>2 DEF DecodeNode
        <4> QED
          BY <1>3, <3>2, <4>1
      <3>3. CASE n.local # NoDescriptor
        <4> DEFINE val == NodeFrom(n, AttrsOf(Path(p, n, o)))
                   a == Advertisement(Path(p, n, o), id[1], val, <<>>)
        <4>1. d(o) = Accepted(<<a>>)
          BY <3>1, <3>3 DEF DecodeNode
        <4>2. RefsOf(id[1]) = <<>>
          BY DEF RefsOf, NodeID, StableID
        <4> HIDE DEF val
        <4>3. Shape(<<a>>, Path(p, n, o), 1..1, id, val)
          BY <4>2 DEF Shape
        <4> QED
          BY <1>4, <3>3, <4>1, <4>3
      <3> QED
        BY <3>2, <3>3
    <2>2. k \in Nat
      OBVIOUS
    <2> HIDE DEF k, id
    <2>3. \A o : Fits(o, k, id)
      BY <1>5, <2>1
    <2> QED
      BY <2>2, <2>3
  <1>8. CASE n.type = "link"
    <2> DEFINE id == <<LinkID(m, n)>>
               k == IF NoDescriptor \in {n.local, n.remote} THEN 0 ELSE 1
    <2>1. ASSUME NEW o, AttrsOf(Path(p, n, o)) # Malformed PROVE Fits(o, k, id)
      <3>1. d(o) = DecodeLink(Path(p, n, o), n, m)
        BY <1>1, <1>8, <2>1 DEF Decode
      <3>2. CASE NoDescriptor \in {n.local, n.remote}
        <4>1. d(o) = Failed("missing_descriptor")
          BY <3>1, <3>2 DEF DecodeLink
        <4> QED
          BY <1>3, <3>2, <4>1
      <3>3. CASE NoDescriptor \notin {n.local, n.remote}
        <4> DEFINE val == LinkFrom(n, AttrsOf(Path(p, n, o)))
                   a == Advertisement(Path(p, n, o), id[1], val,
                                      <<NodeID(m, n, n.local), NodeID(m, n, n.remote)>>)
        <4>1. d(o) = Accepted(<<a>>)
          BY <3>1, <3>3 DEF DecodeLink
        <4>2. RefsOf(id[1]) = <<NodeID(m, n, n.local), NodeID(m, n, n.remote)>>
          BY DEF RefsOf, LinkID, StableID
        <4> HIDE DEF val
        <4>3. Shape(<<a>>, Path(p, n, o), 1..1, id, val)
          BY <4>2 DEF Shape
        <4> QED
          BY <1>4, <3>3, <4>1, <4>3
      <3> QED
        BY <3>2, <3>3
    <2>2. k \in Nat
      OBVIOUS
    <2> HIDE DEF k, id
    <2>3. \A o : Fits(o, k, id)
      BY <1>5, <2>1
    <2> QED
      BY <2>2, <2>3
  <1>9. CASE n.type \in {"prefix_v4", "prefix_v6"}
    <2> DEFINE w == n.networks
               id == [i \in DOMAIN w |-> PrefixID(m, n, w[i])]
               k == IF n.local = NoDescriptor THEN 0 ELSE Len(w)
    <2>1. Len(w) \in Nat /\ DOMAIN w = 1..Len(w)
      BY NlrisAssumption
    <2>2. ASSUME NEW o, AttrsOf(Path(p, n, o)) # Malformed PROVE Fits(o, k, id)
      <3>1. d(o) = DecodePrefixes(Path(p, n, o), n, m)
        BY <1>1, <1>9, <2>2 DEF Decode
      <3>2. CASE n.local = NoDescriptor
        <4>1. d(o) = Failed("missing_descriptor")
          BY <3>1, <3>2 DEF DecodePrefixes
        <4> QED
          BY <1>3, <3>2, <4>1
      <3>3. CASE n.local # NoDescriptor
        <4> DEFINE refs == <<NodeID(m, n, n.local)>>
                   a == [i \in DOMAIN w |-> Advertisement(Path(p, n, o), PrefixID(m, n, w[i]), NoMerged, refs)]
        <4>1. d(o) = Accepted(a)
          BY <3>1, <3>3 DEF DecodePrefixes
        <4>2. ASSUME NEW i \in DOMAIN w PROVE RefsOf(id[i]) = refs
          BY DEF RefsOf, PrefixID, StableID
        <4>3. Shape(a, Path(p, n, o), 1..k, id, NoMerged)
          BY <2>1, <3>3, <4>2 DEF Shape
        <4> HIDE DEF a
        <4> QED
          BY <1>4, <4>1, <4>3
      <3> QED
        BY <3>2, <3>3
    <2>3. k \in Nat
      BY <2>1
    <2> HIDE DEF k, id
    <2>4. \A o : Fits(o, k, id)
      BY <1>5, <2>2
    <2> QED
      BY <2>3, <2>4
  <1> QED
    BY <1>6, <1>7, <1>8, <1>9

LEMMA PathParts ==
  ASSUME NEW path \in Paths
  PROVE  /\ path.peer \in Peers /\ path.nlri \in Nlris
         /\ path.offer \in Offers[path.peer][path.nlri] \cup {NoAdvert}
         /\ path = Path(path.peer, path.nlri, path.offer)
  <1>1. PICK p \in Peers, n \in Nlris : \E o \in Offers[p][n] \cup {NoAdvert} : path = Path(p, n, o)
    BY DEF Paths
  <1>2. PICK o \in Offers[p][n] \cup {NoAdvert} : path = Path(p, n, o)
    BY <1>1
  <1>3. path.peer = p /\ path.nlri = n /\ path.offer = o
    BY <1>2 DEF Path
  <1> QED
    BY <1>2, <1>3

LEMMA PathOf ==
  ASSUME NEW p \in Peers, NEW n \in Nlris, NEW o \in Offers[p][n] \cup {NoAdvert}
  PROVE  /\ Path(p, n, o) \in Paths
         /\ Path(p, n, o).peer = p /\ Path(p, n, o).nlri = n /\ Path(p, n, o).offer = o
  <1>1. Path(p, n, o) \in Paths
    <2> DEFINE S(q, m) == {Path(q, m, x) : x \in Offers[q][m] \cup {NoAdvert}}
    <2>1. Path(p, n, o) \in S(p, n)
      OBVIOUS
    <2> HIDE DEF S
    <2>2. S(p, n) \in {S(q, m) : q \in Peers, m \in Nlris}
      OBVIOUS
    <2>3. Path(p, n, o) \in UNION {S(q, m) : q \in Peers, m \in Nlris}
      BY <2>1, <2>2
    <2> QED
      BY <2>3 DEF S, Paths
  <1> QED
    BY <1>1 DEF Path

\* What handlePath makes of a path: entities its NLRI names, all of them when it does not
\* fail, and one advertisement for each.
LEMMA DecodeOK ==
  ASSUME NEW path \in Paths
  PROVE  /\ Decode(path).adverts \in Seq(AdvertsOf(path))
         /\ Decode(path).error # "none" => Decode(path).adverts = <<>>
         /\ Decode(path).error = "none" =>
              \A e \in IdsOf(path.peer, path.nlri) :
                \E i \in DOMAIN Decode(path).adverts : Decode(path).adverts[i].id = e
         /\ path.offer = NoAdvert /\ IdsOf(path.peer, path.nlri) # {} => Decode(path).error = "none"
         /\ \A a \in AdvertsOf(path) :
              /\ a.peer = path.peer /\ a.id \in IdsOf(path.peer, path.nlri)
              /\ path.offer = NoAdvert => a.advert = NoAdvert
              /\ path.offer # NoAdvert => a.advert \in Adverts /\ a.advert.rest.refs = RefsOf(a.id)
         /\ \A a, b \in AdvertsOf(path) : a.id = b.id => a = b
  <1> DEFINE p == path.peer
             n == path.nlri
             o == path.offer
             d == Decode(path)
             d0 == Decode(Path(p, n, NoAdvert))
  <1>1. p \in Peers /\ n \in Nlris /\ path = Path(p, n, o)
    BY PathParts
  <1>2. PICK k \in Nat : \E id :
          \A x : LET y == Decode(Path(p, n, x)) IN
            \/ y.error # "none" /\ y.adverts = <<>> /\ (x = NoAdvert => k = 0)
            \/ y.error = "none" /\ \E val : Shape(y.adverts, Path(p, n, x), 1..k, id, val)
    BY <1>1, DecodeShape
  <1>3. PICK id :
          \A x : LET y == Decode(Path(p, n, x)) IN
            \/ y.error # "none" /\ y.adverts = <<>> /\ (x = NoAdvert => k = 0)
            \/ y.error = "none" /\ \E val : Shape(y.adverts, Path(p, n, x), 1..k, id, val)
    BY <1>2
  <1>4. \/ d.error # "none" /\ d.adverts = <<>> /\ (o = NoAdvert => k = 0)
        \/ d.error = "none" /\ \E val : Shape(d.adverts, path, 1..k, id, val)
    BY <1>1, <1>3
  <1>5. \A val, i : LET a == Advertisement(path, id[i], val, RefsOf(id[i])) IN
          /\ a.peer = p /\ a.id = id[i]
          /\ o = NoAdvert => a.advert = NoAdvert
          /\ o # NoAdvert => a.advert.rest.refs = RefsOf(id[i])
    BY DEF Advertisement
  <1>6. IdsOf(p, n) = {id[i] : i \in 1..k}
    <2>1. CASE d0.adverts = <<>> /\ k = 0
      <3>1. 1..k = {} /\ DOMAIN d0.adverts = {}
        BY <2>1
      <3> QED
        BY <3>1 DEF IdsOf
    <2>2. CASE \E val : Shape(d0.adverts, Path(p, n, NoAdvert), 1..k, id, val)
      <3>1. PICK val : Shape(d0.adverts, Path(p, n, NoAdvert), 1..k, id, val)
        BY <2>2
      <3>2. DOMAIN d0.adverts = 1..k /\ \A i \in 1..k : d0.adverts[i].id = id[i]
        BY <3>1 DEF Shape, Advertisement
      <3> QED
        BY <3>2 DEF IdsOf
    <2> QED
      BY <1>3, <2>1, <2>2
  <1>7. \A a : a \in AdvertsOf(path) <=> \E i \in DOMAIN d.adverts : a = d.adverts[i]
    BY DEF AdvertsOf
  <1>8. ASSUME NEW a \in AdvertsOf(path), o # NoAdvert PROVE a.advert \in Adverts
    BY <1>8 DEF Adverts
  <1> HIDE DEF d, p, n, o
  <1>9. CASE d.error # "none" /\ d.adverts = <<>> /\ (o = NoAdvert => k = 0)
    <2>1. DOMAIN d.adverts = {} /\ d.adverts \in Seq(AdvertsOf(path))
      BY <1>9
    <2>2. k = 0 => IdsOf(p, n) = {}
      BY <1>6
    <2> QED
      BY <1>7, <1>9, <2>1, <2>2 DEF p, n, o, d
  <1>10. CASE d.error = "none" /\ \E val : Shape(d.adverts, path, 1..k, id, val)
    <2>1. PICK val : Shape(d.adverts, path, 1..k, id, val)
      BY <1>10
    <2>2. /\ DOMAIN d.adverts = 1..k
          /\ \A i \in 1..k : d.adverts[i] = Advertisement(path, id[i], val, RefsOf(id[i]))
      BY <2>1 DEF Shape
    <2>3. d.adverts \in Seq(AdvertsOf(path))
      <3>1. d.adverts \in [1..k -> AdvertsOf(path)]
        BY <1>7, <2>1, <2>2 DEF Shape
      <3> QED
        BY <3>1, SeqDef
    <2>4. ASSUME NEW i \in 1..k
          PROVE  /\ d.adverts[i].peer = p /\ d.adverts[i].id = id[i]
                 /\ o = NoAdvert => d.adverts[i].advert = NoAdvert
                 /\ o # NoAdvert => d.adverts[i].advert.rest.refs = RefsOf(id[i])
      <3>1. d.adverts[i] = Advertisement(path, id[i], val, RefsOf(id[i]))
        BY <2>2
      <3> QED
        BY <1>5, <3>1
    <2>5. \A i, j \in 1..k : id[i] = id[j] => d.adverts[i] = d.adverts[j]
      BY <2>2
    <2>6. ASSUME NEW a \in AdvertsOf(path)
          PROVE  /\ a.peer = p /\ a.id \in IdsOf(p, n)
                 /\ o = NoAdvert => a.advert = NoAdvert
                 /\ o # NoAdvert => a.advert \in Adverts /\ a.advert.rest.refs = RefsOf(a.id)
      <3>1. PICK i \in 1..k : a = d.adverts[i]
        BY <1>7, <2>2
      <3>2. /\ a.peer = p /\ a.id = id[i] /\ (o = NoAdvert => a.advert = NoAdvert)
            /\ o # NoAdvert => a.advert.rest.refs = RefsOf(id[i])
        BY <2>4, <3>1
      <3>3. id[i] \in IdsOf(p, n)
        BY <1>6
      <3> QED
        BY <1>8, <3>2, <3>3
    <2>7. \A a, b \in AdvertsOf(path) : a.id = b.id => a = b
      BY <1>7, <2>2, <2>4, <2>5
    <2>8. \A e \in IdsOf(p, n) : \E i \in DOMAIN d.adverts : d.adverts[i].id = e
      BY <1>6, <2>2, <2>4
    <2> QED
      BY <1>10, <2>3, <2>6, <2>7, <2>8 DEF p, n, o, d
  <1> QED
    BY <1>4, <1>9, <1>10

LEMMA SaysOK ==
  ASSUME NEW path \in Paths, NEW e \in IdsOf(path.peer, path.nlri)
  PROVE  /\ \A a \in AdvertsOf(path) : a.id = e => Says(path, e) = a.advert
         /\ Decode(path).error = "none" => \E i \in DOMAIN Decode(path).adverts :
                                              Decode(path).adverts[i].id = e
         /\ path.offer = NoAdvert => Says(path, e) = NoAdvert
         /\ path.offer # NoAdvert => Says(path, e) \in Adverts \cup {Malformed}
  <1> DEFINE A == Decode(path).adverts
             own == {i \in DOMAIN A : A[i].id = e}
             c == CHOOSE i \in own : TRUE
  <1>1. Says(path, e) = IF own = {} THEN Malformed ELSE A[c].advert
    BY DEF Says
  <1>2. own # {} => c \in own
    OBVIOUS
  <1>3. \A i \in DOMAIN A : A[i] \in AdvertsOf(path)
    BY DEF AdvertsOf
  <1>4. \A a \in AdvertsOf(path) : \E i \in DOMAIN A : a = A[i]
    BY DEF AdvertsOf
  <1>5. /\ \A a, b \in AdvertsOf(path) : a.id = b.id => a = b
        /\ Decode(path).error = "none" => \E i \in DOMAIN A : A[i].id = e
        /\ path.offer = NoAdvert => Decode(path).error = "none"
        /\ \A a \in AdvertsOf(path) : /\ path.offer = NoAdvert => a.advert = NoAdvert
                                      /\ path.offer # NoAdvert => a.advert \in Adverts
    BY DecodeOK
  <1> HIDE DEF A, c
  <1> QED
    BY <1>1, <1>2, <1>3, <1>4, <1>5 DEF A

-----------------------------------------------------------------------------
(* What has been heard.                                                     *)

HeardIn(q, w, s, p, n, e) ==
    LET reports == {i \in 1..Len(q) : q[i].peer = p /\ q[i].nlri = n}
        under == {i \in 1..Len(w) : w[i].peer = p /\ w[i].id = e}
    IN  IF reports # {} THEN Says(q[CHOOSE i \in reports : \A j \in reports : j <= i], e)
        ELSE IF under # {} THEN w[CHOOSE i \in under : TRUE].advert
        ELSE IF p \in DOMAIN s[e] THEN s[e][p] ELSE NoAdvert

LEMMA HeardNow ==
  \A p, n, e : /\ Heard(p, n, e) = HeardIn(queue, work, sources, p, n, e)
               /\ Heard(p, n, e)' = HeardIn(queue', work', sources', p, n, e)
  BY DEF Heard, HeardIn, Says

\* The last report counts.
LEMMA HeardLast ==
  ASSUME NEW q \in Seq(Paths), NEW w, NEW s, NEW p, NEW n, NEW e, NEW k, LastIn(q, p, n, k)
  PROVE  HeardIn(q, w, s, p, n, e) = Says(q[k], e)
  <1> DEFINE R == ReportsIn(q, p, n)
  <1>1. R \subseteq Nat /\ k \in R /\ \A j \in R : j <= k
    BY DEF LastIn, ReportsIn
  <1>2. \A i \in R : (\A j \in R : j <= i) => i = k
    BY <1>1
  <1>3. (CHOOSE i \in R : \A j \in R : j <= i) = k
    <2> HIDE DEF R
    <2> QED
      BY <1>1, <1>2
  <1>4. HeardIn(q, w, s, p, n, e) = Says(q[CHOOSE i \in R : \A j \in R : j <= i], e)
    BY <1>1 DEF HeardIn, ReportsIn
  <1> QED
    BY <1>3, <1>4

\* Then the path at hand.
LEMMA HeardUnder ==
  ASSUME NEW q, NEW path \in Paths, NEW w \in Seq(AdvertsOf(path)), NEW s, NEW p, NEW n, NEW e,
         ReportsIn(q, p, n) = {}, NEW i \in UnderIn(w, p, e)
  PROVE  HeardIn(q, w, s, p, n, e) = w[i].advert
  <1> DEFINE U == UnderIn(w, p, e)
             c == CHOOSE j \in U : TRUE
  <1>1. c \in U
    OBVIOUS
  <1>2. HeardIn(q, w, s, p, n, e) = w[c].advert
    BY DEF HeardIn, ReportsIn, UnderIn
  <1>3. w[c] \in AdvertsOf(path) /\ w[i] \in AdvertsOf(path) /\ w[c].id = w[i].id
    BY <1>1 DEF UnderIn
  <1> HIDE DEF c
  <1>4. w[c] = w[i]
    BY <1>3, DecodeOK
  <1> QED
    BY <1>2, <1>4

\* Then the sources.
LEMMA HeardSource ==
  ASSUME NEW q, NEW w, NEW s, NEW p, NEW n, NEW e,
         ReportsIn(q, p, n) = {}, UnderIn(w, p, e) = {}
  PROVE  HeardIn(q, w, s, p, n, e) = IF p \in DOMAIN s[e] THEN s[e][p] ELSE NoAdvert
  BY DEF HeardIn, ReportsIn, UnderIn

\* A report that is queued is the last one of its NLRI.
LEMMA Queued ==
  ASSUME NEW q \in Seq(Paths), NEW path \in Paths, NEW p, NEW n
  PROVE  /\ Append(q, path) \in Seq(Paths)
         /\ p = path.peer /\ n = path.nlri =>
              /\ LastIn(Append(q, path), p, n, Len(q) + 1) /\ Append(q, path)[Len(q) + 1] = path
         /\ ~(p = path.peer /\ n = path.nlri) =>
              /\ ReportsIn(Append(q, path), p, n) = ReportsIn(q, p, n)
              /\ \A k \in ReportsIn(q, p, n) : Append(q, path)[k] = q[k]
  <1> DEFINE r == Append(q, path)
  <1>1. /\ r \in Seq(Paths) /\ Len(r) = Len(q) + 1 /\ Len(q) \in Nat
        /\ r[Len(q) + 1] = path /\ \A k \in 1..Len(q) : r[k] = q[k]
    OBVIOUS
  <1>2. \A k : k \in 1..(Len(q) + 1) <=> k \in 1..Len(q) \/ k = Len(q) + 1
    BY <1>1
  <1>3. \A k \in 1..(Len(q) + 1) : k <= Len(q) + 1
    BY <1>1
  <1> HIDE DEF r
  <1> QED
    BY <1>1, <1>2, <1>3 DEF r, LastIn, ReportsIn

\* The reports after the first one is taken.
LEMMA Taken ==
  ASSUME NEW q \in Seq(Paths), q # <<>>, NEW p, NEW n
  PROVE  /\ Tail(q) \in Seq(Paths) /\ Head(q) \in Paths /\ Head(q) = q[1]
         /\ 1 \in ReportsIn(q, p, n) <=> p = Head(q).peer /\ n = Head(q).nlri
         /\ \A k \in ReportsIn(q, p, n) : k # 1 => /\ k - 1 \in ReportsIn(Tail(q), p, n)
                                                  /\ Tail(q)[k - 1] = q[k]
         /\ \A k \in ReportsIn(Tail(q), p, n) : k + 1 \in ReportsIn(q, p, n) /\ k + 1 # 1
         /\ \A k : LastIn(q, p, n, k) /\ k # 1 => LastIn(Tail(q), p, n, k - 1)
  <1> DEFINE t == Tail(q)
  <1>1. /\ t \in Seq(Paths) /\ Head(q) \in Paths /\ Head(q) = q[1]
        /\ Len(q) \in Nat /\ Len(q) >= 1 /\ Len(t) = Len(q) - 1
        /\ \A k \in 1..(Len(q) - 1) : t[k] = q[k + 1]
    OBVIOUS
  <1>2. \A k \in 1..Len(q) : k # 1 => k - 1 \in 1..(Len(q) - 1) /\ (k - 1) + 1 = k
    BY <1>1
  <1>3. \A k \in 1..(Len(q) - 1) : k + 1 \in 1..Len(q) /\ k + 1 # 1
    BY <1>1
  <1> HIDE DEF t
  <1>4. \A k \in ReportsIn(q, p, n) : k # 1 => k - 1 \in ReportsIn(t, p, n) /\ t[k - 1] = q[k]
    BY <1>1, <1>2 DEF ReportsIn
  <1>5. \A k \in ReportsIn(t, p, n) : k + 1 \in ReportsIn(q, p, n) /\ k + 1 # 1
    BY <1>1, <1>3 DEF ReportsIn
  <1>6. \A k : LastIn(q, p, n, k) /\ k # 1 => LastIn(t, p, n, k - 1)
    <2> SUFFICES ASSUME NEW k \in ReportsIn(q, p, n), k # 1, \A j \in ReportsIn(q, p, n) : j <= k,
                        NEW j \in ReportsIn(t, p, n)
                 PROVE  j <= k - 1
      BY <1>4 DEF LastIn
    <2>1. j + 1 <= k /\ j \in Nat /\ k \in Nat
      BY <1>1, <1>5 DEF ReportsIn
    <2> QED
      BY <2>1
  <1>7. 1 \in ReportsIn(q, p, n) <=> p = Head(q).peer /\ n = Head(q).nlri
    BY <1>1 DEF ReportsIn
  <1> QED
    BY <1>1, <1>4, <1>5, <1>6, <1>7 DEF t

\* A queue with the same reports of an NLRI tells the same.
LEMMA HeardKept ==
  ASSUME NEW q \in Seq(Paths), NEW r \in Seq(Paths), NEW w, NEW s, NEW p, NEW n, NEW e,
         ReportsIn(r, p, n) = ReportsIn(q, p, n), \A k \in ReportsIn(q, p, n) : r[k] = q[k],
         ReportsIn(q, p, n) # {} => \E k \in ReportsIn(q, p, n) : LastIn(q, p, n, k)
  PROVE  HeardIn(r, w, s, p, n, e) = HeardIn(q, w, s, p, n, e)
  <1>1. CASE ReportsIn(q, p, n) # {}
    <2>1. PICK k \in ReportsIn(q, p, n) : LastIn(q, p, n, k)
      BY <1>1
    <2>2. LastIn(r, p, n, k) /\ r[k] = q[k]
      BY <2>1 DEF LastIn
    <2> QED
      BY <2>1, <2>2, HeardLast
  <1>2. CASE ReportsIn(q, p, n) = {}
    BY <1>2 DEF HeardIn, ReportsIn
  <1> QED
    BY <1>1, <1>2

-----------------------------------------------------------------------------
(* The inductive invariant.                                                 *)

\* FollowsAt with the state as parameters.
FollowsIn(q, w, s, rj, ts, r, p, n, e) ==
    /\ <<p, n>> \notin ts
    /\ <<p, e>> \notin rj \/ ReportsIn(q, p, n) # {} \/ UnderIn(w, p, e) # {}
    => HeardIn(q, w, s, p, n, e) = Says(Path(p, n, r), e)

LEMMA FollowsNow ==
  \A p, n, e :
    /\ FollowsAt(p, n, e) <=> FollowsIn(queue, work, sources, rejected, toSync, rib[p][n], p, n, e)
    /\ FollowsAt(p, n, e)' <=>
         FollowsIn(queue', work', sources', rejected', toSync', rib'[p][n], p, n, e)
  BY DEF FollowsAt, FollowsIn, Heard, HeardIn, Says, Reports, ReportsIn, Under, UnderIn

LEMMA InitOK == Init => RInv
  <1> SUFFICES ASSUME Init PROVE RInv
    OBVIOUS
  <1> USE DEF Init
  <1>1. BgpTyped
    <2>1. rib \in [Peers -> [Nlris -> AllOffers]]
      <3>1. NoAdvert \in AllOffers
        BY DEF AllOffers
      <3>2. [n \in Nlris |-> NoAdvert] \in [Nlris -> AllOffers]
        BY <3>1
      <3> QED
        BY <3>2
    <2>2. \A p \in Peers, n \in Nlris : rib[p][n] \in Offers[p][n] \cup {NoAdvert}
      OBVIOUS
    <2>3. /\ sent \in 0..MaxUpdates
          /\ queue \in Seq(Paths) /\ Len(queue) <= QueueCap
          /\ toSync \subseteq Peers \X Nlris
          /\ up \in BOOLEAN
      BY BoundsAssumption
    <2> QED
      BY <2>1, <2>2, <2>3 DEF BgpTyped
  <1>2. WorkTyped /\ HistoryTyped /\ DownOK
    BY DEF WorkTyped, HistoryTyped, DownOK
  <1>3. \A e \in Ids : sources[e] = NoSources /\ canon[e] = Absent /\ DOMAIN sources[e] = {}
    BY DEF NoSources
  <1>4. NoSources \in SourceMaps
    BY DEF NoSources, SourceMaps
  <1>5. SourcesTyped
    BY <1>4 DEF SourcesTyped
  <1>6. CanonTyped
    BY BoundsAssumption DEF CanonTyped
  <1>7. \A p, n, e : Reports(p, n) = {} /\ Under(p, e) = {}
    BY DEF Reports, ReportsIn, Under, UnderIn
  <1>8. QueueOK
    BY <1>7 DEF QueueOK
  <1>9. NamedOK /\ OrphansOK /\ CanonIsMerge
    BY <1>3 DEF NamedOK, OrphansOK, CanonIsMerge
  <1>10. FollowsOK
    <2> SUFFICES ASSUME NEW p \in Peers, NEW n \in Nlris, NEW e \in IdsOf(p, n)
                 PROVE  FollowsAt(p, n, e)
      BY DEF FollowsOK
    <2>1. e \in Ids
      BY DEF Ids
    <2>2. Heard(p, n, e) = NoAdvert
      BY <1>3, <1>7, <2>1, HeardNow, HeardSource DEF Reports, Under
    <2>3. Path(p, n, NoAdvert) \in Paths
      BY PathOf
    <2>4. Says(Path(p, n, NoAdvert), e) = NoAdvert
      BY <2>3, SaysOK, PathOf
    <2> QED
      BY <2>2, <2>4 DEF FollowsAt
  <1> QED
    BY <1>1, <1>2, <1>5, <1>6, <1>8, <1>9, <1>10 DEF RInv

\* A report is queued: it tells what the peer now says, and the other reports stay.
LastReports(q, p, n) == ReportsIn(q, p, n) # {} => \E k \in ReportsIn(q, p, n) : LastIn(q, p, n, k)

LEMMA QueuedLast ==
  ASSUME NEW q \in Seq(Paths), NEW path \in Paths, NEW p, NEW n, LastReports(q, p, n)
  PROVE  LastReports(Append(q, path), p, n)
  <1>1. CASE p = path.peer /\ n = path.nlri
    <2>1. LastIn(Append(q, path), p, n, Len(q) + 1)
      BY <1>1, Queued
    <2> QED
      BY <2>1 DEF LastReports, LastIn
  <1>2. CASE ~(p = path.peer /\ n = path.nlri)
    <2>1. ReportsIn(Append(q, path), p, n) = ReportsIn(q, p, n)
      BY <1>2, Queued
    <2> QED
      BY <2>1 DEF LastReports, LastIn
  <1> QED
    BY <1>1, <1>2

LEMMA QueuedFollows ==
  ASSUME NEW q \in Seq(Paths), NEW w, NEW s, NEW rj, NEW ts, NEW r, NEW path \in Paths,
         NEW p, NEW n, NEW e, LastReports(q, p, n),
         p = path.peer /\ n = path.nlri => r = path.offer,
         ~(p = path.peer /\ n = path.nlri) => FollowsIn(q, w, s, rj, ts, r, p, n, e)
  PROVE  FollowsIn(Append(q, path), w, s, rj, ts \ {<<path.peer, path.nlri>>}, r, p, n, e)
  <1> DEFINE a == Append(q, path)
  <1>1. a \in Seq(Paths)
    BY Queued
  <1>2. CASE p = path.peer /\ n = path.nlri
    <2>1. LastIn(a, p, n, Len(q) + 1) /\ a[Len(q) + 1] = path
      BY <1>2, Queued
    <2> HIDE DEF a
    <2>2. HeardIn(a, w, s, p, n, e) = Says(path, e)
      BY <1>1, <2>1, HeardLast
    <2>3. path = Path(p, n, r)
      BY <1>2, PathParts
    <2> QED
      BY <2>2, <2>3 DEF FollowsIn, a
  <1>3. CASE ~(p = path.peer /\ n = path.nlri)
    <2>1. ReportsIn(a, p, n) = ReportsIn(q, p, n) /\ \A k \in ReportsIn(q, p, n) : a[k] = q[k]
      <3>1. ReportsIn(a, p, n) = ReportsIn(q, p, n)
        BY <1>3, Queued
      <3>2. ASSUME NEW k \in ReportsIn(q, p, n) PROVE a[k] = q[k]
        BY DEF ReportsIn
      <3> QED
        BY <3>1, <3>2
    <2> HIDE DEF a
    <2>2. HeardIn(a, w, s, p, n, e) = HeardIn(q, w, s, p, n, e)
      BY <1>1, <2>1, HeardKept DEF LastReports
    <2>3. <<p, n>> \in ts \ {<<path.peer, path.nlri>>} <=> <<p, n>> \in ts
      BY <1>3
    <2> QED
      BY <1>3, <2>1, <2>2, <2>3 DEF FollowsIn, a
  <1> QED
    BY <1>2, <1>3

LEMMA QueueNow ==
  /\ QueueOK <=> \A p \in Peers, n \in Nlris : LastReports(queue, p, n)
  /\ QueueOK' <=> \A p \in Peers, n \in Nlris : LastReports(queue', p, n)
  BY DEF QueueOK, LastReports, Reports, LastIn, ReportsIn

LEMMA ReportOK ==
  ASSUME QueueOK, FollowsOK, queue \in Seq(Paths), up,
         NEW p \in Peers, NEW n \in Nlris, NEW o \in Offers[p][n] \cup {NoAdvert},
         queue' = Append(queue, Path(p, n, o)), rib'[p][n] = o,
         \A q \in Peers, m \in Nlris : ~(q = p /\ m = n) => rib'[q][m] = rib[q][m],
         toSync' = toSync \ {<<p, n>>}, UNCHANGED <<work, sources, rejected>>
  PROVE  QueueOK' /\ FollowsOK'
  <1> DEFINE path == Path(p, n, o)
  <1>1. path \in Paths /\ path.peer = p /\ path.nlri = n /\ path.offer = o
    BY PathOf
  <1> HIDE DEF path
  <1>2. queue' = Append(queue, path) /\ toSync' = toSync \ {<<path.peer, path.nlri>>}
    BY <1>1 DEF path
  <1>3. QueueOK'
    BY <1>1, <1>2, QueueNow, QueuedLast
  <1>4. ASSUME NEW q \in Peers, NEW m \in Nlris, NEW e \in IdsOf(q, m)
        PROVE  FollowsAt(q, m, e)'
    <2>1. LastReports(queue, q, m)
      BY QueueNow
    <2>2. /\ q = path.peer /\ m = path.nlri => rib'[q][m] = path.offer
          /\ ~(q = path.peer /\ m = path.nlri) =>
                FollowsIn(queue, work, sources, rejected, toSync, rib'[q][m], q, m, e)
      <3>1. FollowsAt(q, m, e)
        BY DEF FollowsOK
      <3>2. FollowsIn(queue, work, sources, rejected, toSync, rib[q][m], q, m, e)
        BY <3>1, FollowsNow
      <3> HIDE DEF FollowsIn
      <3>3. q = path.peer /\ m = path.nlri => rib'[q][m] = path.offer
        BY <1>1
      <3>4. ~(q = path.peer /\ m = path.nlri) => rib'[q][m] = rib[q][m]
        BY <1>1
      <3> QED
        BY <3>2, <3>3, <3>4
    <2>3. FollowsIn(Append(queue, path), work, sources, rejected, toSync \ {<<path.peer, path.nlri>>},
                    rib'[q][m], q, m, e)
      BY <1>1, <2>1, <2>2, QueuedFollows
    <2> QED
      BY <1>2, <2>3, FollowsNow
  <1> QED
    BY <1>3, <1>4 DEF FollowsOK

LEMMA PeerUpdateOK ==
  ASSUME RInv, NEW p \in Peers, NEW n \in Nlris, NEW o \in Offers[p][n] \cup {NoAdvert},
         PeerUpdate(p, n, o)
  PROVE  RInv'
  <1> USE DEF RInv, PeerUpdate
  <1>1. /\ rib'[p][n] = o
        /\ \A q \in Peers, m \in Nlris : ~(q = p /\ m = n) => rib'[q][m] = rib[q][m]
        /\ rib' \in [Peers -> [Nlris -> AllOffers]]
    <2>1. o \in AllOffers
      BY DEF AllOffers
    <2> QED
      BY <2>1 DEF BgpTyped
  <1>2. queue' \in Seq(Paths) /\ Len(queue') <= QueueCap
    BY PathOf, BoundsAssumption DEF BgpTyped
  <1>3. BgpTyped'
    <2>1. \A q \in Peers, m \in Nlris : rib'[q][m] \in Offers[q][m] \cup {NoAdvert}
      BY <1>1 DEF BgpTyped
    <2>2. sent' \in 0..MaxUpdates
      BY BoundsAssumption DEF BgpTyped
    <2>3. toSync' \subseteq Peers \X Nlris /\ up' \in BOOLEAN
      BY DEF BgpTyped
    <2> QED
      BY <1>1, <1>2, <2>1, <2>2, <2>3 DEF BgpTyped
  <1>4. QueueOK' /\ FollowsOK'
    <2>1. CASE up
      <3>1. queue' = Append(queue, Path(p, n, o)) /\ queue \in Seq(Paths)
        BY <2>1 DEF BgpTyped
      <3> QED
        BY <1>1, <2>1, <3>1, ReportOK
    <2>2. CASE ~up
      BY <2>2 DEF QueueOK, Reports, LastIn, ReportsIn, FollowsOK
    <2> QED
      BY <2>1, <2>2
  <1>5. WorkTyped' /\ SourcesTyped' /\ CanonTyped' /\ HistoryTyped' /\ NamedOK' /\ OrphansOK'
    BY DEF WorkTyped, SourcesTyped, CanonTyped, HistoryTyped, NamedOK, OrphansOK
  <1>6. CanonIsMerge'
    BY DEF CanonIsMerge
  <1>7. DownOK'
    BY DEF DownOK
  <1> QED
    BY <1>3, <1>4, <1>5, <1>6, <1>7

LEMMA ResendOK ==
  ASSUME RInv, NEW p \in Peers, NEW n \in Nlris, Resend(p, n)
  PROVE  RInv'
  <1> USE DEF RInv, Resend
  <1>1. rib[p][n] \in Offers[p][n] \cup {NoAdvert} /\ queue \in Seq(Paths)
    BY DEF BgpTyped
  <1>2. queue' \in Seq(Paths) /\ Len(queue') <= QueueCap
    BY <1>1, PathOf, BoundsAssumption DEF BgpTyped
  <1>3. BgpTyped'
    BY <1>2 DEF BgpTyped
  <1>4. QueueOK' /\ FollowsOK'
    BY <1>1, ReportOK
  <1>5. WorkTyped' /\ SourcesTyped' /\ CanonTyped' /\ HistoryTyped' /\ NamedOK' /\ OrphansOK'
    BY DEF WorkTyped, SourcesTyped, CanonTyped, HistoryTyped, NamedOK, OrphansOK
  <1>6. CanonIsMerge' /\ DownOK'
    BY DEF CanonIsMerge, DownOK
  <1> QED
    BY <1>3, <1>4, <1>5, <1>6

\* handlePaths takes the first report: the later ones stay, and what was the last word of
\* an NLRI is now the path at hand.
LEMMA TakenLast ==
  ASSUME NEW q \in Seq(Paths), q # <<>>, NEW p, NEW n, LastReports(q, p, n)
  PROVE  /\ LastReports(Tail(q), p, n)
         /\ ReportsIn(Tail(q), p, n) # {} =>
              \E k \in ReportsIn(q, p, n) : /\ LastIn(q, p, n, k) /\ LastIn(Tail(q), p, n, k - 1)
                                             /\ Tail(q)[k - 1] = q[k]
  <1> SUFFICES ASSUME NEW j \in ReportsIn(Tail(q), p, n)
               PROVE  \E k \in ReportsIn(q, p, n) :
                         /\ LastIn(q, p, n, k) /\ LastIn(Tail(q), p, n, k - 1)
                         /\ Tail(q)[k - 1] = q[k] /\ k - 1 \in ReportsIn(Tail(q), p, n)
    BY DEF LastReports
  <1>1. j + 1 \in ReportsIn(q, p, n) /\ j + 1 > 1
    <2>1. j + 1 \in ReportsIn(q, p, n)
      BY Taken
    <2>2. j \in Nat /\ j >= 1
      BY DEF ReportsIn
    <2> QED
      BY <2>1, <2>2
  <1>2. PICK k \in ReportsIn(q, p, n) : LastIn(q, p, n, k)
    BY <1>1 DEF LastReports
  <1>3. k \in Nat /\ k >= j + 1
    BY <1>1, <1>2 DEF LastIn, ReportsIn
  <1>4. k # 1
    BY <1>1, <1>3
  <1>5. LastIn(Tail(q), p, n, k - 1)
    BY <1>2, <1>4, Taken
  <1>6. k - 1 \in ReportsIn(Tail(q), p, n)
    BY <1>4, Taken
  <1>7. Tail(q)[k - 1] = q[k]
    BY <1>3, <1>4, <1>6 DEF ReportsIn
  <1> QED
    BY <1>2, <1>5, <1>6, <1>7

LEMMA TakenFollows ==
  ASSUME NEW q \in Seq(Paths), q # <<>>, NEW s, NEW rj, NEW rj2, NEW ts, NEW r,
         NEW p \in Peers, NEW n \in Nlris, NEW e \in IdsOf(p, n), LastReports(q, p, n),
         FollowsIn(q, <<>>, s, rj, ts, r, p, n, e), rj \subseteq rj2,
         Decode(Head(q)).error # "none" =>
            {Head(q).peer} \X IdsOf(Head(q).peer, Head(q).nlri) \subseteq rj2
  PROVE  FollowsIn(Tail(q), Decode(Head(q)).adverts, s, rj2, ts, r, p, n, e)
  <1> DEFINE h == Head(q)
             t == Tail(q)
             w == Decode(h).adverts
  <1>1. t \in Seq(Paths) /\ h \in Paths /\ h = q[1]
    BY Taken
  <1>2. w \in Seq(AdvertsOf(h))
    BY <1>1, DecodeOK
  <1> SUFFICES ASSUME <<p, n>> \notin ts,
                      <<p, e>> \notin rj2 \/ ReportsIn(t, p, n) # {} \/ UnderIn(w, p, e) # {}
               PROVE  HeardIn(t, w, s, p, n, e) = Says(Path(p, n, r), e)
    BY DEF FollowsIn
  <1>3. \A i : i \in UnderIn(w, p, e) => w[i] \in AdvertsOf(h) /\ w[i].peer = p /\ w[i].id = e
    BY <1>2 DEF UnderIn
  <1>4. CASE ReportsIn(t, p, n) # {}
    <2>1. PICK k \in ReportsIn(q, p, n) : LastIn(q, p, n, k) /\ LastIn(t, p, n, k - 1) /\ t[k - 1] = q[k]
      BY <1>4, TakenLast
    <2>2. HeardIn(q, <<>>, s, p, n, e) = Says(q[k], e)
      BY <2>1, HeardLast
    <2> HIDE DEF t, w
    <2>3. HeardIn(t, w, s, p, n, e) = Says(t[k - 1], e)
      BY <1>1, <2>1, HeardLast
    <2> QED
      BY <2>1, <2>2, <2>3 DEF FollowsIn
  <1>5. CASE ReportsIn(t, p, n) = {} /\ p = h.peer /\ n = h.nlri
    <2>1. LastIn(q, p, n, 1)
      <3>1. 1 \in ReportsIn(q, p, n)
        BY <1>5, Taken
      <3>2. ASSUME NEW k \in ReportsIn(q, p, n) PROVE k = 1
        BY <1>5, Taken
      <3> QED
        BY <3>1, <3>2 DEF LastIn
    <2>2. HeardIn(q, <<>>, s, p, n, e) = Says(h, e) /\ ReportsIn(q, p, n) # {}
      <3>1. HeardIn(q, <<>>, s, p, n, e) = Says(q[1], e)
        BY <2>1, HeardLast
      <3> QED
        BY <1>1, <2>1, <3>1 DEF LastIn
    <2>3. Says(h, e) = Says(Path(p, n, r), e)
      BY <2>2 DEF FollowsIn
    <2>4. Decode(h).error = "none"
      <3> SUFFICES ASSUME Decode(h).error # "none" PROVE FALSE
        OBVIOUS
      <3>1. <<p, e>> \in rj2
        BY <1>5
      <3>2. w = <<>>
        BY <1>1, DecodeOK
      <3>3. UnderIn(w, p, e) = {}
        BY <3>2 DEF UnderIn
      <3> QED
        BY <1>5, <3>1, <3>3
    <2>5. PICK i \in DOMAIN w : w[i].id = e
      BY <1>1, <1>5, <2>4, SaysOK
    <2> HIDE DEF w, h, t
    <2>6. w[i] \in AdvertsOf(h) /\ w[i].peer = p /\ i \in 1..Len(w)
      <3>1. w[i] \in AdvertsOf(h) /\ i \in 1..Len(w)
        BY <1>2
      <3>2. w[i].peer = h.peer
        BY <1>1, <3>1, DecodeOK
      <3> QED
        BY <1>5, <3>1, <3>2
    <2>7. i \in UnderIn(w, p, e)
      BY <2>5, <2>6 DEF UnderIn
    <2>8. HeardIn(t, w, s, p, n, e) = w[i].advert
      BY <1>1, <1>2, <1>5, <2>7, HeardUnder
    <2>9. Says(h, e) = w[i].advert
      BY <1>1, <1>5, <2>5, <2>6, SaysOK
    <2> QED
      BY <2>3, <2>8, <2>9
  <1>6. CASE ReportsIn(t, p, n) = {} /\ ~(p = h.peer /\ n = h.nlri)
    <2>1. ReportsIn(q, p, n) = {}
      <3> SUFFICES ASSUME NEW k \in ReportsIn(q, p, n) PROVE FALSE
        OBVIOUS
      <3>1. k # 1
        BY <1>6, Taken
      <3> QED
        BY <1>6, <3>1, Taken
    <2>2. UnderIn(w, p, e) = {}
      <3> SUFFICES ASSUME NEW i \in UnderIn(w, p, e) PROVE FALSE
        OBVIOUS
      <3>1. w[i] \in AdvertsOf(h) /\ w[i].peer = p /\ w[i].id = e
        BY <1>3
      <3>2. p = h.peer /\ e \in IdsOf(h.peer, h.nlri) /\ h.nlri \in Nlris
        BY <1>1, <3>1, DecodeOK, PathParts
      <3>3. n = h.nlri
        BY <3>2, NlrisAssumption
      <3> QED
        BY <1>6, <3>2, <3>3
    <2>3. UnderIn(<<>>, p, e) = {}
      BY DEF UnderIn
    <2> HIDE DEF w, h, t
    <2>4. HeardIn(t, w, s, p, n, e) = HeardIn(q, <<>>, s, p, n, e)
      <3>1. HeardIn(t, w, s, p, n, e) = IF p \in DOMAIN s[e] THEN s[e][p] ELSE NoAdvert
        BY <1>6, <2>2, HeardSource
      <3>2. HeardIn(q, <<>>, s, p, n, e) = IF p \in DOMAIN s[e] THEN s[e][p] ELSE NoAdvert
        BY <2>1, <2>3, HeardSource
      <3> QED
        BY <3>1, <3>2
    <2>5. <<p, e>> \notin rj
      BY <1>6, <2>2
    <2> QED
      BY <2>4, <2>5 DEF FollowsIn
  <1> QED
    BY <1>4, <1>5, <1>6

LEMMA TakePathOK ==
  ASSUME RInv, TakePath
  PROVE  RInv'
  <1> DEFINE h == Head(queue)
             rejects == {h.peer} \X IdsOf(h.peer, h.nlri)
  <1>1. queue \in Seq(Paths) /\ queue # <<>> /\ up /\ work = <<>> /\ rev < MaxRev
    BY DEF RInv, BgpTyped, TakePath
  <1>2. h \in Paths /\ queue' \in Seq(Paths) /\ queue' = Tail(queue)
    BY <1>1 DEF TakePath
  <1>3. /\ work' = Decode(h).adverts
        /\ UNCHANGED <<rib, sent, toSync, up, sources, canon, unsaved, orphans>>
    BY DEF TakePath
  <1>4. /\ Decode(h).error = "none" => rev' = rev /\ rejected' = rejected
        /\ Decode(h).error # "none" => rev' \in {rev, rev + 1} /\ rejected' = rejected \cup rejects
    BY DEF TakePath, PathRejected, IncrementRejected
  <1>5. BgpTyped'
    <2>1. Len(queue') <= QueueCap
      BY <1>1, <1>2, BoundsAssumption DEF RInv, BgpTyped
    <2> QED
      BY <1>2, <1>3, <2>1 DEF RInv, BgpTyped
  <1>6. WorkTyped'
    BY <1>2, <1>3, DecodeOK DEF WorkTyped
  <1>7. SourcesTyped' /\ DownOK' /\ NamedOK' /\ OrphansOK'
    BY <1>1, <1>3 DEF RInv, SourcesTyped, DownOK, NamedOK, OrphansOK
  <1>8. rev' \in 0..MaxRev /\ rev <= rev' /\ rev \in Nat
    BY <1>1, <1>4, BoundsAssumption DEF RInv, CanonTyped
  <1>9. CanonTyped'
    BY <1>3, <1>8 DEF RInv, CanonTyped
  <1>10. CanonIsMerge'
    BY <1>3 DEF RInv, CanonIsMerge
  <1>11. rejects \subseteq Peers \X Ids
    <2>1. h.peer \in Peers /\ h.nlri \in Nlris
      BY <1>2, PathParts
    <2>2. IdsOf(h.peer, h.nlri) \subseteq Ids
      BY <2>1 DEF Ids
    <2> HIDE DEF h
    <2> QED
      BY <2>1, <2>2
  <1> HIDE DEF rejects, h
  <1>12. HistoryTyped'
    BY <1>3, <1>4, <1>11 DEF RInv, HistoryTyped
  <1>13. QueueOK'
    BY <1>1, <1>2, QueueNow, TakenLast DEF RInv
  <1>14. ASSUME NEW p \in Peers, NEW n \in Nlris, NEW e \in IdsOf(p, n)
         PROVE  FollowsAt(p, n, e)'
    <2>1. LastReports(queue, p, n)
      BY QueueNow DEF RInv
    <2>2. FollowsAt(p, n, e)
      BY <1>1 DEF RInv, FollowsOK
    <2>3. FollowsIn(queue, <<>>, sources, rejected, toSync, rib[p][n], p, n, e)
      BY <1>1, <2>2, FollowsNow
    <2>4. rejected \subseteq rejected' /\ (Decode(Head(queue)).error # "none" =>
            {Head(queue).peer} \X IdsOf(Head(queue).peer, Head(queue).nlri) \subseteq rejected')
      BY <1>4 DEF rejects, h
    <2>5. FollowsIn(Tail(queue), Decode(Head(queue)).adverts, sources, rejected', toSync, rib[p][n], p, n, e)
      BY <1>1, <2>1, <2>3, <2>4, TakenFollows
    <2>6. FollowsIn(queue', work', sources', rejected', toSync', rib'[p][n], p, n, e)
      BY <1>2, <1>3, <2>5 DEF h
    <2> QED
      BY <2>6, FollowsNow
  <1>15. FollowsOK'
    BY <1>14 DEF FollowsOK
  <1> QED
    BY <1>5, <1>6, <1>7, <1>9, <1>10, <1>12, <1>13, <1>15 DEF RInv

\* What is left of a path after its first entity.
LEMMA UnderRest ==
  ASSUME NEW S, NEW w \in Seq(S), w # <<>>, NEW p, NEW e
  PROVE  /\ Tail(w) \in Seq(S) /\ Head(w) \in S /\ Head(w) = w[1]
         /\ 1 \in UnderIn(w, p, e) <=> p = Head(w).peer /\ e = Head(w).id
         /\ \A k \in UnderIn(w, p, e) : k # 1 => k - 1 \in UnderIn(Tail(w), p, e) /\ k \in 2..Len(w)
         /\ \A k \in UnderIn(Tail(w), p, e) : k + 1 \in UnderIn(w, p, e) /\ Tail(w)[k] = w[k + 1]
  <1> DEFINE t == Tail(w)
  <1>1. /\ t \in Seq(S) /\ Head(w) \in S /\ Head(w) = w[1]
        /\ Len(w) \in Nat /\ Len(w) >= 1 /\ Len(t) = Len(w) - 1
        /\ \A k \in 1..(Len(w) - 1) : t[k] = w[k + 1]
    OBVIOUS
  <1>2. \A k \in 1..Len(w) : k # 1 => k - 1 \in 1..(Len(w) - 1) /\ (k - 1) + 1 = k /\ k \in 2..Len(w)
    BY <1>1
  <1>3. \A k \in 1..(Len(w) - 1) : k + 1 \in 1..Len(w)
    BY <1>1
  <1> HIDE DEF t
  <1>4. \A k \in UnderIn(w, p, e) : k # 1 => k - 1 \in UnderIn(t, p, e) /\ k \in 2..Len(w)
    BY <1>1, <1>2 DEF UnderIn
  <1>5. \A k \in UnderIn(t, p, e) : k + 1 \in UnderIn(w, p, e) /\ t[k] = w[k + 1]
    BY <1>1, <1>3 DEF UnderIn
  <1>6. 1 \in UnderIn(w, p, e) <=> p = Head(w).peer /\ e = Head(w).id
    BY <1>1 DEF UnderIn
  <1> QED
    BY <1>1, <1>4, <1>5, <1>6 DEF t

\* The sources of an entity after an advertisement a: NewSources.
After(src, a) == IF a.advert = NoAdvert THEN DropSource(src, a.peer) ELSE PutSource(src, a.peer, a.advert)

\* The entry of the peer is the advertisement, the others stay.
LEMMA AfterSays ==
  ASSUME NEW src, NEW a, NEW p
  PROVE  LET Entry(s) == IF p \in DOMAIN s THEN s[p] ELSE NoAdvert IN
         Entry(After(src, a)) = IF p = a.peer THEN a.advert ELSE Entry(src)
  BY DEF After, DropSource, PutSource

Applied(w, w2, s, s2, rj, rj2, e) ==
    /\ s2[e] = IF e = Head(w).id THEN After(s[e], Head(w)) ELSE s[e]
    /\ rj \ {<<Head(w).peer, Head(w).id>>} \subseteq rj2
    /\ \/ w2 = Tail(w)
       \/ w2 = <<>> /\ \A i \in 2..Len(w) : <<w[i].peer, w[i].id>> \in rj2

\* Reconciler.Apply of the next entity, whether the rest of the path is given up or not:
\* the entry it changes is the only one the path at hand no longer speaks for.
LEMMA AppliedFollows ==
  ASSUME NEW path \in Paths, NEW w \in Seq(AdvertsOf(path)), w # <<>>,
         NEW q \in Seq(Paths), NEW s, NEW s2, NEW rj, NEW rj2, NEW ts, NEW r, NEW w2,
         NEW p, NEW n, NEW e, LastReports(q, p, n),
         FollowsIn(q, w, s, rj, ts, r, p, n, e),
         Applied(w, w2, s, s2, rj, rj2, e)
  PROVE  FollowsIn(q, w2, s2, rj2, ts, r, p, n, e)
  <1>0. /\ s2[e] = IF e = Head(w).id THEN After(s[e], Head(w)) ELSE s[e]
        /\ rj \ {<<Head(w).peer, Head(w).id>>} \subseteq rj2
        /\ \/ w2 = Tail(w)
           \/ w2 = <<>> /\ \A i \in 2..Len(w) : <<w[i].peer, w[i].id>> \in rj2
    BY DEF Applied
  <1> DEFINE a == Head(w)
             t == Tail(w)
  <1> SUFFICES ASSUME <<p, n>> \notin ts,
                      <<p, e>> \notin rj2 \/ ReportsIn(q, p, n) # {} \/ UnderIn(w2, p, e) # {}
               PROVE  HeardIn(q, w2, s2, p, n, e) = Says(Path(p, n, r), e)
    BY DEF FollowsIn
  <1>1. /\ t \in Seq(AdvertsOf(path)) /\ a = w[1]
        /\ 1 \in UnderIn(w, p, e) <=> p = a.peer /\ e = a.id
        /\ \A k \in UnderIn(w, p, e) : k # 1 => k - 1 \in UnderIn(t, p, e) /\ k \in 2..Len(w)
        /\ \A k \in UnderIn(t, p, e) : k + 1 \in UnderIn(w, p, e) /\ t[k] = w[k + 1]
    <2>1. /\ t \in Seq(AdvertsOf(path)) /\ a = w[1]
          /\ 1 \in UnderIn(w, p, e) <=> p = a.peer /\ e = a.id
      BY UnderRest
    <2>2. \A k \in UnderIn(w, p, e) : k # 1 => k - 1 \in UnderIn(t, p, e) /\ k \in 2..Len(w)
      BY UnderRest
    <2>3. ASSUME NEW k \in UnderIn(t, p, e) PROVE k + 1 \in UnderIn(w, p, e) /\ t[k] = w[k + 1]
      <3>1. k + 1 \in UnderIn(w, p, e)
        BY UnderRest
      <3>2. t[k] = w[k + 1]
        BY DEF UnderIn
      <3> QED
        BY <3>1, <3>2
    <2> QED
      BY <2>1, <2>2, <2>3
  <1>2. UnderIn(<<>>, p, e) = {}
    BY DEF UnderIn
  <1> HIDE DEF a, t
  <1>3. CASE ReportsIn(q, p, n) # {}
    <2>1. PICK k \in ReportsIn(q, p, n) : LastIn(q, p, n, k)
      BY <1>3 DEF LastReports
    <2>2. HeardIn(q, w, s, p, n, e) = Says(q[k], e) /\ HeardIn(q, w2, s2, p, n, e) = Says(q[k], e)
      BY <2>1, HeardLast
    <2> QED
      BY <1>3, <2>2 DEF FollowsIn
  <1>4. CASE ReportsIn(q, p, n) = {} /\ UnderIn(w2, p, e) # {}
    <2>1. w2 = t
      BY <1>0, <1>2, <1>4 DEF t
    <2>2. PICK k : k \in UnderIn(t, p, e)
      BY <1>4, <2>1
    <2>3. HeardIn(q, w2, s2, p, n, e) = t[k].advert
      BY <1>1, <1>4, <2>1, <2>2, HeardUnder
    <2>4. k + 1 \in UnderIn(w, p, e) /\ t[k] = w[k + 1]
      BY <1>1, <2>2
    <2>5. HeardIn(q, w, s, p, n, e) = w[k + 1].advert
      BY <1>4, <2>4, HeardUnder
    <2>6. HeardIn(q, w, s, p, n, e) = Says(Path(p, n, r), e)
      BY <2>4 DEF FollowsIn
    <2> QED
      BY <2>3, <2>4, <2>5, <2>6
  <1>5. CASE ReportsIn(q, p, n) = {} /\ UnderIn(w2, p, e) = {}
    <2>1. HeardIn(q, w2, s2, p, n, e) = IF p \in DOMAIN s2[e] THEN s2[e][p] ELSE NoAdvert
      BY <1>5, HeardSource
    <2>2. CASE p = a.peer /\ e = a.id
      <3>1. 1 \in UnderIn(w, p, e)
        BY <1>1, <2>2
      <3>2. HeardIn(q, w, s, p, n, e) = a.advert
        BY <1>1, <1>5, <3>1, HeardUnder
      <3>3. s2[e] = After(s[e], a)
        BY <1>0, <2>2 DEF a
      <3>4. HeardIn(q, w2, s2, p, n, e) = a.advert
        BY <2>1, <2>2, <3>3, AfterSays
      <3> QED
        BY <3>1, <3>2, <3>4 DEF FollowsIn
    <2>3. CASE ~(p = a.peer /\ e = a.id)
      <3>1. UnderIn(w, p, e) = {}
        <4> SUFFICES ASSUME NEW k \in UnderIn(w, p, e) PROVE FALSE
          OBVIOUS
        <4>1. k # 1 /\ k - 1 \in UnderIn(t, p, e) /\ k \in 2..Len(w)
          BY <1>1, <2>3
        <4>2. w2 # t
          BY <1>5, <4>1
        <4>3. <<w[k].peer, w[k].id>> \in rj2
          BY <1>0, <4>1, <4>2 DEF t
        <4>4. w[k].peer = p /\ w[k].id = e
          BY DEF UnderIn
        <4> QED
          BY <1>5, <4>3, <4>4
      <3>2. HeardIn(q, w, s, p, n, e) = IF p \in DOMAIN s[e] THEN s[e][p] ELSE NoAdvert
        BY <1>5, <3>1, HeardSource
      <3>3. HeardIn(q, w2, s2, p, n, e) = HeardIn(q, w, s, p, n, e)
        <4>1. CASE e = a.id
          <5>1. s2[e] = After(s[e], a) /\ p # a.peer
            BY <1>0, <2>3, <4>1 DEF a
          <5> QED
            BY <2>1, <3>2, <5>1, AfterSays
        <4>2. CASE e # a.id
          <5>1. s2[e] = s[e]
            BY <1>0, <4>2 DEF a
          <5> QED
            BY <2>1, <3>2, <5>1
        <4> QED
          BY <4>1, <4>2
      <3>4. <<p, e>> \notin rj
        <4>1. <<p, e>> # <<a.peer, a.id>>
          BY <2>3
        <4> QED
          BY <1>0, <1>5, <4>1 DEF a
      <3> QED
        BY <3>3, <3>4 DEF FollowsIn
    <2> QED
      BY <2>2, <2>3
  <1> QED
    BY <1>3, <1>4, <1>5

LEMMA AfterTyped ==
  ASSUME NEW src \in SourceMaps, NEW a, a.peer \in Peers, a.advert \in Adverts \cup {NoAdvert}
  PROVE  /\ After(src, a) \in SourceMaps
         /\ DOMAIN After(src, a) \subseteq DOMAIN src \cup {a.peer}
         /\ DOMAIN src \subseteq Peers
  <1>1. PICK D \in SUBSET Peers : src \in [D -> Adverts]
    BY DEF SourceMaps
  <1>2. CASE a.advert = NoAdvert
    <2>1. After(src, a) = [q \in D \ {a.peer} |-> src[q]]
      BY <1>1, <1>2 DEF After, DropSource
    <2>2. After(src, a) \in [D \ {a.peer} -> Adverts] /\ D \ {a.peer} \in SUBSET Peers
      BY <1>1, <2>1
    <2> QED
      BY <1>1, <2>2 DEF SourceMaps
  <1>3. CASE a.advert # NoAdvert
    <2>1. After(src, a) = [q \in D \cup {a.peer} |-> IF q = a.peer THEN a.advert ELSE src[q]]
      BY <1>1, <1>3 DEF After, PutSource
    <2>2. After(src, a) \in [D \cup {a.peer} -> Adverts] /\ D \cup {a.peer} \in SUBSET Peers
      BY <1>1, <1>3, <2>1
    <2> QED
      BY <1>1, <2>2 DEF SourceMaps
  <1> QED
    BY <1>2, <1>3

\* What is stored: there when there is a source, and the merge of the sources.
LEMMA StoredOK ==
  ASSUME NEW src \in SourceMaps, NEW now \in 1..MaxRev
  PROVE  LET v == StoredValue(src, now) IN
         /\ v = Absent <=> src = NoSources
         /\ v # Absent => v.firstSeen = now /\ v = EnsureMeta(Canonical(src), v.firstSeen)
  <1>1. CASE src = NoSources
    BY <1>1 DEF StoredValue
  <1>2. CASE src # NoSources
    <2>1. StoredValue(src, now) = EnsureMeta(Canonical(src), now)
      BY <1>2 DEF StoredValue
    <2>2. EnsureMeta(Canonical(src), now).firstSeen = now
      BY DEF EnsureMeta, WithFirstSeen
    <2>3. EnsureMeta(Canonical(src), now) # Absent
      BY <1>2, AbsentAssumption
    <2> HIDE DEF EnsureMeta
    <2> QED
      BY <1>2, <2>1, <2>2, <2>3
  <1> QED
    BY <1>1, <1>2

\* The part of Reconciler.Apply that does not depend on the store.
LEMMA AppliedOK ==
  ASSUME RInv, up, work # <<>>, UNCHANGED <<rib, sent, queue, toSync, up>>,
         sources' = [sources EXCEPT ![Head(work).id] = NewSources(Head(work))],
         rejected \ {<<Head(work).peer, Head(work).id>>} \subseteq rejected',
         \/ work' = Tail(work)
         \/ work' = <<>> /\ \A i \in 2..Len(work) : <<work[i].peer, work[i].id>> \in rejected'
  PROVE  /\ Head(work).id \in Ids /\ Head(work).peer \in Peers
         /\ \A i \in 1..Len(work) : <<work[i].peer, work[i].id>> \in Peers \X Ids
         /\ \A e \in Ids : e # Head(work).id => sources'[e] = sources[e]
         /\ sources'[Head(work).id] = NewSources(Head(work))
         /\ BgpTyped' /\ WorkTyped' /\ SourcesTyped' /\ DownOK' /\ QueueOK' /\ NamedOK' /\ FollowsOK'
  <1> DEFINE a == Head(work)
  <1>1. PICK path \in Paths : work \in Seq(AdvertsOf(path))
    BY DEF RInv, WorkTyped
  <1>2. /\ a \in AdvertsOf(path)
        /\ Tail(work) \in Seq(AdvertsOf(path))
    BY <1>1
  <1>3. path.peer \in Peers /\ path.nlri \in Nlris
    BY PathParts
  <1>4. ASSUME NEW b \in AdvertsOf(path)
        PROVE  b.peer = path.peer /\ b.id \in IdsOf(path.peer, path.nlri) /\ b.id \in Ids
    <2>1. b.peer = path.peer /\ b.id \in IdsOf(path.peer, path.nlri)
      BY DecodeOK
    <2> QED
      BY <1>3, <2>1 DEF Ids
  <1>5. a.peer \in Peers /\ a.id \in Ids /\ a.id \in IdsOf(a.peer, path.nlri)
    BY <1>2, <1>3, <1>4
  <1>6. a.advert \in Adverts \cup {NoAdvert}
    BY <1>2, DecodeOK
  <1>7. \A i \in 1..Len(work) : <<work[i].peer, work[i].id>> \in Peers \X Ids
    <2> SUFFICES ASSUME NEW i \in 1..Len(work) PROVE <<work[i].peer, work[i].id>> \in Peers \X Ids
      OBVIOUS
    <2>1. work[i] \in AdvertsOf(path)
      BY <1>1
    <2> QED
      BY <1>3, <1>4, <2>1
  <1> HIDE DEF a
  <1>8. /\ sources \in [Ids -> SourceMaps]
        /\ sources' = [sources EXCEPT ![a.id] = After(sources[a.id], a)]
        /\ NewSources(a) = After(sources[a.id], a)
    BY DEF RInv, SourcesTyped, a, NewSources, After
  <1>9. /\ \A e \in Ids : sources'[e] = IF e = a.id THEN After(sources[e], a) ELSE sources[e]
        /\ sources'[a.id] = NewSources(a)
    BY <1>5, <1>8
  <1>10. SourcesTyped'
    <2>1. After(sources[a.id], a) \in SourceMaps
      BY <1>5, <1>6, <1>8, AfterTyped
    <2> HIDE DEF After
    <2> QED
      BY <1>8, <2>1 DEF SourcesTyped
  <1>11. BgpTyped' /\ QueueOK' /\ DownOK'
    <2>1. BgpTyped'
      BY DEF RInv, BgpTyped
    <2>2. QueueOK'
      BY QueueNow DEF RInv
    <2>3. DownOK'
      BY DEF DownOK
    <2> QED
      BY <2>1, <2>2, <2>3
  <1>12. WorkTyped'
    <2>1. work' = Tail(work) \/ work' = <<>>
      OBVIOUS
    <2> QED
      BY <1>2, <2>1 DEF WorkTyped
  <1>13. NamedOK'
    <2> SUFFICES ASSUME NEW e \in Ids, NEW p \in DOMAIN sources'[e]
                 PROVE  \E n \in Nlris : e \in IdsOf(p, n)
      BY DEF NamedOK
    <2>1. p \in DOMAIN sources[e] \/ (e = a.id /\ p = a.peer)
      <3>1. CASE e = a.id
        BY <1>5, <1>6, <1>8, <1>9, <3>1, AfterTyped
      <3>2. CASE e # a.id
        BY <1>9, <3>2
      <3> QED
        BY <3>1, <3>2
    <2> QED
      BY <1>3, <1>5, <2>1 DEF RInv, NamedOK
  <1>14. ASSUME NEW p \in Peers, NEW n \in Nlris, NEW e \in IdsOf(p, n)
         PROVE  FollowsAt(p, n, e)'
    <2>1. LastReports(queue, p, n) /\ queue \in Seq(Paths)
      BY QueueNow DEF RInv, BgpTyped
    <2>2. FollowsAt(p, n, e)
      BY DEF RInv, FollowsOK
    <2>3. FollowsIn(queue, work, sources, rejected, toSync, rib[p][n], p, n, e)
      BY <2>2, FollowsNow
    <2>4. e \in Ids
      BY DEF Ids
    <2>5. sources'[e] = IF e = Head(work).id THEN After(sources[e], Head(work)) ELSE sources[e]
      BY <1>9, <2>4 DEF a
    <2>6. Applied(work, work', sources, sources', rejected, rejected', e)
      BY <2>5 DEF Applied
    <2> HIDE DEF FollowsIn, LastReports, Applied
    <2>7. FollowsIn(queue, work', sources', rejected', toSync, rib[p][n], p, n, e)
      BY <1>1, <2>1, <2>3, <2>6, AppliedFollows
    <2> QED
      BY <2>7, FollowsNow
  <1>15. FollowsOK'
    BY <1>14 DEF FollowsOK
  <1> QED
    BY <1>5, <1>7, <1>9, <1>10, <1>11, <1>12, <1>13, <1>15 DEF a

LEMMA ApplyNextOK ==
  ASSUME RInv, ApplyNext
  PROVE  RInv'
  <1> DEFINE a == Head(work)
             others == {work[i] : i \in 2..Len(work)}
             ns == NewSources(a)
  <1>1. up /\ work # <<>> /\ rev < MaxRev /\ UNCHANGED <<rib, sent, queue, toSync, up>>
    BY DEF ApplyNext
  <1>2. rev \in Nat /\ rev + 1 \in 1..MaxRev
    BY <1>1, BoundsAssumption DEF RInv, CanonTyped
  <1>3. CASE Reconcile(a) /\ work' = Tail(work)
    <2>1. /\ sources' = [sources EXCEPT ![a.id] = ns]
          /\ canon' = [canon EXCEPT ![a.id] = StoredValue(ns, rev + 1)]
          /\ rev' = rev + 1 /\ rejected' = rejected \ {<<a.peer, a.id>>}
          /\ unsaved' = unsaved \ {a.id} /\ orphans' = orphans \ {a.id}
      BY <1>3 DEF Reconcile
    <2>2. /\ a.id \in Ids
          /\ \A e \in Ids : e # a.id => sources'[e] = sources[e]
          /\ sources'[a.id] = ns
          /\ BgpTyped' /\ WorkTyped' /\ SourcesTyped' /\ DownOK' /\ QueueOK' /\ NamedOK' /\ FollowsOK'
      BY <1>1, <1>3, <2>1, AppliedOK
    <2>3. ns \in SourceMaps
      BY <2>2 DEF SourcesTyped
    <2> HIDE DEF a, ns
    <2> DEFINE v == StoredValue(ns, rev + 1)
    <2>4. /\ v = Absent <=> ns = NoSources
          /\ v # Absent => v.firstSeen = rev + 1 /\ v = EnsureMeta(Canonical(ns), v.firstSeen)
      BY <1>2, <2>3, StoredOK
    <2> HIDE DEF v
    <2>5. /\ canon' = [e \in Ids |-> canon'[e]]
          /\ \A e \in Ids : canon'[e] = IF e = a.id THEN v ELSE canon[e]
      BY <2>1, <2>2 DEF RInv, CanonTyped, v
    <2>6. CanonTyped'
      <3>1. ASSUME NEW e \in Ids, canon'[e] # Absent PROVE canon'[e].firstSeen \in 1..rev'
        <4>1. CASE e = a.id
          BY <1>2, <2>1, <2>4, <2>5, <3>1, <4>1
        <4>2. CASE e # a.id
          <5>1. canon[e].firstSeen \in 1..rev /\ canon'[e] = canon[e]
            BY <2>5, <3>1, <4>2 DEF RInv, CanonTyped
          <5> QED
            BY <1>2, <2>1, <5>1
        <4> QED
          BY <4>1, <4>2
      <3>2. rev' \in 0..MaxRev
        BY <1>2, <2>1
      <3> QED
        BY <2>5, <3>1, <3>2 DEF CanonTyped
    <2>7. HistoryTyped'
      BY <2>1 DEF RInv, HistoryTyped
    <2>8. OrphansOK'
      BY <2>1, <2>2 DEF RInv, OrphansOK, HistoryTyped
    <2>9. CanonIsMerge'
      <3> SUFFICES ASSUME NEW e \in Ids, e \notin unsaved', e \notin orphans'
                   PROVE  /\ canon'[e] = Absent <=> sources'[e] = NoSources
                          /\ canon'[e] # Absent =>
                               canon'[e] = EnsureMeta(Canonical(sources'[e]), canon'[e].firstSeen)
        BY DEF CanonIsMerge
      <3>1. CASE e = a.id
        BY <2>2, <2>4, <2>5, <3>1
      <3>2. CASE e # a.id
        <4>1. canon'[e] = canon[e] /\ sources'[e] = sources[e] /\ e \in Ids \ (unsaved \cup orphans)
          BY <2>1, <2>2, <2>5, <3>2
        <4> QED
          BY <1>1, <4>1 DEF RInv, CanonIsMerge
      <3> QED
        BY <3>1, <3>2
    <2> QED
      BY <2>2, <2>6, <2>7, <2>8, <2>9 DEF RInv
  <1>4. CASE ReconcileFails(a, others) /\ work' = <<>>
    <2>1. /\ sources' = [sources EXCEPT ![a.id] = ns]
          /\ rev' \in {rev, rev + 1}
          /\ rejected' = (rejected \ {<<a.peer, a.id>>}) \cup {<<b.peer, b.id>> : b \in others}
          /\ unsaved' = unsaved \cup {a.id} /\ orphans' = orphans /\ canon' = canon
      BY <1>4 DEF ReconcileFails, IncrementRejected
    <2>2. \A i \in 2..Len(work) : <<work[i].peer, work[i].id>> \in rejected'
      <3> SUFFICES ASSUME NEW i \in 2..Len(work) PROVE <<work[i].peer, work[i].id>> \in rejected'
        OBVIOUS
      <3>1. work[i] \in others
        OBVIOUS
      <3> HIDE DEF others
      <3> QED
        BY <2>1, <3>1
    <2>3. /\ a.id \in Ids
          /\ \A i \in 1..Len(work) : <<work[i].peer, work[i].id>> \in Peers \X Ids
          /\ \A e \in Ids : e # a.id => sources'[e] = sources[e]
          /\ BgpTyped' /\ WorkTyped' /\ SourcesTyped' /\ DownOK' /\ QueueOK' /\ NamedOK' /\ FollowsOK'
      BY <1>1, <1>4, <2>1, <2>2, AppliedOK
    <2> HIDE DEF a, ns
    <2>4. rev' \in 0..MaxRev /\ rev <= rev'
      <3>1. rev' = rev \/ rev' = rev + 1
        BY <2>1
      <3> QED
        BY <1>1, <1>2, <3>1, BoundsAssumption
    <2>5. CanonTyped'
      BY <1>2, <2>1, <2>4 DEF RInv, CanonTyped
    <2>6. HistoryTyped'
      <3>1. \A i \in 2..Len(work) : i \in 1..Len(work)
        OBVIOUS
      <3>2. {<<b.peer, b.id>> : b \in others} \subseteq Peers \X Ids
        BY <2>3, <3>1
      <3> HIDE DEF others
      <3> QED
        BY <2>1, <2>3, <3>2 DEF RInv, HistoryTyped
    <2>7. OrphansOK'
      BY <2>1, <2>3 DEF RInv, OrphansOK, HistoryTyped
    <2>8. CanonIsMerge'
      <3> SUFFICES ASSUME NEW e \in Ids, e \notin unsaved', e \notin orphans'
                   PROVE  /\ canon'[e] = Absent <=> sources'[e] = NoSources
                          /\ canon'[e] # Absent =>
                               canon'[e] = EnsureMeta(Canonical(sources'[e]), canon'[e].firstSeen)
        BY DEF CanonIsMerge
      <3>1. canon'[e] = canon[e] /\ sources'[e] = sources[e] /\ e \in Ids \ (unsaved \cup orphans)
        BY <2>1, <2>3
      <3> QED
        BY <1>1, <3>1 DEF RInv, CanonIsMerge
    <2> QED
      BY <2>3, <2>5, <2>6, <2>7, <2>8 DEF RInv
  <1> QED
    BY <1>3, <1>4 DEF ApplyNext

LEMMA CrashOK ==
  ASSUME RInv, Crash
  PROVE  RInv'
  <1>1. /\ up' = FALSE /\ work' = <<>> /\ queue' = <<>> /\ toSync' = {} /\ rejected' = {} /\ unsaved' = {}
        /\ sources' = [e \in Ids |-> NoSources] /\ UNCHANGED <<rib, sent, canon, rev, orphans>>
    BY DEF Crash
  <1>2. NoSources \in SourceMaps /\ DOMAIN NoSources = {}
    BY DEF NoSources, SourceMaps
  <1>3. \A e \in Ids : sources'[e] = NoSources
    BY <1>1
  <1>4. \A p, n : ReportsIn(queue', p, n) = {}
    BY <1>1 DEF ReportsIn
  <1>5. BgpTyped'
    <2>1. queue' \in Seq(Paths) /\ Len(queue') <= QueueCap
      BY <1>1, BoundsAssumption
    <2>2. toSync' \subseteq Peers \X Nlris /\ up' \in BOOLEAN
      BY <1>1
    <2> QED
      BY <1>1, <2>1, <2>2 DEF RInv, BgpTyped
  <1>6. WorkTyped' /\ SourcesTyped' /\ HistoryTyped' /\ CanonTyped'
    <2>1. SourcesTyped'
      BY <1>1, <1>2 DEF SourcesTyped
    <2>2. WorkTyped' /\ HistoryTyped' /\ CanonTyped'
      BY <1>1 DEF RInv, WorkTyped, HistoryTyped, CanonTyped
    <2> QED
      BY <2>1, <2>2
  <1>7. QueueOK'
    BY <1>4, QueueNow DEF LastReports
  <1>8. DownOK' /\ FollowsOK' /\ CanonIsMerge'
    BY <1>1, <1>3 DEF DownOK, FollowsOK, CanonIsMerge
  <1>9. NamedOK' /\ OrphansOK'
    BY <1>1, <1>2, <1>3 DEF RInv, NamedOK, OrphansOK, HistoryTyped
  <1> QED
    BY <1>5, <1>6, <1>7, <1>8, <1>9 DEF RInv

LEMMA RestartOK ==
  ASSUME RInv, Restart
  PROVE  RInv'
  <1>1. /\ ~up /\ up' = TRUE
        /\ toSync' = {s \in Peers \X Nlris : rib[s[1]][s[2]] # NoAdvert}
        /\ orphans' = {e \in Ids : canon[e] # Absent}
        /\ UNCHANGED <<rib, sent, queue, work, sources, canon, rev, rejected, unsaved>>
    BY DEF Restart
  <1>2. /\ queue = <<>> /\ work = <<>> /\ rejected = {} /\ unsaved = {}
        /\ \A e \in Ids : sources[e] = NoSources
    BY <1>1 DEF RInv, DownOK
  <1>3. BgpTyped'
    BY <1>1 DEF RInv, BgpTyped
  <1>4. WorkTyped' /\ SourcesTyped' /\ HistoryTyped' /\ CanonTyped' /\ NamedOK'
    BY <1>1 DEF RInv, WorkTyped, SourcesTyped, HistoryTyped, CanonTyped, NamedOK
  <1>5. QueueOK'
    BY <1>1, QueueNow DEF RInv
  <1>6. DownOK' /\ OrphansOK' /\ CanonIsMerge'
    BY <1>1, <1>2 DEF DownOK, OrphansOK, CanonIsMerge
  <1>7. ASSUME NEW p \in Peers, NEW n \in Nlris, NEW e \in IdsOf(p, n)
        PROVE  FollowsAt(p, n, e)'
    <2> SUFFICES ASSUME <<p, n>> \notin toSync'
                 PROVE  HeardIn(queue', work', sources', p, n, e) = Says(Path(p, n, rib'[p][n]), e)
      BY FollowsNow DEF FollowsIn
    <2>1. rib'[p][n] = NoAdvert
      <3>1. <<p, n>> \in Peers \X Nlris
        OBVIOUS
      <3>2. rib[<<p, n>>[1]][<<p, n>>[2]] = NoAdvert
        BY <1>1, <3>1
      <3> QED
        BY <1>1, <3>2
    <2>2. Says(Path(p, n, NoAdvert), e) = NoAdvert
      BY PathOf, SaysOK
    <2>3. ReportsIn(queue', p, n) = {} /\ UnderIn(work', p, e) = {}
      BY <1>1, <1>2 DEF ReportsIn, UnderIn
    <2>4. sources'[e] = NoSources /\ DOMAIN NoSources = {}
      BY <1>1, <1>2 DEF Ids, NoSources
    <2>5. HeardIn(queue', work', sources', p, n, e) = NoAdvert
      BY <2>3, <2>4, HeardSource
    <2> QED
      BY <2>1, <2>2, <2>5
  <1>8. FollowsOK'
    BY <1>7 DEF FollowsOK
  <1> QED
    BY <1>3, <1>4, <1>5, <1>6, <1>8 DEF RInv

LEMMA NextOK == RInv /\ [Next]_recVars => RInv'
  <1> SUFFICES ASSUME RInv, [Next]_recVars PROVE RInv'
    OBVIOUS
  <1>1. CASE UNCHANGED recVars
    <2>1. /\ UNCHANGED <<rib, sent, queue, toSync, up>>
          /\ UNCHANGED <<work, sources, canon, rev, rejected, unsaved, orphans>>
      BY <1>1 DEF recVars
    <2>2. BgpTyped' /\ WorkTyped' /\ SourcesTyped' /\ CanonTyped' /\ HistoryTyped'
      BY <2>1 DEF RInv, BgpTyped, WorkTyped, SourcesTyped, CanonTyped, HistoryTyped
    <2>3. DownOK' /\ NamedOK' /\ OrphansOK' /\ CanonIsMerge'
      BY <2>1 DEF RInv, DownOK, NamedOK, OrphansOK, CanonIsMerge
    <2>4. QueueOK'
      BY <2>1, QueueNow DEF RInv
    <2>5. FollowsOK'
      BY <2>1, FollowsNow DEF RInv, FollowsOK
    <2> QED
      BY <2>2, <2>3, <2>4, <2>5 DEF RInv
  <1>2. ASSUME NEW p \in Peers, NEW n \in Nlris, NEW o \in Offers[p][n] \cup {NoAdvert}, PeerUpdate(p, n, o)
        PROVE  RInv'
    BY <1>2, PeerUpdateOK
  <1>3. ASSUME NEW p \in Peers, NEW n \in Nlris, Resend(p, n) PROVE RInv'
    BY <1>3, ResendOK
  <1> QED
    BY <1>1, <1>2, <1>3, TakePathOK, ApplyNextOK, CrashOK, RestartOK DEF Next

LEMMA RInvHolds == Spec => []RInv
  <1>1. Init => RInv
    BY InitOK
  <1>2. RInv /\ [Next]_recVars => RInv'
    BY NextOK
  <1> QED
    BY <1>1, <1>2, PTL DEF Spec

-----------------------------------------------------------------------------
(* The theorems.                                                            *)

\* Every variable keeps its type, whatever the peers send: handlePath makes ids and
\* advertisements of peers and entities the model knows, also half way through a path.
THEOREM CollectorIsTyped == Spec => []RecTypeOK
  <1>1. RInv => RecTypeOK
    <2> SUFFICES ASSUME RInv PROVE RecTypeOK
      OBVIOUS
    <2>1. \A i \in DOMAIN work : work[i].id \in Ids
      <3> SUFFICES ASSUME work # <<>> PROVE \A i \in DOMAIN work : work[i].id \in Ids
        OBVIOUS
      <3>1. PICK path \in Paths : work \in Seq(AdvertsOf(path))
        BY DEF RInv, WorkTyped
      <3>2. ASSUME NEW i \in DOMAIN work PROVE work[i].id \in Ids
        <4>1. work[i] \in AdvertsOf(path)
          BY <3>1
        <4>2. work[i].id \in IdsOf(path.peer, path.nlri) /\ path.peer \in Peers /\ path.nlri \in Nlris
          BY <4>1, DecodeOK, PathParts
        <4> QED
          BY <4>2 DEF Ids
      <3> QED
        BY <3>2
    <2>2. \A e \in Ids : DOMAIN sources[e] \subseteq Peers
      BY DEF RInv, SourcesTyped, SourceMaps
    <2> QED
      BY <2>1, <2>2 DEF RInv, RecTypeOK, BgpTyped, CanonTyped, HistoryTyped
  <1> QED
    BY <1>1, RInvHolds, PTL

\* The sources, once the reports under way have been handled, are what the peers
\* advertise: for any peers, NLRIs and updates, over any number of restarts and of
\* mutations the store refuses.
THEOREM SourcesAreThePeers == Spec => []SourcesFollowPeers
  <1>1. RInv => SourcesFollowPeers
    BY DEF RInv, FollowsOK, FollowsAt, SourcesFollowPeers
  <1> QED
    BY <1>1, RInvHolds, PTL

\* What Reconciler.Apply stores is the merge of the sources it keeps in memory, and there
\* is an entity exactly when it has a source.
THEOREM StoreIsTheMerge == Spec => []CanonIsMerge
  <1>1. RInv => CanonIsMerge
    BY DEF RInv
  <1> QED
    BY <1>1, RInvHolds, PTL

\* When nothing is under way the sources of an entity are its advertisements.
LEMMA QuietSources ==
  ASSUME RInv, Quiet, NEW e \in Ids, Undisturbed(e)
  PROVE  /\ Advertising(e) = DOMAIN sources[e] /\ Advertised(e) = sources[e]
         /\ sources[e] \in SourceMaps
         /\ \A p \in DOMAIN sources[e] : sources[e][p].rest.refs = RefsOf(e)
  <1> DEFINE src == sources[e]
             Entry(p) == IF p \in DOMAIN src THEN src[p] ELSE NoAdvert
  <1>1. src \in SourceMaps
    BY DEF RInv, SourcesTyped
  <1>2. /\ DOMAIN src \subseteq Peers /\ src = [p \in DOMAIN src |-> src[p]]
        /\ \A p \in DOMAIN src : src[p] \in Adverts /\ src[p] # NoAdvert
    <2>1. PICK D \in SUBSET Peers : src \in [D -> Adverts]
      BY <1>1 DEF SourceMaps
    <2> HIDE DEF src
    <2> QED
      BY <2>1, MarksAssumption
  <1>3. ASSUME NEW p \in Peers, NEW n \in Nlris, e \in IdsOf(p, n)
        PROVE  Entry(p) = Says(Path(p, n, rib[p][n]), e)
    <2>1. FollowsAt(p, n, e)
      BY <1>3 DEF RInv, FollowsOK, Quiet
    <2>2. ReportsIn(queue, p, n) = {} /\ UnderIn(work, p, e) = {}
      BY DEF Quiet, ReportsIn, UnderIn
    <2>3. Heard(p, n, e) = Entry(p)
      BY <2>2, HeardNow, HeardSource
    <2>4. <<p, n>> \notin toSync /\ <<p, e>> \notin rejected
      BY DEF Quiet, Undisturbed
    <2> QED
      BY <2>1, <2>3, <2>4 DEF FollowsAt
  <1>4. ASSUME NEW p \in Peers, NEW n \in Nlris
        PROVE  /\ rib[p][n] \in Offers[p][n] \cup {NoAdvert}
               /\ Path(p, n, rib[p][n]) \in Paths
               /\ Path(p, n, rib[p][n]).peer = p /\ Path(p, n, rib[p][n]).nlri = n
               /\ Path(p, n, rib[p][n]).offer = rib[p][n]
    <2>1. rib[p][n] \in Offers[p][n] \cup {NoAdvert}
      BY DEF RInv, BgpTyped
    <2> QED
      BY <2>1, PathOf
  <1>5. ASSUME NEW p \in Peers, NEW n \in Nlris, e \in IdsOf(p, n)
        PROVE  p \in DOMAIN src <=> rib[p][n] # NoAdvert
    <2> DEFINE path == Path(p, n, rib[p][n])
    <2>1. path \in Paths /\ e \in IdsOf(path.peer, path.nlri) /\ path.offer = rib[p][n]
      BY <1>4, <1>5
    <2> HIDE DEF path
    <2>2. /\ path.offer = NoAdvert => Says(path, e) = NoAdvert
          /\ path.offer # NoAdvert => Says(path, e) # NoAdvert
      BY <2>1, SaysOK, MarksAssumption
    <2>3. Entry(p) = Says(path, e)
      BY <1>3, <1>5 DEF path
    <2> QED
      BY <1>2, <2>1, <2>2, <2>3
  <1>6. Advertising(e) = DOMAIN src
    <2>1. \A p \in DOMAIN src : \E n \in Nlris : e \in IdsOf(p, n)
      BY DEF RInv, NamedOK
    <2> QED
      BY <1>2, <1>5, <2>1 DEF Advertising
  <1>7. Advertised(e) = src
    <2>1. ASSUME NEW p \in DOMAIN src
          PROVE  LET n == CHOOSE m \in Nlris : e \in IdsOf(p, m) IN Says(Path(p, n, rib[p][n]), e) = src[p]
      <3> DEFINE n == CHOOSE m \in Nlris : e \in IdsOf(p, m)
      <3>1. \E m \in Nlris : e \in IdsOf(p, m)
        BY DEF RInv, NamedOK
      <3>2. n \in Nlris /\ e \in IdsOf(p, n)
        BY <3>1
      <3> HIDE DEF n
      <3>3. Says(Path(p, n, rib[p][n]), e) = Entry(p)
        BY <1>2, <1>3, <3>2
      <3> QED
        BY <3>3 DEF n
    <2>2. Advertised(e) = [p \in DOMAIN src |->
            LET n == CHOOSE m \in Nlris : e \in IdsOf(p, m) IN Says(Path(p, n, rib[p][n]), e)]
      BY <1>6 DEF Advertised
    <2> HIDE DEF src
    <2>3. Advertised(e) = [p \in DOMAIN src |-> src[p]]
      BY <2>1, <2>2
    <2> QED
      BY <1>2, <2>3
  <1>8. ASSUME NEW p \in DOMAIN src PROVE src[p].rest.refs = RefsOf(e)
    <2>1. PICK n \in Nlris : e \in IdsOf(p, n)
      BY DEF RInv, NamedOK
    <2> DEFINE path == Path(p, n, rib[p][n])
               A == Decode(path).adverts
    <2>2. p \in Peers /\ path \in Paths /\ e \in IdsOf(path.peer, path.nlri) /\ path.offer # NoAdvert
      BY <1>2, <1>4, <1>5, <2>1
    <2>3. src[p] = Says(path, e) /\ src[p] # Malformed
      BY <1>2, <1>3, <2>1, MarksAssumption
    <2> HIDE DEF path
    <2>4. PICK i \in DOMAIN A : A[i].id = e /\ Says(path, e) = A[i].advert
      <3> DEFINE own == {i \in DOMAIN A : A[i].id = e}
      <3>1. Says(path, e) = IF own = {} THEN Malformed ELSE A[CHOOSE i \in own : TRUE].advert
        BY DEF Says
      <3>2. own # {}
        BY <2>3, <3>1
      <3>3. (CHOOSE i \in own : TRUE) \in own
        BY <3>2
      <3> QED
        BY <3>1, <3>2, <3>3
    <2>5. A[i] \in AdvertsOf(path)
      BY DEF AdvertsOf
    <2>6. A[i].advert.rest.refs = RefsOf(e)
      BY <2>2, <2>4, <2>5, DecodeOK
    <2> QED
      BY <2>3, <2>4, <2>6
  <1> QED
    BY <1>1, <1>6, <1>7, <1>8

\* When every report has been handled and none failed, the store holds exactly the
\* merge of what the peers advertise, whatever came before.
LEMMA QuietOK ==
  ASSUME RInv, Quiet PROVE ConvergesToMerge
  <1> SUFFICES ASSUME NEW e \in Ids, Undisturbed(e)
               PROVE  IF Advertised(e) # NoSources
                      THEN /\ \A p \in Advertising(e) : Advertised(e)[p] # Malformed
                           /\ canon[e] # Absent
                           /\ canon[e] = EnsureMeta(Canonical(Advertised(e)), canon[e].firstSeen)
                      ELSE canon[e] = Absent \/ e \in orphans
    BY DEF ConvergesToMerge
  <1>1. Advertised(e) = sources[e] /\ Advertising(e) = DOMAIN sources[e] /\ sources[e] \in SourceMaps
    BY QuietSources
  <1>2. \A p \in DOMAIN sources[e] : sources[e][p] # Malformed
    BY <1>1, MarksAssumption DEF SourceMaps
  <1>3. e \in orphans => sources[e] = NoSources
    BY DEF RInv, OrphansOK, Undisturbed
  <1>4. e \notin orphans =>
          /\ canon[e] = Absent <=> sources[e] = NoSources
          /\ canon[e] # Absent => canon[e] = EnsureMeta(Canonical(sources[e]), canon[e].firstSeen)
    BY DEF RInv, CanonIsMerge, Quiet, Undisturbed
  <1> QED
    BY <1>1, <1>2, <1>3, <1>4

\* Whatever the order in which handlePaths got the reports, and whatever crashed or failed
\* in between: when nothing is under way, the store holds what the peers advertise now,
\* merged, except for entities whose last report failed.
THEOREM StoreConverges == Spec => []ConvergesToMerge
  <1>1. RInv => ConvergesToMerge
    BY QuietOK DEF ConvergesToMerge
  <1> QED
    BY <1>1, RInvHolds, PTL

-----------------------------------------------------------------------------
(* References.                                                              *)

\* A node NLRI names the node of its descriptor.
LEMMA NodeIds ==
  ASSUME NEW p \in Peers, NEW n \in Nlris, n.type = "node", n.local # NoDescriptor
  PROVE  IdsOf(p, n) = {NodeID(Domain[p], n, n.local)}
  <1> DEFINE path == Path(p, n, NoAdvert)
             id == NodeID(Domain[p], n, n.local)
  <1>1. path.peer = p /\ path.nlri = n /\ AttrsOf(path) # Malformed
    BY MarksAssumption DEF Path, AttrsOf
  <1> HIDE DEF path
  <1>2. Decode(path) = DecodeNode(path, n, Domain[p])
    BY <1>1 DEF Decode
  <1> DEFINE a == Advertisement(path, id, NodeFrom(n, AttrsOf(path)), <<>>)
  <1>3. Decode(path).adverts = <<a>>
    BY <1>2 DEF DecodeNode, Accepted
  <1>4. a.id = id
    BY DEF Advertisement
  <1> HIDE DEF a, id
  <1>5. IdsOf(p, n) = {<<a>>[i].id : i \in DOMAIN <<a>>}
    BY <1>3 DEF IdsOf, path
  <1>6. DOMAIN <<a>> = {1} /\ <<a>>[1] = a
    OBVIOUS
  <1> QED
    BY <1>4, <1>5, <1>6 DEF id

\* The entities of a link or a prefix NLRI refer to the nodes of its descriptors.
LEMMA AttachedIds ==
  ASSUME NEW p \in Peers, NEW l \in Nlris, l.type # "node", NEW e \in IdsOf(p, l),
         NEW d \in {l.local, l.remote}, d # NoDescriptor
  PROVE  \E i \in DOMAIN RefsOf(e) : RefsOf(e)[i] = NodeID(Domain[p], l, d)
  <1> DEFINE path == Path(p, l, NoAdvert)
             m == Domain[p]
             A == Decode(path).adverts
  <1>1. path.peer = p /\ path.nlri = l /\ AttrsOf(path) # Malformed
    BY MarksAssumption DEF Path, AttrsOf
  <1>2. PICK i \in DOMAIN A : A[i].id = e
    BY DEF IdsOf
  <1>3. A # <<>>
    BY <1>2
  <1>4. \A c : Failed(c).adverts = <<>>
    BY DEF Failed
  <1>5. \A x : Accepted(x).adverts = x
    BY DEF Accepted
  <1>6. \A id, v, r : Advertisement(path, id, v, r).id = id
    BY DEF Advertisement
  <1> HIDE DEF path
  <1>7. CASE l.type = "link"
    <2>1. Decode(path) = DecodeLink(path, l, m)
      BY <1>1, <1>7 DEF Decode
    <2> DEFINE a == Advertisement(path, LinkID(m, l), LinkFrom(l, AttrsOf(path)),
                                  <<NodeID(m, l, l.local), NodeID(m, l, l.remote)>>)
    <2>2. A = <<a>>
      BY <1>3, <1>4, <1>5, <2>1 DEF DecodeLink
    <2>3. a.id = LinkID(m, l)
      BY <1>6
    <2> HIDE DEF a, A
    <2>4. e = LinkID(m, l)
      BY <1>2, <2>2, <2>3
    <2>5. RefsOf(e) = <<NodeID(m, l, l.local), NodeID(m, l, l.remote)>>
      BY <2>4 DEF RefsOf, LinkID, StableID
    <2> QED
      BY <2>5
  <1>8. CASE l.type \in {"prefix_v4", "prefix_v6"}
    <2>1. Decode(path) = DecodePrefixes(path, l, m)
      BY <1>1, <1>8 DEF Decode
    <2> DEFINE a == [j \in DOMAIN l.networks |->
                       Advertisement(path, PrefixID(m, l, l.networks[j]), NoMerged, <<NodeID(m, l, l.local)>>)]
    <2>2. A = a
      BY <1>3, <1>4, <1>5, <2>1 DEF DecodePrefixes
    <2>3. i \in DOMAIN l.networks /\ A[i].id = PrefixID(m, l, l.networks[i])
      BY <1>2, <1>6, <2>2
    <2> HIDE DEF a, A
    <2>4. e = PrefixID(m, l, l.networks[i])
      BY <1>2, <2>3
    <2>5. RefsOf(e) = <<NodeID(m, l, l.local)>>
      BY <2>4 DEF RefsOf, PrefixID, StableID
    <2>6. d = l.local
      BY <1>8, NlrisAssumption
    <2> QED
      BY <2>5, <2>6
  <1>9. CASE l.type \notin {"node", "link", "prefix_v4", "prefix_v6"}
    <2>1. Decode(path) = Failed("unexpected_nlri") \/ Decode(path) = Failed("unsupported_nlri")
      BY <1>1, <1>9 DEF Decode
    <2> QED
      BY <1>3, <1>4, <2>1
  <1> QED
    BY <1>7, <1>8, <1>9

\* What is stored refers to the nodes its id names.
LEMMA StoredRefs ==
  ASSUME RInv, Quiet, NEW e \in Ids, Undisturbed(e), e \notin orphans, canon[e] # Absent
  PROVE  canon[e].rest.refs = RefsOf(e)
  <1> DEFINE src == sources[e]
             first == Ordered(src)[1]
  <1>1. src \in SourceMaps /\ \A p \in DOMAIN src : src[p].rest.refs = RefsOf(e)
    BY QuietSources
  <1>2. src # NoSources /\ canon[e] = EnsureMeta(Canonical(src), canon[e].firstSeen)
    BY DEF RInv, CanonIsMerge, Quiet, Undisturbed
  <1>3. DOMAIN src \subseteq Peers /\ DOMAIN src # {}
    BY <1>1, <1>2 DEF SourceMaps, NoSources
  <1> HIDE DEF src
  <1>4. first \in DOMAIN src
    BY <1>3, OrderedOK
  <1>5. Canonical(src).rest = src[first].rest
    BY CanonicalIsMerged
  <1>6. canon[e].rest = Canonical(src).rest
    <2> DEFINE v == Canonical(src)
    <2> HIDE DEF v
    <2>1. \A t : EnsureMeta(v, t).rest = v.rest
      BY DEF EnsureMeta, WithFirstSeen
    <2>2. canon[e] = EnsureMeta(v, canon[e].firstSeen)
      BY <1>2 DEF v
    <2>3. canon[e].rest = v.rest
      BY <2>1, <2>2
    <2> QED
      BY <2>3 DEF v
  <1> HIDE DEF first
  <1> QED
    BY <1>1, <1>4, <1>5, <1>6

\* The ids that handlePath computes for the ends of a link and the origin of a prefix are
\* those of stored nodes, when a peer that advertises the link or the prefix advertises the
\* nodes, whichever peer's advertisement became the canonical one.
THEOREM ReferencesAreStored == Spec => []ReferencesResolve
  <1>1. RInv => ReferencesResolve
    <2> SUFFICES ASSUME RInv, Quiet, NEW e \in Ids, canon[e] # Absent, Undisturbed(e), e \notin orphans,
                        NEW p \in Advertising(e),
                        NEW n \in Nlris, n.type = "node", rib[p][n] # NoAdvert,
                        NEW l \in Nlris, l.type # "node", e \in IdsOf(p, l),
                        NEW d \in {l.local, l.remote}, d # NoDescriptor, n.local = d,
                        n.protocol = l.protocol, n.identifier = l.identifier,
                        \A f \in IdsOf(p, n) : Undisturbed(f)
                 PROVE  \E i \in DOMAIN canon[e].rest.refs :
                           /\ canon[e].rest.refs[i] \in IdsOf(p, n)
                           /\ canon[canon[e].rest.refs[i]] # Absent
      BY DEF ReferencesResolve
    <2> DEFINE f == NodeID(Domain[p], n, n.local)
    <2>1. p \in Peers
      BY DEF Advertising
    <2>2. IdsOf(p, n) = {f}
      BY <2>1, NodeIds
    <2>3. f = NodeID(Domain[p], l, d)
      BY DEF NodeID
    <2>4. PICK i \in DOMAIN RefsOf(e) : RefsOf(e)[i] = NodeID(Domain[p], l, d)
      BY <2>1, AttachedIds
    <2>5. canon[e].rest.refs = RefsOf(e)
      BY StoredRefs
    <2> HIDE DEF f
    <2>6. f \in Ids /\ f \in IdsOf(p, n)
      BY <2>1, <2>2 DEF Ids
    <2>7. canon[f] # Absent
      <3>1. Undisturbed(f)
        BY <2>6
      <3>2. p \in Advertising(f)
        BY <2>1, <2>6 DEF Advertising
      <3>3. DOMAIN Advertised(f) = Advertising(f) /\ DOMAIN NoSources = {}
        BY DEF Advertised, NoSources
      <3>4. Advertised(f) # NoSources
        BY <3>2, <3>3
      <3> QED
        BY <2>6, <3>1, <3>4, QuietOK DEF ConvergesToMerge
    <2> QED
      BY <2>3, <2>4, <2>5, <2>6, <2>7
  <1> QED
    BY <1>1, RInvHolds, PTL
=============================================================================
