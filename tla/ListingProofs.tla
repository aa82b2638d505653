---------------------------- MODULE ListingProofs ----------------------------
(***************************************************************************)
(* Proofs about Listing.tla: a listing in pages is complete while the       *)
(* topology changes, the reads of one topology agree, and the answers of    *)
(* the path and impact services are those PathGraphProofs is about.         *)
(***************************************************************************)
EXTENDS Listing, PathGraphProofs

-----------------------------------------------------------------------------
(* The first numbers of a set.                                              *)

\* How many numbers of S are below x.
Below(S, x) == Cardinality({y \in S : y < x})

LEMMA BelowType ==
  ASSUME NEW S \in SUBSET Nat, IsFiniteSet(S), NEW x \in S
  PROVE  Cardinality(S) \in Nat /\ Below(S, x) \in 0..(Cardinality(S) - 1)
  <1> DEFINE B == {y \in S : y < x}
  <1>1. Cardinality(S) \in Nat
    BY FS_CardinalityType
  <1>2. B \in SUBSET (S \ {x})
    OBVIOUS
  <1>3. IsFiniteSet(S \ {x}) /\ Cardinality(S \ {x}) = Cardinality(S) - 1
    BY FS_RemoveElement
  <1>4. IsFiniteSet(B) /\ Cardinality(B) <= Cardinality(S \ {x})
    BY <1>2, <1>3, FS_Subset
  <1>5. Cardinality(B) \in Nat
    BY <1>4, FS_CardinalityType
  <1> HIDE DEF B
  <1>6. Cardinality(B) \in 0..(Cardinality(S) - 1)
    BY <1>1, <1>3, <1>4, <1>5
  <1> QED
    BY <1>1, <1>6 DEF B, Below

LEMMA BelowGrows ==
  ASSUME NEW S \in SUBSET Nat, IsFiniteSet(S), NEW x \in S, NEW y \in S, x < y
  PROVE  Below(S, x) < Below(S, y)
  <1> DEFINE B == {z \in S : z < x}
             C == {z \in S : z < y}
  <1>1. \A z \in S : z \in Nat
    OBVIOUS
  <1>2. B \cup {x} \in SUBSET C /\ x \notin B /\ B \in SUBSET S /\ C \in SUBSET S
    <2>1. x \notin B
      BY <1>1
    <2>2. \A z \in S : z < x => z < y
      BY <1>1
    <2> QED
      BY <2>1, <2>2
  <1>3. IsFiniteSet(B) /\ IsFiniteSet(C)
    BY <1>2, FS_Subset
  <1>4. Cardinality(B) \in Nat /\ Cardinality(C) \in Nat
    BY <1>3, FS_CardinalityType
  <1>5. Cardinality(B \cup {x}) = Cardinality(B) + 1
    BY <1>2, <1>3, FS_AddElement
  <1>6. Cardinality(B \cup {x}) <= Cardinality(C)
    BY <1>2, <1>3, FS_Subset
  <1> HIDE DEF B, C
  <1>7. Cardinality(B) < Cardinality(C)
    BY <1>4, <1>5, <1>6
  <1> QED
    BY <1>7 DEF B, C, Below

\* Every place has its number.
LEMMA BelowReaches ==
  ASSUME NEW S \in SUBSET Nat, IsFiniteSet(S), NEW k \in 0..(Cardinality(S) - 1)
  PROVE  \E x \in S : Below(S, x) = k
  <1> SUFFICES ASSUME \A x \in S : Below(S, x) # k PROVE FALSE
    OBVIOUS
  <1> DEFINE N == 0..(Cardinality(S) - 1)
             f == [x \in S |-> Below(S, x)]
  <1>1. Cardinality(S) \in Nat
    BY FS_CardinalityType
  <1>2. Cardinality(S) # 0
    BY <1>1
  <1>3. IsFiniteSet(N) /\ Cardinality(N) = Cardinality(S)
    <2> DEFINE m == Cardinality(S) - 1
    <2>1. 0 \in Int /\ m \in Int /\ ~(0 > m) /\ m - 0 + 1 = Cardinality(S)
      BY <1>1, <1>2
    <2> HIDE DEF m
    <2>2. IsFiniteSet(0..m) /\ Cardinality(0..m) = IF 0 > m THEN 0 ELSE m - 0 + 1
      BY <2>1, FS_Interval
    <2> QED
      BY <2>1, <2>2 DEF m
  <1>4. IsFiniteSet(N \ {k}) /\ Cardinality(N \ {k}) = Cardinality(S) - 1
    BY <1>3, FS_RemoveElement
  <1>5. f \in [S -> N \ {k}]
    BY BelowType
  <1>6. Cardinality(N \ {k}) < Cardinality(S)
    BY <1>1, <1>4
  <1>7. \E x, y \in S : x # y /\ f[x] = f[y]
    <2> DEFINE M == N \ {k}
    <2>1. IsFiniteSet(M) /\ Cardinality(M) < Cardinality(S) /\ f \in [S -> M]
      BY <1>4, <1>5, <1>6
    <2> HIDE DEF M, f
    <2> QED
      BY <2>1, FS_PigeonHole
  <1>8. PICK x \in S, y \in S : x # y /\ Below(S, x) = Below(S, y)
    BY <1>7
  <1>9. Below(S, x) \in Nat /\ Below(S, y) \in Nat
    BY BelowType
  <1>10. x < y \/ y < x
    BY <1>8
  <1>11. Below(S, x) < Below(S, y) \/ Below(S, y) < Below(S, x)
    BY <1>10, BelowGrows
  <1> QED
    BY <1>8, <1>9, <1>11

\* f has the first n numbers of S, in order.
Firsts(f, S, n) ==
    /\ f \in Seq(S) /\ Len(f) <= n
    /\ \A i, j \in 1..Len(f) : i < j => f[i] < f[j]
    /\ \A x \in S : Len(f) < n => \E j \in 1..Len(f) : f[j] = x
    /\ \A x \in S : \A i \in 1..Len(f) : x <= f[i] => \E j \in 1..Len(f) : f[j] = x

LEMMA FirstOfOK ==
  ASSUME NEW S \in SUBSET Nat, IsFiniteSet(S), NEW n \in Nat
  PROVE  /\ Firsts(FirstOf(S, n), S, n)
         /\ Len(FirstOf(S, n)) = IF n < Cardinality(S) THEN n ELSE Cardinality(S)
  <1> DEFINE c == Cardinality(S)
             k == IF n < c THEN n ELSE c
             f == FirstOf(S, n)
  <1>1. c \in Nat /\ k \in Nat /\ k <= n /\ k <= c /\ (k < n => k = c)
    BY FS_CardinalityType
  <1>2. f = [i \in 1..k |-> CHOOSE x \in S : Below(S, x) = i - 1]
    BY DEF FirstOf, Below
  <1> HIDE DEF k, f
  <1>3. ASSUME NEW i \in 1..k PROVE f[i] \in S /\ Below(S, f[i]) = i - 1
    <2>1. i - 1 \in 0..(c - 1)
      BY <1>1
    <2>2. \E x \in S : Below(S, x) = i - 1
      BY <2>1, BelowReaches
    <2> QED
      BY <1>2, <2>2
  <1>4. f \in [1..k -> S]
    BY <1>2, <1>3
  <1>5. f \in Seq(S) /\ Len(f) = k
    BY <1>1, <1>4
  <1>6. ASSUME NEW x \in S, Below(S, x) < k PROVE \E j \in 1..k : f[j] = x
    <2> DEFINE j == Below(S, x) + 1
    <2>1. Below(S, x) \in Nat
      BY BelowType
    <2>2. j \in 1..k /\ j - 1 = Below(S, x)
      BY <1>1, <1>6, <2>1
    <2>3. f[j] \in S /\ Below(S, f[j]) = Below(S, x)
      BY <1>3, <2>2
    <2>4. f[j] < x => Below(S, f[j]) < Below(S, x)
      BY <2>3, BelowGrows
    <2>5. x < f[j] => Below(S, x) < Below(S, f[j])
      BY <2>3, BelowGrows
    <2>6. ~(f[j] < x) /\ ~(x < f[j]) /\ x \in Nat /\ f[j] \in Nat
      <3>1. x \in Nat /\ f[j] \in Nat
        BY <2>3
      <3> QED
        BY <2>1, <2>3, <2>4, <2>5, <3>1
    <2>7. f[j] = x
      BY <2>6
    <2> QED
      BY <2>2, <2>7
  <1>7. ASSUME NEW i \in 1..k, NEW j \in 1..k, i < j PROVE f[i] < f[j]
    <2>1. f[i] \in S /\ f[j] \in S /\ Below(S, f[i]) = i - 1 /\ Below(S, f[j]) = j - 1
      BY <1>3
    <2>2. f[j] < f[i] => Below(S, f[j]) < Below(S, f[i])
      BY <2>1, BelowGrows
    <2>3. f[i] # f[j] /\ ~(f[j] < f[i])
      BY <1>1, <1>7, <2>1, <2>2
    <2>4. f[i] \in Nat /\ f[j] \in Nat
      BY <2>1
    <2> QED
      BY <2>3, <2>4
  <1>8. ASSUME NEW x \in S, k < n PROVE \E j \in 1..k : f[j] = x
    BY <1>1, <1>6, <1>8, BelowType
  <1>9. ASSUME NEW x \in S, NEW i \in 1..k, x <= f[i] PROVE \E j \in 1..k : f[j] = x
    <2>1. f[i] \in S /\ Below(S, f[i]) = i - 1
      BY <1>3
    <2>2. x < f[i] => Below(S, x) < Below(S, f[i])
      BY <2>1, BelowGrows
    <2>3. Below(S, x) \in Nat
      BY BelowType
    <2>4. x = f[i] \/ x < f[i]
      <3>1. x \in Nat /\ f[i] \in Nat
        BY <2>1
      <3> QED
        BY <1>9, <3>1
    <2>5. Below(S, x) < k
      BY <1>1, <2>1, <2>2, <2>3, <2>4
    <2> QED
      BY <1>6, <2>5
  <1>10. Firsts(f, S, n)
    BY <1>1, <1>5, <1>7, <1>8, <1>9 DEF Firsts
  <1> QED
    BY <1>5, <1>10 DEF f, k

-----------------------------------------------------------------------------
(* Pages.                                                                   *)

LEMMA PageBoundsOK ==
  ASSUME NEW size \in Int
  PROVE  PageBounds(size) \in 1..MaxSize
  BY SizesAssumption DEF PageBounds

\* A page has the ids after the token, in order and without a gap, up to its own token,
\* or all of them.
PageOK(page, ids, size, after) ==
    /\ page.items \in Seq(ids) /\ Len(page.items) <= size
    /\ \A i, j \in 1..Len(page.items) : i < j => page.items[i] < page.items[j]
    /\ \A i \in 1..Len(page.items) : page.items[i] > after
    /\ page.token = 0 => /\ \A x \in ids : x > after => x \in Elements(page.items)
                         /\ Cardinality({x \in ids : x > after}) <= size
    /\ page.token # 0 => /\ Len(page.items) = size /\ page.token = page.items[size]
                         /\ \A x \in ids : x > after /\ x <= page.token => x \in Elements(page.items)

LEMMA PageIsRight ==
  ASSUME NEW ids \in SUBSET (Nat \ {0}), IsFiniteSet(ids), NEW size \in Nat \ {0}, NEW after \in Nat
  PROVE  PageOK(Page(ids, size, after), ids, size, after)
  <1> DEFINE S == {i \in ids : i > after}
             all == FirstOf(S, size + 1)
             out == SubSeq(all, 1, IF Len(all) > size THEN size ELSE Len(all))
             page == Page(ids, size, after)
  <1> SUFFICES PageOK(page, ids, size, after)
    OBVIOUS
  <1>1. S \in SUBSET Nat /\ IsFiniteSet(S) /\ size + 1 \in Nat
    <2>1. S \in SUBSET ids /\ S \in SUBSET Nat /\ size + 1 \in Nat
      <3>1. size + 1 \in Nat
        OBVIOUS
      <3>2. \A i \in ids : i \in Nat
        OBVIOUS
      <3> QED
        BY <3>1, <3>2
    <2> HIDE DEF S
    <2>2. IsFiniteSet(S)
      BY <2>1, FS_Subset
    <2> QED
      BY <2>1, <2>2
  <1>2. /\ Firsts(all, S, size + 1)
        /\ Len(all) = IF size + 1 < Cardinality(S) THEN size + 1 ELSE Cardinality(S)
    <2> HIDE DEF S
    <2> QED
      BY <1>1, FirstOfOK
  <1>3. page.items = out /\ page.token = IF Len(all) > size THEN out[size] ELSE 0
    BY DEF Page
  <1> HIDE DEF all, page
  <1>4. /\ all \in Seq(S) /\ Len(all) \in Nat /\ Len(all) <= size + 1
        /\ \A i, j \in 1..Len(all) : i < j => all[i] < all[j]
    BY <1>1, <1>2 DEF Firsts
  <1>5. \A i \in 1..Len(all) : all[i] \in S
    BY <1>4
  <1> DEFINE k == IF Len(all) > size THEN size ELSE Len(all)
  <1>6. k \in Nat /\ k <= size /\ k <= Len(all)
    BY <1>4
  <1>7. out \in Seq(S) /\ Len(out) = k /\ \A i \in 1..k : out[i] = all[i]
    BY <1>4, <1>6
  <1> HIDE DEF k, out
  <1>8. page.items \in Seq(ids) /\ Len(page.items) = k
    <2>1. out \in Seq(ids)
      <3>1. out \in [1..k -> S]
        BY <1>6, <1>7
      <3>2. out \in [1..k -> ids]
        BY <3>1
      <3> QED
        BY <1>6, <3>2
    <2> QED
      BY <1>3, <1>7, <2>1
  <1>9. \A i, j \in 1..k : i < j => out[i] < out[j]
    BY <1>4, <1>6, <1>7
  <1>10. \A i \in 1..k : out[i] > after
    BY <1>5, <1>6, <1>7
  <1>11. Elements(out) = {all[i] : i \in 1..k}
    BY <1>6, <1>7 DEF Elements
  <1>12. CASE Len(all) > size
    <2>1. k = size /\ size \in 1..Len(all) /\ Len(all) = size + 1
      BY <1>4, <1>12 DEF k
    <2>2. page.token = all[size]
      BY <1>3, <1>7, <1>12, <2>1
    <2>3. page.token \in S /\ page.token # 0
      BY <1>5, <2>1, <2>2
    <2>4. ASSUME NEW x \in ids, x > after, x <= page.token PROVE x \in Elements(out)
      <3>1. x \in S
        BY <2>4
      <3>2. PICK j \in 1..Len(all) : all[j] = x
        BY <2>1, <2>2, <2>4, <3>1, <1>2 DEF Firsts
      <3>3. j <= size
        <4>1. ~(size < j)
          <5> SUFFICES ASSUME size < j PROVE FALSE
            OBVIOUS
          <5>1. all[size] < all[j]
            BY <1>4, <2>1
          <5>2. all[size] \in Nat /\ all[j] \in Nat
            BY <1>1, <1>5, <2>1
          <5> QED
            BY <2>2, <2>4, <3>2, <5>1, <5>2
        <4> QED
          BY <1>4, <4>1
      <3> QED
        BY <1>11, <2>1, <3>2, <3>3
    <2> QED
      BY <1>3, <1>6, <1>7, <1>8, <1>9, <1>10, <2>1, <2>2, <2>3, <2>4 DEF PageOK
  <1>13. CASE ~(Len(all) > size)
    <2>1. k = Len(all) /\ Len(all) < size + 1
      BY <1>4, <1>13 DEF k
    <2>2. page.token = 0
      BY <1>3, <1>13
    <2>3. ASSUME NEW x \in ids, x > after PROVE x \in Elements(out)
      <3>1. x \in S
        BY <2>3
      <3>2. PICK j \in 1..Len(all) : all[j] = x
        BY <1>2, <2>1, <3>1 DEF Firsts
      <3> QED
        BY <1>11, <2>1, <3>2
    <2>4. Cardinality(S) <= size
      <3>1. Cardinality(S) \in Nat
        BY <1>1, FS_CardinalityType
      <3> HIDE DEF S
      <3> QED
        BY <1>2, <1>4, <1>13, <3>1
    <2> QED
      BY <1>3, <1>6, <1>7, <1>8, <1>9, <1>10, <2>1, <2>2, <2>3, <2>4 DEF PageOK
  <1> QED
    BY <1>12, <1>13

LEMMA ListIsPage ==
  ASSUME NEW kind \in Kinds, NEW t, NEW f, NEW size, NEW after
  PROVE  List(kind, t, f, size, after) = Page(Matching(kind, t, f), PageBounds(size), after)
  BY DEF List, Matching, Kinds, ListNodes, ListLinks, ListPrefixes, ListDomains, ListPeers

LEMMA MatchingIds ==
  ASSUME NEW kind \in Kinds, NEW t, Topology(t), NEW f
  PROVE  Matching(kind, t, f) \in SUBSET (Nat \ {0}) /\ IsFiniteSet(Matching(kind, t, f))
  <1>1. Matching(kind, t, f) \in SUBSET DOMAIN t[kind]
    BY DEF Matching, Kinds, NodeIds, LinkIds, PrefixIds, PeerIds
  <1>2. IsFiniteSet(DOMAIN t[kind]) /\ DOMAIN t[kind] \subseteq Nat \ {0}
    BY DEF Topology
  <1> QED
    BY <1>1, <1>2, FS_Subset

\* What the pages of a listing have in common, whatever it lists: its ids ascend, and the
\* token is the last of them.
Paging(c) ==
    /\ c.got \in Seq(Nat \ {0})
    /\ \A i, j \in 1..Len(c.got) : i < j => c.got[i] < c.got[j]
    /\ c.after \in Nat /\ c.done \in BOOLEAN
    /\ ~c.done => c.after = IF c.got = <<>> THEN 0 ELSE c.got[Len(c.got)]

\* d is c with one page more.
Fetched(c, d, page) ==
    /\ d.got = c.got \o page.items /\ d.after = page.token /\ d.done = (page.token = 0)

LEMMA FetchedPaging ==
  ASSUME NEW c, NEW d, NEW page, NEW ids \in SUBSET (Nat \ {0}), NEW size \in Nat \ {0},
         Paging(c), ~c.done, Fetched(c, d, page), PageOK(page, ids, size, c.after)
  PROVE  /\ Paging(d)
         /\ Elements(d.got) = Elements(c.got) \cup Elements(page.items)
         /\ Elements(page.items) \subseteq ids
         /\ \A x \in Elements(page.items) : x > c.after
         /\ page.items # <<>> => d.got # <<>> /\ d.got[Len(d.got)] = page.items[Len(page.items)]
         /\ page.items = <<>> => d.got = c.got
  <1> DEFINE g == c.got
             p == page.items
             h == g \o p
             n == Len(g)
             k == Len(p)
  <1>1. /\ g \in Seq(Nat \ {0}) /\ p \in Seq(ids) /\ n \in Nat /\ k \in Nat
        /\ \A i, j \in 1..n : i < j => g[i] < g[j]
        /\ \A i, j \in 1..k : i < j => p[i] < p[j]
        /\ \A i \in 1..k : p[i] > c.after
        /\ c.after = IF g = <<>> THEN 0 ELSE g[n]
    BY DEF Paging, PageOK
  <1>2. d.got = h /\ d.after = page.token /\ d.done = (page.token = 0)
    BY DEF Fetched
  <1>3. page.token # 0 => k = size /\ page.token = p[size]
    BY DEF PageOK
  <1> HIDE DEF g, p
  <1>4. p \in Seq(Nat \ {0})
    <2>1. p \in [1..k -> ids]
      BY <1>1
    <2>2. p \in [1..k -> Nat \ {0}]
      BY <2>1
    <2> QED
      BY <1>1, <2>2
  <1>5. /\ h \in Seq(Nat \ {0}) /\ Len(h) = n + k
        /\ \A i \in 1..(n + k) : h[i] = IF i <= n THEN g[i] ELSE p[i - n]
    BY <1>1, <1>4
  <1>6. \A i \in 1..n : g[i] \in Nat /\ g[i] <= c.after
    <2> SUFFICES ASSUME NEW i \in 1..n PROVE g[i] \in Nat /\ g[i] <= c.after
      OBVIOUS
    <2>1. g # <<>> /\ n \in 1..n /\ g[i] \in Nat /\ g[n] \in Nat
      BY <1>1
    <2>2. i = n \/ i < n
      BY <1>1
    <2> QED
      BY <1>1, <2>1, <2>2
  <1>7. \A i \in 1..k : p[i] \in Nat /\ p[i] \in ids
    BY <1>1, <1>4
  <1>8. c.after \in Nat
    BY DEF Paging
  <1>9. ASSUME NEW i \in 1..(n + k), NEW j \in 1..(n + k), i < j PROVE h[i] < h[j]
    <2>1. CASE j <= n
      <3>1. i \in 1..n /\ j \in 1..n /\ h[i] = g[i] /\ h[j] = g[j]
        BY <1>1, <1>5, <1>9, <2>1
      <3> QED
        BY <1>1, <1>9, <3>1
    <2>2. CASE ~(j <= n) /\ i <= n
      <3>1. i \in 1..n /\ j - n \in 1..k /\ h[i] = g[i] /\ h[j] = p[j - n]
        BY <1>1, <1>5, <1>9, <2>2
      <3>2. g[i] \in Nat /\ g[i] <= c.after /\ p[j - n] \in Nat /\ p[j - n] > c.after
        BY <1>1, <1>6, <1>7, <3>1
      <3> QED
        BY <1>8, <3>1, <3>2
    <2>3. CASE ~(j <= n) /\ ~(i <= n)
      <3>1. i - n \in 1..k /\ j - n \in 1..k /\ i - n < j - n /\ h[i] = p[i - n] /\ h[j] = p[j - n]
        BY <1>1, <1>5, <1>9, <2>3
      <3> QED
        BY <1>1, <3>1
    <2> QED
      BY <2>1, <2>2, <2>3
  <1>10. k # 0 => h # <<>> /\ h[Len(h)] = p[k]
    <2> SUFFICES ASSUME k # 0 PROVE h # <<>> /\ h[Len(h)] = p[k]
      OBVIOUS
    <2>1. n + k \in 1..(n + k) /\ ~(n + k <= n) /\ (n + k) - n = k
      BY <1>1
    <2> QED
      BY <1>5, <2>1
  <1>11. page.token \in Nat /\ (page.token # 0 => h # <<>> /\ page.token = h[Len(h)])
    BY <1>1, <1>3, <1>7, <1>10
  <1>12. Paging(d)
    BY <1>2, <1>5, <1>9, <1>11 DEF Paging
  <1>13. Elements(h) = Elements(g) \cup Elements(p)
    <2>1. DOMAIN h = 1..(n + k) /\ DOMAIN g = 1..n /\ DOMAIN p = 1..k
      BY <1>1, <1>5
    <2>2. \A i \in 1..n : i \in 1..(n + k) /\ h[i] = g[i]
      BY <1>1, <1>5
    <2>3. \A i \in 1..k : n + i \in 1..(n + k) /\ h[n + i] = p[i]
      BY <1>1, <1>5
    <2>4. \A i \in 1..(n + k) : (i \in 1..n /\ h[i] = g[i]) \/ (i - n \in 1..k /\ h[i] = p[i - n])
      BY <1>1, <1>5
    <2> HIDE DEF h
    <2> QED
      BY <2>1, <2>2, <2>3, <2>4 DEF Elements
  <1>14. Elements(p) \subseteq ids /\ \A x \in Elements(p) : x > c.after
    BY <1>1, <1>7 DEF Elements
  <1>15. p = <<>> => h = g
    BY <1>1
  <1>16. p # <<>> => k # 0
    BY <1>1
  <1> QED
    BY <1>2, <1>10, <1>12, <1>13, <1>14, <1>15, <1>16 DEF g, p

-----------------------------------------------------------------------------
(* Listings while the topology changes.                                     *)

\* The ids of M up to the token have been listed, and all of them at the end.
Covers(c, M) ==
    /\ ~c.done => \A x \in M : x <= c.after => x \in Elements(c.got)
    /\ c.done => M \subseteq Elements(c.got)

\* A listing of entities, with the topology t.
Found(c, t) ==
    /\ Elements(c.got) \subseteq c.ever
    /\ Covers(c, c.always)
    /\ ~c.done => c.always \subseteq Matching(c.kind, t, c.filter) /\ Matching(c.kind, t, c.filter) \subseteq c.ever
    /\ c.pinned # Absent =>
         LET M == Matching(c.kind, c.pinned, c.filter) IN
         /\ Topology(c.pinned) /\ c.always \subseteq M /\ M \subseteq c.ever
         /\ Elements(c.got) \subseteq M /\ Covers(c, M)

LEMMA FetchedCovers ==
  ASSUME NEW c, NEW d, NEW page, NEW ids \in SUBSET (Nat \ {0}), NEW size \in Nat \ {0},
         Paging(c), ~c.done, Fetched(c, d, page), PageOK(page, ids, size, c.after),
         NEW M \in SUBSET ids, Covers(c, M)
  PROVE  Covers(d, M)
  <1>1. Elements(d.got) = Elements(c.got) \cup Elements(page.items)
    BY FetchedPaging
  <1>2. d.after = page.token /\ d.done = (page.token = 0)
    BY DEF Fetched
  <1>3. c.after \in Nat /\ \A x \in M : x \in ids /\ x \in Nat
    BY DEF Paging
  <1>4. \A x \in M : x <= c.after => x \in Elements(c.got)
    BY DEF Covers
  <1>5. \A x \in M : x <= c.after \/ x > c.after
    BY <1>3
  <1>6. page.token = 0 => \A x \in ids : x > c.after => x \in Elements(page.items)
    BY DEF PageOK
  <1>7. page.token # 0 => \A x \in ids : x > c.after /\ x <= page.token => x \in Elements(page.items)
    BY DEF PageOK
  <1> QED
    BY <1>1, <1>2, <1>3, <1>4, <1>5, <1>6, <1>7 DEF Covers

\* The ids a page of c is taken from.
TakenFrom(c, t, ids) == ids = Matching(c.kind, IF c.pinned = Absent THEN t ELSE c.pinned, c.filter)

LEMMA FetchedFound ==
  ASSUME NEW c, NEW d, NEW page, NEW t, NEW size \in Nat \ {0}, NEW ids, IsFiniteSet(ids),
         ids \in SUBSET (Nat \ {0}),
         TakenFrom(c, t, ids),
         Paging(c), ~c.done, Found(c, t), Fetched(c, d, page), PageOK(page, ids, size, c.after),
         d.kind = c.kind, d.filter = c.filter, d.pinned = c.pinned, d.always = c.always, d.ever = c.ever
  PROVE  Found(d, t)
  <1>1. /\ Elements(d.got) = Elements(c.got) \cup Elements(page.items)
        /\ Elements(page.items) \subseteq ids
    BY FetchedPaging
  <1>2. c.always \subseteq ids /\ ids \subseteq c.ever
    <2>1. CASE c.pinned = Absent
      <3>1. ids = Matching(c.kind, t, c.filter)
        BY <2>1 DEF TakenFrom
      <3> QED
        BY <3>1 DEF Found
    <2>2. CASE c.pinned # Absent
      <3>1. ids = Matching(c.kind, c.pinned, c.filter)
        BY <2>2 DEF TakenFrom
      <3> QED
        BY <2>2, <3>1 DEF Found
    <2> QED
      BY <2>1, <2>2
  <1>3. Covers(d, d.always)
    <2>1. Covers(c, c.always)
      BY DEF Found
    <2> QED
      BY <1>2, <2>1, FetchedCovers
  <1>4. Elements(d.got) \subseteq d.ever
    BY <1>1, <1>2 DEF Found
  <1>5. ~d.done => d.always \subseteq Matching(d.kind, t, d.filter) /\ Matching(d.kind, t, d.filter) \subseteq d.ever
    BY DEF Found
  <1>6. ASSUME c.pinned # Absent
        PROVE  /\ Topology(c.pinned) /\ c.always \subseteq ids /\ ids \subseteq c.ever
               /\ Elements(d.got) \subseteq ids /\ Covers(d, ids)
    <2>0. ids = Matching(c.kind, c.pinned, c.filter)
      BY <1>6 DEF TakenFrom
    <2>1. Topology(c.pinned) /\ Elements(c.got) \subseteq ids /\ Covers(c, ids)
      BY <1>6, <2>0 DEF Found
    <2>2. Covers(d, ids)
      BY <2>1, FetchedCovers
    <2> QED
      BY <1>1, <1>2, <2>1, <2>2
  <1> QED
    BY <1>3, <1>4, <1>5, <1>6 DEF Found, TakenFrom

\* The events of the journal j that a listing of changes asks for.
Asked(c, j) ==
    {r \in 1..Len(j) : /\ r > c.from /\ (c.before = 0 \/ r <= c.before)
                       /\ c.filter = NilFilter \/ Contains(c.filter.domains, j[r])}

\* Those of them that it has to show, if they are not after its end.
DueTo(c, j) == {r \in Asked(c, j) : c.warned => r > c.cut}

\* A listing of changes, with the journal j.
Followed(c, j) ==
    /\ c.from \in Nat /\ c.before \in Nat /\ c.cut \in Nat /\ c.warned \in BOOLEAN
    /\ c.until \in 0..Len(j)
    /\ Elements(c.got) \subseteq Asked(c, j)
    /\ \A r \in DueTo(c, j) : \A last \in Elements(c.got) : r <= last => r \in Elements(c.got)
    /\ c.done /\ c.filter = NilFilter => \A r \in DueTo(c, j) : r <= c.until => r \in Elements(c.got)

LEMMA FirstOfCount ==
  ASSUME NEW S \in SUBSET Nat, IsFiniteSet(S), NEW n \in Nat
  PROVE  /\ IsFiniteSet(Elements(FirstOf(S, n)))
         /\ Cardinality(Elements(FirstOf(S, n))) = Len(FirstOf(S, n))
  <1> DEFINE f == FirstOf(S, n)
             k == Len(f)
             E == Elements(f)
  <1>1. f \in Seq(S) /\ k \in Nat /\ \A i, j \in 1..k : i < j => f[i] < f[j]
    BY FirstOfOK DEF Firsts
  <1> HIDE DEF f
  <1>2. f \in [1..k -> S]
    BY <1>1
  <1>3. E = {f[i] : i \in 1..k}
    BY <1>2 DEF Elements
  <1> HIDE DEF k, E
  <1>4. \A i, j \in 1..k : f[i] = f[j] => i = j
    <2> SUFFICES ASSUME NEW i \in 1..k, NEW j \in 1..k, f[i] = f[j], i # j PROVE FALSE
      OBVIOUS
    <2>0. f[i] \in S /\ i \in Int /\ j \in Int
      BY <1>1, <1>2
    <2>1. f[i] \in Nat /\ (i < j \/ j < i)
      <3>1. f[i] \in Nat
        BY <2>0
      <3>2. i < j \/ j < i
        BY <2>0
      <3> QED
        BY <3>1, <3>2
    <2>2. f[i] < f[j] \/ f[j] < f[i]
      BY <1>1, <2>1
    <2> QED
      BY <2>1, <2>2
  <1>5. f \in Bijection(1..k, E)
    <2>1. f \in [1..k -> E] /\ \A t \in E : \E i \in 1..k : f[i] = t
      BY <1>2, <1>3
    <2> QED
      BY <2>1, <1>4, Fun_IsBij
  <1>6. IsFiniteSet(1..k) /\ Cardinality(1..k) = k
    BY <1>1, FS_Interval
  <1>7. IsFiniteSet(E) /\ Cardinality(E) = k
    <2>1. ExistsBijection(1..k, E)
      BY <1>5 DEF ExistsBijection
    <2> QED
      BY <1>6, <2>1, FS_Bijection
  <1> QED
    BY <1>7 DEF f, k, E

\* What Events returns: events that are there and within the bounds, without a hole, and
\* all of them if there are fewer than asked for.
LEMMA EventsOK ==
  ASSUME journal \in Seq(Nat), NEW after \in Nat, NEW before \in Nat, NEW limit \in Nat
  PROVE  LET S == {r \in 1..Len(journal) : r > cut /\ r > after /\ (before = 0 \/ r <= before)}
             E == Events(after, before, limit)
         IN /\ E \in SUBSET S /\ IsFiniteSet(E)
            /\ \A r \in S : \A e \in E : r <= e => r \in E
            /\ Cardinality(E) < limit => E = S
  <1> DEFINE S == {r \in 1..Len(journal) : r > cut /\ r > after /\ (before = 0 \/ r <= before)}
             f == FirstOf(S, limit)
             E == Events(after, before, limit)
  <1>1. DOMAIN journal = 1..Len(journal) /\ Len(journal) \in Nat
    OBVIOUS
  <1>2. E = Elements(f)
    BY <1>1 DEF Events
  <1>3. S \in SUBSET Nat /\ IsFiniteSet(S)
    <2>1. IsFiniteSet(1..Len(journal))
      BY <1>1, FS_Interval
    <2>2. S \in SUBSET (1..Len(journal))
      OBVIOUS
    <2>3. IsFiniteSet(S)
      <3> HIDE DEF S
      <3> QED
        BY <2>1, <2>2, FS_Subset
    <2> QED
      BY <1>1, <2>3
  <1> HIDE DEF S, E
  <1>4. Firsts(f, S, limit) /\ IsFiniteSet(Elements(f)) /\ Cardinality(Elements(f)) = Len(f)
    BY <1>3, FirstOfOK, FirstOfCount
  <1> HIDE DEF f
  <1>5. f \in Seq(S) /\ Len(f) \in Nat /\ DOMAIN f = 1..Len(f)
    BY <1>4 DEF Firsts
  <1>6. \A x : x \in E <=> \E j \in 1..Len(f) : f[j] = x
    BY <1>2, <1>5 DEF Elements
  <1>7. E \in SUBSET S
    BY <1>5, <1>6
  <1>8. \A r \in S : \A e \in E : r <= e => r \in E
    BY <1>4, <1>6 DEF Firsts
  <1>9. Cardinality(E) < limit => \A r \in S : r \in E
    BY <1>2, <1>4, <1>6 DEF Firsts
  <1>10. /\ E \in SUBSET S /\ IsFiniteSet(E)
         /\ \A r \in S : \A e \in E : r <= e => r \in E
         /\ Cardinality(E) < limit => E = S
    BY <1>2, <1>4, <1>7, <1>8, <1>9
  <1> QED
    BY <1>10 DEF E, S

\* What has been listed is not after the token, which is listed itself.
LEMMA PagingBound ==
  ASSUME NEW c, Paging(c), ~c.done
  PROVE  /\ \A x \in Elements(c.got) : x \in Nat /\ x >= 1 /\ x <= c.after
         /\ c.after # 0 => c.got # <<>> /\ c.after = c.got[Len(c.got)] /\ c.after \in Elements(c.got)
  <1> DEFINE g == c.got
             n == Len(g)
  <1>1. /\ g \in Seq(Nat \ {0}) /\ n \in Nat /\ DOMAIN g = 1..n
        /\ \A i, j \in 1..n : i < j => g[i] < g[j]
        /\ c.after \in Nat /\ c.after = IF g = <<>> THEN 0 ELSE g[n]
    BY DEF Paging
  <1> HIDE DEF g
  <1>2. \A i \in 1..n : g[i] \in Nat \ {0}
    BY <1>1
  <1>3. ASSUME NEW i \in 1..n PROVE g[i] <= c.after
    <2>1. g # <<>>
      BY <1>1
    <2> HIDE DEF n
    <2>2. n \in 1..n /\ (i = n \/ i < n)
      BY <1>1
    <2>3. g[i] \in Nat /\ g[n] \in Nat /\ c.after = g[n]
      BY <1>1, <1>2, <2>1, <2>2
    <2>4. i < n => g[i] < g[n]
      BY <1>1, <2>2
    <2> QED
      BY <2>2, <2>3, <2>4
  <1>4. c.after # 0 => g # <<>> /\ c.after = g[n] /\ n \in 1..n
    BY <1>1
  <1> QED
    BY <1>1, <1>2, <1>3, <1>4 DEF Elements, g

\* A page after a later cursor is one after an earlier cursor, if its ids are all later.
LEMMA PageLower ==
  ASSUME NEW ids \in SUBSET (Nat \ {0}), NEW size \in Nat \ {0}, NEW low \in Nat, NEW after \in Nat, after <= low,
         \A x \in ids : x > low, NEW page, PageOK(page, ids, size, low)
  PROVE  PageOK(page, ids, size, after)
  <1>1. \A x \in ids : x \in Nat
    OBVIOUS
  <1>2. \A x \in ids : x > after
    BY <1>1
  <1>3. {x \in ids : x > after} = {x \in ids : x > low}
    BY <1>2
  <1>4. page.items \in Seq(ids) /\ \A i \in 1..Len(page.items) : page.items[i] \in ids
    BY DEF PageOK
  <1> QED
    BY <1>2, <1>3, <1>4 DEF PageOK

LEMMA PageTop ==
  ASSUME NEW ids \in SUBSET (Nat \ {0}), NEW size \in Nat \ {0}, NEW after, NEW page, PageOK(page, ids, size, after),
         page.token # 0
  PROVE  \A x \in Elements(page.items) : x <= page.token
  <1> DEFINE p == page.items
  <1>1. /\ p \in Seq(ids) /\ Len(p) = size /\ page.token = p[size]
        /\ \A i, j \in 1..Len(p) : i < j => p[i] < p[j]
    BY DEF PageOK
  <1> HIDE DEF p
  <1>2. DOMAIN p = 1..size /\ \A i \in 1..size : p[i] \in ids
    BY <1>1
  <1>3. ASSUME NEW i \in 1..size PROVE p[i] <= p[size]
    <2>1. size \in 1..size /\ (i = size \/ i < size)
      OBVIOUS
    <2>2. p[i] \in Nat /\ p[size] \in Nat
      BY <1>2, <2>1
    <2>3. i < size => p[i] < p[size]
      BY <1>1, <2>1
    <2> QED
      BY <2>1, <2>2, <2>3
  <1> QED
    BY <1>1, <1>2, <1>3 DEF Elements, p

LEMMA CursorOK ==
  ASSUME NEW from \in Nat, NEW token \in Nat
  PROVE  /\ Cursor(from, token) \in Nat /\ Cursor(from, token) >= from /\ Cursor(from, token) >= token
         /\ \A r \in Nat : r > from /\ r > token => r > Cursor(from, token)
  BY DEF Cursor

\* d goes on with what c asks for; it has its page from a journal cut at k, and is warned
\* if an event after its cursor was missing.
Pursues(c, d, j, k) ==
    /\ d.filter = c.filter /\ d.from = c.from /\ d.before = c.before
    /\ d.until = Len(j) /\ d.cut = k /\ d.warned \in BOOLEAN /\ (c.warned => d.warned)
    /\ ~d.warned => k <= Cursor(c.from, c.after)

LEMMA FetchedFollowed ==
  ASSUME journal \in Seq(Nat), cut \in Nat, NEW c, NEW d, NEW n \in Nat \ {0},
         Paging(c), ~c.done, Followed(c, journal), c.cut <= cut,
         NEW page, NEW ids,
         \A r : r \in ids <=> r \in Events(Cursor(c.from, c.after), c.before, n + 1) /\ ChangeMatch(r, c.filter),
         PageOK(page, ids, n, c.after), Fetched(c, d, page), Pursues(c, d, journal, cut)
  PROVE  Paging(d) /\ Followed(d, journal)
  <1> DEFINE after == c.after
             low == Cursor(c.from, after)
             S == {r \in 1..Len(journal) : r > cut /\ r > low /\ (c.before = 0 \/ r <= c.before)}
             E == Events(low, c.before, n + 1)
             A == Asked(c, journal)
             Match(r) == c.filter = NilFilter \/ Contains(c.filter.domains, journal[r])
             Due(r) == d.warned => r > cut
  <1>1. /\ Len(journal) \in Nat /\ after \in Nat /\ n + 1 \in Nat
        /\ c.from \in Nat /\ c.before \in Nat /\ c.cut \in Nat /\ cut \in Nat
    BY DEF Paging, Followed
  <1>2. /\ low \in Nat /\ low >= c.from /\ low >= after
        /\ \A r \in Nat : r > c.from /\ r > after => r > low
    BY <1>1, CursorOK
  <1>3. /\ E \in SUBSET S /\ IsFiniteSet(E)
        /\ \A r \in S : \A e \in E : r <= e => r \in E
        /\ Cardinality(E) < n + 1 => E = S
    <2> HIDE DEF low
    <2> QED
      BY <1>1, <1>2, EventsOK
  <1>4. \A r : r \in ids <=> r \in E /\ Match(r)
    BY DEF ChangeMatch
  <1> HIDE DEF low, E
  <1>5. \A r : r \in A <=> /\ r \in 1..Len(journal) /\ r > c.from /\ (c.before = 0 \/ r <= c.before)
                           /\ Match(r)
    BY DEF Asked
  <1>6. \A r \in S : r \in Nat \ {0} /\ r > after /\ r > c.from
    BY <1>1, <1>2
  <1>7. ids \in SUBSET (Nat \ {0}) /\ ids \in SUBSET A
    <2>1. \A r \in ids : r \in S /\ Match(r)
      BY <1>3, <1>4
    <2> QED
      BY <1>5, <1>6, <2>1
  <1> HIDE DEF Match
  <1>8. /\ Paging(d)
        /\ Elements(d.got) = Elements(c.got) \cup Elements(page.items)
        /\ Elements(page.items) \subseteq ids
        /\ \A x \in Elements(page.items) : x > after
    BY <1>7, FetchedPaging
  <1>9. /\ \A x \in Elements(c.got) : x \in Nat /\ x <= after
        /\ after # 0 => after \in Elements(c.got)
    BY PagingBound
  <1>10. Asked(d, journal) = A
    BY DEF Asked, Pursues
  <1>11. Elements(d.got) \subseteq A
    BY <1>7, <1>8 DEF Followed
  <1>12. ASSUME NEW r \in A, Due(r), r > after PROVE r \in S
    <2>1. r \in 1..Len(journal) /\ r > c.from /\ (c.before = 0 \/ r <= c.before)
      BY <1>5
    <2>2. r > low
      BY <1>1, <1>2, <1>12, <2>1
    <2>3. ~d.warned => cut <= low
      BY DEF Pursues, low
    <2>4. r > cut
      BY <1>1, <1>2, <1>12, <2>1, <2>2, <2>3
    <2> QED
      BY <2>1, <2>2, <2>4
  <1>13. ASSUME NEW r \in A, Due(r), r <= after PROVE r \in Elements(c.got)
    <2>1. r \in 1..Len(journal)
      BY <1>5
    <2>2. after # 0
      BY <1>1, <1>13, <2>1
    <2>3. c.warned => r > c.cut
      BY <1>1, <1>13, <2>1 DEF Pursues
    <2>4. r \in DueTo(c, journal)
      BY <2>3 DEF DueTo
    <2> QED
      BY <1>9, <1>13, <2>2, <2>4 DEF Followed
  <1> HIDE DEF S, Due
  <1>14. \A r \in A : r \in Nat
    BY <1>1, <1>5
  <1>15. ASSUME NEW r \in A, Due(r), NEW last \in Elements(d.got), r <= last PROVE r \in Elements(d.got)
    <2>1. CASE r <= after
      BY <1>8, <1>13, <1>15, <2>1
    <2>2. CASE r > after
      <3>1. last \in Nat /\ r \in Nat
        BY <1>11, <1>14
      <3>2. last \notin Elements(c.got)
        BY <1>1, <1>9, <1>15, <2>2, <3>1
      <3>3. last \in Elements(page.items) /\ last \in E
        BY <1>4, <1>8, <3>2
      <3>4. r \in E
        BY <1>3, <1>12, <1>15, <2>2, <3>3
      <3>5. r \in ids
        BY <1>4, <1>5, <3>4
      <3>6. page.token # 0 => last <= page.token /\ page.token \in Nat
        <4> SUFFICES ASSUME page.token # 0 PROVE last <= page.token /\ page.token \in Nat
          OBVIOUS
        <4>1. last <= page.token
          BY <1>7, <3>3, PageTop
        <4>2. page.token \in Nat
          BY <1>8 DEF Paging, Fetched
        <4> QED
          BY <4>1, <4>2
      <3>7. page.token # 0 => r <= page.token
        BY <1>15, <3>1, <3>6
      <3>8. r \in Elements(page.items)
        BY <2>2, <3>5, <3>7 DEF PageOK
      <3> QED
        BY <1>8, <3>8
    <2> QED
      BY <1>1, <1>14, <2>1, <2>2
  <1>16. ASSUME d.done, d.filter = NilFilter, NEW r \in A, Due(r) PROVE r \in Elements(d.got)
    <2>1. page.token = 0 /\ ids = E
      BY <1>4, <1>16 DEF Fetched, Match, Pursues
    <2>2. {x \in ids : x > after} = E
      BY <1>3, <1>6, <2>1
    <2>3. Cardinality(E) \in Nat /\ Cardinality(E) <= n
      <3>1. Cardinality(E) \in Nat
        BY <1>3, FS_CardinalityType
      <3>2. Cardinality({x \in ids : x > after}) <= n
        BY <2>1 DEF PageOK
      <3> QED
        BY <2>2, <3>1, <3>2
    <2>4. E = S
      BY <1>3, <2>3
    <2>5. r > after => r \in Elements(page.items)
      BY <1>12, <1>16, <2>1, <2>4 DEF PageOK
    <2>6. r <= after => r \in Elements(c.got)
      BY <1>13, <1>16
    <2> QED
      BY <1>1, <1>8, <1>14, <2>5, <2>6
  <1>17. \A r \in DueTo(d, journal) : r \in A /\ Due(r)
    BY <1>10 DEF DueTo, Due, Pursues
  <1>18. /\ d.from \in Nat /\ d.before \in Nat /\ d.cut \in Nat /\ d.warned \in BOOLEAN
         /\ d.until \in 0..Len(journal)
    BY <1>1 DEF Pursues
  <1>19. Followed(d, journal)
    <2>1. Elements(d.got) \subseteq Asked(d, journal)
      BY <1>10, <1>11
    <2>2. \A r \in DueTo(d, journal) : \A last \in Elements(d.got) : r <= last => r \in Elements(d.got)
      BY <1>15, <1>17
    <2>3. d.done /\ d.filter = NilFilter => \A r \in DueTo(d, journal) : r <= d.until => r \in Elements(d.got)
      BY <1>16, <1>17
    <2> QED
      BY <1>18, <2>1, <2>2, <2>3 DEF Followed
  <1> QED
    BY <1>8, <1>19

Fields0 == {"kind", "filter", "size", "from", "before", "after", "got", "done", "until", "cut", "warned", "pinned",
            "always", "ever"}

\* k is where the journal is cut now.
ClientOK(c, t, j, k) ==
    /\ DOMAIN c = Fields0 /\ c.kind \in Kinds \cup {"changes"} /\ c.size \in PageSizes
    /\ c.filter \in Filters \cup {NilFilter}
    /\ Paging(c)
    /\ IF c.kind = "changes" THEN Followed(c, j) /\ c.cut <= k ELSE Found(c, t)

LInv ==
    /\ Topology(topo)
    /\ journal \in Seq(Nat) /\ Len(journal) <= MaxRev
    /\ cut \in 0..Len(journal)
    /\ client = Absent \/ ClientOK(client, topo, journal, cut)

LEMMA InitOK == ListInit => LInv
  <1> SUFFICES ASSUME ListInit PROVE LInv
    OBVIOUS
  <1>1. journal \in Seq(Nat) /\ Len(journal) = 0
    BY DEF ListInit
  <1>2. Len(journal) <= MaxRev /\ cut \in 0..Len(journal)
    BY <1>1, SizesAssumption DEF ListInit
  <1> QED
    BY <1>1, <1>2, InputsAssumption DEF ListInit, LInv

LEMMA MutatedTopology ==
  ASSUME NEW t, Topology(t), NEW m \in Mutations, NEW u, u = [t EXCEPT ![m.kind] = Update(@, m.id, m.value)]
  PROVE  Topology(u)
  <1> DEFINE k == m.kind
             old == t[k]
             new == Update(old, m.id, m.value)
  <1>1. /\ k \in Kinds /\ m.id \in Nat \ {0}
        /\ m.value # Absent => /\ k = "nodes" => Node(m.value)
                               /\ k = "links" => Link(m.value)
                               /\ k = "prefixes" => Prefix(m.value)
    BY InputsAssumption
  <1>2. /\ DOMAIN t = Kinds
        /\ \A kind \in Kinds : IsFiniteSet(DOMAIN t[kind]) /\ DOMAIN t[kind] \subseteq Nat \ {0}
    BY DEF Topology
  <1>3. DOMAIN u = Kinds /\ \A kind \in Kinds : u[kind] = IF kind = k THEN new ELSE t[kind]
    BY <1>1, <1>2
  <1>4. /\ DOMAIN new \subseteq DOMAIN old \cup {m.id}
        /\ \A i \in DOMAIN new : (i \in DOMAIN old /\ new[i] = old[i]) \/ (new[i] = m.value /\ m.value # Absent)
    BY DEF Update
  <1>5. IsFiniteSet(DOMAIN new) /\ DOMAIN new \subseteq Nat \ {0}
    <2>1. IsFiniteSet(DOMAIN old) /\ DOMAIN old \subseteq Nat \ {0}
      BY <1>1, <1>2
    <2>2. IsFiniteSet(DOMAIN old \cup {m.id})
      BY <2>1, FS_AddElement
    <2> HIDE DEF new, old
    <2>3. IsFiniteSet(DOMAIN new)
      BY <1>4, <2>2, FS_Subset
    <2> QED
      BY <1>1, <1>4, <2>1, <2>3
  <1> HIDE DEF new
  <1>6. \A kind \in Kinds : IsFiniteSet(DOMAIN u[kind]) /\ DOMAIN u[kind] \subseteq Nat \ {0}
    BY <1>2, <1>3, <1>5
  <1>7. \A n \in DOMAIN u["nodes"] : Node(u["nodes"][n])
    <2>1. \A n \in DOMAIN t["nodes"] : Node(t["nodes"][n])
      BY DEF Topology
    <2>2. "nodes" \in Kinds
      BY DEF Kinds
    <2> HIDE DEF Node
    <2> QED
      BY <1>1, <1>3, <1>4, <2>1, <2>2
  <1>8. \A n \in DOMAIN u["links"] : Link(u["links"][n])
    <2>1. \A n \in DOMAIN t["links"] : Link(t["links"][n])
      BY DEF Topology
    <2>2. "links" \in Kinds
      BY DEF Kinds
    <2> QED
      BY <1>1, <1>3, <1>4, <2>1, <2>2
  <1>9. \A n \in DOMAIN u["prefixes"] : Prefix(u["prefixes"][n])
    <2>1. \A n \in DOMAIN t["prefixes"] : Prefix(t["prefixes"][n])
      BY DEF Topology
    <2>2. "prefixes" \in Kinds
      BY DEF Kinds
    <2> QED
      BY <1>1, <1>3, <1>4, <2>1, <2>2
  <1> QED
    BY <1>3, <1>6, <1>7, <1>8, <1>9 DEF Topology

LEMMA MutateStep ==
  ASSUME LInv, NEW m \in Mutations, Mutate(m)
  PROVE  LInv'
  <1>1. /\ Topology(topo) /\ journal \in Seq(Nat) /\ Len(journal) <= MaxRev /\ cut \in 0..Len(journal)
        /\ client = Absent \/ ClientOK(client, topo, journal, cut)
    BY DEF LInv
  <1>2. /\ Len(journal) < MaxRev
        /\ topo' = [topo EXCEPT ![m.kind] = Update(@, m.id, m.value)]
        /\ journal' = Append(journal, m.domain) /\ cut' = cut
    BY DEF Mutate
  <1>3. Topology(topo')
    BY <1>1, <1>2, MutatedTopology
  <1>4. m.domain \in Nat
    BY InputsAssumption
  <1>5. /\ journal' \in Seq(Nat) /\ Len(journal') = Len(journal) + 1 /\ Len(journal) \in Nat
        /\ \A r \in 1..Len(journal) : journal'[r] = journal[r]
    BY <1>1, <1>2, <1>4
  <1>6. Len(journal') <= MaxRev /\ cut' \in 0..Len(journal')
    BY <1>1, <1>2, <1>5, SizesAssumption
  <1>7. ASSUME client # Absent PROVE ClientOK(client', topo', journal', cut')
    <2> DEFINE c == client
    <2>1. ClientOK(c, topo, journal, cut)
      BY <1>1, <1>7
    <2>2. CASE c.kind = "changes"
      <3>1. client' = c
        BY <2>2 DEF Mutate
      <3>2. Followed(c, journal')
        <4>1. Followed(c, journal)
          BY <2>1, <2>2 DEF ClientOK
        <4>2. Len(journal') = Len(journal) + 1 /\ Len(journal) \in Nat
          BY <1>5
        <4>3. \A r \in Asked(c, journal) : r \in Asked(c, journal')
          BY <1>5, <4>2 DEF Asked
        <4>4. \A r \in Asked(c, journal') : r \in Asked(c, journal) \/ r = Len(journal) + 1
          BY <1>5, <4>2 DEF Asked
        <4>5. \A r \in Elements(c.got) : r \in 1..Len(journal)
          BY <4>1 DEF Followed, Asked
        <4>6. \A last \in Elements(c.got) : ~(Len(journal) + 1 <= last)
          BY <4>2, <4>5
        <4>7. c.until \in 0..Len(journal') /\ ~(Len(journal) + 1 <= c.until)
          BY <4>1, <4>2 DEF Followed
        <4>8. \A r \in DueTo(c, journal') : r \in DueTo(c, journal) \/ r = Len(journal) + 1
          BY <4>4 DEF DueTo
        <4> QED
          BY <4>1, <4>3, <4>6, <4>7, <4>8 DEF Followed
      <3> QED
        BY <1>2, <2>1, <2>2, <3>1, <3>2 DEF ClientOK
    <2>3. CASE c.kind # "changes" /\ c.done
      <3>1. client' = c
        BY <2>3 DEF Mutate
      <3>2. Found(c, topo')
        <4>1. Found(c, topo)
          BY <2>1, <2>3 DEF ClientOK
        <4> QED
          BY <2>3, <4>1 DEF Found
      <3> QED
        BY <2>1, <2>3, <3>1, <3>2 DEF ClientOK
    <2>4. CASE c.kind # "changes" /\ ~c.done
      <3> DEFINE now == Matching(c.kind, topo', c.filter)
                 d == [c EXCEPT !.always = @ \cap now, !.ever = @ \cup now]
      <3>1. client' = d
        BY <1>7, <2>4 DEF Mutate
      <3>2. DOMAIN c = Fields0
        BY <2>1 DEF ClientOK
      <3>3. /\ DOMAIN d = Fields0 /\ d.kind = c.kind /\ d.filter = c.filter /\ d.size = c.size
            /\ d.after = c.after /\ d.got = c.got /\ d.done = c.done /\ d.until = c.until
            /\ d.pinned = c.pinned /\ d.always = c.always \cap now /\ d.ever = c.ever \cup now
        BY <3>2 DEF Fields0
      <3>4. Found(c, topo)
        BY <2>1, <2>4 DEF ClientOK
      <3> HIDE DEF d, now
      <3>5. Paging(d)
        BY <2>1, <3>3 DEF ClientOK, Paging
      <3>6. Covers(d, d.always)
        BY <3>3, <3>4 DEF Covers, Found
      <3>7. c.pinned # Absent => LET M == Matching(d.kind, d.pinned, d.filter) IN
               /\ Topology(d.pinned) /\ d.always \subseteq M /\ M \subseteq d.ever
               /\ Elements(d.got) \subseteq M /\ Covers(d, M)
        BY <3>3, <3>4 DEF Covers, Found
      <3>8. Matching(d.kind, topo', d.filter) = now
        BY <3>3 DEF now
      <3>9. Found(d, topo')
        BY <3>3, <3>4, <3>6, <3>7, <3>8 DEF Found
      <3> QED
        BY <2>1, <2>4, <3>1, <3>3, <3>5, <3>9 DEF ClientOK
    <2> QED
      BY <2>2, <2>3, <2>4
  <1>8. client = Absent => client' = Absent
    BY DEF Mutate
  <1> QED
    BY <1>2, <1>3, <1>5, <1>6, <1>7, <1>8 DEF LInv

LEMMA StartStep ==
  ASSUME LInv, NEW kind \in Kinds \cup {"changes"}, NEW f \in Filters \cup {NilFilter},
         NEW size \in PageSizes, NEW pinned \in BOOLEAN, NEW w, w[1] \in Nat, w[2] \in Nat,
         kind = "changes" => ~pinned, StartListing(kind, f, size, pinned, w)
  PROVE  LInv'
  <1> DEFINE M == Matching(kind, topo, f)
             p == IF pinned THEN topo ELSE Absent
             e == IF kind = "changes" THEN {} ELSE M
             d == [kind |-> kind, filter |-> f, size |-> size, from |-> w[1], before |-> w[2],
                   after |-> 0, got |-> <<>>, done |-> FALSE, until |-> 0, cut |-> 0, warned |-> FALSE,
                   pinned |-> p, always |-> e, ever |-> e]
  <1>1. client' = d /\ topo' = topo /\ journal' = journal /\ cut' = cut
    BY DEF StartListing
  <1>2. Topology(topo) /\ journal \in Seq(Nat) /\ Len(journal) <= MaxRev /\ cut \in 0..Len(journal)
    BY DEF LInv
  <1> HIDE DEF p, e, M
  <1>3. /\ DOMAIN d = Fields0 /\ d.kind = kind /\ d.filter = f /\ d.size = size /\ d.after = 0 /\ d.got = <<>>
        /\ d.done = FALSE /\ d.until = 0 /\ d.pinned = p /\ d.always = e /\ d.ever = e
        /\ d.from = w[1] /\ d.before = w[2] /\ d.cut = 0 /\ d.warned = FALSE
    BY DEF Fields0
  <1> HIDE DEF d
  <1>4. Elements(d.got) = {}
    BY <1>3 DEF Elements
  <1>5. Paging(d)
    <2>1. d.got \in Seq(Nat \ {0}) /\ Len(d.got) = 0
      BY <1>3
    <2>2. \A i, j \in 1..Len(d.got) : i < j => d.got[i] < d.got[j]
      BY <2>1
    <2>3. d.after \in Nat
      BY <1>3
    <2>4. ~d.done => d.after = IF d.got = <<>> THEN 0 ELSE d.got[Len(d.got)]
      BY <1>3
    <2>5. d.done \in BOOLEAN
      BY <1>3
    <2> QED
      BY <2>1, <2>2, <2>3, <2>4, <2>5 DEF Paging
  <1>6. CASE kind = "changes"
    <2>1. Followed(d, journal) /\ d.cut <= cut
      <3>1. Len(journal) \in Nat
        BY <1>2
      <3>2. d.until \in 0..Len(journal) /\ d.cut <= cut
        BY <1>2, <1>3, <3>1
      <3>3. d.from \in Nat /\ d.before \in Nat /\ d.cut \in Nat
        BY <1>3
      <3>4. d.warned \in BOOLEAN /\ ~d.done
        BY <1>3
      <3> QED
        BY <1>4, <3>2, <3>3, <3>4 DEF Followed
    <2> QED
      BY <1>1, <1>2, <1>3, <1>5, <1>6, <2>1 DEF LInv, ClientOK
  <1>7. CASE kind # "changes"
    <2>1. kind \in Kinds /\ d.always = M /\ d.ever = M
      BY <1>3, <1>7 DEF e
    <2>2. M \in SUBSET (Nat \ {0})
      BY <1>2, <2>1, MatchingIds DEF M
    <2>3. Covers(d, M)
      <3>1. \A x \in M : ~(x <= 0)
        <4> HIDE DEF M
        <4> QED
          BY <2>2
      <3> QED
        BY <1>3, <3>1 DEF Covers
    <2>4. Matching(d.kind, topo, d.filter) = M
      BY <1>3 DEF M
    <2>5. d.pinned # Absent => d.pinned = topo
      BY <1>3 DEF p
    <2>6. Found(d, topo)
      <3>1. d.pinned # Absent =>
              /\ Topology(d.pinned) /\ d.always \subseteq Matching(d.kind, d.pinned, d.filter)
              /\ Matching(d.kind, d.pinned, d.filter) \subseteq d.ever
              /\ Elements(d.got) \subseteq Matching(d.kind, d.pinned, d.filter)
              /\ Covers(d, Matching(d.kind, d.pinned, d.filter))
        BY <1>2, <1>4, <2>1, <2>3, <2>4, <2>5
      <3> QED
        BY <1>3, <1>4, <2>1, <2>3, <2>4, <3>1 DEF Found
    <2> QED
      BY <1>1, <1>2, <1>3, <1>5, <1>7, <2>6 DEF LInv, ClientOK
  <1> QED
    BY <1>6, <1>7

LEMMA SizeOK ==
  ASSUME NEW size \in PageSizes
  PROVE  PageBounds(size) \in Nat \ {0}
  <1> DEFINE n == PageBounds(size)
  <1>1. size \in Int
    BY InputsAssumption
  <1>2. n \in 1..MaxSize
    BY <1>1, PageBoundsOK
  <1>3. MaxSize \in Nat
    BY SizesAssumption
  <1> HIDE DEF n
  <1>4. n \in Nat \ {0}
    BY <1>2, <1>3
  <1> QED
    BY <1>4 DEF n

LEMMA FetchStep ==
  ASSUME LInv, FetchPage
  PROVE  LInv'
  <1> DEFINE c == client
             t == IF c.pinned = Absent THEN topo ELSE c.pinned
             page == List(c.kind, t, c.filter, c.size, c.after)
             d == WithPage(c, page)
             n == PageBounds(c.size)
             ids == Matching(c.kind, t, c.filter)
  <1>1. c # Absent /\ c.kind # "changes" /\ ~c.done /\ client' = d /\ topo' = topo /\ journal' = journal /\ cut' = cut
    BY DEF FetchPage
  <1>2. /\ Topology(topo) /\ journal \in Seq(Nat) /\ Len(journal) <= MaxRev /\ cut \in 0..Len(journal)
        /\ ClientOK(c, topo, journal, cut)
    BY <1>1 DEF LInv
  <1>3. DOMAIN c = Fields0 /\ c.kind \in Kinds /\ c.size \in PageSizes /\ Paging(c) /\ Found(c, topo)
    BY <1>1, <1>2 DEF ClientOK
  <1>4. /\ DOMAIN d = Fields0 /\ d.kind = c.kind /\ d.filter = c.filter /\ d.size = c.size
        /\ d.pinned = c.pinned /\ d.always = c.always /\ d.ever = c.ever
        /\ d.got = c.got \o page.items /\ d.after = page.token /\ d.done = (page.token = 0)
    <2> HIDE DEF page
    <2> QED
      BY <1>3 DEF Fields0, WithPage
  <1>5. Fetched(c, d, page)
    BY <1>4 DEF Fetched
  <1>6. n \in Nat \ {0}
    BY <1>3, SizeOK
  <1>7. c.after \in Nat
    BY <1>3 DEF Paging
  <1>8. Topology(t)
    BY <1>2, <1>3 DEF Found
  <1>9. page = Page(ids, n, c.after)
    BY <1>3, ListIsPage
  <1>10. TakenFrom(c, topo, ids)
    BY DEF TakenFrom
  <1> HIDE DEF t
  <1>11. ids \in SUBSET (Nat \ {0}) /\ IsFiniteSet(ids)
    BY <1>3, <1>8, MatchingIds
  <1> HIDE DEF ids, n, page, d
  <1>12. PageOK(page, ids, n, c.after)
    BY <1>6, <1>7, <1>9, <1>11, PageIsRight
  <1>13. Found(d, topo)
    BY <1>1, <1>3, <1>4, <1>5, <1>6, <1>10, <1>11, <1>12, FetchedFound
  <1>14. Paging(d)
    BY <1>1, <1>3, <1>5, <1>6, <1>11, <1>12, FetchedPaging
  <1>15. ClientOK(d, topo, journal, cut)
    BY <1>1, <1>2, <1>4, <1>13, <1>14 DEF ClientOK
  <1> QED
    BY <1>1, <1>2, <1>15 DEF LInv

LEMMA ChangesStep ==
  ASSUME LInv, FetchChanges
  PROVE  LInv'
  <1> DEFINE c == client
             n == PageBounds(c.size)
             low == Cursor(c.from, c.after)
             page == ListChanges(c.filter, c.size, c.from, c.before, c.after)
             warn == Warns(c, OldestRevision(cut'))
             d == [WithPage(c, page) EXCEPT !.until = Len(journal), !.cut = cut, !.warned = @ \/ warn]
             E == Events(low, c.before, n + 1)
             ids == {r \in E : ChangeMatch(r, c.filter)}
  <1>1. /\ c # Absent /\ c.kind = "changes" /\ ~c.done /\ client' = d /\ topo' = topo /\ journal' = journal
        /\ cut' \in cut..Len(journal)
    BY DEF FetchChanges
  <1>2. /\ Topology(topo) /\ journal \in Seq(Nat) /\ Len(journal) <= MaxRev /\ cut \in 0..Len(journal)
        /\ ClientOK(c, topo, journal, cut)
    BY <1>1 DEF LInv
  <1>3. /\ DOMAIN c = Fields0 /\ c.size \in PageSizes /\ Paging(c)
        /\ Followed(c, journal) /\ c.cut <= cut
    BY <1>1, <1>2 DEF ClientOK
  <1>4. /\ DOMAIN d = Fields0 /\ d.kind = c.kind /\ d.filter = c.filter /\ d.size = c.size
        /\ d.from = c.from /\ d.before = c.before /\ d.until = Len(journal) /\ d.cut = cut
        /\ d.warned = (c.warned \/ warn)
        /\ d.got = c.got \o page.items /\ d.after = page.token /\ d.done = (page.token = 0)
    <2> HIDE DEF page, warn
    <2> QED
      BY <1>3 DEF Fields0, WithPage
  <1>5. Fetched(c, d, page)
    BY <1>4 DEF Fetched
  <1>6. n \in Nat \ {0} /\ n + 1 \in Nat
    <2>1. n \in Nat \ {0}
      BY <1>3, SizeOK
    <2> HIDE DEF n
    <2> QED
      BY <2>1
  <1>7. c.after \in Nat /\ c.from \in Nat /\ c.before \in Nat /\ c.cut \in Nat /\ c.warned \in BOOLEAN
    BY <1>3 DEF Paging, Followed
  <1>8. Len(journal) \in Nat /\ cut \in Nat /\ cut' \in Nat /\ cut' >= cut /\ cut' <= Len(journal)
    BY <1>1, <1>2
  <1>9. low \in Nat /\ low >= c.after
    BY <1>7, CursorOK
  <1>10. ~warn => cut <= low
    <2> DEFINE o == OldestRevision(cut')
               k == Len(journal)
               z == cut'
    <2>1. o = IF z < k THEN z + 1 ELSE 0
      BY DEF OldestRevision
    <2>2. warn <=> (o = 0 \/ o > low + 1)
      BY DEF Warns
    <2>3. k \in Nat /\ cut \in Nat /\ z \in Nat /\ z >= cut
      BY <1>8
    <2> HIDE DEF o, k, z, low, warn
    <2> QED
      BY <1>9, <2>1, <2>2, <2>3
  <1>11. page = Page(ids, n, low)
    BY DEF ListChanges
  <1>12. \A r : r \in ids <=> r \in Events(low, c.before, n + 1) /\ ChangeMatch(r, c.filter)
    OBVIOUS
  <1> HIDE DEF low
  <1>13. E \in SUBSET {r \in 1..Len(journal) : r > cut /\ r > low /\ (c.before = 0 \/ r <= c.before)} /\ IsFiniteSet(E)
    <2> HIDE DEF n
    <2> QED
      BY <1>2, <1>6, <1>7, <1>9, EventsOK
  <1>14. E \in SUBSET (Nat \ {0}) /\ \A r \in E : r > low
    BY <1>8, <1>13
  <1>15. ids \in SUBSET E
    OBVIOUS
  <1> HIDE DEF E, ids, n, page, d, warn
  <1>16. ids \in SUBSET (Nat \ {0}) /\ IsFiniteSet(ids) /\ \A r \in ids : r > low
    <2>1. IsFiniteSet(ids)
      BY <1>13, <1>15, FS_Subset
    <2> QED
      BY <1>14, <1>15, <2>1
  <1>17. PageOK(page, ids, n, low)
    BY <1>6, <1>9, <1>11, <1>16, PageIsRight
  <1>18. PageOK(page, ids, n, c.after)
    BY <1>6, <1>7, <1>9, <1>16, <1>17, PageLower
  <1>19. Pursues(c, d, journal, cut)
    <2>1. d.warned \in BOOLEAN /\ (c.warned => d.warned) /\ (~d.warned => ~warn)
      BY <1>4, <1>7 DEF warn, Warns
    <2> QED
      BY <1>4, <1>10, <2>1 DEF Pursues, low
  <1>20. Paging(d) /\ Followed(d, journal)
    BY <1>1, <1>2, <1>3, <1>5, <1>6, <1>8, <1>12, <1>18, <1>19, FetchedFollowed DEF low
  <1>21. d.cut <= cut'
    BY <1>4, <1>8
  <1>22. ClientOK(d, topo, journal, cut')
    BY <1>1, <1>2, <1>4, <1>20, <1>21 DEF ClientOK
  <1>23. cut' \in 0..Len(journal)
    BY <1>8
  <1> QED
    BY <1>1, <1>2, <1>22, <1>23 DEF LInv

LEMMA CompactStep ==
  ASSUME LInv, CompactHistory
  PROVE  LInv'
  <1>1. cut' \in (cut + 1)..Len(journal) /\ topo' = topo /\ journal' = journal /\ client' = client
    BY DEF CompactHistory
  <1>2. /\ Topology(topo) /\ journal \in Seq(Nat) /\ Len(journal) <= MaxRev /\ cut \in 0..Len(journal)
        /\ client = Absent \/ ClientOK(client, topo, journal, cut)
    BY DEF LInv
  <1>3. Len(journal) \in Nat
    BY <1>2
  <1>4. cut' \in 0..Len(journal) /\ cut' >= cut
    BY <1>1, <1>2, <1>3
  <1>5. ASSUME client # Absent PROVE ClientOK(client, topo, journal, cut')
    <2>1. ClientOK(client, topo, journal, cut)
      BY <1>2, <1>5
    <2>2. ASSUME client.kind = "changes" PROVE client.cut <= cut'
      <3>1. client.cut \in Nat /\ client.cut <= cut
        BY <2>1, <2>2 DEF ClientOK, Followed
      <3> QED
        BY <1>2, <1>4, <3>1
    <2> QED
      BY <2>1, <2>2 DEF ClientOK
  <1> QED
    BY <1>1, <1>2, <1>4, <1>5 DEF LInv

LEMMA ListStep == LInv /\ [ListNext]_listVars => LInv'
  <1> SUFFICES ASSUME LInv, [ListNext]_listVars PROVE LInv'
    OBVIOUS
  <1>0. Unbounded[1] \in Nat /\ Unbounded[2] \in Nat
    BY DEF Unbounded
  <1>1. ASSUME NEW m \in Mutations, Mutate(m) PROVE LInv'
    BY <1>1, MutateStep
  <1>2. ASSUME NEW kind \in {"nodes", "links", "prefixes"}, NEW f \in Filters, NEW size \in PageSizes,
               NEW pinned \in BOOLEAN, StartListing(kind, f, size, pinned, Unbounded)
        PROVE  LInv'
    BY <1>0, <1>2, StartStep DEF Kinds
  <1>3. ASSUME NEW f \in Filters, NEW size \in PageSizes, StartListing("peers", f, size, FALSE, Unbounded)
        PROVE  LInv'
    BY <1>0, <1>3, StartStep DEF Kinds
  <1>4. ASSUME NEW f \in Filters, NEW size \in PageSizes, NEW w \in Windows, StartListing("changes", f, size, FALSE, w)
        PROVE  LInv'
    <2>1. w[1] \in Nat /\ w[2] \in Nat
      BY InputsAssumption
    <2> QED
      BY <1>4, <2>1, StartStep
  <1>5. ASSUME NEW size \in PageSizes, StartListing("domains", NilFilter, size, FALSE, Unbounded) PROVE LInv'
    BY <1>0, <1>5, StartStep DEF Kinds
  <1>6. CASE FetchPage
    BY <1>6, FetchStep
  <1>7. CASE FetchChanges
    BY <1>7, ChangesStep
  <1>8. CASE EndListing
    BY <1>8 DEF EndListing, LInv
  <1>9. CASE CompactHistory
    BY <1>9, CompactStep
  <1>10. CASE UNCHANGED listVars
    BY <1>10 DEF listVars, LInv
  <1> QED
    BY <1>1, <1>2, <1>3, <1>4, <1>5, <1>6, <1>7, <1>8, <1>9, <1>10 DEF ListNext

\* Every reachable state satisfies the inductive invariant.
THEOREM ListingsFollow == ListSpec => []LInv
  BY InitOK, ListStep, PTL DEF ListSpec

LEMMA PagingAscends ==
  ASSUME NEW c, Paging(c)
  PROVE  Ascending(c.got)
  <1>1. c.got \in Seq(Nat \ {0}) /\ \A i, j \in 1..Len(c.got) : i < j => c.got[i] < c.got[j]
    BY DEF Paging
  <1>2. Len(c.got) \in Nat
    BY <1>1
  <1>3. \A i \in 1..(Len(c.got) - 1) : i \in 1..Len(c.got) /\ i + 1 \in 1..Len(c.got) /\ i < i + 1
    BY <1>2
  <1> QED
    BY <1>1, <1>3 DEF Ascending

\* ListNodes, ListLinks, ListPrefixes, ListDomains and ListPeers, page by page, for every
\* topology, mutation, filter and page size: nothing twice, nothing that never matched,
\* and nothing left out that matched throughout.
THEOREM ListingsComplete == ListSpec => []ListingsAreComplete
  <1>1. LInv => ListingsAreComplete
    <2> SUFFICES ASSUME LInv, client # Absent, client.kind # "changes"
                 PROVE  /\ Ascending(client.got)
                        /\ Elements(client.got) \subseteq client.ever
                        /\ client.done => client.always \subseteq Elements(client.got)
                        /\ client.done /\ client.pinned # Absent =>
                             Elements(client.got) = Matching(client.kind, client.pinned, client.filter)
      BY DEF ListingsAreComplete
    <2>1. Paging(client) /\ Found(client, topo)
      BY DEF LInv, ClientOK
    <2>2. Ascending(client.got)
      BY <2>1, PagingAscends
    <2> QED
      BY <2>1, <2>2 DEF Found, Covers
  <1> QED
    BY <1>1, ListingsFollow, PTL

\* ListChanges, page by page, for every journal, window, filter, page size and compaction
\* between two pages or within one: no hole that OldestAvailableRevision does not show, and
\* none among the events that were there when the last page was read.
THEOREM ChangesComplete == ListSpec => []ChangesHaveNoHole
  <1>1. LInv => ChangesHaveNoHole
    <2> SUFFICES ASSUME LInv, client # Absent, client.kind = "changes" PROVE ChangesHaveNoHole
      BY DEF ChangesHaveNoHole
    <2> DEFINE c == client
               due == {r \in Wanted(c) : c.warned => r > c.cut}
    <2>1. Paging(c) /\ Followed(c, journal) /\ journal \in Seq(Nat)
      BY DEF LInv, ClientOK
    <2>2. Ascending(c.got)
      BY <2>1, PagingAscends
    <2>3. Wanted(c) = Asked(c, journal)
      <3>1. DOMAIN journal = 1..Len(journal)
        BY <2>1
      <3> QED
        BY <3>1 DEF Wanted, Asked, ChangeMatch
    <2>4. due = DueTo(c, journal)
      BY <2>3 DEF DueTo
    <2>5. Elements(c.got) \subseteq Wanted(c)
      BY <2>1, <2>3 DEF Followed
    <2>6. \A r \in due : (\E last \in Elements(c.got) : r <= last) => r \in Elements(c.got)
      BY <2>1, <2>4 DEF Followed
    <2>7. c.done /\ c.filter = NilFilter => \A r \in due : r <= c.until => r \in Elements(c.got)
      BY <2>1, <2>4 DEF Followed
    <2> QED
      BY <2>2, <2>5, <2>6, <2>7 DEF ChangesHaveNoHole
  <1> QED
    BY <1>1, ListingsFollow, PTL

-----------------------------------------------------------------------------
(* The messages of a stream.                                                *)

\* The places after k and up to e of entities that match.
Hits(all, match, k, e) == {i \in (k + 1)..e : all[i] \in match}

LEMMA HitsCount ==
  ASSUME NEW all, NEW match, NEW k \in Nat, NEW e \in Nat
  PROVE  /\ IsFiniteSet(Hits(all, match, k, e)) /\ Cardinality(Hits(all, match, k, e)) \in Nat
         /\ e <= k => Hits(all, match, k, e) = {}
         /\ Cardinality(Hits(all, match, k, e + 1)) <= Cardinality(Hits(all, match, k, e)) + 1
  <1> DEFINE H == Hits(all, match, k, e)
             G == Hits(all, match, k, e + 1)
  <1>1. H \in SUBSET ((k + 1)..e) /\ e + 1 \in Nat /\ G \in SUBSET (H \cup {e + 1})
    <2>1. \A i \in (k + 1)..(e + 1) : i \in (k + 1)..e \/ i = e + 1
      OBVIOUS
    <2> QED
      BY <2>1 DEF Hits
  <1>2. e <= k => H = {}
    BY DEF Hits
  <1> HIDE DEF H, G
  <1>3. IsFiniteSet((k + 1)..e)
    BY FS_Interval
  <1>4. IsFiniteSet(H)
    BY <1>1, <1>3, FS_Subset
  <1>5. IsFiniteSet(H \cup {e + 1}) /\ Cardinality(H \cup {e + 1}) \in {Cardinality(H), Cardinality(H) + 1}
    BY <1>4, FS_AddElement
  <1>6. IsFiniteSet(G) /\ Cardinality(G) <= Cardinality(H \cup {e + 1})
    BY <1>1, <1>5, FS_Subset
  <1>7. Cardinality(H) \in Nat /\ Cardinality(G) \in Nat
    BY <1>4, <1>6, FS_CardinalityType
  <1>8. Cardinality(G) <= Cardinality(H) + 1
    BY <1>5, <1>6, <1>7
  <1> QED
    BY <1>2, <1>4, <1>7, <1>8 DEF H, G

\* A message has room for what it takes, and takes something if there is something left.
LEMMA FillChunkOK ==
  ASSUME NEW X, NEW all \in Seq(X), NEW match, NEW k \in 0..Len(all)
  PROVE  LET c == FillChunk(all, match, k) IN
         /\ c.end \in k..Len(all) /\ (c.end = k => k = Len(all))
         /\ c.items = {all[i] : i \in Hits(all, match, k, c.end)}
         /\ IsFiniteSet(c.items) /\ Cardinality(c.items) <= ChunkSize
  <1> DEFINE H(e) == Hits(all, match, k, e)
             n == Len(all)
             E == {e \in k..n : Cardinality(H(e)) = ChunkSize} \cup {n}
             end == Smallest(E)
             c == FillChunk(all, match, k)
  <1>1. n \in Nat /\ k \in Nat /\ k <= n /\ ChunkSize \in Nat /\ ChunkSize >= 1
    BY SizesAssumption
  <1>2. c = [items |-> {all[i] : i \in H(end)}, end |-> end]
    BY DEF FillChunk, Hits
  <1> HIDE DEF c, H, n
  <1>3. E \in SUBSET Nat /\ E # {}
    BY <1>1
  <1>4. end \in E /\ end \in Nat /\ \A y \in E : end <= y
    <2> HIDE DEF E
    <2> QED
      BY <1>3, SmallestOK
  <1> HIDE DEF end
  <1>5. end \in k..n
    BY <1>1, <1>4
  <1>6. \A e \in Nat : /\ IsFiniteSet(H(e)) /\ Cardinality(H(e)) \in Nat /\ (e <= k => H(e) = {})
                       /\ Cardinality(H(e + 1)) <= Cardinality(H(e)) + 1
    BY <1>1, HitsCount DEF H
  <1>7. Cardinality(H(k)) = 0
    BY <1>1, <1>6, FS_EmptySet
  <1>8. end = k => k = n
    BY <1>1, <1>4, <1>7
  <1>9. Cardinality(H(end)) <= ChunkSize
    <2> SUFFICES ASSUME Cardinality(H(end)) # ChunkSize PROVE Cardinality(H(end)) <= ChunkSize
      BY <1>1
    <2>1. end = n
      BY <1>4
    <2>2. \A e \in k..n : Cardinality(H(e)) # ChunkSize
      <3> SUFFICES ASSUME NEW e \in k..n, Cardinality(H(e)) = ChunkSize PROVE FALSE
        OBVIOUS
      <3>1. e \in E /\ e \in Nat /\ e <= n
        BY <1>1
      <3>2. end <= e
        BY <1>4, <3>1
      <3>3. e = n
        BY <1>1, <2>1, <3>1, <3>2
      <3> QED
        BY <2>1, <3>3
    <2> DEFINE T == {j \in Nat : k + j <= n => Cardinality(H(k + j)) < ChunkSize}
    <2>3. 0 \in T
      BY <1>1, <1>7
    <2>4. ASSUME NEW j \in T PROVE j + 1 \in T
      <3> SUFFICES ASSUME k + (j + 1) <= n PROVE Cardinality(H(k + (j + 1))) < ChunkSize
        OBVIOUS
      <3>1. j \in Nat /\ k + j \in Nat /\ k + j <= n /\ k + (j + 1) = (k + j) + 1 /\ (k + j) + 1 \in k..n /\ (k + j) + 1 \in Nat
        BY <1>1
      <3>2. Cardinality(H(k + j)) < ChunkSize
        BY <3>1
      <3> DEFINE a == Cardinality(H(k + j))
                 b == Cardinality(H((k + j) + 1))
      <3>3. b <= a + 1 /\ a \in Nat /\ b \in Nat /\ b # ChunkSize /\ a < ChunkSize
        BY <1>6, <2>2, <3>1, <3>2
      <3> HIDE DEF a, b
      <3>4. b < ChunkSize
        BY <1>1, <3>3
      <3> QED
        BY <3>1, <3>4 DEF b
    <2>5. T = Nat
      <3>1. T \in SUBSET Nat
        OBVIOUS
      <3> HIDE DEF T
      <3> QED
        BY <2>3, <2>4, <3>1, SetInduction
    <2>6. n - k \in Nat /\ k + (n - k) = n /\ n <= n
      BY <1>1
    <2>7. Cardinality(H(n)) < ChunkSize
      <3>1. n - k \in T
        BY <2>5, <2>6
      <3> QED
        BY <2>6, <3>1
    <2> QED
      BY <1>1, <1>6, <2>1, <2>7
  <1> DEFINE I == {all[i] : i \in H(end)}
  <1>10. IsFiniteSet(I) /\ Cardinality(I) <= Cardinality(H(end))
    <2> DEFINE D == H(end)
    <2>1. IsFiniteSet(D)
      BY <1>4, <1>6
    <2> HIDE DEF D
    <2>2. IsFiniteSet({all[i] : i \in D}) /\ Cardinality({all[i] : i \in D}) <= Cardinality(D)
      BY <2>1, ImageCount
    <2> QED
      BY <2>2 DEF D
  <1>11. Cardinality(I) \in Nat /\ Cardinality(H(end)) \in Nat
    BY <1>4, <1>6, <1>10, FS_CardinalityType
  <1> HIDE DEF I
  <1>12. Cardinality(I) <= ChunkSize
    BY <1>1, <1>9, <1>10, <1>11
  <1>13. c.end = end /\ c.items = I
    BY <1>2 DEF I
  <1> QED
    BY <1>5, <1>8, <1>10, <1>12, <1>13 DEF c, n, H, I

Messages(all) == [items : SUBSET Elements(all), last : BOOLEAN]

Streams(all) == [at : 0..Len(all), msgs : Seq(Messages(all))]

LEMMA SendChunkType ==
  ASSUME NEW X, NEW all \in Seq(X), NEW match, NEW s \in Streams(all)
  PROVE  SendChunk(all, match, s) \in Streams(all)
  <1>1. CASE s.at = Len(all) /\ s.msgs # <<>>
    BY <1>1 DEF SendChunk
  <1>2. CASE ~(s.at = Len(all) /\ s.msgs # <<>>)
    <2> DEFINE c == FillChunk(all, match, s.at)
               msg == [items |-> c.items, last |-> IsLast(Len(all) - c.end, ChunkSize - Cardinality(c.items))]
    <2>1. SendChunk(all, match, s) = [at |-> c.end, msgs |-> Append(s.msgs, msg)]
      BY <1>2 DEF SendChunk
    <2>2. s.at \in 0..Len(all) /\ s.msgs \in Seq(Messages(all))
      BY DEF Streams
    <2>3. c.end \in s.at..Len(all) /\ c.items = {all[i] : i \in Hits(all, match, s.at, c.end)}
      BY <2>2, FillChunkOK
    <2> HIDE DEF c
    <2>4. Len(all) \in Nat /\ c.end \in 0..Len(all)
      BY <2>2, <2>3
    <2>5. \A i \in Hits(all, match, s.at, c.end) : i \in DOMAIN all
      BY <2>2, <2>3, <2>4 DEF Hits
    <2>6. c.items \in SUBSET Elements(all)
      BY <2>3, <2>5 DEF Elements
    <2>7. msg \in Messages(all)
      <3>1. IsLast(Len(all) - c.end, ChunkSize - Cardinality(c.items)) \in BOOLEAN
        BY DEF IsLast
      <3> QED
        BY <2>6, <3>1 DEF Messages
    <2> HIDE DEF msg
    <2>8. Append(s.msgs, msg) \in Seq(Messages(all))
      BY <2>2, <2>7
    <2> QED
      BY <2>1, <2>4, <2>8 DEF Streams
  <1> QED
    BY <1>1, <1>2

\* After n rounds.
StreamOK(all, match, s, n) ==
    /\ s \in Streams(all)
    /\ s.msgs = <<>> => n = 0
    /\ s.at = Len(all) \/ s.at >= n
    /\ \A i \in 1..Len(s.msgs) :
         /\ IsFiniteSet(s.msgs[i].items) /\ Cardinality(s.msgs[i].items) <= ChunkSize
         /\ s.msgs[i].last <=> (i = Len(s.msgs) /\ s.at = Len(all))
    /\ \A i, j \in 1..Len(s.msgs) : i # j => s.msgs[i].items \cap s.msgs[j].items = {}
    /\ \A x : (\E i \in 1..Len(s.msgs) : x \in s.msgs[i].items) <=>
                 \E i \in Hits(all, match, 0, s.at) : x = all[i]

LEMMA SendChunkOK ==
  ASSUME NEW X, NEW all \in Seq(X), \A i, j \in 1..Len(all) : all[i] = all[j] => i = j,
         NEW match, NEW s, NEW n \in Nat, StreamOK(all, match, s, n)
  PROVE  StreamOK(all, match, SendChunk(all, match, s), n + 1)
  <1>0. s \in Streams(all) /\ SendChunk(all, match, s) \in Streams(all)
    BY SendChunkType DEF StreamOK
  <1>1. CASE s.at = Len(all) /\ s.msgs # <<>>
    <2>1. SendChunk(all, match, s) = s
      BY <1>1 DEF SendChunk
    <2> QED
      BY <1>1, <2>1 DEF StreamOK
  <1>2. CASE ~(s.at = Len(all) /\ s.msgs # <<>>)
    <2> DEFINE k == s.at
               L == Len(all)
               c == FillChunk(all, match, k)
               msg == [items |-> c.items, last |-> IsLast(L - c.end, ChunkSize - Cardinality(c.items))]
               old == s.msgs
               new == Append(old, msg)
               m == Len(old)
               d == SendChunk(all, match, s)
    <2> SUFFICES StreamOK(all, match, d, n + 1)
      OBVIOUS
    <2>1. d = [at |-> c.end, msgs |-> new]
      BY <1>2 DEF SendChunk
    <2>2. k \in 0..L /\ old \in Seq(Messages(all)) /\ L \in Nat /\ k \in Nat
      BY <1>0 DEF Streams
    <2>3. /\ c.end \in k..L /\ (c.end = k => k = L)
          /\ c.items = {all[i] : i \in Hits(all, match, k, c.end)}
          /\ IsFiniteSet(c.items) /\ Cardinality(c.items) <= ChunkSize
      BY <2>2, FillChunkOK
    <2> HIDE DEF c
    <2>4. c.end \in Nat /\ c.end >= k /\ c.end <= L
      BY <2>2, <2>3
    <2>5. msg.items = c.items /\ (msg.last <=> c.end = L)
      <3>1. IsLast(L - c.end, ChunkSize - Cardinality(c.items)) <=> c.end = L
        BY <2>2, <2>4 DEF IsLast
      <3> QED
        BY <3>1
    <2>6. d.at = c.end /\ d.msgs = new
      BY <2>1
    <2> HIDE DEF msg, d
    <2>7. m \in Nat /\ Len(new) = m + 1 /\ new[m + 1] = msg /\ \A i \in 1..m : new[i] = old[i]
      <3>1. new \in Seq({old[i] : i \in 1..m} \cup {msg}) /\ m \in Nat /\ Len(new) = m + 1
        BY <2>2
      <3> QED
        BY <2>2, <3>1
    <2> HIDE DEF new
    <2>8. new # <<>>
      BY <2>7
    <2>9. d.at = L \/ d.at >= n + 1
      <3>1. k = L \/ k >= n
        BY DEF StreamOK
      <3> QED
        BY <2>2, <2>3, <2>4, <2>6, <3>1
    <2>10. \A i \in 1..m : ~old[i].last
      <3>1. m = 0 \/ k # L
        BY <1>2, <2>2
      <3>2. \A i \in 1..m : old[i].last <=> (i = m /\ k = L)
        BY DEF StreamOK
      <3> QED
        BY <3>1, <3>2
    <2>11. \A i \in 1..(m + 1) : i \in 1..m \/ i = m + 1
      BY <2>7
    <2>12. ASSUME NEW i \in 1..(m + 1)
           PROVE  /\ IsFiniteSet(new[i].items) /\ Cardinality(new[i].items) <= ChunkSize
                  /\ new[i].last <=> (i = m + 1 /\ d.at = L)
      <3>1. CASE i \in 1..m
        <4>1. new[i] = old[i] /\ i # m + 1
          BY <2>7, <3>1
        <4>2. IsFiniteSet(old[i].items) /\ Cardinality(old[i].items) <= ChunkSize
          BY <3>1 DEF StreamOK
        <4> QED
          BY <2>10, <3>1, <4>1, <4>2
      <3>2. CASE i = m + 1
        BY <2>3, <2>5, <2>6, <2>7, <3>2
      <3> QED
        BY <2>11, <3>1, <3>2
    <2>13. \A x : (\E i \in 1..m : x \in old[i].items) <=> \E i \in Hits(all, match, 0, k) : x = all[i]
      BY DEF StreamOK
    <2>14. /\ \A i \in Hits(all, match, 0, k) : i \in 1..L /\ i <= k /\ i \in Hits(all, match, 0, c.end)
           /\ \A i \in Hits(all, match, k, c.end) : i \in 1..L /\ i > k /\ i \in Hits(all, match, 0, c.end)
           /\ \A i \in Hits(all, match, 0, c.end) :
                i \in Hits(all, match, 0, k) \/ i \in Hits(all, match, k, c.end)
      BY <2>2, <2>4 DEF Hits
    <2>15. ASSUME NEW i \in 1..m PROVE old[i].items \cap c.items = {}
      <3> SUFFICES ASSUME NEW x, x \in old[i].items, x \in c.items PROVE FALSE
        OBVIOUS
      <3>1. PICK a \in Hits(all, match, 0, k) : x = all[a]
        BY <2>13
      <3>2. PICK b \in Hits(all, match, k, c.end) : x = all[b]
        BY <2>3
      <3>3. a = b
        BY <2>14, <3>1, <3>2
      <3>4. a <= k /\ b > k
        BY <2>14
      <3> QED
        BY <2>2, <2>14, <3>3, <3>4
    <2>16. ASSUME NEW i \in 1..(m + 1), NEW j \in 1..(m + 1), i # j
           PROVE  new[i].items \cap new[j].items = {}
      <3>1. CASE i \in 1..m /\ j \in 1..m
        <4>1. old[i].items \cap old[j].items = {}
          BY <2>16, <3>1 DEF StreamOK
        <4> QED
          BY <2>7, <3>1, <4>1
      <3>2. CASE i \in 1..m /\ j = m + 1
        BY <2>5, <2>7, <2>15, <3>2
      <3>3. CASE j \in 1..m /\ i = m + 1
        BY <2>5, <2>7, <2>15, <3>3
      <3> QED
        BY <2>11, <2>16, <3>1, <3>2, <3>3
    <2>17. ASSUME NEW x
           PROVE  (\E i \in 1..(m + 1) : x \in new[i].items) <=>
                     \E i \in Hits(all, match, 0, d.at) : x = all[i]
      <3>1. (\E i \in 1..(m + 1) : x \in new[i].items) <=> (\E i \in 1..m : x \in old[i].items) \/ x \in c.items
        <4>1. m + 1 \in 1..(m + 1) /\ \A i \in 1..m : i \in 1..(m + 1)
          BY <2>7
        <4> QED
          BY <2>5, <2>7, <2>11, <4>1
      <3>2. x \in c.items <=> \E i \in Hits(all, match, k, c.end) : x = all[i]
        BY <2>3
      <3> QED
        BY <2>6, <2>13, <2>14, <3>1, <3>2
    <2> HIDE DEF m, L, old, k
    <2> QED
      BY <1>0, <2>6, <2>7, <2>8, <2>9, <2>12, <2>16, <2>17 DEF StreamOK, d, L
  <1> QED
    BY <1>1, <1>2

LEMMA ChunksOK ==
  ASSUME NEW X, NEW all \in Seq(X), \A i, j \in 1..Len(all) : all[i] = all[j] => i = j, NEW match
  PROVE  \E s : StreamOK(all, match, s, Len(all) + 1) /\ s.at = Len(all) /\ Chunks(all, match) = s.msgs
  <1> DEFINE S == Streams(all)
             x == [at |-> 0, msgs |-> <<>>]
             Step(s) == SendChunk(all, match, s)
             F == [n \in Nat |-> [s \in S |-> Step(s)]]
             sent == CHOOSE f : f = [n \in Nat |-> IF n = 0 THEN x ELSE Step(f[n - 1])]
  <1>1. \A s \in S : Step(s) \in S
    BY SendChunkType
  <1>2. x \in S /\ Len(all) \in Nat
    BY DEF Streams
  <1>3. Chunks(all, match) = sent[Len(all) + 1].msgs
    BY DEF Chunks
  <1> HIDE DEF S, x, Step
  <1>4. F \in [Nat -> [S -> S]]
    BY <1>1
  <1>5. PICK r : Iterates(r, S, x, F)
    <2> HIDE DEF F
    <2> QED
      BY <1>2, <1>4, Iteration
  <1>6. r \in [Nat -> S] /\ r[0] = x /\ \A n \in Nat \ {0} : r[n] = F[n][r[n - 1]]
    BY <1>5 DEF Iterates
  <1>7. r = [n \in Nat |-> IF n = 0 THEN x ELSE Step(r[n - 1])]
    <2>1. \A n \in Nat \ {0} : n - 1 \in Nat /\ r[n - 1] \in S
      <3>1. \A n \in Nat \ {0} : n - 1 \in Nat
        OBVIOUS
      <3> QED
        BY <1>6, <3>1
    <2>2. \A n \in Nat \ {0} : F[n][r[n - 1]] = Step(r[n - 1])
      BY <2>1
    <2>3. \A n \in Nat : r[n] = IF n = 0 THEN x ELSE Step(r[n - 1])
      BY <1>6, <2>2
    <2> QED
      BY <1>6, <2>3
  <1>8. sent = [n \in Nat |-> IF n = 0 THEN x ELSE Step(sent[n - 1])]
    BY <1>7
  <1> HIDE DEF sent
  <1> DEFINE T == {n \in Nat : StreamOK(all, match, sent[n], n)}
  <1>9. 0 \in T
    <2>1. sent[0] = x
      BY <1>8
    <2>2. x.at = 0 /\ x.msgs = <<>> /\ x \in Streams(all) /\ Len(x.msgs) = 0 /\ x.at >= 0
      BY <1>2 DEF x, S
    <2>3. Hits(all, match, 0, x.at) = {}
      BY <2>2 DEF Hits
    <2>4. StreamOK(all, match, x, 0)
      BY <2>2, <2>3 DEF StreamOK
    <2> QED
      BY <2>1, <2>4
  <1>10. ASSUME NEW n \in T PROVE n + 1 \in T
    <2>1. n + 1 \in Nat /\ n + 1 # 0 /\ (n + 1) - 1 = n
      OBVIOUS
    <2>2. sent[n + 1] = SendChunk(all, match, sent[n])
      BY <1>8, <2>1 DEF Step
    <2>3. StreamOK(all, match, sent[n], n) /\ n \in Nat
      OBVIOUS
    <2>4. StreamOK(all, match, SendChunk(all, match, sent[n]), n + 1)
      BY <2>3, SendChunkOK
    <2> QED
      BY <2>1, <2>2, <2>4
  <1>11. T = Nat
    <2>1. T \in SUBSET Nat
      OBVIOUS
    <2> HIDE DEF T
    <2> QED
      BY <1>9, <1>10, <2>1, SetInduction
  <1> DEFINE s == sent[Len(all) + 1]
  <1>12. StreamOK(all, match, s, Len(all) + 1)
    <2>1. Len(all) + 1 \in T
      BY <1>2, <1>11
    <2> QED
      BY <2>1
  <1> HIDE DEF s
  <1>13. s.at = Len(all)
    <2>1. s.at \in 0..Len(all) /\ (s.at = Len(all) \/ s.at >= Len(all) + 1)
      BY <1>12 DEF StreamOK, Streams
    <2> QED
      BY <1>2, <2>1
  <1> QED
    BY <1>3, <1>12, <1>13 DEF s

Once(s) == \A i, j \in 1..Len(s) : s[i] = s[j] => i = j

LEMMA JoinedOnce ==
  ASSUME NEW X, NEW g \in Seq(X), NEW h \in Seq(X), Once(g), Once(h), Elements(g) \cap Elements(h) = {}
  PROVE  g \o h \in Seq(X) /\ Once(g \o h) /\ Elements(g \o h) = Elements(g) \cup Elements(h)
  <1> DEFINE n == Len(g)
             k == Len(h)
             s == g \o h
  <1>1. /\ n \in Nat /\ k \in Nat /\ s \in Seq(X) /\ Len(s) = n + k
        /\ DOMAIN g = 1..n /\ DOMAIN h = 1..k /\ DOMAIN s = 1..(n + k)
        /\ \A i \in 1..(n + k) : s[i] = IF i <= n THEN g[i] ELSE h[i - n]
    OBVIOUS
  <1> HIDE DEF n, k, s
  <1>2. \A i \in 1..(n + k) : (i \in 1..n /\ s[i] = g[i]) \/ (i - n \in 1..k /\ s[i] = h[i - n] /\ i > n)
    BY <1>1
  <1>3. \A i \in 1..n : i \in 1..(n + k) /\ s[i] = g[i]
    BY <1>1
  <1>4. \A i \in 1..k : n + i \in 1..(n + k) /\ s[n + i] = h[i]
    <2>1. \A i \in 1..k : n + i \in 1..(n + k) /\ ~(n + i <= n) /\ (n + i) - n = i
      BY <1>1
    <2> QED
      BY <1>1, <2>1
  <1>5. Elements(s) = Elements(g) \cup Elements(h)
    <2>1. DOMAIN g = 1..n /\ DOMAIN h = 1..k /\ DOMAIN s = 1..(n + k)
      BY <1>1
    <2> QED
      BY <1>2, <1>3, <1>4, <2>1 DEF Elements
  <1>6. \A i \in 1..n : g[i] \in Elements(g)
    BY <1>1 DEF Elements
  <1>7. \A i \in 1..k : h[i] \in Elements(h)
    BY <1>1 DEF Elements
  <1>8. ASSUME NEW i \in 1..(n + k), NEW j \in 1..(n + k), s[i] = s[j] PROVE i = j
    <2>1. \A a \in 1..n : \A b \in 1..k : g[a] # h[b]
      BY <1>6, <1>7
    <2>2. CASE i \in 1..n /\ j \in 1..n
      BY <1>3, <1>8, <2>2 DEF Once, n
    <2>3. CASE i - n \in 1..k /\ j - n \in 1..k /\ s[i] = h[i - n] /\ s[j] = h[j - n]
      <3>1. i - n = j - n
        BY <1>8, <2>3 DEF Once, k
      <3> QED
        BY <1>1, <3>1
    <2> QED
      BY <1>2, <1>8, <2>1, <2>2, <2>3
  <1>9. Once(s)
    BY <1>1, <1>8 DEF Once
  <1> QED
    BY <1>1, <1>5, <1>9 DEF s

LEMMA InOrderOK ==
  ASSUME NEW X, NEW kind, NEW ids \in SUBSET Nat, IsFiniteSet(ids), {kind} \X ids \subseteq X
  PROVE  /\ InOrder(kind, ids) \in Seq(X) /\ Once(InOrder(kind, ids))
         /\ Elements(InOrder(kind, ids)) = {kind} \X ids
  <1> DEFINE n == Cardinality(ids)
             f == FirstOf(ids, n)
             s == InOrder(kind, ids)
  <1>1. n \in Nat
    BY FS_CardinalityType
  <1>2. Firsts(f, ids, n) /\ Len(f) = n
    <2>1. Len(f) = IF n < n THEN n ELSE n
      BY <1>1, FirstOfOK
    <2> QED
      BY <1>1, <2>1, FirstOfOK
  <1>3. IsFiniteSet(Elements(f)) /\ Cardinality(Elements(f)) = n
    BY <1>1, <1>2, FirstOfCount
  <1>4. s = [i \in 1..n |-> <<kind, f[i]>>]
    BY DEF InOrder
  <1> HIDE DEF f, s, n
  <1>5. f \in Seq(ids) /\ DOMAIN f = 1..n /\ \A i, j \in 1..n : i < j => f[i] < f[j]
    BY <1>2 DEF Firsts
  <1>6. \A i \in 1..n : f[i] \in ids
    BY <1>2, <1>5
  <1>7. Elements(f) \in SUBSET ids
    BY <1>5, <1>6 DEF Elements
  <1>8. Elements(f) = ids
    BY <1>3, <1>7, FS_Subset DEF n
  <1>9. s \in [1..n -> X]
    BY <1>4, <1>6
  <1>10. s \in Seq(X) /\ Len(s) = n /\ DOMAIN s = 1..n
    BY <1>1, <1>9
  <1>11. Elements(s) = {kind} \X ids
    <2>1. Elements(s) = {<<kind, f[i]>> : i \in 1..n}
      BY <1>4, <1>10 DEF Elements
    <2>2. Elements(f) = {f[i] : i \in 1..n}
      BY <1>5 DEF Elements
    <2> QED
      BY <1>8, <2>1, <2>2
  <1>12. Once(s)
    <2> SUFFICES ASSUME NEW i \in 1..n, NEW j \in 1..n, s[i] = s[j], i # j PROVE FALSE
      BY <1>10 DEF Once
    <2>1. f[i] = f[j]
      BY <1>4
    <2>2. f[i] \in Nat /\ f[j] \in Nat
      BY <1>6
    <2>3. i < j \/ j < i
      BY <1>1
    <2> QED
      BY <1>5, <2>1, <2>2, <2>3
  <1> QED
    BY <1>10, <1>11, <1>12 DEF s

\* The entities that match, by kind.
Selected(t, f) ==
    ({"nodes"} \X NodeIds(t, f)) \cup ({"links"} \X LinkIds(t, f)) \cup ({"prefixes"} \X PrefixIds(t, f))

\* msgs have what matches, each entity once, and only the last one says so.
StreamRight(msgs, t, f) ==
    /\ DOMAIN msgs = 1..Len(msgs) /\ Len(msgs) \in Nat
    /\ \A i \in DOMAIN msgs : Cardinality(msgs[i].items) <= ChunkSize /\ (msgs[i].last <=> i = Len(msgs))
    /\ \A i, j \in DOMAIN msgs : i # j => msgs[i].items \cap msgs[j].items = {}
    /\ UNION {msgs[i].items : i \in DOMAIN msgs} = Selected(t, f)

LEMMA StreamIsRight ==
  ASSUME NEW t, Topology(t), NEW f
  PROVE  StreamRight(StreamSnapshot(t, f), t, f)
  <1> DEFINE X == {"nodes", "links", "prefixes"} \X Nat
             a == InOrder("nodes", DOMAIN t.nodes)
             b == InOrder("links", DOMAIN t.links)
             c == InOrder("prefixes", DOMAIN t.prefixes)
             all == a \o b \o c
             match == Selected(t, f)
             msgs == StreamSnapshot(t, f)
  <1> SUFFICES StreamRight(msgs, t, f)
    OBVIOUS
  <1>1. /\ DOMAIN t.nodes \in SUBSET Nat /\ IsFiniteSet(DOMAIN t.nodes)
        /\ DOMAIN t.links \in SUBSET Nat /\ IsFiniteSet(DOMAIN t.links)
        /\ DOMAIN t.prefixes \in SUBSET Nat /\ IsFiniteSet(DOMAIN t.prefixes)
    BY DEF Topology, Kinds
  <1>2. /\ {"nodes"} \X DOMAIN t.nodes \subseteq X
        /\ {"links"} \X DOMAIN t.links \subseteq X
        /\ {"prefixes"} \X DOMAIN t.prefixes \subseteq X
    BY <1>1
  <1> HIDE DEF X
  <1>3. /\ a \in Seq(X) /\ Once(a) /\ Elements(a) = {"nodes"} \X DOMAIN t.nodes
        /\ b \in Seq(X) /\ Once(b) /\ Elements(b) = {"links"} \X DOMAIN t.links
        /\ c \in Seq(X) /\ Once(c) /\ Elements(c) = {"prefixes"} \X DOMAIN t.prefixes
    BY <1>1, <1>2, InOrderOK
  <1> HIDE DEF a, b, c
  <1>4. a \o b \in Seq(X) /\ Once(a \o b) /\ Elements(a \o b) = Elements(a) \cup Elements(b)
    <2>1. Elements(a) \cap Elements(b) = {}
      BY <1>3
    <2> QED
      BY <1>3, <2>1, JoinedOnce
  <1>5. all \in Seq(X) /\ Once(all) /\ Elements(all) = Elements(a) \cup Elements(b) \cup Elements(c)
    <2>1. Elements(a \o b) \cap Elements(c) = {}
      BY <1>3, <1>4
    <2> DEFINE d == a \o b
    <2>2. d \in Seq(X) /\ Once(d) /\ Elements(d) \cap Elements(c) = {}
      BY <1>4, <2>1
    <2> HIDE DEF d, all
    <2>3. d \o c \in Seq(X) /\ Once(d \o c) /\ Elements(d \o c) = Elements(d) \cup Elements(c)
      BY <1>3, <2>2, JoinedOnce
    <2> QED
      BY <1>4, <2>3 DEF all, d
  <1>6. msgs = Chunks(all, match)
    BY DEF StreamSnapshot, a, b, c, Selected
  <1> HIDE DEF all, match, msgs
  <1>7. PICK s : StreamOK(all, match, s, Len(all) + 1) /\ s.at = Len(all) /\ msgs = s.msgs
    <2>1. \A i, j \in 1..Len(all) : all[i] = all[j] => i = j
      BY <1>5 DEF Once
    <2> QED
      BY <1>5, <1>6, <2>1, ChunksOK
  <1>8. DOMAIN msgs = 1..Len(msgs) /\ Len(msgs) \in Nat
    BY <1>7 DEF StreamOK, Streams
  <1>9. \A i \in 1..Len(msgs) : Cardinality(msgs[i].items) <= ChunkSize /\ (msgs[i].last <=> i = Len(msgs))
    BY <1>7 DEF StreamOK
  <1>10. \A i, j \in 1..Len(msgs) : i # j => msgs[i].items \cap msgs[j].items = {}
    BY <1>7 DEF StreamOK
  <1>11. Elements(all) \cap match = match
    <2>1. NodeIds(t, f) \subseteq DOMAIN t.nodes /\ LinkIds(t, f) \subseteq DOMAIN t.links
             /\ PrefixIds(t, f) \subseteq DOMAIN t.prefixes
      BY DEF NodeIds, LinkIds, PrefixIds
    <2> QED
      BY <1>3, <1>5, <2>1 DEF match, Selected
  <1>12. ASSUME NEW x PROVE x \in UNION {msgs[i].items : i \in DOMAIN msgs} <=> x \in match
    <2>1. (\E i \in 1..Len(msgs) : x \in msgs[i].items) <=> \E i \in Hits(all, match, 0, Len(all)) : x = all[i]
      <3>1. (\E i \in 1..Len(s.msgs) : x \in s.msgs[i].items) <=> \E i \in Hits(all, match, 0, s.at) : x = all[i]
        BY <1>7 DEF StreamOK
      <3> QED
        BY <1>7, <3>1
    <2>2. (\E i \in Hits(all, match, 0, Len(all)) : x = all[i]) <=> x \in Elements(all) /\ x \in match
      <3>1. DOMAIN all = 1..Len(all) /\ 0 + 1 = 1
        BY <1>5
      <3> QED
        BY <3>1 DEF Hits, Elements
    <2> QED
      BY <1>8, <1>11, <2>1, <2>2
  <1>13. UNION {msgs[i].items : i \in DOMAIN msgs} = match
    BY <1>12
  <1> QED
    BY <1>8, <1>9, <1>10, <1>13 DEF match, StreamRight

LEMMA ListLength ==
  ASSUME NEW ids \in SUBSET (Nat \ {0}), IsFiniteSet(ids), NEW size \in Int
  PROVE  Len(Page(ids, PageBounds(size), 0).items) <= MaxSize
  <1> DEFINE n == PageBounds(size)
             page == Page(ids, n, 0)
  <1>1. n \in 1..MaxSize /\ MaxSize \in Nat
    BY PageBoundsOK, SizesAssumption
  <1> HIDE DEF n
  <1>2. PageOK(page, ids, n, 0)
    BY <1>1, PageIsRight
  <1> HIDE DEF page
  <1>3. page.items \in Seq(ids) /\ Len(page.items) <= n
    BY <1>2 DEF PageOK
  <1>4. Len(page.items) \in Nat
    BY <1>3
  <1>5. Len(page.items) <= MaxSize
    BY <1>1, <1>3, <1>4
  <1> QED
    BY <1>5 DEF page, n

\* Nothing that is read is malformed or longer than it may be.
THEOREM ReadsTyped == ListSpec => []ListTypeOK
  <1>1. LInv => ListTypeOK
    <2> SUFFICES ASSUME LInv PROVE ListTypeOK
      OBVIOUS
    <2>1. Topology(topo) /\ journal \in Seq(Nat) /\ Len(journal) <= MaxRev /\ cut \in 0..Len(journal)
      BY DEF LInv
    <2>2. ASSUME client # Absent
          PROVE  /\ client.filter # NilFilter => TopologyFilter(client.filter)
                 /\ client.done \in BOOLEAN /\ client.after \in Nat
      <3>1. client.filter \in Filters \cup {NilFilter} /\ Paging(client)
        BY <2>2 DEF LInv, ClientOK
      <3>2. client.filter # NilFilter => TopologyFilter(client.filter)
        BY <3>1, InputsAssumption
      <3> QED
        BY <3>1, <3>2 DEF Paging
    <2>3. ASSUME NEW f \in Filters
          PROVE  LET msgs == StreamSnapshot(topo, f)
                 IN \A i \in DOMAIN msgs : Cardinality(msgs[i].items) <= ChunkSize
      BY <2>1, StreamIsRight DEF StreamRight
    <2>4. ASSUME NEW f \in Filters, NEW size \in PageSizes
          PROVE  /\ \A kind \in Kinds : Len(List(kind, topo, f, size, 0).items) <= MaxSize
                 /\ Len(ListChanges(f, size, 0, 0, 0).items) <= MaxSize
      <3>1. size \in Int
        BY InputsAssumption
      <3>2. ASSUME NEW kind \in Kinds PROVE Len(List(kind, topo, f, size, 0).items) <= MaxSize
        <4> DEFINE ids == Matching(kind, topo, f)
        <4>1. List(kind, topo, f, size, 0) = Page(ids, PageBounds(size), 0)
          BY ListIsPage
        <4>2. ids \in SUBSET (Nat \ {0}) /\ IsFiniteSet(ids)
          BY <2>1, MatchingIds
        <4> HIDE DEF ids
        <4>3. Len(Page(ids, PageBounds(size), 0).items) <= MaxSize
          BY <3>1, <4>2, ListLength
        <4> QED
          BY <4>1, <4>3
      <3>3. Len(ListChanges(f, size, 0, 0, 0).items) <= MaxSize
        <4> DEFINE n == PageBounds(size)
                   E == Events(0, 0, n + 1)
                   ids == {r \in E : ChangeMatch(r, f)}
        <4>1. ListChanges(f, size, 0, 0, 0) = Page(ids, n, 0)
          BY DEF ListChanges, Cursor
        <4>2. n \in Nat
          <5>1. n \in 1..MaxSize /\ MaxSize \in Nat
            BY <3>1, PageBoundsOK, SizesAssumption
          <5> HIDE DEF n
          <5> QED
            BY <5>1
        <4>3. n + 1 \in Nat
          BY <4>2
        <4>4. E \in SUBSET {r \in 1..Len(journal) : r > cut /\ r > 0 /\ (0 = 0 \/ r <= 0)} /\ IsFiniteSet(E)
          BY <2>1, <4>3, EventsOK
        <4>5. E \in SUBSET (Nat \ {0})
          BY <2>1, <4>4
        <4> HIDE DEF E
        <4>6. ids \in SUBSET E
          OBVIOUS
        <4> HIDE DEF ids
        <4>7. ids \in SUBSET (Nat \ {0}) /\ IsFiniteSet(ids)
          BY <4>4, <4>5, <4>6, FS_Subset
        <4>8. Len(Page(ids, n, 0).items) <= MaxSize
          BY <3>1, <4>7, ListLength
        <4> QED
          BY <4>1, <4>8
      <3> QED
        BY <3>2, <3>3
    <2> QED
      BY <2>1, <2>2, <2>3, <2>4 DEF ListTypeOK
  <1> QED
    BY <1>1, ListingsFollow, PTL

LEMMA PairCount ==
  ASSUME NEW k, NEW S, IsFiniteSet(S)
  PROVE  IsFiniteSet({k} \X S) /\ Cardinality({k} \X S) = Cardinality(S)
  <1> DEFINE f == [x \in S |-> <<k, x>>]
             P == {k} \X S
  <1>1. f \in Bijection(S, P)
    <2>1. f \in [S -> P] /\ (\A x, y \in S : f[x] = f[y] => x = y) /\ \A p \in P : \E x \in S : f[x] = p
      OBVIOUS
    <2> HIDE DEF f, P
    <2> QED
      BY <2>1, Fun_IsBij
  <1> HIDE DEF f, P
  <1>2. ExistsBijection(S, P)
    BY <1>1 DEF ExistsBijection
  <1>3. IsFiniteSet(P) /\ Cardinality(P) = Cardinality(S)
    BY <1>2, FS_Bijection
  <1> QED
    BY <1>3 DEF P

LEMMA SelectedCount ==
  ASSUME NEW t, Topology(t), NEW f
  PROVE  Cardinality(Selected(t, f))
            = Cardinality(NodeIds(t, f)) + Cardinality(LinkIds(t, f)) + Cardinality(PrefixIds(t, f))
  <1> DEFINE n == NodeIds(t, f)
             l == LinkIds(t, f)
             p == PrefixIds(t, f)
             N == {"nodes"} \X n
             L == {"links"} \X l
             P == {"prefixes"} \X p
  <1>1. IsFiniteSet(n) /\ IsFiniteSet(l) /\ IsFiniteSet(p)
    <2>1. n = Matching("nodes", t, f) /\ l = Matching("links", t, f) /\ p = Matching("prefixes", t, f)
      BY DEF Matching
    <2>2. "nodes" \in Kinds /\ "links" \in Kinds /\ "prefixes" \in Kinds
      BY DEF Kinds
    <2> QED
      BY <2>1, <2>2, MatchingIds
  <1>2. N \cap L = {} /\ (N \cup L) \cap P = {}
    OBVIOUS
  <1> HIDE DEF n, l, p
  <1>3. /\ IsFiniteSet(N) /\ Cardinality(N) = Cardinality(n)
        /\ IsFiniteSet(L) /\ Cardinality(L) = Cardinality(l)
        /\ IsFiniteSet(P) /\ Cardinality(P) = Cardinality(p)
    BY <1>1, PairCount
  <1> HIDE DEF N, L, P
  <1>4. IsFiniteSet(N \cup L) /\ Cardinality(N \cup L) = Cardinality(N) + Cardinality(L) - Cardinality(N \cap L)
    BY <1>3, FS_Union
  <1> DEFINE M == N \cup L
  <1>5. IsFiniteSet(M) /\ Cardinality(M \cup P) = Cardinality(M) + Cardinality(P) - Cardinality(M \cap P)
    <2>1. IsFiniteSet(M)
      BY <1>4
    <2> HIDE DEF M
    <2> QED
      BY <1>3, <2>1, FS_Union
  <1>6. Cardinality(N \cap L) = 0 /\ Cardinality(M \cap P) = 0
    BY <1>2, FS_EmptySet
  <1>7. Cardinality(n) \in Nat /\ Cardinality(l) \in Nat /\ Cardinality(p) \in Nat
    BY <1>1, FS_CardinalityType
  <1>8. Selected(t, f) = M \cup P
    BY DEF Selected, N, L, P, n, l, p
  <1>9. Cardinality(M) = Cardinality(n) + Cardinality(l)
    BY <1>3, <1>4, <1>6, <1>7
  <1> HIDE DEF M
  <1>10. Cardinality(M \cup P) = Cardinality(n) + Cardinality(l) + Cardinality(p)
    BY <1>3, <1>5, <1>6, <1>7, <1>9
  <1> QED
    BY <1>8, <1>10 DEF n, l, p

\* The nodes of a domain that a word names are those Resolve shows, if it shows them all,
\* and the end of a path is one of them.
LEMMA ResolveShows ==
  ASSUME NEW t, Topology(t), NEW n \in DOMAIN t.nodes, NEW q \in {t.nodes[n].word} \cup t.nodes[n].names
  PROVE  LET end == ResolveNodeID(t, t.nodes[n].domain, q)
             shown == Resolve(t, {t.nodes[n].domain}, q, ResolveLimit).nodes
         IN Len(shown) < ResolveLimit => {n, end} \subseteq Elements(shown)
  <1> DEFINE d == t.nodes[n].domain
             named == {k \in DOMAIN t.nodes : t.nodes[k].domain = d /\ q \in {t.nodes[k].word} \cup t.nodes[k].names}
             S == {i \in DOMAIN t.nodes : /\ Contains({d}, t.nodes[i].domain)
                                         /\ QueryMatch(q, {t.nodes[i].word} \cup t.nodes[i].names)}
             end == ResolveNodeID(t, d, q)
             shown == Resolve(t, {d}, q, ResolveLimit).nodes
  <1>1. DOMAIN t.nodes \in SUBSET Nat /\ IsFiniteSet(DOMAIN t.nodes)
    BY DEF Topology, Kinds
  <1>2. n \in named /\ named \in SUBSET Nat
    BY <1>1
  <1>3. end \in named
    <2>1. end = Smallest(named)
      BY <1>2 DEF ResolveNodeID
    <2> HIDE DEF named, end
    <2> QED
      BY <1>2, <2>1, SmallestOK
  <1>4. \A k \in named : k \in S
    BY DEF Contains, QueryMatch
  <1>5. ResolveLimit \in Nat
    BY SizesAssumption
  <1>6. shown = FirstOf(S, ResolveLimit)
    BY DEF Resolve
  <1>7. S \in SUBSET DOMAIN t.nodes
    OBVIOUS
  <1> HIDE DEF S, named, end, shown
  <1>8. S \in SUBSET Nat /\ IsFiniteSet(S)
    BY <1>1, <1>7, FS_Subset
  <1>9. Firsts(shown, S, ResolveLimit)
    BY <1>5, <1>6, <1>8, FirstOfOK
  <1>10. ASSUME Len(shown) < ResolveLimit, NEW k \in S PROVE k \in Elements(shown)
    <2>1. shown \in Seq(S) /\ \E j \in 1..Len(shown) : shown[j] = k
      BY <1>9, <1>10 DEF Firsts
    <2> QED
      BY <2>1 DEF Elements
  <1>11. Len(shown) < ResolveLimit => {n, end} \subseteq Elements(shown)
    BY <1>2, <1>3, <1>4, <1>10
  <1> QED
    BY <1>11 DEF end, shown

\* Whatever the topology and the filter, every call that applies the filter sees the same.
THEOREM ReadsAlwaysAgree == ListSpec => []ReadsAgree
  <1>1. LInv => ReadsAgree
    <2> SUFFICES ASSUME LInv, NEW f \in Filters
                 PROVE  LET msgs == StreamSnapshot(topo, f)
                            sent == UNION {msgs[i].items : i \in DOMAIN msgs}
                            Sent(kind) == {e[2] : e \in {x \in sent : x[1] = kind}}
                            sum == GetSummary(topo, f)
                        IN /\ \A i \in DOMAIN msgs : msgs[i].last <=> i = Len(msgs)
                           /\ \A i, j \in DOMAIN msgs : i # j => msgs[i].items \cap msgs[j].items = {}
                           /\ \A kind \in {"nodes", "links", "prefixes"} : Sent(kind) = Matching(kind, topo, f)
                           /\ sum.nodes + sum.links + sum.prefixes = Cardinality(sent)
                           /\ \A n \in DOMAIN topo.nodes : GetNeighbors(topo, n, f).links \subseteq Sent("links")
                           /\ \A n \in Sent("nodes") : Get(topo.nodes, n, topo.nodes[n].fresh # "active") = {n}
                           /\ \A n \in DOMAIN topo.nodes : \A q \in {topo.nodes[n].word} \cup topo.nodes[n].names :
                                LET end == ResolveNodeID(topo, topo.nodes[n].domain, q)
                                    shown == Resolve(topo, {topo.nodes[n].domain}, q, ResolveLimit).nodes
                                IN Len(shown) < ResolveLimit => {n, end} \subseteq Elements(shown)
      BY DEF ReadsAgree
    <2> DEFINE msgs == StreamSnapshot(topo, f)
               sent == UNION {msgs[i].items : i \in DOMAIN msgs}
               Sent(kind) == {e[2] : e \in {x \in sent : x[1] = kind}}
               sum == GetSummary(topo, f)
    <2>1. Topology(topo)
      BY DEF LInv
    <2>2. /\ \A i \in DOMAIN msgs : msgs[i].last <=> i = Len(msgs)
          /\ \A i, j \in DOMAIN msgs : i # j => msgs[i].items \cap msgs[j].items = {}
          /\ sent = Selected(topo, f)
      BY <2>1, StreamIsRight DEF StreamRight
    <2> HIDE DEF msgs, sent
    <2>3. /\ Sent("nodes") = NodeIds(topo, f) /\ Sent("links") = LinkIds(topo, f)
          /\ Sent("prefixes") = PrefixIds(topo, f)
      <3>1. \A e \in sent : \/ e[1] = "nodes" /\ e[2] \in NodeIds(topo, f)
                            \/ e[1] = "links" /\ e[2] \in LinkIds(topo, f)
                            \/ e[1] = "prefixes" /\ e[2] \in PrefixIds(topo, f)
        BY <2>2 DEF Selected
      <3>2. /\ \A x \in NodeIds(topo, f) : <<"nodes", x>> \in sent
            /\ \A x \in LinkIds(topo, f) : <<"links", x>> \in sent
            /\ \A x \in PrefixIds(topo, f) : <<"prefixes", x>> \in sent
        BY <2>2 DEF Selected
      <3>3. Sent("nodes") = NodeIds(topo, f)
        <4>1. \A x \in Sent("nodes") : x \in NodeIds(topo, f)
          BY <3>1
        <4>2. \A x \in NodeIds(topo, f) : x \in Sent("nodes")
          <5> SUFFICES ASSUME NEW x \in NodeIds(topo, f) PROVE x \in Sent("nodes")
            OBVIOUS
          <5> DEFINE e == <<"nodes", x>>
          <5>1. e \in sent /\ e[1] = "nodes" /\ e[2] = x
            BY <3>2
          <5> HIDE DEF e
          <5> QED
            BY <5>1
        <4> QED
          BY <4>1, <4>2
      <3>4. Sent("links") = LinkIds(topo, f)
        <4>1. \A x \in Sent("links") : x \in LinkIds(topo, f)
          BY <3>1
        <4>2. \A x \in LinkIds(topo, f) : x \in Sent("links")
          <5> SUFFICES ASSUME NEW x \in LinkIds(topo, f) PROVE x \in Sent("links")
            OBVIOUS
          <5> DEFINE e == <<"links", x>>
          <5>1. e \in sent /\ e[1] = "links" /\ e[2] = x
            BY <3>2
          <5> HIDE DEF e
          <5> QED
            BY <5>1
        <4> QED
          BY <4>1, <4>2
      <3>5. Sent("prefixes") = PrefixIds(topo, f)
        <4>1. \A x \in Sent("prefixes") : x \in PrefixIds(topo, f)
          BY <3>1
        <4>2. \A x \in PrefixIds(topo, f) : x \in Sent("prefixes")
          <5> SUFFICES ASSUME NEW x \in PrefixIds(topo, f) PROVE x \in Sent("prefixes")
            OBVIOUS
          <5> DEFINE e == <<"prefixes", x>>
          <5>1. e \in sent /\ e[1] = "prefixes" /\ e[2] = x
            BY <3>2
          <5> HIDE DEF e
          <5> QED
            BY <5>1
        <4> QED
          BY <4>1, <4>2
      <3> QED
        BY <3>3, <3>4, <3>5
    <2>4. \A kind \in {"nodes", "links", "prefixes"} : Sent(kind) = Matching(kind, topo, f)
      BY <2>3 DEF Matching
    <2>5. sum.nodes + sum.links + sum.prefixes = Cardinality(sent)
      <3>1. /\ sum.nodes = Cardinality(NodeIds(topo, f)) /\ sum.links = Cardinality(LinkIds(topo, f))
            /\ sum.prefixes = Cardinality(PrefixIds(topo, f))
        BY DEF GetSummary
      <3> QED
        BY <2>1, <2>2, <3>1, SelectedCount
    <2>6. \A n \in DOMAIN topo.nodes : GetNeighbors(topo, n, f).links \subseteq Sent("links")
      <3> HIDE DEF Sent
      <3> QED
        BY <2>3 DEF GetNeighbors
    <2>7. \A n \in Sent("nodes") : Get(topo.nodes, n, topo.nodes[n].fresh # "active") = {n}
      <3> HIDE DEF Sent
      <3> QED
        BY <2>3 DEF NodeIds, Get
    <2>8. \A n \in DOMAIN topo.nodes : \A q \in {topo.nodes[n].word} \cup topo.nodes[n].names :
             LET end == ResolveNodeID(topo, topo.nodes[n].domain, q)
                 shown == Resolve(topo, {topo.nodes[n].domain}, q, ResolveLimit).nodes
             IN Len(shown) < ResolveLimit => {n, end} \subseteq Elements(shown)
      BY <2>1, ResolveShows
    <2> QED
      BY <2>2, <2>4, <2>5, <2>6, <2>7, <2>8 DEF msgs, sent
  <1> QED
    BY <1>1, ListingsFollow, PTL

-----------------------------------------------------------------------------
(* Paths.                                                                   *)

\* A finite graph of links that have their types.
Graph(g) ==
    /\ IsFiniteSet(g.nodes) /\ g.nodes \in SUBSET Nat
    /\ IsFiniteSet(DOMAIN g.links) /\ DOMAIN g.links \in SUBSET Nat
    /\ \A l \in DOMAIN g.links : Link(g.links[l]) /\ g.links[l].from \in g.nodes /\ g.links[l].to \in g.nodes

LEMMA DomainGraphOK ==
  ASSUME NEW t, Topology(t), NEW d
  PROVE  Graph(DomainGraph(t, d)) /\ DomainGraph(t, d).nodes \subseteq DOMAIN t.nodes
  <1> DEFINE g == DomainGraph(t, d)
             N == InDomain(t.nodes, d)
             E == InDomain(t.links, d)
  <1>1. /\ DOMAIN N \subseteq DOMAIN t.nodes /\ DOMAIN E \subseteq DOMAIN t.links
        /\ \A l \in DOMAIN E : E[l] = t.links[l]
    BY DEF InDomain
  <1>2. /\ IsFiniteSet(DOMAIN t.nodes) /\ DOMAIN t.nodes \subseteq Nat \ {0}
        /\ IsFiniteSet(DOMAIN t.links) /\ DOMAIN t.links \subseteq Nat \ {0}
        /\ \A l \in DOMAIN t.links : Link(t.links[l])
    BY DEF Topology, Kinds
  <1>3. g = NewGraph(N, E)
    BY DEF DomainGraph
  <1> HIDE DEF g, N, E
  <1>4. /\ g.nodes = Active(N)
        /\ DOMAIN g.links \subseteq DOMAIN E
        /\ \A l \in DOMAIN g.links : /\ g.links[l] = E[l]
                                     /\ E[l].from \in Active(N) /\ E[l].to \in Active(N)
    BY <1>3 DEF NewGraph, Active
  <1>5. g.nodes \subseteq DOMAIN t.nodes /\ DOMAIN g.links \subseteq DOMAIN t.links
    BY <1>1, <1>4 DEF Active
  <1>6. IsFiniteSet(g.nodes) /\ IsFiniteSet(DOMAIN g.links)
    <2> DEFINE A == g.nodes
               B == DOMAIN g.links
               C == DOMAIN t.nodes
               D == DOMAIN t.links
    <2>1. A \in SUBSET C /\ B \in SUBSET D /\ IsFiniteSet(C) /\ IsFiniteSet(D)
      BY <1>2, <1>5
    <2> HIDE DEF A, B, C, D
    <2>2. IsFiniteSet(A) /\ IsFiniteSet(B)
      BY <2>1, FS_Subset
    <2> QED
      BY <2>2 DEF A, B
  <1>7. \A l \in DOMAIN g.links : Link(g.links[l]) /\ g.links[l].from \in g.nodes /\ g.links[l].to \in g.nodes
    BY <1>1, <1>2, <1>4, <1>5
  <1>8. g.nodes \in SUBSET Nat /\ DOMAIN g.links \in SUBSET Nat
    BY <1>2, <1>5
  <1> QED
    BY <1>5, <1>6, <1>7, <1>8 DEF Graph, g

LEMMA GraphNet ==
  ASSUME NEW g, Graph(g), NEW m \in PathMetric, NEW c
  PROVE  Net(g, m, Usable(g, m, c)) /\ \A l \in Usable(g, m, c) : g.links[l].bandwidth \in Nat
  <1> DEFINE use == Usable(g, m, c)
  <1>1. use \in SUBSET DOMAIN g.links /\ \A l \in use : Metric(g.links[l], m) > 0
    BY DEF Usable
  <1> HIDE DEF use
  <1>2. IsFiniteSet(use)
    <2> DEFINE D == DOMAIN g.links
    <2>1. use \in SUBSET D /\ IsFiniteSet(D)
      BY <1>1 DEF Graph
    <2> HIDE DEF D
    <2> QED
      BY <2>1, FS_Subset
  <1>3. ASSUME NEW l \in use PROVE Metric(g.links[l], m) \in Nat \ {0} /\ g.links[l].bandwidth \in Nat
    <2>1. Link(g.links[l])
      BY <1>1 DEF Graph
    <2>2. g.links[l].igp \in Nat /\ g.links[l].te \in Nat /\ g.links[l].delay \in Nat /\ g.links[l].bandwidth \in Nat
      BY <2>1 DEF Link
    <2>3. m = "igp" \/ m = "te" \/ m = "delay"
      BY DEF PathMetric
    <2>4. Metric(g.links[l], m) \in Nat
      BY <2>2, <2>3 DEF Metric
    <2>5. Metric(g.links[l], m) > 0
      BY <1>1
    <2> QED
      BY <2>2, <2>4, <2>5
  <1>4. Net(g, m, use)
    BY <1>1, <1>2, <1>3 DEF Net, Graph
  <1> QED
    BY <1>3, <1>4 DEF use

\* For every topology the mutations lead to, the first path of ComputePaths costs the
\* least there is from stop to stop and obeys the constraints, and there is an answer
\* exactly when there is a path: what Dijkstra with its stale queue items, the way back
\* over the labels and the joining of segments at the waypoints come to.
THEOREM PathsShortest == ListSpec => []PathsAreShortest
  <1>1. LInv => PathsAreShortest
    <2> SUFFICES ASSUME LInv, NEW d, NEW m \in PathMetric, NEW c \in Constraints, NEW from, NEW to
                 PROVE  LET src == ResolveNodeID(topo, d, from)
                            dst == ResolveNodeID(topo, d, to)
                            g == DomainGraph(topo, d)
                            paths == ComputePaths(topo, d, from, to, m, c, 1)
                            least == CheapestVisit(g, m, c, <<src>> \o c.include \o <<dst>>)
                        IN /\ paths = <<>> <=> least = -1
                           /\ paths # <<>> =>
                                /\ paths[1].cost = least
                                /\ VisitsInOrder(g, src, dst, m, c, paths[1])
                                /\ paths[1].links # <<>> => Bottleneck(g, paths[1]) >= c.bandwidth
      BY DEF PathsAreShortest
    <2> DEFINE src == ResolveNodeID(topo, d, from)
               dst == ResolveNodeID(topo, d, to)
               g == DomainGraph(topo, d)
               paths == ComputePaths(topo, d, from, to, m, c, 1)
               stops == <<src>> \o c.include \o <<dst>>
               least == CheapestVisit(g, m, c, stops)
    <2>1. Graph(g)
      BY DomainGraphOK DEF LInv
    <2>2. Net(g, m, Usable(g, m, c)) /\ \A l \in Usable(g, m, c) : g.links[l].bandwidth \in Nat
      BY <2>1, GraphNet
    <2>3. c.include \in Seq(Nat) /\ c.bandwidth \in Nat
      BY InputsAssumption DEF PathConstraints
    <2>4. paths = IF NoNode \in {src, dst} THEN <<>> ELSE ComputeMany(g, src, dst, m, c, 1)
      BY DEF ComputePaths
    <2> HIDE DEF src, dst, g, paths
    <2>5. CASE NoNode \in {src, dst}
      <3>1. paths = <<>>
        BY <2>4, <2>5
      <3>2. NoNode \notin g.nodes
        BY <2>1, NoNodeAssumption DEF Graph
      <3>3. \E i \in DOMAIN stops : stops[i] \notin g.nodes
        <4> DEFINE W == Nat \cup {src, dst}
                   k == Len(c.include)
        <4>1. c.include \in Seq(W) /\ <<src>> \in Seq(W) /\ <<dst>> \in Seq(W) /\ k \in Nat
          BY <2>3
        <4> HIDE DEF W, k
        <4>2. /\ 1 \in DOMAIN stops /\ stops[1] = src
              /\ k + 2 \in DOMAIN stops /\ stops[k + 2] = dst
          BY <4>1 DEF k
        <4> HIDE DEF stops
        <4> QED
          BY <2>5, <3>2, <4>2
      <3>4. least = -1
        <4> HIDE DEF stops
        <4> QED
          BY <3>3 DEF CheapestVisit
      <3> QED
        BY <3>1, <3>4 DEF src, dst, g, paths
    <2>6. CASE NoNode \notin {src, dst}
      <3>1. paths = ComputeMany(g, src, dst, m, c, 1)
        BY <2>4, <2>6
      <3>2. \/ paths = <<>> /\ PathIsRight(g, m, c, src, dst, NoPath)
            \/ \E p : paths = <<p>> /\ p # NoPath /\ PathIsRight(g, m, c, src, dst, p)
        BY <2>2, <2>3, <3>1, FirstIsRight
      <3>3. CASE paths = <<>> /\ PathIsRight(g, m, c, src, dst, NoPath)
        <4>1. least = -1
          BY <3>3 DEF PathIsRight
        <4> QED
          BY <3>3, <4>1 DEF src, dst, g, paths
      <3>4. ASSUME NEW p, paths = <<p>>, p # NoPath, PathIsRight(g, m, c, src, dst, p)
            PROVE  /\ paths = <<>> <=> least = -1
                   /\ paths # <<>> =>
                        /\ paths[1].cost = least
                        /\ VisitsInOrder(g, src, dst, m, c, paths[1])
                        /\ paths[1].links # <<>> => Bottleneck(g, paths[1]) >= c.bandwidth
        <4>1. /\ p.links \in Seq(Usable(g, m, c)) /\ least \in Nat /\ p.cost = least
              /\ VisitsInOrder(g, src, dst, m, c, p)
          BY <3>4 DEF PathIsRight
        <4>2. p.links # <<>> => Bottleneck(g, p) >= c.bandwidth
          BY <2>2, <2>3, <4>1, BottleneckOK
        <4>3. paths # <<>> /\ paths[1] = p
          BY <3>4
        <4>4. least # -1
          <5> HIDE DEF least
          <5> QED
            BY <4>1
        <4> HIDE DEF least
        <4> QED
          BY <4>1, <4>2, <4>3, <4>4
      <3> QED
        BY <3>2, <3>3, <3>4 DEF src, dst, g, paths
    <2> QED
      BY <2>5, <2>6
  <1> QED
    BY <1>1, ListingsFollow, PTL

\* For every topology, alternatives cost what the first path costs, obey the constraints
\* and differ in their nodes, and are no more than the code allows; and where no links are
\* parallel and there are no waypoints, the search that leaves out one link of the first
\* path at a time finds a second path whenever there is one.
THEOREM AlternativesEqual == ListSpec => []AlternativesAreEqual
  <1>1. LInv => AlternativesAreEqual
    <2> SUFFICES ASSUME LInv, NEW d, NEW m \in PathMetric, NEW c \in Constraints
                 PROVE  LET g == DomainGraph(topo, d)
                            simple == \A k, l \in Usable(g, m, c) :
                                        g.links[k].from = g.links[l].from /\ g.links[k].to = g.links[l].to => k = l
                        IN \A src, dst \in g.nodes :
                             LET paths == ComputeMany(g, src, dst, m, c, MaxPaths)
                                 all == SimplePaths(g, src, m, c)
                                 routes == {w \in PathsTo(all, dst) : w.cost = LeastCost(all, dst)}
                             IN /\ \A i \in DOMAIN paths : /\ VisitsInOrder(g, src, dst, m, c, paths[i])
                                                          /\ paths[i].cost = paths[1].cost
                                /\ \A i, j \in DOMAIN paths : i < j => Hops(g, src, paths[i]) # Hops(g, src, paths[j])
                                /\ Len(paths) <= MaxPaths
                                /\ simple /\ c.include = <<>> /\ Cardinality(routes) > 1 => Len(paths) > 1
      BY DEF AlternativesAreEqual
    <2> DEFINE g == DomainGraph(topo, d)
    <2>1. Graph(g)
      BY DomainGraphOK DEF LInv
    <2>2. Net(g, m, Usable(g, m, c))
      BY <2>1, GraphNet
    <2>3. Limits(c) /\ c.include \in Seq(Nat)
      <3>1. c \in [mt : Nat, bandwidth : Nat, avoidLinks : SUBSET Nat, avoidNodes : SUBSET Nat,
                   require : SUBSET Nat, exclude : SUBSET Nat, include : Seq(Nat)]
        BY InputsAssumption DEF PathConstraints
      <3> QED
        BY <3>1 DEF Limits
    <2>4. \A src, dst \in g.nodes : Promised(g, m, c, src, dst)
      BY <2>2, <2>3, PromiseKept
    <2> QED
      BY <2>4 DEF Promised, NoParallel, Rivals
  <1> QED
    BY <1>1, ListingsFollow, PTL

-----------------------------------------------------------------------------
(* Failures.                                                                *)

\* For every topology and failure, the components of AnalyzeImpact are those the failure
\* leaves, what it calls unreachable is never the larger part, no path that avoids what
\* failed leads across, and the prefixes it names are those that lost their origin.
THEOREM ImpactCut == ListSpec => []ImpactIsTheCut
  <1>1. LInv => ImpactIsTheCut
    <2> SUFFICES ASSUME LInv, NEW d, NEW f
                 PROVE  LET g == DomainGraph(topo, d)
                            alive == g.nodes \ f[1]
                            r == AnalyzeImpact(topo, d, f[1], f[2])
                            c == [NoConstraints EXCEPT !.avoidNodes = f[1], !.avoidLinks = f[2]]
                            Together(a, b) == r.components = {} \/ \E k \in r.components : {a, b} \subseteq k
                            Part(a) == {b \in alive : Together(a, b)}
                        IN /\ r.nodes \subseteq alive
                           /\ \A a, b \in alive :
                                /\ Together(a, b) <=> Connected(g, f[1], f[2], a, b)
                                /\ a \in r.nodes /\ b \notin r.nodes =>
                                     /\ ~Connected(g, f[1], f[2], a, b)
                                     /\ Cardinality(Part(a)) <= Cardinality(Part(b))
                                     /\ ComputeMany(g, a, b, "igp", c, 1) = <<>>
                           /\ \A p \in DOMAIN topo.prefixes :
                                topo.prefixes[p].domain = d /\ topo.prefixes[p].origin \in g.nodes =>
                                    (p \in r.prefixes <=> topo.prefixes[p].origin \notin alive \ r.nodes)
      BY DEF ImpactIsTheCut
    <2> DEFINE g == DomainGraph(topo, d)
               fN == f[1]
               fL == f[2]
               alive == g.nodes \ fN
               r == AnalyzeImpact(topo, d, fN, fL)
               c == [NoConstraints EXCEPT !.avoidNodes = fN, !.avoidLinks = fL]
               Together(a, b) == r.components = {} \/ \E k \in r.components : {a, b} \subseteq k
               Part(a) == {b \in alive : Together(a, b)}
               prefixes == InDomain(topo.prefixes, d)
               edges == Edges(g, fN, fL)
               C == [n \in alive |-> Flood(g, edges, n)]
               comps == {C[n] : n \in alive}
               lost == IF Cardinality(comps) > 1 THEN UNION (comps \ {Largest(comps)}) ELSE {}
               parts == IF Cardinality(comps) > 1 THEN comps ELSE {}
    <2>1. Graph(g)
      BY DomainGraphOK DEF LInv
    <2>2. Ended(g)
      BY <2>1 DEF Graph, Ended
    <2>3. /\ r.components = parts /\ r.nodes = lost
          /\ r.prefixes = {p \in DOMAIN prefixes : prefixes[p].origin \in fN \cup lost}
      <3>1. comps = {Flood(g, edges, n) : n \in alive}
        OBVIOUS
      <3> HIDE DEF C
      <3>2. r = [components |-> parts, nodes |-> lost,
                 prefixes |-> {p \in DOMAIN prefixes : prefixes[p].origin \in fN \cup lost}]
        <4> HIDE DEF comps
        <4> QED
          BY <3>1 DEF AnalyzeImpact, Analyze
      <3> HIDE DEF lost, parts, r
      <3> QED
        BY <3>2
    <2>4. c.avoidNodes = fN /\ c.avoidLinks = fL /\ c.include = <<>>
      BY DEF NoConstraints
    <2>5. /\ DOMAIN prefixes = {p \in DOMAIN topo.prefixes : topo.prefixes[p].domain = d}
          /\ \A p \in DOMAIN prefixes : prefixes[p] = topo.prefixes[p]
      BY DEF InDomain
    <2> HIDE DEF g, fN, fL, prefixes, c, r
    <2>6. Undirected(edges, alive)
      BY <2>2, EdgesOK
    <2>7. \A n \in alive : Component(edges, alive, n, C[n])
      <3>1. alive \in SUBSET g.nodes /\ IsFiniteSet(g.nodes)
        BY <2>2 DEF Ended
      <3>2. \A n \in alive : C[n] = Flood(g, edges, n)
        OBVIOUS
      <3> HIDE DEF C, edges, alive
      <3> QED
        BY <2>6, <3>1, <3>2, FloodOK
    <2>8. alive \in SUBSET Nat
      BY <2>2 DEF Ended
    <2>9. /\ lost \subseteq alive
          /\ \A a, b \in alive : (parts = {} \/ \E k \in parts : {a, b} \subseteq k) <=> b \in C[a]
          /\ \A a, b \in alive : a \in lost /\ b \notin lost =>
               b \notin C[a] /\ Cardinality(C[a]) <= Cardinality(C[b])
      <3>1. Parted(alive, C, comps, lost, parts)
        <4> HIDE DEF C, alive
        <4> QED
          BY DEF Parted
      <3> HIDE DEF alive, edges, C, comps, lost, parts
      <3>2. PartedOK(alive, C, lost, parts)
        BY <2>6, <2>7, <2>8, <3>1, ImpactOK
      <3> QED
        BY <3>2 DEF PartedOK
    <2>10. \A a, b \in alive : b \in C[a] <=> Connected(g, fN, fL, a, b)
      <3> HIDE DEF C
      <3> QED
        BY <2>2, <2>7, ConnectedOK
    <2>11. \A a, b \in alive : Together(a, b) <=> b \in C[a]
      <3> HIDE DEF alive, C, lost, parts
      <3> QED
        BY <2>3, <2>9 DEF Together
    <2>12. \A a \in alive : Part(a) = C[a]
      <3>1. \A a \in alive : C[a] \subseteq alive
        BY <2>7 DEF Component
      <3> HIDE DEF Together, C, alive
      <3> QED
        BY <2>11, <3>1
    <2>13. ASSUME NEW a \in alive, NEW b \in alive, b \notin C[a]
           PROVE  ComputeMany(g, a, b, "igp", c, 1) = <<>>
      <3>1. Net(g, "igp", Usable(g, "igp", c))
        BY <2>1, GraphNet DEF PathMetric
      <3>2. c.include \in Seq(Nat)
        BY <2>4
      <3>3. ASSUME NEW p, p # NoPath, PathIsRight(g, "igp", c, a, b, p) PROVE FALSE
        <4>1. p.links \in Seq(Usable(g, "igp", c)) /\ IsWalk(g, a, b, "igp", c, p.links)
          BY <3>3 DEF PathIsRight, VisitsInOrder
        <4>2. Closed(edges, C[a]) /\ a \in C[a]
          BY <2>7 DEF Component
        <4> HIDE DEF C
        <4>3. b \in C[a]
          BY <2>2, <2>4, <4>1, <4>2, WalkStays
        <4> QED
          BY <2>13, <4>3
      <3> QED
        BY <3>1, <3>2, <3>3, FirstIsRight
    <2>14. ASSUME NEW p \in DOMAIN topo.prefixes, topo.prefixes[p].domain = d, topo.prefixes[p].origin \in g.nodes
           PROVE  p \in r.prefixes <=> topo.prefixes[p].origin \notin alive \ r.nodes
      <3> HIDE DEF lost
      <3> QED
        BY <2>3, <2>5, <2>9, <2>14
    <2> HIDE DEF Together, Part, lost, parts, C
    <2>15. \A a, b \in alive :
              /\ Together(a, b) <=> Connected(g, fN, fL, a, b)
              /\ a \in r.nodes /\ b \notin r.nodes =>
                   /\ ~Connected(g, fN, fL, a, b)
                   /\ Cardinality(Part(a)) <= Cardinality(Part(b))
                   /\ ComputeMany(g, a, b, "igp", c, 1) = <<>>
      BY <2>3, <2>9, <2>10, <2>11, <2>12, <2>13
    <2>16. r.nodes \subseteq alive
      BY <2>3, <2>9
    <2> QED
      BY <2>14, <2>15, <2>16 DEF Together, Part, g, fN, fL, r, c
  <1> QED
    BY <1>1, ListingsFollow, PTL
=============================================================================
