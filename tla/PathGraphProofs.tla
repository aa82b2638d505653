--------------------------- MODULE PathGraphProofs ---------------------------
(***************************************************************************)
(* Proofs about PathGraph.tla, for any links, nodes and constraints: the    *)
(* search is Dijkstra's and its labels are the cheapest costs, the way back *)
(* over them is a path of that cost, the segments join into a cheapest path *)
(* over the waypoints, leaving out a link at a time finds the alternatives, *)
(* and the components are those the failure leaves.                         *)
(***************************************************************************)
EXTENDS PathGraph, FiniteSetTheorems, FunctionTheorems, SequenceTheorems, WellFoundedInduction, TLAPS

\* A set of numbers has a least one.
LEMMA LeastOf ==
  ASSUME NEW T, T \subseteq Nat, T # {}
  PROVE  \E x \in T : \A y \in T : x <= y
  <1>1. PICK x \in T : \A y \in T : ~(<<y, x>> \in OpToRel(<, Nat))
    BY NatLessThanWellFounded, WFMin
  <1>2. \A y \in T : ~(y < x)
    BY <1>1 DEF OpToRel
  <1> QED
    BY <1>2

-----------------------------------------------------------------------------
(* Rounds of a loop.                                                        *)

LEMMA SetInduction ==
  ASSUME NEW T \in SUBSET Nat, 0 \in T, \A n \in T : n + 1 \in T
  PROVE  T = Nat
  <1> SUFFICES ASSUME Nat \ T # {} PROVE FALSE
    OBVIOUS
  <1>1. PICK x \in Nat \ T : \A y \in Nat \ T : x <= y
    <2> DEFINE U == Nat \ T
    <2>1. U \subseteq Nat /\ U # {}
      OBVIOUS
    <2> HIDE DEF U
    <2>2. \E x \in U : \A y \in U : x <= y
      BY <2>1, LeastOf
    <2> QED
      BY <2>2 DEF U
  <1>2. x # 0 /\ x - 1 \in Nat
    BY <1>1
  <1>3. x - 1 \in T
    <2>1. ~(x <= x - 1)
      BY <1>1
    <2> QED
      BY <1>1, <1>2, <2>1
  <1>4. (x - 1) + 1 = x
    BY <1>1
  <1> QED
    BY <1>1, <1>3, <1>4

\* The first k rounds from x.
Rounds(g, k, S, x, F) ==
    /\ g \in [0..k -> S] /\ g[0] = x
    /\ \A n \in 1..k : g[n] = F[n][g[n - 1]]

LEMMA RoundsExist ==
  ASSUME NEW S, NEW x \in S, NEW F \in [Nat -> [S -> S]], NEW k \in Nat
  PROVE  \E g : Rounds(g, k, S, x, F)
  <1> DEFINE T == {n \in Nat : \E g : Rounds(g, n, S, x, F)}
  <1>1. 0 \in T
    <2> DEFINE g == [n \in 0..0 |-> x]
    <2>1. Rounds(g, 0, S, x, F)
      BY DEF Rounds
    <2> QED
      BY <2>1
  <1>2. ASSUME NEW n \in T PROVE n + 1 \in T
    <2>1. PICK g : Rounds(g, n, S, x, F)
      BY <1>2
    <2> DEFINE h == [i \in 0..(n + 1) |-> IF i = n + 1 THEN F[n + 1][g[n]] ELSE g[i]]
    <2>2. n \in Nat /\ g \in [0..n -> S] /\ g[0] = x /\ \A i \in 1..n : g[i] = F[i][g[i - 1]]
      BY <2>1 DEF Rounds
    <2>3. F[n + 1] \in [S -> S] /\ g[n] \in S
      BY <2>2
    <2>4. F[n + 1][g[n]] \in S
      BY <2>3
    <2>5. ASSUME NEW i \in 0..(n + 1) PROVE h[i] \in S
      <3>1. i = n + 1 \/ i \in 0..n
        BY <2>2
      <3> QED
        BY <2>2, <2>4, <3>1
    <2>6. h \in [0..(n + 1) -> S]
      BY <2>5
    <2>7. h[0] = x
      BY <2>2
    <2>8. ASSUME NEW i \in 1..(n + 1) PROVE h[i] = F[i][h[i - 1]]
      <3>1. CASE i = n + 1
        <4>1. i - 1 = n /\ n \in 0..(n + 1) /\ n # n + 1 /\ i \in 0..(n + 1)
          BY <2>2, <3>1
        <4> QED
          BY <3>1, <4>1
      <3>2. CASE i # n + 1
        <4>1. i \in 1..n /\ i - 1 \in 0..(n + 1) /\ i - 1 # n + 1 /\ i \in 0..(n + 1)
          BY <2>2, <3>2
        <4>2. h[i] = g[i] /\ h[i - 1] = g[i - 1]
          BY <3>2, <4>1
        <4> QED
          BY <2>2, <4>1, <4>2
      <3> QED
        BY <3>1, <3>2
    <2> HIDE DEF h
    <2>9. Rounds(h, n + 1, S, x, F) /\ n + 1 \in Nat
      BY <2>2, <2>6, <2>7, <2>8 DEF Rounds
    <2> QED
      BY <2>9
  <1>3. T \in SUBSET Nat
    OBVIOUS
  <1> HIDE DEF T
  <1>4. k \in T
    BY <1>1, <1>2, <1>3, SetInduction
  <1> QED
    BY <1>4 DEF T

LEMMA RoundsUnique ==
  ASSUME NEW S, NEW x \in S, NEW F \in [Nat -> [S -> S]], NEW k \in Nat, NEW l \in Nat, k <= l,
         NEW g, NEW h, Rounds(g, k, S, x, F), Rounds(h, l, S, x, F)
  PROVE  \A i \in 0..k : g[i] = h[i]
  <1> DEFINE T == {n \in Nat : n <= k => g[n] = h[n]}
  <1>1. 0 \in T
    BY DEF Rounds
  <1>2. ASSUME NEW n \in T PROVE n + 1 \in T
    <2>1. CASE n + 1 <= k
      <3>1. n + 1 \in 1..k /\ n + 1 \in 1..l /\ (n + 1) - 1 = n /\ n <= k
        BY <2>1
      <3>2. g[n] = h[n]
        BY <3>1
      <3>3. g[n + 1] = F[n + 1][g[n]] /\ h[n + 1] = F[n + 1][h[n]]
        <4>1. \A i \in 1..k : g[i] = F[i][g[i - 1]]
          BY DEF Rounds
        <4>2. \A i \in 1..l : h[i] = F[i][h[i - 1]]
          BY DEF Rounds
        <4> QED
          BY <3>1, <4>1, <4>2
      <3> QED
        BY <3>2, <3>3
    <2>2. CASE ~(n + 1 <= k)
      BY <2>2
    <2> QED
      BY <2>1, <2>2
  <1>3. T = Nat
    <2>1. T \in SUBSET Nat
      OBVIOUS
    <2> HIDE DEF T
    <2> QED
      BY <1>1, <1>2, <2>1, SetInduction
  <1>4. \A i \in 0..k : i \in Nat /\ i <= k
    OBVIOUS
  <1> QED
    BY <1>3, <1>4

\* All the rounds from x.
Iterates(r, S, x, F) ==
    r \in [Nat -> S] /\ r[0] = x /\ \A n \in Nat \ {0} : r[n] = F[n][r[n - 1]]

LEMMA Iteration ==
  ASSUME NEW S, NEW x \in S, NEW F \in [Nat -> [S -> S]]
  PROVE  \E r : Iterates(r, S, x, F)
  <1> DEFINE G(k) == CHOOSE g : Rounds(g, k, S, x, F)
             r == [n \in Nat |-> G(n)[n]]
  <1>1. \A k \in Nat : Rounds(G(k), k, S, x, F)
    BY RoundsExist
  <1> HIDE DEF G
  <1>2. r \in [Nat -> S]
    <2> SUFFICES ASSUME NEW n \in Nat PROVE G(n)[n] \in S
      OBVIOUS
    <2>1. G(n) \in [0..n -> S] /\ n \in 0..n
      BY <1>1 DEF Rounds
    <2> QED
      BY <2>1
  <1>3. r[0] = x
    BY <1>1 DEF Rounds
  <1>4. ASSUME NEW n \in Nat \ {0} PROVE r[n] = F[n][r[n - 1]]
    <2>1. n \in 1..n /\ n - 1 \in Nat /\ n - 1 <= n /\ n - 1 \in 0..(n - 1) /\ n \in Nat
      OBVIOUS
    <2>2. G(n)[n] = F[n][G(n)[n - 1]]
      BY <1>1, <2>1 DEF Rounds
    <2>3. G(n - 1)[n - 1] = G(n)[n - 1]
      BY <1>1, <2>1, RoundsUnique
    <2>4. r[n] = G(n)[n] /\ r[n - 1] = G(n - 1)[n - 1]
      BY <2>1
    <2> QED
      BY <2>2, <2>3, <2>4
  <1> HIDE DEF r
  <1>5. Iterates(r, S, x, F)
    BY <1>2, <1>3, <1>4 DEF Iterates
  <1> QED
    BY <1>5

LEMMA SmallestOK ==
  ASSUME NEW S \in SUBSET Nat, S # {}
  PROVE  Smallest(S) \in S /\ Smallest(S) \in Nat /\ \A y \in S : Smallest(S) <= y
  <1>1. \E x \in S : \A y \in S : x <= y
    BY LeastOf
  <1>2. Smallest(S) \in S /\ \A y \in S : Smallest(S) <= y
    BY <1>1 DEF Smallest
  <1> QED
    BY <1>2

\* A function has no more values than arguments.
LEMMA ImageCount ==
  ASSUME NEW D, IsFiniteSet(D), NEW f
  PROVE  IsFiniteSet({f[i] : i \in D}) /\ Cardinality({f[i] : i \in D}) <= Cardinality(D)
  <1> DEFINE g == [i \in D |-> f[i]]
             I == {f[i] : i \in D}
  <1>1. g \in Surjection(D, I)
    <2>1. g \in [D -> I] /\ \A t \in I : \E i \in D : g[i] = t
      OBVIOUS
    <2> HIDE DEF g, I
    <2> QED
      BY <2>1, Fun_IsSurj
  <1> HIDE DEF I, g
  <1>3. IsFiniteSet(I) /\ Cardinality(I) <= Cardinality(D)
    BY <1>1, FS_Surjection
  <1> QED
    BY <1>3 DEF I

-----------------------------------------------------------------------------
(* Labels and the queue.                                                    *)

\* The labels there are.
Labels == {Unseen} \cup (Nat \X Nat)

LEMMA LabelFacts ==
  ASSUME NEW a \in Labels
  PROVE  /\ a # Unseen => a \in Nat \X Nat /\ a[1] \in Nat /\ a[2] \in Nat /\ a = <<a[1], a[2]>>
         /\ a \in Nat \X Nat => a # Unseen
  BY DEF Labels, Unseen

\* Of pairs of numbers one is the first in the order of Better and of the queue.
LEMMA FirstPair ==
  ASSUME NEW S \in SUBSET (Nat \X Nat), S # {}
  PROVE  \E a \in S : \A b \in S : a[1] < b[1] \/ (a[1] = b[1] /\ a[2] <= b[2])
  <1> DEFINE C == {a[1] : a \in S}
  <1>0. \A a \in S : a[1] \in Nat /\ a[2] \in Nat /\ a = <<a[1], a[2]>>
    OBVIOUS
  <1>1. PICK c \in C : \A y \in C : c <= y
    <2>1. C \subseteq Nat /\ C # {}
      BY <1>0
    <2> HIDE DEF C
    <2> QED
      BY <2>1, LeastOf
  <1> DEFINE I == {a[2] : a \in {b \in S : b[1] = c}}
  <1>2. PICK i \in I : \A y \in I : i <= y
    <2>1. I \subseteq Nat /\ I # {}
      BY <1>0, <1>1
    <2> HIDE DEF I
    <2> QED
      BY <2>1, LeastOf
  <1>3. PICK a \in S : a[1] = c /\ a[2] = i
    BY <1>2
  <1>4. ASSUME NEW b \in S PROVE a[1] < b[1] \/ (a[1] = b[1] /\ a[2] <= b[2])
    <2>1. b[1] \in C /\ c <= b[1] /\ c \in Nat /\ b[1] \in Nat
      BY <1>0, <1>1
    <2>2. b[1] = c => b[2] \in I /\ i <= b[2]
      BY <1>2
    <2> QED
      BY <1>3, <2>1, <2>2
  <1> QED
    BY <1>3, <1>4

LEMMA BestOK ==
  ASSUME NEW S \in SUBSET Labels, S # {}
  PROVE  /\ Best(S) \in S /\ Best(S) \in Labels
         /\ \A b \in S : b = Best(S) \/ Better(Best(S), b)
  <1> SUFFICES \E a \in S : \A b \in S : b = a \/ Better(a, b)
    BY DEF Best
  <1> DEFINE R == S \cap (Nat \X Nat)
  <1>1. CASE R = {}
    <2>1. \A b \in S : b = Unseen
      BY <1>1 DEF Labels
    <2> QED
      BY <2>1
  <1>2. CASE R # {}
    <2>1. PICK a \in R : \A b \in R : a[1] < b[1] \/ (a[1] = b[1] /\ a[2] <= b[2])
      <3>1. R \in SUBSET (Nat \X Nat)
        OBVIOUS
      <3> HIDE DEF R
      <3> QED
        BY <1>2, <3>1, FirstPair
    <2>2. a \in S /\ a # Unseen /\ a \in Nat \X Nat
      BY LabelFacts
    <2>3. ASSUME NEW b \in S PROVE b = a \/ Better(a, b)
      <3>1. CASE b = Unseen
        BY <2>2, <3>1 DEF Better
      <3>2. CASE b # Unseen
        <4>1. b \in Nat \X Nat /\ b \in R
          BY <3>2 DEF Labels
        <4>2. /\ a[1] \in Nat /\ a[2] \in Nat /\ b[1] \in Nat /\ b[2] \in Nat
              /\ a = <<a[1], a[2]>> /\ b = <<b[1], b[2]>>
          BY <2>2, <4>1
        <4>3. a[1] < b[1] \/ (a[1] = b[1] /\ a[2] <= b[2])
          BY <2>1, <4>1
        <4>4. a[1] < b[1] \/ (a[1] = b[1] /\ a[2] < b[2]) \/ (a[1] = b[1] /\ a[2] = b[2])
          BY <4>2, <4>3
        <4> QED
          BY <2>2, <4>2, <4>4 DEF Better
      <3> QED
        BY <3>1, <3>2
    <2> QED
      BY <2>2, <2>3
  <1> QED
    BY <1>1, <1>2

LEMMA PopOK ==
  ASSUME NEW Q \in SUBSET (Nat \X Nat), Q # {}
  PROVE  Pop(Q) \in Q /\ \A p \in Q : Pop(Q)[1] <= p[1]
  <1>1. \E q \in Q : \A p \in Q : q[1] < p[1] \/ (q[1] = p[1] /\ q[2] <= p[2])
    BY FirstPair
  <1>2. Pop(Q) \in Q /\ \A p \in Q : Pop(Q)[1] < p[1] \/ (Pop(Q)[1] = p[1] /\ Pop(Q)[2] <= p[2])
    BY <1>1 DEF Pop
  <1>3. \A p \in Q : p[1] \in Nat
    OBVIOUS
  <1> QED
    BY <1>2, <1>3

-----------------------------------------------------------------------------
(* The search.                                                              *)

\* use are links between the nodes of g, each at a positive cost.
Net(g, m, use) ==
    /\ IsFiniteSet(g.nodes) /\ g.nodes \in SUBSET Nat
    /\ IsFiniteSet(use) /\ use \in SUBSET Nat
    /\ \A l \in use : /\ g.links[l].from \in g.nodes /\ g.links[l].to \in g.nodes
                      /\ Metric(g.links[l], m) \in Nat \ {0}

Out(g, use, u) == {l \in use : g.links[l].from = u}

\* What the link l offers to the node it leads to, with the labels L.
Offer(g, m, L, l) == <<L[g.links[l].from][1] + Metric(g.links[l], m), l>>

LEMMA RelaxOK ==
  ASSUME NEW g, NEW m, NEW use, Net(g, m, use), NEW L \in [g.nodes -> Labels],
         NEW u \in g.nodes, L[u] # Unseen
  PROVE  LET N == Relax(g, m, L, u, Out(g, use, u)) IN
         /\ N \in [g.nodes -> Labels]
         /\ \A v \in g.nodes : \/ N[v] = L[v]
                               \/ \E l \in Out(g, use, u) : g.links[l].to = v /\ N[v] = Offer(g, m, L, l)
         /\ \A l \in Out(g, use, u) : /\ N[g.links[l].to] # Unseen
                                      /\ N[g.links[l].to][1] <= L[u][1] + Metric(g.links[l], m)
         /\ \A v \in g.nodes : L[v] # Unseen => /\ N[v] # Unseen /\ N[v][1] <= L[v][1]
                                                /\ L[v][1] <= L[u][1] => N[v] = L[v]
  <1> DEFINE out == Out(g, use, u)
             N == Relax(g, m, L, u, out)
             S(v) == {L[v]} \cup {<<L[u][1] + Metric(g.links[l], m), l>> : l \in {k \in out : g.links[k].to = v}}
  <1>1. N = [v \in g.nodes |-> Best(S(v))]
    BY DEF Relax
  <1>2. L[u][1] \in Nat
    BY LabelFacts
  <1>3. \A l \in out : /\ l \in use /\ l \in Nat /\ g.links[l].from = u /\ g.links[l].to \in g.nodes
                       /\ Metric(g.links[l], m) \in Nat /\ Metric(g.links[l], m) > 0
    <2>1. \A l \in out : l \in use /\ g.links[l].from = u
      BY DEF Out
    <2>2. \A l \in use : l \in Nat /\ g.links[l].to \in g.nodes /\ Metric(g.links[l], m) \in Nat \ {0}
      BY DEF Net
    <2>3. \A x \in Nat \ {0} : x \in Nat /\ x > 0
      OBVIOUS
    <2> HIDE DEF out
    <2> QED
      BY <2>1, <2>2, <2>3
  <1> HIDE DEF out, N
  <1>4. \A l \in out : /\ Offer(g, m, L, l) = <<L[u][1] + Metric(g.links[l], m), l>>
                       /\ Offer(g, m, L, l) \in Nat \X Nat /\ Offer(g, m, L, l)[1] > L[u][1]
                       /\ Offer(g, m, L, l)[1] = L[u][1] + Metric(g.links[l], m)
    <2> SUFFICES ASSUME NEW l \in out
                 PROVE  /\ Offer(g, m, L, l) = <<L[u][1] + Metric(g.links[l], m), l>>
                        /\ Offer(g, m, L, l) \in Nat \X Nat /\ Offer(g, m, L, l)[1] > L[u][1]
                        /\ Offer(g, m, L, l)[1] = L[u][1] + Metric(g.links[l], m)
      OBVIOUS
    <2> DEFINE c == L[u][1] + Metric(g.links[l], m)
    <2>1. c \in Nat /\ c > L[u][1] /\ l \in Nat
      BY <1>2, <1>3
    <2>2. Offer(g, m, L, l) = <<c, l>>
      BY <1>3 DEF Offer
    <2> HIDE DEF c
    <2>3. Offer(g, m, L, l) \in Nat \X Nat /\ Offer(g, m, L, l)[1] = c
      BY <2>1, <2>2
    <2> QED
      BY <2>1, <2>2, <2>3 DEF c
  <1>5. \A l \in out : Offer(g, m, L, l) \in Labels /\ Offer(g, m, L, l) # Unseen
    BY <1>4, LabelFacts DEF Labels
  <1>6. ASSUME NEW v \in g.nodes
        PROVE  /\ N[v] \in Labels /\ N[v] \in S(v) /\ \A b \in S(v) : b = N[v] \/ Better(N[v], b)
    <2>1. S(v) \in SUBSET Labels /\ S(v) # {}
      BY <1>4, <1>5
    <2>2. N[v] = Best(S(v))
      BY <1>1
    <2> HIDE DEF S
    <2> QED
      BY <2>1, <2>2, BestOK
  <1>7. N \in [g.nodes -> Labels]
    BY <1>1, <1>6
  <1>8. ASSUME NEW v \in g.nodes
        PROVE  N[v] = L[v] \/ \E l \in out : g.links[l].to = v /\ N[v] = Offer(g, m, L, l)
    BY <1>4, <1>6
  <1>9. \A v \in g.nodes : L[v] \in S(v)
    OBVIOUS
  <1>10. \A l \in out : Offer(g, m, L, l) \in S(g.links[l].to)
    BY <1>3, <1>4
  <1> HIDE DEF S
  <1>11. ASSUME NEW v \in g.nodes, NEW b \in S(v), b # Unseen, b \in Labels
         PROVE  N[v] # Unseen /\ N[v][1] <= b[1]
    <2>1. b[1] \in Nat
      BY <1>11, LabelFacts
    <2>2. b = N[v] \/ Better(N[v], b)
      BY <1>6
    <2>3. N[v] # Unseen
      BY <1>11, <2>2 DEF Better
    <2>4. N[v][1] \in Nat
      BY <1>6, <2>3, LabelFacts
    <2> QED
      BY <1>11, <2>1, <2>2, <2>3, <2>4 DEF Better
  <1>12. ASSUME NEW l \in out
         PROVE  /\ N[g.links[l].to] # Unseen
                /\ N[g.links[l].to][1] <= L[u][1] + Metric(g.links[l], m)
    BY <1>3, <1>4, <1>5, <1>10, <1>11
  <1>13. ASSUME NEW v \in g.nodes, L[v] # Unseen
         PROVE  N[v] # Unseen /\ N[v][1] <= L[v][1] /\ (L[v][1] <= L[u][1] => N[v] = L[v])
    <2>1. N[v] # Unseen /\ N[v][1] <= L[v][1]
      BY <1>9, <1>11, <1>13
    <2>2. ASSUME L[v][1] <= L[u][1], N[v] # L[v] PROVE FALSE
      <3>1. PICK l \in out : N[v] = Offer(g, m, L, l)
        BY <1>8, <2>2
      <3>2. Offer(g, m, L, l)[1] > L[u][1] /\ Offer(g, m, L, l)[1] \in Nat /\ L[v][1] \in Nat
        BY <1>4, <1>13, LabelFacts
      <3> QED
        BY <1>2, <2>1, <2>2, <3>1, <3>2
    <2> QED
      BY <2>1, <2>2
  <1> QED
    BY <1>7, <1>8, <1>12, <1>13 DEF N, out

\* The nodes that are reached over other links, and the items they are pushed as.
Changed(g, L, N) == {w \in g.nodes : N[w] # L[w]}

Pushed(g, L, N) == {<<N[v][1], v>> : v \in Changed(g, L, N)}

LEMMA PushedOK ==
  ASSUME NEW g, NEW m, NEW use, Net(g, m, use), NEW L \in [g.nodes -> Labels],
         NEW u \in g.nodes, L[u] # Unseen, NEW N, N = Relax(g, m, L, u, Out(g, use, u))
  PROVE  /\ \A v \in Changed(g, L, N) :
              /\ N[v] # Unseen /\ N[v][1] \in Nat /\ N[v][1] > L[u][1]
              /\ N[v][2] \in Out(g, use, u) /\ g.links[N[v][2]].to = v /\ N[v] = Offer(g, m, L, N[v][2])
         /\ Pushed(g, L, N) \in SUBSET (Nat \X g.nodes)
         /\ IsFiniteSet(Pushed(g, L, N)) /\ IsFiniteSet(Out(g, use, u))
         /\ Cardinality(Pushed(g, L, N)) <= Cardinality(Out(g, use, u))
  <1> DEFINE out == Out(g, use, u)
             C == Changed(g, L, N)
             P == Pushed(g, L, N)
  <1>1. out \in SUBSET use /\ \A l \in out : g.links[l].from = u
    BY DEF Out
  <1>2. /\ IsFiniteSet(use) /\ \A l \in use : l \in Nat /\ Metric(g.links[l], m) \in Nat \ {0}
        /\ L[u][1] \in Nat
    BY LabelFacts DEF Net
  <1>3. \A v \in C : v \in g.nodes /\ \E l \in out : g.links[l].to = v /\ N[v] = Offer(g, m, L, l)
    <2>1. \A v \in g.nodes : \/ N[v] = L[v]
                             \/ \E l \in out : g.links[l].to = v /\ N[v] = Offer(g, m, L, l)
      BY RelaxOK
    <2> QED
      BY <2>1 DEF Changed
  <1> HIDE DEF out, C, P
  <1>4. ASSUME NEW v \in C
        PROVE  /\ v \in g.nodes /\ N[v] # Unseen /\ N[v][1] \in Nat /\ N[v][1] > L[u][1]
               /\ N[v][2] \in out /\ g.links[N[v][2]].to = v /\ N[v] = Offer(g, m, L, N[v][2])
    <2>1. PICK l \in out : g.links[l].to = v /\ N[v] = Offer(g, m, L, l)
      BY <1>3
    <2> DEFINE c == L[u][1] + Metric(g.links[l], m)
    <2>2. l \in Nat /\ Metric(g.links[l], m) \in Nat \ {0}
      BY <1>1, <1>2
    <2>3. c \in Nat /\ c > L[u][1]
      BY <1>2, <2>2
    <2>4. N[v] = <<c, l>>
      BY <1>1, <2>1 DEF Offer
    <2> HIDE DEF c
    <2>5. N[v][1] = c /\ N[v][2] = l /\ N[v] \in Nat \X Nat
      BY <2>2, <2>3, <2>4
    <2>6. N[v] # Unseen
      BY <2>5, LabelFacts DEF Labels
    <2> QED
      BY <1>3, <2>1, <2>3, <2>5, <2>6
  <1>5. P \in SUBSET (Nat \X g.nodes)
    BY <1>4 DEF P, C, Pushed
  <1>6. IsFiniteSet(out)
    BY <1>1, <1>2, FS_Subset
  <1>7. IsFiniteSet(C) /\ Cardinality(C) <= Cardinality(out)
    <2> DEFINE f == [v \in C |-> N[v][2]]
    <2>1. f \in [C -> out]
      BY <1>4
    <2>2. \A v, w \in C : f[v] = f[w] => v = w
      BY <1>4
    <2> HIDE DEF f
    <2>3. f \in Injection(C, out)
      BY <2>1, <2>2, Fun_IsInj
    <2> QED
      BY <1>6, <2>3, FS_Injection
  <1>8. IsFiniteSet(P) /\ Cardinality(P) <= Cardinality(C)
    <2> DEFINE f == [v \in C |-> <<N[v][1], v>>]
    <2>1. P = {f[v] : v \in C}
      BY DEF P, C, Pushed
    <2> HIDE DEF f
    <2> QED
      BY <1>7, <2>1, ImageCount
  <1>9. Cardinality(P) \in Nat /\ Cardinality(C) \in Nat /\ Cardinality(out) \in Nat
    BY <1>6, <1>7, <1>8, FS_CardinalityType
  <1>10. Cardinality(P) <= Cardinality(out)
    BY <1>7, <1>8, <1>9
  <1> QED
    BY <1>4, <1>5, <1>6, <1>8, <1>10 DEF C, P, out

\* The states of a search.
Searches(g) == [labels : [g.nodes -> Labels], queue : SUBSET (Nat \X g.nodes)]

LEMMA QueueUpdate ==
  ASSUME NEW A, NEW B, NEW s \in [labels : A, queue : B], NEW q
  PROVE  [s EXCEPT !.queue = q] = [labels |-> s.labels, queue |-> q]
  OBVIOUS

\* A round, by its cases.
LEMMA ExpandCases ==
  ASSUME NEW g, NEW m, NEW use, Net(g, m, use), NEW dst, NEW s \in Searches(g), s.queue # {}
  PROVE  LET item == Pop(s.queue)
             u == item[2]
             N == Relax(g, m, s.labels, u, Out(g, use, u))
             d == Expand(g, m, use, dst, s)
         IN /\ item \in s.queue /\ item[1] \in Nat /\ u \in g.nodes /\ item = <<item[1], u>>
            /\ \A p \in s.queue : item[1] <= p[1]
            /\ item[1] # s.labels[u][1] => d = [labels |-> s.labels, queue |-> s.queue \ {item}]
            /\ item[1] = s.labels[u][1] =>
                 /\ s.labels[u] # Unseen
                 /\ u = dst => d = [labels |-> s.labels, queue |-> {}]
                 /\ u # dst => d = [labels |-> N, queue |-> (s.queue \ {item}) \cup Pushed(g, s.labels, N)]
  <1> DEFINE item == Pop(s.queue)
             u == item[2]
             N == Relax(g, m, s.labels, u, Out(g, use, u))
             d == Expand(g, m, use, dst, s)
  <1>1. /\ s.labels \in [g.nodes -> Labels] /\ s.queue \in SUBSET (Nat \X g.nodes)
        /\ s = [labels |-> s.labels, queue |-> s.queue]
    BY DEF Searches
  <1>2. item \in s.queue /\ \A p \in s.queue : item[1] <= p[1]
    <2>1. g.nodes \in SUBSET Nat
      BY DEF Net
    <2>2. s.queue \in SUBSET (Nat \X Nat)
      BY <1>1, <2>1
    <2> QED
      BY <2>2, PopOK
  <1>3. d = IF item[1] # s.labels[u][1] THEN [s EXCEPT !.queue = s.queue \ {item}]
            ELSE IF u = dst THEN [s EXCEPT !.queue = {}]
            ELSE [labels |-> N, queue |-> (s.queue \ {item}) \cup Pushed(g, s.labels, N)]
    BY DEF Expand, Out, Pushed, Changed
  <1> HIDE DEF item, N, d
  <1>4. item[1] \in Nat /\ u \in g.nodes /\ item = <<item[1], u>>
    BY <1>1, <1>2
  <1>5. item[1] = s.labels[u][1] => s.labels[u] # Unseen
    BY <1>4 DEF Unseen
  <1>6. /\ [s EXCEPT !.queue = s.queue \ {item}] = [labels |-> s.labels, queue |-> s.queue \ {item}]
        /\ [s EXCEPT !.queue = {}] = [labels |-> s.labels, queue |-> {}]
    BY QueueUpdate DEF Searches
  <1> HIDE DEF u
  <1>7. /\ item[1] # s.labels[u][1] => d = [labels |-> s.labels, queue |-> s.queue \ {item}]
        /\ item[1] = s.labels[u][1] =>
             /\ u = dst => d = [labels |-> s.labels, queue |-> {}]
             /\ u # dst => d = [labels |-> N, queue |-> (s.queue \ {item}) \cup Pushed(g, s.labels, N)]
    BY <1>3, <1>6
  <1> QED
    BY <1>2, <1>4, <1>5, <1>7 DEF d, N, u, item

LEMMA ExpandType ==
  ASSUME NEW g, NEW m, NEW use, Net(g, m, use), NEW dst, NEW s \in Searches(g)
  PROVE  Expand(g, m, use, dst, s) \in Searches(g)
  <1>1. CASE s.queue = {}
    BY <1>1 DEF Expand
  <1>2. CASE s.queue # {}
    <2> DEFINE item == Pop(s.queue)
               u == item[2]
               N == Relax(g, m, s.labels, u, Out(g, use, u))
               d == Expand(g, m, use, dst, s)
    <2> SUFFICES d \in Searches(g)
      OBVIOUS
    <2>1. s.labels \in [g.nodes -> Labels] /\ s.queue \in SUBSET (Nat \X g.nodes)
      BY DEF Searches
    <2>2. /\ u \in g.nodes
          /\ item[1] # s.labels[u][1] => d = [labels |-> s.labels, queue |-> s.queue \ {item}]
          /\ item[1] = s.labels[u][1] =>
               /\ s.labels[u] # Unseen
               /\ u = dst => d = [labels |-> s.labels, queue |-> {}]
               /\ u # dst => d = [labels |-> N, queue |-> (s.queue \ {item}) \cup Pushed(g, s.labels, N)]
      BY <1>2, ExpandCases
    <2> HIDE DEF item, d, u
    <2>3. CASE item[1] # s.labels[u][1]
      BY <2>1, <2>2, <2>3 DEF Searches
    <2>4. CASE item[1] = s.labels[u][1] /\ u = dst
      BY <2>1, <2>2, <2>4 DEF Searches
    <2>5. CASE item[1] = s.labels[u][1] /\ u # dst
      <3>1. N \in [g.nodes -> Labels]
        BY <2>1, <2>2, <2>5, RelaxOK
      <3>2. Pushed(g, s.labels, N) \in SUBSET (Nat \X g.nodes)
        BY <2>1, <2>2, <2>5, PushedOK
      <3> HIDE DEF N
      <3> QED
        BY <2>1, <2>2, <2>5, <3>1, <3>2 DEF Searches
    <2> QED
      BY <2>3, <2>4, <2>5
  <1> QED
    BY <1>1, <1>2

\* Every label but that of the source is what the link in it offers.
Traced(g, m, use, src, L) ==
    /\ L \in [g.nodes -> Labels] /\ src \in g.nodes /\ L[src] = <<0, 0>>
    /\ \A v \in g.nodes : v # src /\ L[v] # Unseen =>
         /\ L[v][2] \in use /\ g.links[L[v][2]].to = v
         /\ L[g.links[L[v][2]].from] # Unseen /\ L[v] = Offer(g, m, L, L[v][2])

\* No link that leaves u offers anything better.
Relaxed(g, m, use, L, u) ==
    \A l \in Out(g, use, u) : /\ L[g.links[l].to] # Unseen
                              /\ L[g.links[l].to][1] <= L[u][1] + Metric(g.links[l], m)

\* The labelled nodes that wait no more.
Settled(g, s) == {v \in g.nodes : s.labels[v] # Unseen /\ <<s.labels[v][1], v>> \notin s.queue}

Running(g, m, use, src, s) ==
    /\ s \in Searches(g) /\ IsFiniteSet(s.queue)
    /\ Traced(g, m, use, src, s.labels)
    /\ \A v \in g.nodes : v # src /\ s.labels[v] # Unseen => g.links[s.labels[v][2]].from \in Settled(g, s)
    /\ \A q \in s.queue : s.labels[q[2]] # Unseen /\ s.labels[q[2]][1] <= q[1]
    /\ \A u \in Settled(g, s) : /\ Relaxed(g, m, use, s.labels, u)
                                /\ \A q \in s.queue : s.labels[u][1] <= q[1]

\* The nodes of D offer nothing better, and no other node is nearer than dst.
Final(g, m, use, src, dst, L) ==
    /\ Traced(g, m, use, src, L)
    /\ \E D \in SUBSET g.nodes :
         /\ \A u \in D : L[u] # Unseen /\ Relaxed(g, m, use, L, u)
         /\ \A v \in g.nodes \ D : L[v] = Unseen \/ (L[dst] # Unseen /\ L[dst][1] <= L[v][1])

\* The links that have not been relaxed.
Ahead(g, use, s) == {l \in use : g.links[l].from \notin Settled(g, s)}

\* After n rounds.
SearchOK(g, m, use, src, dst, s, n) ==
    \/ s.queue = {} /\ Final(g, m, use, src, dst, s.labels) /\ s \in Searches(g)
    \/ /\ Running(g, m, use, src, s)
       /\ Cardinality(s.queue) + Cardinality(Ahead(g, use, s)) + n <= Cardinality(use) + 1

\* Without items the search is over.
LEMMA EmptyIsFinal ==
  ASSUME NEW g, NEW m, NEW use, NEW src, NEW dst, NEW s, Running(g, m, use, src, s), s.queue = {}
  PROVE  Final(g, m, use, src, dst, s.labels)
  <1> DEFINE D == Settled(g, s)
  <1>1. D \in SUBSET g.nodes /\ \A u \in D : s.labels[u] # Unseen /\ Relaxed(g, m, use, s.labels, u)
    BY DEF Running, Settled
  <1>2. \A v \in g.nodes \ D : s.labels[v] = Unseen
    BY DEF Settled
  <1>3. Traced(g, m, use, src, s.labels)
    BY DEF Running
  <1> HIDE DEF D
  <1> QED
    BY <1>1, <1>2, <1>3 DEF Final

\* d is s without a stale item.
Dropped(s, item, d) ==
    item \in s.queue /\ item[1] # s.labels[item[2]][1] /\ d = [labels |-> s.labels, queue |-> s.queue \ {item}]

\* d is s after the links that leave u, the first of the queue, are relaxed.
Advanced(g, m, use, s, u, item, N, d) ==
    /\ item \in s.queue /\ u \in g.nodes /\ item = <<s.labels[u][1], u>> /\ s.labels[u] # Unseen
    /\ \A p \in s.queue : item[1] <= p[1]
    /\ N = Relax(g, m, s.labels, u, Out(g, use, u))
    /\ d = [labels |-> N, queue |-> (s.queue \ {item}) \cup Pushed(g, s.labels, N)]

\* A stale item is dropped.
LEMMA StaleStep ==
  ASSUME NEW g, NEW m, NEW use, Net(g, m, use), NEW src, NEW s, Running(g, m, use, src, s),
         NEW item, NEW d, Dropped(s, item, d)
  PROVE  /\ Running(g, m, use, src, d) /\ Settled(g, d) = Settled(g, s)
         /\ Cardinality(d.queue) = Cardinality(s.queue) - 1
  <1> USE DEF Dropped
  <1> DEFINE L == s.labels
             Q == s.queue \ {item}
  <1>1. d.labels = L /\ d.queue = Q
    OBVIOUS
  <1>2. d \in Searches(g)
    <2>1. s.labels \in [g.nodes -> Labels] /\ s.queue \in SUBSET (Nat \X g.nodes)
      BY DEF Running, Searches
    <2> QED
      BY <2>1 DEF Searches
  <1>3. Settled(g, d) = Settled(g, s)
    <2>1. \A v \in g.nodes : <<L[v][1], v>> # item
      OBVIOUS
    <2> QED
      BY <1>1, <2>1 DEF Settled
  <1>4. IsFiniteSet(s.queue)
    BY DEF Running
  <1>5. IsFiniteSet(Q) /\ Cardinality(Q) = Cardinality(s.queue) - 1
    BY <1>4, FS_RemoveElement
  <1> HIDE DEF Q
  <1>6. \A q \in Q : q \in s.queue
    BY DEF Q
  <1>7. Traced(g, m, use, src, d.labels)
    BY <1>1 DEF Running
  <1>8. Running(g, m, use, src, d)
    BY <1>1, <1>2, <1>3, <1>5, <1>6, <1>7 DEF Running
  <1> QED
    BY <1>1, <1>3, <1>5, <1>8

\* At the destination the search is over.
LEMMA ArrivedIsFinal ==
  ASSUME NEW g, NEW m, NEW use, NEW src, NEW s, Running(g, m, use, src, s),
         NEW item \in s.queue, NEW dst, item[2] = dst, item[1] = s.labels[dst][1], s.labels[dst] # Unseen,
         \A p \in s.queue : item[1] <= p[1]
  PROVE  Final(g, m, use, src, dst, s.labels)
  <1> DEFINE D == Settled(g, s)
             L == s.labels
  <1>1. D \in SUBSET g.nodes /\ \A u \in D : L[u] # Unseen /\ Relaxed(g, m, use, L, u)
    BY DEF Running, Settled
  <1>2. ASSUME NEW v \in g.nodes \ D, L[v] # Unseen PROVE L[dst][1] <= L[v][1]
    <2> DEFINE p == <<L[v][1], v>>
    <2>1. p \in s.queue /\ p[1] = L[v][1]
      BY <1>2 DEF Settled
    <2> HIDE DEF p
    <2> QED
      BY <2>1
  <1>3. Traced(g, m, use, src, L)
    BY DEF Running
  <1> HIDE DEF D
  <1> QED
    BY <1>1, <1>2, <1>3 DEF Final

\* A node is settled, and its links are relaxed.
LEMMA SettleStep ==
  ASSUME NEW g, NEW m, NEW use, Net(g, m, use), NEW src, NEW s, Running(g, m, use, src, s),
         NEW item, NEW u, NEW N, NEW d, Advanced(g, m, use, s, u, item, N, d)
  PROVE  /\ Running(g, m, use, src, d)
         /\ Settled(g, d) = Settled(g, s) \cup {u} /\ u \notin Settled(g, s)
         /\ Cardinality(d.queue) <= Cardinality(s.queue) - 1 + Cardinality(Out(g, use, u))
  <1> USE DEF Advanced
  <1> DEFINE L == s.labels
             out == Out(g, use, u)
             P == Pushed(g, L, N)
             C == Changed(g, L, N)
             Q == s.queue \ {item}
             D == Settled(g, s)
             c == L[u][1]
  <1>1. d.labels = N /\ d.queue = Q \cup P
    OBVIOUS
  <1>2. /\ L \in [g.nodes -> Labels] /\ s.queue \in SUBSET (Nat \X g.nodes) /\ IsFiniteSet(s.queue)
        /\ Traced(g, m, use, src, L)
        /\ \A v \in g.nodes : v # src /\ L[v] # Unseen => g.links[L[v][2]].from \in D
        /\ \A q \in s.queue : L[q[2]] # Unseen /\ L[q[2]][1] <= q[1]
        /\ \A x \in D : Relaxed(g, m, use, L, x) /\ \A q \in s.queue : L[x][1] <= q[1]
    BY DEF Running, Searches
  <1>3. c \in Nat /\ item[1] = c /\ item[2] = u
    BY <1>2, LabelFacts
  <1>4. /\ N \in [g.nodes -> Labels]
        /\ \A v \in g.nodes : N[v] = L[v] \/ v \in C
        /\ \A l \in out : N[g.links[l].to] # Unseen /\ N[g.links[l].to][1] <= c + Metric(g.links[l], m)
        /\ \A v \in g.nodes : L[v] # Unseen => /\ N[v] # Unseen /\ N[v][1] <= L[v][1]
                                               /\ L[v][1] <= c => N[v] = L[v]
    BY <1>2, RelaxOK DEF Changed
  <1>5. /\ \A v \in C : /\ N[v] # Unseen /\ N[v][1] \in Nat /\ N[v][1] > c
                        /\ N[v][2] \in out /\ g.links[N[v][2]].to = v /\ N[v] = Offer(g, m, L, N[v][2])
        /\ P \in SUBSET (Nat \X g.nodes) /\ IsFiniteSet(P) /\ IsFiniteSet(out)
        /\ Cardinality(P) <= Cardinality(out)
    BY <1>2, PushedOK
  <1>6. /\ \A p \in P : \E v \in C : p = <<N[v][1], v>>
        /\ \A v \in C : v \in g.nodes /\ N[v] # L[v] /\ <<N[v][1], v>> \in P
    BY DEF Pushed, Changed
  <1>7. /\ D \in SUBSET g.nodes
        /\ \A v \in g.nodes : v \in D <=> L[v] # Unseen /\ <<L[v][1], v>> \notin s.queue
    BY DEF Settled
  <1>8. \A v \in g.nodes : v \in Settled(g, d) <=> N[v] # Unseen /\ <<N[v][1], v>> \notin Q \cup P
    BY <1>1 DEF Settled
  <1>9. \A l \in out : l \in use /\ g.links[l].from = u
    BY DEF Out
  <1>10. \A p \in s.queue : c <= p[1]
    BY <1>3
  <1>11. u \notin D
    BY <1>7
  <1> HIDE DEF L, out, P, C, Q, D, c
  <1>12. \A x \in D : L[x] # Unseen /\ L[x][1] \in Nat /\ L[x][1] <= c /\ N[x] = L[x]
    <2> SUFFICES ASSUME NEW x \in D PROVE L[x] # Unseen /\ L[x][1] \in Nat /\ L[x][1] <= c /\ N[x] = L[x]
      OBVIOUS
    <2>1. x \in g.nodes /\ L[x] # Unseen
      BY <1>7
    <2>2. L[x][1] \in Nat
      BY <1>2, <2>1, LabelFacts
    <2>3. L[x][1] <= c
      BY <1>2, <1>3
    <2> QED
      BY <1>4, <2>1, <2>2, <2>3
  <1>13. N[u] = L[u] /\ L[u] # Unseen
    BY <1>3, <1>4 DEF c, L
  <1>14. \A v \in C : v \notin D /\ v # u
    BY <1>6, <1>12, <1>13
  <1>15. item = <<c, u>>
    BY DEF c, L
  <1>16. Settled(g, d) = D \cup {u}
    <2>0. Settled(g, d) \in SUBSET g.nodes /\ u \in g.nodes
      BY DEF Settled
    <2>1. ASSUME NEW v \in g.nodes, v \in D PROVE v \in Settled(g, d)
      <3>1. N[v] = L[v] /\ L[v] # Unseen /\ <<N[v][1], v>> \notin s.queue
        BY <1>7, <1>12, <2>1
      <3>2. <<N[v][1], v>> \notin P
        <4> SUFFICES ASSUME <<N[v][1], v>> \in P PROVE FALSE
          OBVIOUS
        <4>1. PICK w \in C : <<N[v][1], v>> = <<N[w][1], w>>
          BY <1>6
        <4> QED
          BY <1>14, <2>1, <4>1
      <3> QED
        BY <1>8, <3>1, <3>2 DEF Q
    <2>2. u \in Settled(g, d)
      <3>1. <<N[u][1], u>> = item
        BY <1>13, <1>15 DEF c
      <3>2. item \notin P
        <4> SUFFICES ASSUME item \in P PROVE FALSE
          OBVIOUS
        <4>1. PICK w \in C : <<c, u>> = <<N[w][1], w>>
          BY <1>6, <1>15
        <4> QED
          BY <1>14, <4>1
      <3> QED
        BY <1>8, <1>13, <3>1, <3>2 DEF Q
    <2>3. ASSUME NEW v \in g.nodes, v \in Settled(g, d), v \notin D, v # u PROVE FALSE
      <3>1. N[v] # Unseen /\ <<N[v][1], v>> \notin Q /\ <<N[v][1], v>> \notin P
        BY <1>8, <2>3
      <3>2. v \notin C
        BY <1>6, <3>1
      <3>3. N[v] = L[v]
        BY <1>4, <3>2
      <3>4. <<L[v][1], v>> \in s.queue
        BY <1>7, <2>3, <3>1, <3>3
      <3>5. <<L[v][1], v>> # item
        BY <1>15, <2>3
      <3> QED
        BY <3>1, <3>3, <3>4, <3>5 DEF Q
    <2> QED
      BY <1>7, <2>0, <2>1, <2>2, <2>3
  <1>17. d \in Searches(g) /\ IsFiniteSet(Q \cup P)
    <2>1. Q \in SUBSET (Nat \X g.nodes)
      BY <1>2 DEF Q
    <2>2. Q \cup P \in SUBSET (Nat \X g.nodes)
      BY <1>5, <2>1
    <2>3. IsFiniteSet(Q)
      BY <1>2, FS_RemoveElement DEF Q
    <2>4. IsFiniteSet(Q \cup P)
      BY <1>5, <2>3, FS_Union
    <2>5. d = [labels |-> N, queue |-> Q \cup P]
      BY DEF Q, P, L
    <2> QED
      BY <1>4, <2>2, <2>4, <2>5 DEF Searches
  <1>18. \A v \in g.nodes : v # src /\ N[v] # Unseen =>
            /\ N[v][2] \in use /\ g.links[N[v][2]].to = v
            /\ g.links[N[v][2]].from \in D \cup {u}
            /\ N[g.links[N[v][2]].from] # Unseen /\ N[v] = Offer(g, m, N, N[v][2])
    <2> SUFFICES ASSUME NEW v \in g.nodes, v # src, N[v] # Unseen
                 PROVE  /\ N[v][2] \in use /\ g.links[N[v][2]].to = v
                        /\ g.links[N[v][2]].from \in D \cup {u}
                        /\ N[g.links[N[v][2]].from] # Unseen /\ N[v] = Offer(g, m, N, N[v][2])
      OBVIOUS
    <2> DEFINE l == N[v][2]
    <2>1. CASE v \in C
      <3>1. l \in out /\ g.links[l].to = v /\ N[v] = Offer(g, m, L, l)
        BY <1>5, <2>1
      <3>2. l \in use /\ g.links[l].from = u
        BY <1>9, <3>1
      <3> HIDE DEF l
      <3>3. Offer(g, m, L, l) = Offer(g, m, N, l)
        BY <1>13, <3>2 DEF Offer
      <3> QED
        BY <1>13, <3>1, <3>2, <3>3 DEF l
    <2>2. CASE v \notin C
      <3>1. N[v] = L[v]
        BY <1>4, <2>2
      <3>2. /\ l \in use /\ g.links[l].to = v /\ L[v] = Offer(g, m, L, l)
            /\ g.links[l].from \in D
        BY <1>2, <3>1 DEF Traced
      <3>3. N[g.links[l].from] = L[g.links[l].from] /\ N[g.links[l].from] # Unseen
        BY <1>12, <3>2
      <3> HIDE DEF l
      <3>4. Offer(g, m, L, l) = Offer(g, m, N, l)
        BY <3>3 DEF Offer
      <3> QED
        BY <3>1, <3>2, <3>3, <3>4 DEF l
    <2> QED
      BY <2>1, <2>2
  <1>19. Traced(g, m, use, src, N)
    <2>1. src \in g.nodes /\ L[src] = <<0, 0>>
      BY <1>2 DEF Traced
    <2>2. L[src] # Unseen /\ L[src][1] = 0
      BY <2>1 DEF Unseen
    <2>3. N[src] = L[src]
      BY <1>3, <1>4, <2>1, <2>2
    <2> QED
      BY <1>4, <1>18, <2>1, <2>3 DEF Traced
  <1>20. \A q \in Q \cup P : N[q[2]] # Unseen /\ N[q[2]][1] <= q[1] /\ c <= q[1]
    <2> SUFFICES ASSUME NEW q \in Q \cup P PROVE N[q[2]] # Unseen /\ N[q[2]][1] <= q[1] /\ c <= q[1]
      OBVIOUS
    <2>1. CASE q \in P
      <3>1. PICK v \in C : q = <<N[v][1], v>>
        BY <1>6, <2>1
      <3>2. q[1] = N[v][1] /\ q[2] = v
        BY <3>1
      <3>3. N[v] # Unseen /\ N[v][1] \in Nat /\ N[v][1] > c
        BY <1>5
      <3> QED
        BY <1>3, <3>2, <3>3
    <2>2. CASE q \notin P
      <3>1. q \in s.queue /\ q[1] \in Nat /\ q[2] \in g.nodes
        BY <1>2, <2>2 DEF Q
      <3>2. L[q[2]] # Unseen /\ L[q[2]][1] <= q[1] /\ c <= q[1]
        BY <1>2, <1>10, <3>1
      <3>3. N[q[2]] # Unseen /\ N[q[2]][1] <= L[q[2]][1]
        BY <1>4, <3>1, <3>2
      <3>4. N[q[2]][1] \in Nat /\ L[q[2]][1] \in Nat
        BY <1>2, <1>4, <3>1, <3>2, <3>3, LabelFacts
      <3> QED
        BY <3>1, <3>2, <3>3, <3>4
    <2> QED
      BY <2>1, <2>2
  <1>21. ASSUME NEW x \in D \cup {u}
         PROVE  Relaxed(g, m, use, N, x) /\ \A q \in Q \cup P : N[x][1] <= q[1]
    <2>1. CASE x = u
      <3>1. N[u][1] = c
        BY <1>13 DEF c
      <3>2. Relaxed(g, m, use, N, u)
        BY <1>4, <3>1 DEF Relaxed, out
      <3> QED
        BY <1>20, <2>1, <3>1, <3>2
    <2>2. CASE x \in D
      <3>1. x \in g.nodes /\ L[x][1] \in Nat /\ L[x][1] <= c /\ N[x] = L[x] /\ Relaxed(g, m, use, L, x)
        BY <1>2, <1>7, <1>12, <2>2
      <3>2. ASSUME NEW l \in Out(g, use, x)
            PROVE  N[g.links[l].to] # Unseen /\ N[g.links[l].to][1] <= N[x][1] + Metric(g.links[l], m)
        <4> DEFINE v == g.links[l].to
        <4>1. l \in use /\ v \in g.nodes /\ Metric(g.links[l], m) \in Nat
          BY DEF Out, Net
        <4>2. L[v] # Unseen /\ L[v][1] <= L[x][1] + Metric(g.links[l], m)
          BY <3>1 DEF Relaxed
        <4> HIDE DEF v
        <4>3. N[v] # Unseen /\ N[v][1] <= L[v][1]
          BY <1>4, <4>1, <4>2
        <4>4. N[v][1] \in Nat /\ L[v][1] \in Nat
          BY <1>2, <1>4, <4>1, <4>2, <4>3, LabelFacts
        <4>5. N[v][1] <= N[x][1] + Metric(g.links[l], m)
          BY <3>1, <4>1, <4>2, <4>3, <4>4
        <4> QED
          BY <4>3, <4>5 DEF v
      <3>3. ASSUME NEW q \in Q \cup P PROVE N[x][1] <= q[1]
        <4>1. q[1] \in Nat /\ c <= q[1]
          <5>1. q \in Nat \X g.nodes
            BY <1>2, <1>5 DEF Q
          <5> QED
            BY <1>20, <5>1
        <4> QED
          BY <1>3, <3>1, <4>1
      <3> QED
        BY <3>2, <3>3 DEF Relaxed
    <2> QED
      BY <2>1, <2>2
  <1>22. Running(g, m, use, src, d)
    <2>1. \A v \in g.nodes : v # src /\ N[v] # Unseen => g.links[N[v][2]].from \in Settled(g, d)
      BY <1>16, <1>18
    <2>2. \A x \in Settled(g, d) : Relaxed(g, m, use, N, x) /\ \A q \in Q \cup P : N[x][1] <= q[1]
      BY <1>16, <1>21
    <2> QED
      BY <1>1, <1>17, <1>19, <1>20, <2>1, <2>2 DEF Running
  <1>23. Cardinality(Q \cup P) <= Cardinality(s.queue) - 1 + Cardinality(out)
    <2>1. IsFiniteSet(Q) /\ Cardinality(Q) = Cardinality(s.queue) - 1
      <3> DEFINE R == s.queue
      <3>1. IsFiniteSet(R) /\ item \in R
        BY <1>2
      <3> HIDE DEF R
      <3>2. IsFiniteSet(R \ {item}) /\ Cardinality(R \ {item}) = Cardinality(R) - 1
        BY <3>1, FS_RemoveElement
      <3> QED
        BY <3>2 DEF R, Q
    <2>2. Cardinality(Q \cup P) = Cardinality(Q) + Cardinality(P) - Cardinality(Q \cap P)
      BY <1>5, <2>1, FS_Union
    <2>3. IsFiniteSet(Q \cap P)
      <3> DEFINE R == Q \cap P
      <3>1. R \in SUBSET P
        OBVIOUS
      <3> HIDE DEF R
      <3>2. IsFiniteSet(R)
        BY <1>5, <3>1, FS_Subset
      <3> QED
        BY <3>2 DEF R
    <2>4. /\ Cardinality(Q) \in Nat /\ Cardinality(P) \in Nat /\ Cardinality(Q \cap P) \in Nat
          /\ Cardinality(out) \in Nat /\ Cardinality(s.queue) \in Nat
      BY <1>2, <1>5, <2>1, <2>3, FS_CardinalityType
    <2> QED
      BY <1>5, <2>1, <2>2, <2>4
  <1> QED
    BY <1>1, <1>11, <1>16, <1>22, <1>23 DEF D, out

LEMMA ExpandOK ==
  ASSUME NEW g, NEW m, NEW use, Net(g, m, use), NEW src, NEW dst, NEW s, NEW n \in Nat,
         SearchOK(g, m, use, src, dst, s, n)
  PROVE  SearchOK(g, m, use, src, dst, Expand(g, m, use, dst, s), n + 1)
  <1> DEFINE d == Expand(g, m, use, dst, s)
             A == Ahead(g, use, s)
  <1> SUFFICES SearchOK(g, m, use, src, dst, d, n + 1)
    OBVIOUS
  <1>1. CASE s.queue = {}
    <2>1. d = s
      BY <1>1 DEF Expand
    <2>2. Final(g, m, use, src, dst, s.labels) /\ s \in Searches(g)
      BY <1>1, EmptyIsFinal DEF SearchOK, Running
    <2> QED
      BY <1>1, <2>1, <2>2 DEF SearchOK
  <1>2. CASE s.queue # {}
    <2>1. /\ Running(g, m, use, src, s) /\ s \in Searches(g) /\ IsFiniteSet(s.queue)
          /\ Cardinality(s.queue) + Cardinality(A) + n <= Cardinality(use) + 1
      BY <1>2 DEF SearchOK, Running
    <2> DEFINE item == Pop(s.queue)
               u == item[2]
               L == s.labels
               N == Relax(g, m, L, u, Out(g, use, u))
    <2>2. /\ item \in s.queue /\ item[1] \in Nat /\ u \in g.nodes /\ item = <<item[1], u>>
          /\ \A p \in s.queue : item[1] <= p[1]
          /\ item[1] # L[u][1] => d = [labels |-> L, queue |-> s.queue \ {item}]
          /\ item[1] = L[u][1] =>
               /\ L[u] # Unseen
               /\ u = dst => d = [labels |-> L, queue |-> {}]
               /\ u # dst => d = [labels |-> N, queue |-> (s.queue \ {item}) \cup Pushed(g, L, N)]
      BY <1>2, <2>1, ExpandCases
    <2>3. IsFiniteSet(use) /\ A \in SUBSET use
      BY DEF Net, Ahead
    <2> HIDE DEF A, d
    <2>4. IsFiniteSet(A)
      BY <2>3, FS_Subset
    <2>5. Cardinality(s.queue) \in Nat /\ Cardinality(A) \in Nat /\ Cardinality(use) \in Nat
      BY <2>1, <2>3, <2>4, FS_CardinalityType
    <2> HIDE DEF item, N
    <2>6. CASE item[1] # L[u][1]
      <3>1. d = [labels |-> L, queue |-> s.queue \ {item}]
        BY <2>2, <2>6
      <3>2. /\ Running(g, m, use, src, d) /\ Settled(g, d) = Settled(g, s)
            /\ Cardinality(d.queue) = Cardinality(s.queue) - 1
        <4>1. Dropped(s, item, d)
          BY <2>2, <2>6, <3>1 DEF Dropped
        <4> QED
          BY <2>1, <4>1, StaleStep
      <3>3. Ahead(g, use, d) = A
        BY <3>2 DEF Ahead, A
      <3>4. Cardinality(d.queue) + Cardinality(A) + (n + 1) <= Cardinality(use) + 1
        BY <2>1, <2>5, <3>2
      <3> QED
        BY <3>2, <3>3, <3>4 DEF SearchOK
    <2>7. CASE item[1] = L[u][1] /\ u = dst
      <3>1. d = [labels |-> L, queue |-> {}]
        BY <2>2, <2>7
      <3>2. Final(g, m, use, src, dst, L)
        BY <2>1, <2>2, <2>7, ArrivedIsFinal
      <3>3. d.labels = L /\ d.queue = {}
        BY <3>1
      <3>4. d \in Searches(g)
        BY <2>1, ExpandType DEF d
      <3> QED
        BY <3>2, <3>3, <3>4 DEF SearchOK
    <2>8. CASE item[1] = L[u][1] /\ u # dst
      <3>1. d = [labels |-> N, queue |-> (s.queue \ {item}) \cup Pushed(g, L, N)]
        BY <2>2, <2>8
      <3>2. item = <<L[u][1], u>> /\ L[u] # Unseen
        BY <2>2, <2>8
      <3> DEFINE out == Out(g, use, u)
                 B == Ahead(g, use, d)
      <3>3. /\ Running(g, m, use, src, d)
            /\ Settled(g, d) = Settled(g, s) \cup {u} /\ u \notin Settled(g, s)
            /\ Cardinality(d.queue) <= Cardinality(s.queue) - 1 + Cardinality(out)
        <4>1. Advanced(g, m, use, s, u, item, N, d)
          BY <2>2, <3>1, <3>2 DEF Advanced, N
        <4> HIDE DEF u, d
        <4> QED
          BY <2>1, <4>1, SettleStep
      <3>4. A = B \cup out /\ B \cap out = {}
        BY <3>3 DEF Ahead, Out, A
      <3>5. out \in SUBSET use /\ B \in SUBSET use
        BY DEF Out, Ahead
      <3> HIDE DEF out, B
      <3>6. IsFiniteSet(out) /\ IsFiniteSet(B)
        BY <2>3, <3>5, FS_Subset
      <3>7. Cardinality(B \cup out) = Cardinality(B) + Cardinality(out) - Cardinality(B \cap out)
        BY <3>6, FS_Union
      <3>8. Cardinality(B \cap out) = 0
        BY <3>4, FS_EmptySet
      <3>9. IsFiniteSet(d.queue)
        BY <3>3 DEF Running
      <3>10. Cardinality(out) \in Nat /\ Cardinality(B) \in Nat /\ Cardinality(d.queue) \in Nat
        BY <3>6, <3>9, FS_CardinalityType
      <3>11. Cardinality(A) = Cardinality(B) + Cardinality(out)
        BY <3>4, <3>7, <3>8, <3>10
      <3>12. Cardinality(d.queue) + Cardinality(B) + (n + 1) <= Cardinality(use) + 1
        BY <2>1, <2>5, <3>3, <3>10, <3>11
      <3> QED
        BY <3>3, <3>12 DEF SearchOK, B
    <2> QED
      BY <2>6, <2>7, <2>8
  <1> QED
    BY <1>1, <1>2

\* The labels after the search.
LEMMA SearchIsFinal ==
  ASSUME NEW g, NEW m, NEW use, Net(g, m, use), NEW src \in g.nodes, NEW dst
  PROVE  Final(g, m, use, src, dst, Search(g, m, use, src, dst))
  <1> DEFINE S == Searches(g)
             x == [labels |-> [v \in g.nodes |-> IF v = src THEN <<0, 0>> ELSE Unseen], queue |-> {<<0, src>>}]
             Step(s) == Expand(g, m, use, dst, s)
             F == [n \in Nat |-> [s \in S |-> Step(s)]]
             round == CHOOSE f : f = [n \in Nat |-> IF n = 0 THEN x ELSE Step(f[n - 1])]
             K == Cardinality(use) + 1
  <1>1. \A s \in S : Step(s) \in S
    BY ExpandType
  <1>2. x \in S
    <2>1. <<0, 0>> \in Labels /\ Unseen \in Labels
      BY DEF Labels
    <2>2. [v \in g.nodes |-> IF v = src THEN <<0, 0>> ELSE Unseen] \in [g.nodes -> Labels]
      BY <2>1
    <2>3. {<<0, src>>} \in SUBSET (Nat \X g.nodes)
      OBVIOUS
    <2> QED
      BY <2>2, <2>3 DEF Searches
  <1>3. Search(g, m, use, src, dst) = round[K].labels
    BY DEF Search
  <1>4. IsFiniteSet(use) /\ Cardinality(use) \in Nat
    BY FS_CardinalityType DEF Net
  <1>5. SearchOK(g, m, use, src, dst, x, 0)
    <2> DEFINE L == x.labels
               Q == x.queue
    <2>1. /\ L = [v \in g.nodes |-> IF v = src THEN <<0, 0>> ELSE Unseen]
          /\ Q = {<<0, src>>}
      OBVIOUS
    <2>2. x \in Searches(g)
      BY <1>2
    <2> HIDE DEF x
    <2>3. <<0, 0>> # Unseen /\ <<0, 0>> \in Labels /\ Unseen \in Labels
      BY DEF Unseen, Labels
    <2>4. L[src] = <<0, 0>> /\ \A v \in g.nodes : v # src => L[v] = Unseen
      BY <2>1
    <2>5. Settled(g, x) = {}
      BY <2>1, <2>4 DEF Settled
    <2>6. L \in [g.nodes -> Labels]
      BY <2>2 DEF Searches
    <2>7. Traced(g, m, use, src, L)
      BY <2>4, <2>6 DEF Traced
    <2>8. \A q \in Q : L[q[2]] # Unseen /\ L[q[2]][1] <= q[1]
      <3>1. \A q \in Q : q[2] = src /\ q[1] = 0
        BY <2>1
      <3>2. L[src][1] = 0
        BY <2>4
      <3> QED
        BY <2>3, <2>4, <3>1, <3>2
    <2>9. IsFiniteSet(Q) /\ Cardinality(Q) = 1
      BY <2>1, FS_Singleton
    <2>10. Running(g, m, use, src, x)
      BY <2>2, <2>4, <2>5, <2>7, <2>8, <2>9 DEF Running
    <2>11. Ahead(g, use, x) = use
      BY <2>5 DEF Ahead
    <2>12. Cardinality(Q) + Cardinality(use) + 0 <= Cardinality(use) + 1
      BY <1>4, <2>9
    <2> QED
      BY <2>10, <2>11, <2>12 DEF SearchOK
  <1> HIDE DEF S, x, Step
  <1>6. F \in [Nat -> [S -> S]]
    BY <1>1
  <1>7. PICK r : Iterates(r, S, x, F)
    <2> HIDE DEF F
    <2> QED
      BY <1>2, <1>6, Iteration
  <1>8. r \in [Nat -> S] /\ r[0] = x /\ \A n \in Nat \ {0} : r[n] = F[n][r[n - 1]]
    BY <1>7 DEF Iterates
  <1>9. r = [n \in Nat |-> IF n = 0 THEN x ELSE Step(r[n - 1])]
    <2>1. \A n \in Nat \ {0} : n - 1 \in Nat /\ r[n - 1] \in S
      <3>1. \A n \in Nat \ {0} : n - 1 \in Nat
        OBVIOUS
      <3> QED
        BY <1>8, <3>1
    <2>2. \A n \in Nat \ {0} : F[n][r[n - 1]] = Step(r[n - 1])
      BY <2>1
    <2>3. \A n \in Nat : r[n] = IF n = 0 THEN x ELSE Step(r[n - 1])
      BY <1>8, <2>2
    <2> QED
      BY <1>8, <2>3
  <1>10. round = [n \in Nat |-> IF n = 0 THEN x ELSE Step(round[n - 1])]
    BY <1>9
  <1> HIDE DEF round
  <1> DEFINE T == {n \in Nat : SearchOK(g, m, use, src, dst, round[n], n)}
  <1>11. 0 \in T
    <2>1. round[0] = x
      BY <1>10
    <2> QED
      BY <1>5, <2>1
  <1>12. ASSUME NEW n \in T PROVE n + 1 \in T
    <2>1. n + 1 \in Nat /\ n + 1 # 0 /\ (n + 1) - 1 = n
      OBVIOUS
    <2>2. round[n + 1] = Expand(g, m, use, dst, round[n])
      BY <1>10, <2>1 DEF Step
    <2>3. SearchOK(g, m, use, src, dst, round[n], n) /\ n \in Nat
      OBVIOUS
    <2>4. SearchOK(g, m, use, src, dst, Expand(g, m, use, dst, round[n]), n + 1)
      BY <2>3, ExpandOK
    <2> QED
      BY <2>1, <2>2, <2>4
  <1>13. T = Nat
    <2>1. T \in SUBSET Nat
      OBVIOUS
    <2> HIDE DEF T
    <2> QED
      BY <1>11, <1>12, <2>1, SetInduction
  <1> DEFINE s == round[K]
  <1>14. SearchOK(g, m, use, src, dst, s, K) /\ K \in Nat
    <2>1. K \in T
      BY <1>4, <1>13
    <2> QED
      BY <2>1
  <1> HIDE DEF s
  <1>15. ASSUME Running(g, m, use, src, s),
                Cardinality(s.queue) + Cardinality(Ahead(g, use, s)) + K <= Cardinality(use) + 1
         PROVE  Final(g, m, use, src, dst, s.labels)
    <2>1. IsFiniteSet(s.queue)
      BY <1>15 DEF Running
    <2> DEFINE A == Ahead(g, use, s)
    <2>2. A \in SUBSET use
      BY DEF Ahead
    <2> HIDE DEF A
    <2>3. IsFiniteSet(A)
      BY <1>4, <2>2, FS_Subset
    <2>4. Cardinality(s.queue) \in Nat /\ Cardinality(A) \in Nat
      BY <2>1, <2>3, FS_CardinalityType
    <2>5. Cardinality(s.queue) + Cardinality(A) + K <= Cardinality(use) + 1
      BY <1>15 DEF A
    <2>6. Cardinality(s.queue) = 0
      BY <1>4, <2>4, <2>5
    <2>7. s.queue = {}
      BY <2>1, <2>6, FS_EmptySet
    <2> QED
      BY <1>15, <2>7, EmptyIsFinal
  <1>16. Final(g, m, use, src, dst, s.labels)
    BY <1>14, <1>15 DEF SearchOK
  <1> QED
    BY <1>3, <1>16 DEF s

-----------------------------------------------------------------------------
(* The paths that visit no node twice.                                      *)

LastHop(w) == w.hops[Len(w.hops)]

IsRoute(g, src, w) ==
    /\ w.hops \in Seq(g.nodes) /\ w.hops # <<>> /\ w.hops[1] = src /\ w.cost \in Nat
    /\ w = [hops |-> w.hops, cost |-> w.cost]
    /\ \A i, j \in DOMAIN w.hops : w.hops[i] = w.hops[j] => i = j

Routes(g, src) == {w \in [hops : Seq(g.nodes), cost : Nat] : IsRoute(g, src, w)}

\* The link l leads from the end of w to a node that is new.
Onward(g, w, l) == g.links[l].from = LastHop(w) /\ \A i \in DOMAIN w.hops : w.hops[i] # g.links[l].to

Further(g, m, w, l) == [hops |-> Append(w.hops, g.links[l].to), cost |-> w.cost + Metric(g.links[l], m)]

Start(src) == [hops |-> <<src>>, cost |-> 0]

LEMMA StartOK ==
  ASSUME NEW g, NEW src \in g.nodes
  PROVE  Start(src) \in Routes(g, src) /\ LastHop(Start(src)) = src /\ Len(Start(src).hops) = 1
  BY DEF Routes, IsRoute, Start, LastHop

LEMMA FurtherOK ==
  ASSUME NEW g, NEW m, NEW use, Net(g, m, use), NEW src, NEW w \in Routes(g, src), NEW l \in use, Onward(g, w, l)
  PROVE  /\ Further(g, m, w, l) \in Routes(g, src)
         /\ LastHop(Further(g, m, w, l)) = g.links[l].to
         /\ Len(Further(g, m, w, l).hops) = Len(w.hops) + 1
         /\ Further(g, m, w, l).cost = w.cost + Metric(g.links[l], m)
         /\ \A i \in DOMAIN w.hops : Further(g, m, w, l).hops[i] = w.hops[i]
  <1> DEFINE x == Further(g, m, w, l)
             h == w.hops
             v == g.links[l].to
  <1>1. h \in Seq(g.nodes) /\ h # <<>> /\ h[1] = src /\ w.cost \in Nat
    BY DEF Routes, IsRoute
  <1>2. \A i, j \in 1..Len(h) : h[i] = h[j] => i = j
    BY <1>1 DEF Routes, IsRoute
  <1>3. v \in g.nodes /\ Metric(g.links[l], m) \in Nat
    BY DEF Net
  <1>4. \A i \in 1..Len(h) : h[i] # v
    BY <1>1 DEF Onward
  <1>5. x.hops = Append(h, v) /\ x.cost = w.cost + Metric(g.links[l], m) /\ x = [hops |-> x.hops, cost |-> x.cost]
    BY DEF Further
  <1> HIDE DEF x, h, v
  <1>6. /\ Append(h, v) \in Seq(g.nodes) /\ Len(Append(h, v)) = Len(h) + 1 /\ Len(h) \in Nat /\ Len(h) >= 1
        /\ \A i \in 1..Len(h) : Append(h, v)[i] = h[i]
        /\ Append(h, v)[Len(h) + 1] = v
        /\ DOMAIN Append(h, v) = 1..(Len(h) + 1)
    BY <1>1, <1>3
  <1>7. \A i, j \in 1..(Len(h) + 1) : Append(h, v)[i] = Append(h, v)[j] => i = j
    <2>1. \A i \in 1..(Len(h) + 1) : i = Len(h) + 1 \/ i \in 1..Len(h)
      BY <1>6
    <2> QED
      BY <1>2, <1>4, <1>6, <2>1
  <1>8. x.cost \in Nat
    BY <1>1, <1>3, <1>5
  <1>9. Append(h, v)[1] = src /\ Append(h, v) # <<>>
    BY <1>1, <1>6
  <1>10. IsRoute(g, src, x)
    BY <1>5, <1>6, <1>7, <1>8, <1>9 DEF IsRoute
  <1>11. x \in [hops : Seq(g.nodes), cost : Nat]
    BY <1>5, <1>6, <1>8
  <1>12. DOMAIN h = 1..Len(h)
    BY <1>1
  <1> QED
    BY <1>5, <1>6, <1>10, <1>11, <1>12 DEF x, h, v, LastHop, Routes

\* A path has no more hops than there are nodes.
LEMMA RouteLength ==
  ASSUME NEW g, IsFiniteSet(g.nodes), NEW src, NEW w \in Routes(g, src)
  PROVE  Len(w.hops) \in Nat /\ Len(w.hops) >= 1 /\ Len(w.hops) <= Cardinality(g.nodes) /\ LastHop(w) \in g.nodes
  <1> DEFINE h == w.hops
             N == g.nodes
             I == 1..Len(h)
  <1>1. h \in Seq(N) /\ h # <<>> /\ \A i, j \in DOMAIN h : h[i] = h[j] => i = j
    BY DEF Routes, IsRoute
  <1>2. IsFiniteSet(N)
    OBVIOUS
  <1> HIDE DEF h, N
  <1>3. Len(h) \in Nat /\ Len(h) >= 1 /\ h \in [I -> N] /\ DOMAIN h = I
    BY <1>1
  <1>4. IsFiniteSet(I) /\ Cardinality(I) = Len(h)
    BY <1>3, FS_Interval
  <1>5. h \in Injection(I, N)
    <2> HIDE DEF I
    <2> QED
      BY <1>1, <1>3, Fun_IsInj
  <1>6. Cardinality(I) <= Cardinality(N)
    <2> HIDE DEF I
    <2> QED
      BY <1>2, <1>5, FS_Injection
  <1>7. h[Len(h)] \in N
    BY <1>3
  <1> QED
    BY <1>3, <1>4, <1>6, <1>7 DEF h, N, LastHop

LEMMA LongerIs ==
  ASSUME NEW g, NEW m, NEW use, NEW paths, NEW x
  PROVE  x \in Longer(g, m, use, paths) <=>
           \/ x \in paths
           \/ \E w \in paths, l \in use : Onward(g, w, l) /\ x = Further(g, m, w, l)
  BY DEF Longer, Onward, Further, LastHop

\* up is upTo of SimplePaths.
UpTo(up, g, m, use, src) ==
    /\ up \in [Nat -> SUBSET Routes(g, src)] /\ up[0] = {Start(src)}
    /\ \A n \in Nat : up[n + 1] = Longer(g, m, use, up[n])

LEMMA UpToExists ==
  ASSUME NEW g, NEW m, NEW c, Net(g, m, Usable(g, m, c)), NEW src \in g.nodes
  PROVE  \E up : UpTo(up, g, m, Usable(g, m, c), src) /\ SimplePaths(g, src, m, c) = up[Cardinality(g.nodes)]
  <1> DEFINE use == Usable(g, m, c)
             S == SUBSET Routes(g, src)
             x == {Start(src)}
             Step(paths) == Longer(g, m, use, paths)
             F == [n \in Nat |-> [s \in S |-> Step(s)]]
             up == CHOOSE f : f = [n \in Nat |-> IF n = 0 THEN x ELSE Step(f[n - 1])]
  <1>1. \A s \in S : Step(s) \in S
    <2> SUFFICES ASSUME NEW s \in S, NEW y \in Step(s) PROVE y \in Routes(g, src)
      OBVIOUS
    <2>1. y \in s \/ \E w \in s, l \in use : Onward(g, w, l) /\ y = Further(g, m, w, l)
      BY LongerIs
    <2>2. ASSUME NEW w \in s, NEW l \in use, Onward(g, w, l) PROVE Further(g, m, w, l) \in Routes(g, src)
      BY <2>2, FurtherOK
    <2> QED
      BY <2>1, <2>2
  <1>2. x \in S
    BY StartOK
  <1>3. SimplePaths(g, src, m, c) = up[Cardinality(g.nodes)]
    BY DEF SimplePaths, Start
  <1> HIDE DEF S, x, Step
  <1>6. F \in [Nat -> [S -> S]]
    BY <1>1
  <1>7. PICK r : Iterates(r, S, x, F)
    <2> HIDE DEF F
    <2> QED
      BY <1>2, <1>6, Iteration
  <1>8. r \in [Nat -> S] /\ r[0] = x /\ \A n \in Nat \ {0} : r[n] = F[n][r[n - 1]]
    BY <1>7 DEF Iterates
  <1>9. r = [n \in Nat |-> IF n = 0 THEN x ELSE Step(r[n - 1])]
    <2>1. \A n \in Nat \ {0} : n - 1 \in Nat /\ r[n - 1] \in S
      <3>1. \A n \in Nat \ {0} : n - 1 \in Nat
        OBVIOUS
      <3> QED
        BY <1>8, <3>1
    <2>2. \A n \in Nat \ {0} : F[n][r[n - 1]] = Step(r[n - 1])
      BY <2>1
    <2>3. \A n \in Nat : r[n] = IF n = 0 THEN x ELSE Step(r[n - 1])
      BY <1>8, <2>2
    <2> QED
      BY <1>8, <2>3
  <1>10. up = [n \in Nat |-> IF n = 0 THEN x ELSE Step(up[n - 1])]
    BY <1>9
  <1> HIDE DEF up
  <1>11. up[0] = x /\ \A n \in Nat : up[n + 1] = Step(up[n])
    <2>1. \A n \in Nat : n + 1 \in Nat /\ n + 1 # 0 /\ (n + 1) - 1 = n
      OBVIOUS
    <2> QED
      BY <1>10, <2>1
  <1>12. up \in [Nat -> S]
    <2> DEFINE T == {n \in Nat : up[n] \in S}
    <2>1. 0 \in T
      BY <1>2, <1>11
    <2>2. ASSUME NEW n \in T PROVE n + 1 \in T
      BY <1>1, <1>11
    <2>3. T \in SUBSET Nat
      OBVIOUS
    <2>4. T = Nat
      <3> HIDE DEF T
      <3> QED
        BY <2>1, <2>2, <2>3, SetInduction
    <2>5. \A n \in Nat : up[n] \in S
      BY <2>4
    <2> QED
      BY <1>10, <2>5
  <1>13. UpTo(up, g, m, use, src)
    BY <1>11, <1>12 DEF UpTo, S, x, Step
  <1> QED
    BY <1>3, <1>13

\* Whatever the start has, and a longer path has when the shorter one does, all paths have.
LEMMA PathInduction ==
  ASSUME NEW g, NEW m, NEW c, Net(g, m, Usable(g, m, c)), NEW src \in g.nodes,
         NEW Q, Start(src) \in Q,
         \A w \in Q \cap Routes(g, src), l \in Usable(g, m, c) : Onward(g, w, l) => Further(g, m, w, l) \in Q
  PROVE  SimplePaths(g, src, m, c) \subseteq Q
  <1> DEFINE use == Usable(g, m, c)
  <1>1. PICK up : UpTo(up, g, m, use, src) /\ SimplePaths(g, src, m, c) = up[Cardinality(g.nodes)]
    BY UpToExists
  <1>2. Cardinality(g.nodes) \in Nat
    BY FS_CardinalityType DEF Net
  <1> HIDE DEF use
  <1>3. /\ up \in [Nat -> SUBSET Routes(g, src)] /\ up[0] = {Start(src)}
        /\ \A n \in Nat : up[n + 1] = Longer(g, m, use, up[n])
    BY <1>1 DEF UpTo
  <1> DEFINE T == {n \in Nat : up[n] \subseteq Q}
  <1>4. 0 \in T
    BY <1>3
  <1>5. ASSUME NEW n \in T PROVE n + 1 \in T
    <2>1. n \in Nat /\ n + 1 \in Nat /\ up[n] \subseteq Q /\ up[n] \subseteq Routes(g, src)
      BY <1>3
    <2>2. ASSUME NEW x \in up[n + 1] PROVE x \in Q
      <3>1. x \in up[n] \/ \E w \in up[n], l \in use : Onward(g, w, l) /\ x = Further(g, m, w, l)
        BY <1>3, <2>1, LongerIs
      <3> QED
        BY <2>1, <3>1 DEF use
    <2> QED
      BY <2>1, <2>2
  <1>6. T = Nat
    <2>1. T \in SUBSET Nat
      OBVIOUS
    <2> HIDE DEF T
    <2> QED
      BY <1>4, <1>5, <2>1, SetInduction
  <1> QED
    BY <1>1, <1>2, <1>6

\* Every path is there, and every one that goes on from one that is.
LEMMA SimplePathsOK ==
  ASSUME NEW g, NEW m, NEW c, Net(g, m, Usable(g, m, c)), NEW src \in g.nodes
  PROVE  /\ SimplePaths(g, src, m, c) \in SUBSET Routes(g, src)
         /\ Start(src) \in SimplePaths(g, src, m, c)
         /\ \A w \in SimplePaths(g, src, m, c), l \in Usable(g, m, c) :
              Onward(g, w, l) => Further(g, m, w, l) \in SimplePaths(g, src, m, c)
  <1> DEFINE use == Usable(g, m, c)
             P == SimplePaths(g, src, m, c)
             K == Cardinality(g.nodes)
  <1>1. PICK up : UpTo(up, g, m, use, src) /\ P = up[K]
    BY UpToExists
  <1>2. K \in Nat /\ IsFiniteSet(g.nodes)
    BY FS_CardinalityType DEF Net
  <1>3. Net(g, m, use)
    OBVIOUS
  <1> HIDE DEF use, P, K
  <1>4. /\ up \in [Nat -> SUBSET Routes(g, src)] /\ up[0] = {Start(src)}
        /\ \A n \in Nat : up[n + 1] = Longer(g, m, use, up[n])
    BY <1>1 DEF UpTo
  <1>5. \A n \in Nat : \A w \in up[n] : w \in Routes(g, src) /\ Len(w.hops) \in Nat /\ Len(w.hops) >= 1
    BY <1>2, <1>4, RouteLength
  <1>6. \A n \in Nat : up[n] \subseteq up[n + 1]
    BY <1>4, LongerIs
  \* A path is there after as many rounds as it has links.
  <1> DEFINE T == {n \in Nat : \A k \in 0..n : up[k] \subseteq up[n]}
             U == {n \in Nat : \A w \in up[n] : \A k \in 0..n : Len(w.hops) <= k + 1 => w \in up[k]}
  <1>7. T = Nat
    <2>1. 0 \in T
      <3>1. \A k \in 0..0 : k = 0
        OBVIOUS
      <3> QED
        BY <3>1
    <2>2. ASSUME NEW n \in T PROVE n + 1 \in T
      <3>1. \A k \in 0..(n + 1) : k = n + 1 \/ k \in 0..n
        OBVIOUS
      <3> QED
        BY <1>6, <3>1
    <2>3. T \in SUBSET Nat
      OBVIOUS
    <2> HIDE DEF T
    <2> QED
      BY <2>1, <2>2, <2>3, SetInduction
  <1>8. U = Nat
    <2>1. 0 \in U
      <3>1. \A k \in 0..0 : k = 0
        OBVIOUS
      <3> QED
        BY <3>1
    <2>2. ASSUME NEW n \in U PROVE n + 1 \in U
      <3> SUFFICES ASSUME NEW x \in up[n + 1], NEW k \in 0..(n + 1), Len(x.hops) <= k + 1 PROVE x \in up[k]
        OBVIOUS
      <3>0. n \in Nat /\ k \in Nat
        OBVIOUS
      <3>1. k = n + 1 \/ k \in 0..n
        OBVIOUS
      <3>2. CASE k = n + 1
        BY <3>2
      <3>3. CASE k \in 0..n /\ x \in up[n]
        BY <3>3
      <3>4. CASE k \in 0..n /\ x \notin up[n]
        <4>1. PICK w \in up[n], l \in use : Onward(g, w, l) /\ x = Further(g, m, w, l)
          BY <1>4, <3>0, <3>4, LongerIs
        <4>2. w \in Routes(g, src) /\ Len(w.hops) \in Nat /\ Len(w.hops) >= 1
          BY <1>5, <3>0
        <4>3. Len(x.hops) = Len(w.hops) + 1
          BY <1>3, <4>1, <4>2, FurtherOK
        <4>4. k >= 1 /\ k - 1 \in 0..n /\ Len(w.hops) <= (k - 1) + 1 /\ k - 1 \in Nat /\ (k - 1) + 1 = k
          BY <3>0, <3>4, <4>2, <4>3
        <4>5. w \in up[k - 1]
          BY <4>4
        <4>6. up[k] = Longer(g, m, use, up[k - 1])
          BY <1>4, <4>4
        <4> QED
          BY <4>1, <4>5, <4>6, LongerIs
      <3> QED
        BY <3>1, <3>2, <3>3, <3>4
    <2>3. U \in SUBSET Nat
      OBVIOUS
    <2> HIDE DEF U
    <2> QED
      BY <2>1, <2>2, <2>3, SetInduction
  <1>9. P \in SUBSET Routes(g, src)
    BY <1>1, <1>2, <1>4
  <1>10. Start(src) \in P
    <2>1. K \in T /\ 0 \in 0..K
      BY <1>2, <1>7
    <2> QED
      BY <1>1, <1>4, <2>1
  <1>11. ASSUME NEW w \in P, NEW l \in use, Onward(g, w, l) PROVE Further(g, m, w, l) \in P
    <2>1. w \in Routes(g, src) /\ Len(w.hops) \in Nat /\ Len(w.hops) >= 1
      BY <1>1, <1>2, <1>5
    <2> DEFINE x == Further(g, m, w, l)
               k == Len(w.hops)
    <2>2. x \in Routes(g, src) /\ Len(x.hops) = k + 1
      BY <1>3, <1>11, <2>1, FurtherOK
    <2>3. Len(x.hops) <= K
      <3> HIDE DEF x
      <3> QED
        BY <1>2, <2>2, RouteLength DEF K
    <2>4. k - 1 \in 0..K /\ k \in 0..K /\ k - 1 \in Nat /\ (k - 1) + 1 = k /\ k \in Nat
      BY <1>2, <2>1, <2>2, <2>3
    <2> HIDE DEF x, k
    <2>5. w \in up[k - 1]
      <3>1. K \in U
        BY <1>2, <1>8
      <3> QED
        BY <1>1, <2>4, <3>1 DEF k
    <2>6. up[k] = Longer(g, m, use, up[k - 1])
      BY <1>4, <2>4
    <2>7. x \in up[k]
      BY <1>11, <2>5, <2>6, LongerIs DEF x
    <2>8. up[k] \subseteq up[K]
      <3>1. K \in T
        BY <1>2, <1>7
      <3> QED
        BY <2>4, <3>1
    <2> QED
      BY <1>1, <2>7, <2>8 DEF x
  <1> QED
    BY <1>9, <1>10, <1>11 DEF P, use

-----------------------------------------------------------------------------
(* Labels against paths.                                                    *)

\* No path is cheaper than the label of the node it leads to.
LEMMA LabelsBound ==
  ASSUME NEW g, NEW m, NEW c, Net(g, m, Usable(g, m, c)), NEW src \in g.nodes, NEW dst \in g.nodes,
         NEW L, Final(g, m, Usable(g, m, c), src, dst, L),
         NEW x \in SimplePaths(g, src, m, c), LastHop(x) = dst
  PROVE  L[dst] # Unseen /\ L[dst][1] \in Nat /\ L[dst][1] <= x.cost
  <1> DEFINE use == Usable(g, m, c)
             Q == {w \in Routes(g, src) : \/ L[dst] # Unseen /\ L[dst][1] <= w.cost
                                          \/ L[LastHop(w)] # Unseen /\ L[LastHop(w)][1] <= w.cost}
  <1>1. Net(g, m, use) /\ IsFiniteSet(g.nodes)
    BY DEF Net
  <1>2. L \in [g.nodes -> Labels] /\ L[src] = <<0, 0>>
    BY DEF Final, Traced
  <1>3. PICK D \in SUBSET g.nodes :
          /\ \A u \in D : L[u] # Unseen /\ Relaxed(g, m, use, L, u)
          /\ \A v \in g.nodes \ D : L[v] = Unseen \/ (L[dst] # Unseen /\ L[dst][1] <= L[v][1])
    BY DEF Final
  <1>4. \A v \in g.nodes : L[v] # Unseen => L[v][1] \in Nat
    BY <1>2, LabelFacts
  <1>5. Start(src) \in Q
    <2>1. Start(src) \in Routes(g, src) /\ LastHop(Start(src)) = src
      BY StartOK
    <2>2. Start(src).cost = 0
      BY DEF Start
    <2>3. L[src] # Unseen /\ L[src][1] = 0
      BY <1>2 DEF Unseen
    <2> QED
      BY <2>1, <2>2, <2>3
  <1>6. ASSUME NEW w \in Q \cap Routes(g, src), NEW l \in use, Onward(g, w, l) PROVE Further(g, m, w, l) \in Q
    <2> DEFINE y == Further(g, m, w, l)
               u == LastHop(w)
               v == g.links[l].to
    <2>1. y \in Routes(g, src) /\ LastHop(y) = v /\ y.cost = w.cost + Metric(g.links[l], m)
      BY <1>1, <1>6, FurtherOK
    <2>2. u \in g.nodes
      BY <1>1, RouteLength
    <2>3. w.cost \in Nat /\ Metric(g.links[l], m) \in Nat /\ v \in g.nodes
      <3>1. w.cost \in Nat
        BY DEF Routes, IsRoute
      <3> QED
        BY <1>1, <3>1 DEF Net
    <2>4. l \in Out(g, use, u)
      BY <1>6 DEF Onward, Out
    <2> HIDE DEF y, u, v
    <2>5. CASE L[dst] # Unseen /\ L[dst][1] <= w.cost
      <3>1. L[dst][1] <= y.cost
        BY <1>4, <2>1, <2>3, <2>5
      <3> QED
        BY <2>1, <2>5, <3>1 DEF y
    <2>6. CASE L[u] # Unseen /\ L[u][1] <= w.cost /\ u \in D
      <3>1. L[v] # Unseen /\ L[v][1] <= L[u][1] + Metric(g.links[l], m)
        BY <1>3, <2>4, <2>6 DEF Relaxed, v
      <3>2. L[v][1] \in Nat /\ L[u][1] \in Nat
        BY <1>4, <2>2, <2>3, <2>6, <3>1
      <3>3. L[v][1] <= y.cost
        BY <2>1, <2>3, <2>6, <3>1, <3>2
      <3> QED
        BY <2>1, <3>1, <3>3 DEF y
    <2>7. CASE L[u] # Unseen /\ L[u][1] <= w.cost /\ u \notin D
      <3>1. L[dst] # Unseen /\ L[dst][1] <= L[u][1]
        BY <1>3, <2>2, <2>7
      <3>2. L[dst][1] \in Nat /\ L[u][1] \in Nat
        BY <1>4, <2>2, <2>7, <3>1
      <3>3. L[dst][1] <= y.cost
        BY <2>1, <2>3, <2>7, <3>1, <3>2
      <3> QED
        BY <2>1, <3>1, <3>3 DEF y
    <2> QED
      BY <2>5, <2>6, <2>7 DEF u
  <1>7. SimplePaths(g, src, m, c) \subseteq Q
    <2> HIDE DEF Q
    <2> QED
      BY <1>5, <1>6, PathInduction
  <1>8. L[dst] # Unseen /\ L[dst][1] <= x.cost
    BY <1>7
  <1> QED
    BY <1>4, <1>8

\* w leads to v at the cost of its label, over nodes that are no farther.
Reaches(L, w, v) ==
    /\ LastHop(w) = v /\ w.cost = L[v][1]
    /\ \A i \in DOMAIN w.hops : L[w.hops[i]] # Unseen /\ L[w.hops[i]][1] <= L[v][1]

\* A label is the cost of a path.
LEMMA LabelsAttained ==
  ASSUME NEW g, NEW m, NEW c, Net(g, m, Usable(g, m, c)), NEW src \in g.nodes,
         NEW L, Traced(g, m, Usable(g, m, c), src, L), NEW v \in g.nodes, L[v] # Unseen
  PROVE  \E w \in SimplePaths(g, src, m, c) : Reaches(L, w, v)
  <1> DEFINE use == Usable(g, m, c)
             P == SimplePaths(g, src, m, c)
             T == {n \in Nat : \A x \in g.nodes : L[x] # Unseen /\ L[x][1] <= n => \E w \in P : Reaches(L, w, x)}
  <1>1. Net(g, m, use) /\ IsFiniteSet(g.nodes)
    BY DEF Net
  <1>2. P \in SUBSET Routes(g, src) /\ Start(src) \in P
        /\ \A w \in P, l \in use : Onward(g, w, l) => Further(g, m, w, l) \in P
    BY SimplePathsOK
  <1>3. /\ L \in [g.nodes -> Labels] /\ L[src] = <<0, 0>>
        /\ \A x \in g.nodes : x # src /\ L[x] # Unseen =>
             /\ L[x][2] \in use /\ g.links[L[x][2]].to = x
             /\ L[g.links[L[x][2]].from] # Unseen /\ L[x] = Offer(g, m, L, L[x][2])
    BY DEF Traced
  <1>4. \A x \in g.nodes : L[x] # Unseen => L[x][1] \in Nat
    BY <1>3, LabelFacts
  <1>5. Reaches(L, Start(src), src)
    <2>1. LastHop(Start(src)) = src
      BY StartOK
    <2>2. Start(src).cost = 0 /\ Start(src).hops = <<src>>
      BY DEF Start
    <2>3. L[src] # Unseen /\ L[src][1] = 0
      BY <1>3 DEF Unseen
    <2> QED
      BY <2>1, <2>2, <2>3 DEF Reaches
  <1>6. ASSUME NEW x \in g.nodes, x # src, L[x] # Unseen
        PROVE  \E l \in use : /\ g.links[l].to = x /\ g.links[l].from \in g.nodes /\ L[g.links[l].from] # Unseen
                              /\ Metric(g.links[l], m) \in Nat \ {0}
                              /\ L[x][1] = L[g.links[l].from][1] + Metric(g.links[l], m)
    <2> DEFINE l == L[x][2]
    <2>1. l \in use /\ g.links[l].to = x /\ L[g.links[l].from] # Unseen /\ L[x] = Offer(g, m, L, l)
      BY <1>3, <1>6
    <2> HIDE DEF l
    <2>2. L[x][1] = L[g.links[l].from][1] + Metric(g.links[l], m)
      BY <2>1 DEF Offer
    <2>3. g.links[l].from \in g.nodes /\ Metric(g.links[l], m) \in Nat \ {0}
      BY <1>1, <2>1 DEF Net
    <2> QED
      BY <2>1, <2>2, <2>3
  <1> HIDE DEF use, P
  <1>7. 0 \in T
    <2> SUFFICES ASSUME NEW x \in g.nodes, L[x] # Unseen, L[x][1] <= 0 PROVE \E w \in P : Reaches(L, w, x)
      OBVIOUS
    <2>1. x = src
      <3> SUFFICES ASSUME x # src PROVE FALSE
        OBVIOUS
      <3>1. PICK l \in use : /\ g.links[l].from \in g.nodes /\ L[g.links[l].from] # Unseen
                             /\ Metric(g.links[l], m) \in Nat \ {0}
                             /\ L[x][1] = L[g.links[l].from][1] + Metric(g.links[l], m)
        BY <1>6
      <3>2. L[g.links[l].from][1] \in Nat
        BY <1>4, <3>1
      <3> QED
        BY <3>1, <3>2
    <2> QED
      BY <1>2, <1>5, <2>1
  <1>8. ASSUME NEW n \in T PROVE n + 1 \in T
    <2> SUFFICES ASSUME NEW x \in g.nodes, L[x] # Unseen, L[x][1] <= n + 1 PROVE \E w \in P : Reaches(L, w, x)
      OBVIOUS
    <2>1. CASE x = src
      BY <1>2, <1>5, <2>1
    <2>2. CASE x # src
      <3>1. PICK l \in use : /\ g.links[l].to = x /\ g.links[l].from \in g.nodes /\ L[g.links[l].from] # Unseen
                             /\ Metric(g.links[l], m) \in Nat \ {0}
                             /\ L[x][1] = L[g.links[l].from][1] + Metric(g.links[l], m)
        BY <1>6, <2>2
      <3> DEFINE u == g.links[l].from
                 M == Metric(g.links[l], m)
      <3>2. u \in g.nodes /\ L[u] # Unseen /\ M \in Nat \ {0} /\ L[x][1] = L[u][1] + M
        BY <3>1
      <3> HIDE DEF u, M
      <3>3. L[u][1] \in Nat /\ L[x][1] \in Nat
        BY <1>4, <3>2
      <3>4. L[u][1] <= n /\ L[u][1] < L[x][1]
        BY <3>2, <3>3
      <3>5. PICK w \in P : Reaches(L, w, u)
        BY <3>2, <3>4
      <3>6. w \in Routes(g, src) /\ w.hops \in Seq(g.nodes)
        BY <1>2 DEF Routes, IsRoute
      <3>7. \A i \in DOMAIN w.hops : w.hops[i] \in g.nodes /\ L[w.hops[i]] # Unseen /\ L[w.hops[i]][1] <= L[u][1]
                                     /\ L[w.hops[i]][1] \in Nat
        <4>1. \A i \in DOMAIN w.hops : w.hops[i] \in g.nodes
          BY <3>6
        <4>2. \A i \in DOMAIN w.hops : L[w.hops[i]] # Unseen /\ L[w.hops[i]][1] <= L[u][1]
          BY <3>5 DEF Reaches
        <4> QED
          BY <1>4, <4>1, <4>2
      <3>8. \A i \in DOMAIN w.hops : w.hops[i] # x
        BY <3>3, <3>4, <3>7
      <3>9. Onward(g, w, l)
        BY <3>1, <3>5, <3>8 DEF Onward, Reaches, u
      <3> DEFINE y == Further(g, m, w, l)
      <3>10. y \in P
        BY <1>2, <3>9
      <3>11. LastHop(y) = x /\ Len(y.hops) = Len(w.hops) + 1 /\ y.cost = w.cost + M
             /\ \A i \in DOMAIN w.hops : y.hops[i] = w.hops[i]
        BY <1>1, <3>1, <3>6, <3>9, FurtherOK DEF use, M
      <3>12. y \in Routes(g, src)
        BY <1>2, <3>10
      <3> HIDE DEF y
      <3>13. y.hops \in Seq(g.nodes) /\ Len(w.hops) \in Nat
        BY <3>6, <3>12 DEF Routes
      <3>14. y.cost = L[x][1]
        BY <3>2, <3>5, <3>11 DEF Reaches
      <3>15. ASSUME NEW i \in DOMAIN y.hops PROVE L[y.hops[i]] # Unseen /\ L[y.hops[i]][1] <= L[x][1]
        <4>1. i \in DOMAIN w.hops \/ i = Len(y.hops)
          BY <3>6, <3>11, <3>13
        <4>2. CASE i = Len(y.hops)
          <5>1. y.hops[i] = x
            BY <3>11, <4>2 DEF LastHop
          <5> QED
            BY <3>3, <5>1
        <4>3. CASE i \in DOMAIN w.hops
          <5>1. y.hops[i] = w.hops[i]
            BY <3>11, <4>3
          <5>2. L[w.hops[i]] # Unseen /\ L[w.hops[i]][1] <= L[u][1] /\ L[w.hops[i]][1] \in Nat
            BY <3>7, <4>3
          <5>3. L[w.hops[i]][1] <= L[x][1]
            BY <3>3, <3>4, <5>2
          <5> QED
            BY <5>1, <5>2, <5>3
        <4> QED
          BY <4>1, <4>2, <4>3
      <3>16. Reaches(L, y, x)
        BY <3>11, <3>14, <3>15 DEF Reaches
      <3> QED
        BY <3>10, <3>16
    <2> QED
      BY <2>1, <2>2
  <1>9. T = Nat
    <2>1. T \in SUBSET Nat
      OBVIOUS
    <2> HIDE DEF T
    <2> QED
      BY <1>7, <1>8, <2>1, SetInduction
  <1>10. L[v][1] \in T /\ L[v][1] <= L[v][1]
    BY <1>4, <1>9
  <1>11. \E w \in P : Reaches(L, w, v)
    BY <1>10
  <1> QED
    BY <1>11 DEF P

-----------------------------------------------------------------------------
(* The way back over the labels.                                            *)

\* links lead from node to node of at, each as its label says.
Trail(g, m, use, L, at, links) ==
    /\ links \in Seq(use) /\ at \in [0..Len(links) -> g.nodes]
    /\ \A i \in 0..Len(links) : L[at[i]] # Unseen
    /\ \A i \in 1..Len(links) : /\ g.links[links[i]].from = at[i - 1] /\ g.links[links[i]].to = at[i]
                                /\ L[at[i]][1] = L[at[i - 1]][1] + Metric(g.links[links[i]], m)

\* What the way back from dst has collected.
Backs(g, m, use, L, dst) ==
    {s \in [at : g.nodes, links : Seq(use)] :
        \E at : Trail(g, m, use, L, at, s.links) /\ at[0] = s.at /\ at[Len(s.links)] = dst}

\* One link before the others.
LEMMA TrailBefore ==
  ASSUME NEW g, NEW m, NEW use, Net(g, m, use), NEW L, NEW at, NEW links, Trail(g, m, use, L, at, links),
         NEW l \in use, g.links[l].to = at[0], L[g.links[l].from] # Unseen,
         L[at[0]][1] = L[g.links[l].from][1] + Metric(g.links[l], m)
  PROVE  \E b : /\ Trail(g, m, use, L, b, <<l>> \o links) /\ b[0] = g.links[l].from
                /\ b[Len(<<l>> \o links)] = at[Len(links)]
  <1> DEFINE k == Len(links)
             r == <<l>> \o links
             b == [i \in 0..(k + 1) |-> IF i = 0 THEN g.links[l].from ELSE at[i - 1]]
  <1>1. /\ links \in Seq(use) /\ at \in [0..k -> g.nodes] /\ k \in Nat
        /\ \A i \in 0..k : L[at[i]] # Unseen
        /\ \A i \in 1..k : /\ g.links[links[i]].from = at[i - 1] /\ g.links[links[i]].to = at[i]
                           /\ L[at[i]][1] = L[at[i - 1]][1] + Metric(g.links[links[i]], m)
    BY DEF Trail
  <1>2. /\ r \in Seq(use) /\ Len(r) = k + 1 /\ r[1] = l
        /\ \A i \in 2..(k + 1) : r[i] = links[i - 1]
    BY <1>1
  <1>3. g.links[l].from \in g.nodes
    BY DEF Net
  <1>4. /\ b[0] = g.links[l].from /\ \A i \in 1..(k + 1) : b[i] = at[i - 1] /\ i - 1 \in 0..k
    BY <1>1
  <1>5. \A i \in 0..(k + 1) : i = 0 \/ i \in 1..(k + 1)
    BY <1>1
  <1>6. DOMAIN b = 0..(k + 1) /\ b = [i \in 0..(k + 1) |-> b[i]]
    OBVIOUS
  <1> HIDE DEF b, r
  <1>7. \A i \in 0..(k + 1) : b[i] \in g.nodes /\ L[b[i]] # Unseen
    BY <1>1, <1>3, <1>4, <1>5
  <1>8. b \in [0..(k + 1) -> g.nodes]
    BY <1>6, <1>7
  <1>9. ASSUME NEW i \in 1..(k + 1)
        PROVE  /\ g.links[r[i]].from = b[i - 1] /\ g.links[r[i]].to = b[i]
               /\ L[b[i]][1] = L[b[i - 1]][1] + Metric(g.links[r[i]], m)
    <2>1. CASE i = 1
      <3>1. b[1] = at[0] /\ i - 1 = 0 /\ r[i] = l
        BY <1>1, <1>2, <1>4, <2>1
      <3> QED
        BY <1>4, <2>1, <3>1
    <2>2. CASE i # 1
      <3>1. i \in 2..(k + 1) /\ i - 1 \in 1..k /\ i - 1 \in 1..(k + 1)
        BY <1>1, <2>2
      <3>2. r[i] = links[i - 1] /\ b[i] = at[i - 1] /\ b[i - 1] = at[(i - 1) - 1]
        BY <1>2, <1>4, <3>1
      <3> QED
        BY <1>1, <3>1, <3>2
    <2> QED
      BY <2>1, <2>2
  <1>10. Trail(g, m, use, L, b, r)
    BY <1>2, <1>7, <1>8, <1>9 DEF Trail
  <1>11. b[Len(r)] = at[k]
    BY <1>1, <1>2, <1>4
  <1> QED
    BY <1>4, <1>10, <1>11 DEF r

LEMMA TracedLink ==
  ASSUME NEW g, NEW m, NEW use, Net(g, m, use), NEW src, NEW L, Traced(g, m, use, src, L),
         NEW x \in g.nodes, x # src, L[x] # Unseen
  PROVE  /\ L[x][2] \in use /\ g.links[L[x][2]].to = x /\ g.links[L[x][2]].from \in g.nodes
         /\ L[g.links[L[x][2]].from] # Unseen /\ Metric(g.links[L[x][2]], m) \in Nat \ {0}
         /\ L[x][1] = L[g.links[L[x][2]].from][1] + Metric(g.links[L[x][2]], m)
  <1> DEFINE l == L[x][2]
  <1>1. l \in use /\ g.links[l].to = x /\ L[g.links[l].from] # Unseen /\ L[x] = Offer(g, m, L, l)
    BY DEF Traced
  <1> HIDE DEF l
  <1>2. L[x][1] = L[g.links[l].from][1] + Metric(g.links[l], m)
    BY <1>1 DEF Offer
  <1>3. g.links[l].from \in g.nodes /\ Metric(g.links[l], m) \in Nat \ {0}
    BY <1>1 DEF Net
  <1> QED
    BY <1>1, <1>2, <1>3 DEF l

LEMMA StepBackOK ==
  ASSUME NEW g, NEW m, NEW use, Net(g, m, use), NEW src, NEW L, Traced(g, m, use, src, L),
         NEW dst, NEW s \in Backs(g, m, use, L, dst)
  PROVE  /\ StepBack(g, L, src, s) \in Backs(g, m, use, L, dst)
         /\ L[s.at] # Unseen
         /\ s.at # src => StepBack(g, L, src, s).at = g.links[L[s.at][2]].from
         /\ s.at = src => StepBack(g, L, src, s) = s
  <1>1. PICK at : Trail(g, m, use, L, at, s.links) /\ at[0] = s.at /\ at[Len(s.links)] = dst
    BY DEF Backs
  <1>2. s.at \in g.nodes /\ s.links \in Seq(use)
    BY DEF Backs
  <1>3. L[s.at] # Unseen
    <2>1. 0 \in 0..Len(s.links)
      BY <1>2
    <2> QED
      BY <1>1, <2>1 DEF Trail
  <1>4. CASE s.at = src
    BY <1>3, <1>4 DEF StepBack
  <1>5. CASE s.at # src
    <2> DEFINE x == s.at
               l == L[x][2]
               d == StepBack(g, L, src, s)
    <2>1. /\ l \in use /\ g.links[l].to = x /\ g.links[l].from \in g.nodes
          /\ L[g.links[l].from] # Unseen
          /\ L[x][1] = L[g.links[l].from][1] + Metric(g.links[l], m)
      BY <1>2, <1>3, <1>5, TracedLink
    <2>2. d = [at |-> g.links[l].from, links |-> <<l>> \o s.links]
      BY <1>5 DEF StepBack
    <2> HIDE DEF x, l, d
    <2>3. at[0] = x
      BY <1>1 DEF x
    <2>4. PICK b : /\ Trail(g, m, use, L, b, <<l>> \o s.links) /\ b[0] = g.links[l].from
                   /\ b[Len(<<l>> \o s.links)] = at[Len(s.links)]
      BY <1>1, <2>1, <2>3, TrailBefore
    <2>5. <<l>> \o s.links \in Seq(use)
      BY <1>2, <2>1
    <2>6. d.at = g.links[l].from /\ d.links = <<l>> \o s.links /\ d \in [at : g.nodes, links : Seq(use)]
      BY <2>1, <2>2, <2>5
    <2>7. d \in Backs(g, m, use, L, dst)
      BY <1>1, <2>4, <2>6 DEF Backs
    <2> QED
      BY <1>3, <1>5, <2>6, <2>7 DEF d, l, x
  <1> QED
    BY <1>4, <1>5

\* links lead over usable links from node to node of at, and cost sum.
Walk(g, m, use, at, sum, links) ==
    /\ links \in Seq(use) /\ at \in [0..Len(links) -> g.nodes] /\ sum \in [0..Len(links) -> Nat] /\ sum[0] = 0
    /\ \A i \in 1..Len(links) : /\ g.links[links[i]].from = at[i - 1] /\ g.links[links[i]].to = at[i]
                                /\ sum[i] = sum[i - 1] + Metric(g.links[links[i]], m)

Leads(g, m, use, src, dst, path) ==
    \E at, sum : /\ Walk(g, m, use, at, sum, path.links)
                 /\ at[0] = src /\ at[Len(path.links)] = dst /\ sum[Len(path.links)] = path.cost

\* A trail from the source is a walk that costs what the label says.
LEMMA TrailIsWalk ==
  ASSUME NEW g, NEW m, NEW use, NEW src, NEW L, Traced(g, m, use, src, L), NEW at, NEW path,
         Trail(g, m, use, L, at, path.links), at[0] = src, path.cost = L[at[Len(path.links)]][1]
  PROVE  Leads(g, m, use, src, at[Len(path.links)], path)
  <1> DEFINE links == path.links
             k == Len(links)
             sum == [i \in 0..k |-> L[at[i]][1]]
  <1>1. /\ links \in Seq(use) /\ at \in [0..k -> g.nodes] /\ k \in Nat
        /\ \A i \in 0..k : L[at[i]] # Unseen
        /\ \A i \in 1..k : /\ g.links[links[i]].from = at[i - 1] /\ g.links[links[i]].to = at[i]
                           /\ L[at[i]][1] = L[at[i - 1]][1] + Metric(g.links[links[i]], m)
    BY DEF Trail
  <1>2. L \in [g.nodes -> Labels] /\ L[src][1] = 0
    BY DEF Traced
  <1>3. \A i \in 0..k : L[at[i]][1] \in Nat
    <2>1. \A i \in 0..k : at[i] \in g.nodes /\ L[at[i]] # Unseen
      BY <1>1
    <2> QED
      BY <1>2, <2>1, LabelFacts
  <1>4. sum \in [0..k -> Nat] /\ sum[0] = 0 /\ sum[k] = path.cost /\ \A i \in 0..k : sum[i] = L[at[i]][1]
    BY <1>1, <1>2, <1>3
  <1>5. \A i \in 1..k : i \in 0..k /\ i - 1 \in 0..k
    BY <1>1
  <1> HIDE DEF sum
  <1>6. \A i \in 1..k : sum[i] = sum[i - 1] + Metric(g.links[links[i]], m)
    BY <1>1, <1>4, <1>5
  <1>7. Walk(g, m, use, at, sum, path.links)
    BY <1>1, <1>4, <1>6 DEF Walk
  <1> QED
    BY <1>4, <1>7 DEF Leads

LEMMA WalkBackOK ==
  ASSUME NEW g, NEW m, NEW use, Net(g, m, use), NEW src \in g.nodes, NEW L, Traced(g, m, use, src, L),
         NEW dst \in g.nodes, L[dst] # Unseen
  PROVE  Leads(g, m, use, src, dst, [links |-> WalkBack(g, L, src, dst), cost |-> L[dst][1]])
  <1> DEFINE S == Backs(g, m, use, L, dst)
             x == [at |-> dst, links |-> <<>>]
             Step(s) == StepBack(g, L, src, s)
             F == [n \in Nat |-> [s \in S |-> Step(s)]]
             back == CHOOSE f : f = [n \in Nat |-> IF n = 0 THEN x ELSE Step(f[n - 1])]
             K == L[dst][1]
  <1>0. L \in [g.nodes -> Labels]
    BY DEF Traced
  <1>1. \A s \in S : Step(s) \in S
    BY StepBackOK
  <1>2. x \in S
    <2> DEFINE at == [i \in 0..0 |-> dst]
    <2>1. /\ at \in [0..0 -> g.nodes] /\ at[0] = dst /\ Len(<<>>) = 0 /\ <<>> \in Seq(use)
          /\ \A i \in 0..0 : i = 0
      OBVIOUS
    <2>2. \A i \in 1..0 : FALSE
      OBVIOUS
    <2> HIDE DEF at
    <2>3. Trail(g, m, use, L, at, <<>>)
      BY <2>1, <2>2 DEF Trail
    <2>4. x \in [at : g.nodes, links : Seq(use)] /\ x.at = dst /\ x.links = <<>>
      BY <2>1
    <2> HIDE DEF x
    <2> QED
      BY <2>1, <2>3, <2>4 DEF Backs
  <1>3. WalkBack(g, L, src, dst) = back[K].links
    BY DEF WalkBack
  <1>4. K \in Nat
    BY <1>0, LabelFacts
  <1> HIDE DEF S, Step
  <1>6. F \in [Nat -> [S -> S]]
    BY <1>1
  <1>7. PICK r : Iterates(r, S, x, F)
    <2> HIDE DEF F, x
    <2> QED
      BY <1>2, <1>6, Iteration
  <1>8. r \in [Nat -> S] /\ r[0] = x /\ \A n \in Nat \ {0} : r[n] = F[n][r[n - 1]]
    BY <1>7 DEF Iterates
  <1>9. r = [n \in Nat |-> IF n = 0 THEN x ELSE Step(r[n - 1])]
    <2>1. \A n \in Nat \ {0} : n - 1 \in Nat /\ r[n - 1] \in S
      <3>1. \A n \in Nat \ {0} : n - 1 \in Nat
        OBVIOUS
      <3> QED
        BY <1>8, <3>1
    <2>2. \A n \in Nat \ {0} : F[n][r[n - 1]] = Step(r[n - 1])
      BY <2>1
    <2> HIDE DEF x
    <2>3. \A n \in Nat : r[n] = IF n = 0 THEN x ELSE Step(r[n - 1])
      BY <1>8, <2>2
    <2> QED
      BY <1>8, <2>3
  <1>10. back = [n \in Nat |-> IF n = 0 THEN x ELSE Step(back[n - 1])]
    BY <1>9
  <1> HIDE DEF back
  <1>11. back[0] = x /\ \A n \in Nat : back[n + 1] = Step(back[n])
    <2>1. \A n \in Nat : n + 1 \in Nat /\ n + 1 # 0 /\ (n + 1) - 1 = n
      OBVIOUS
    <2> HIDE DEF x
    <2> QED
      BY <1>10, <2>1
  \* Each round costs at least 1 of what is left.
  <1> DEFINE T == {n \in Nat : back[n] \in S /\ (back[n].at = src \/ L[back[n].at][1] + n <= K)}
  <1>12. 0 \in T
    <2>1. back[0] \in S /\ back[0].at = dst
      BY <1>2, <1>11
    <2> QED
      BY <1>4, <2>1
  <1>13. ASSUME NEW n \in T PROVE n + 1 \in T
    <2> DEFINE s == back[n]
               d == back[n + 1]
    <2>1. s \in S /\ n \in Nat /\ (s.at = src \/ L[s.at][1] + n <= K) /\ d = Step(s) /\ d \in S
      BY <1>1, <1>11
    <2> HIDE DEF s, d
    <2>2. CASE s.at = src
      BY <2>1, <2>2, StepBackOK DEF S, Step, d
    <2>3. CASE s.at # src
      <3> DEFINE y == s.at
                 l == L[y][2]
                 u == g.links[l].from
                 M == Metric(g.links[l], m)
      <3>1. y \in g.nodes /\ L[y] # Unseen /\ d.at = u
        <4>1. y \in g.nodes
          BY <2>1 DEF S, Backs
        <4> QED
          BY <2>1, <2>3, <4>1, StepBackOK DEF S, Step
      <3>2. u \in g.nodes /\ L[u] # Unseen /\ M \in Nat \ {0} /\ L[y][1] = L[u][1] + M
        BY <2>3, <3>1, TracedLink
      <3>3. L[u][1] \in Nat
        BY <1>0, <3>2, LabelFacts
      <3>4. L[y][1] + n <= K
        BY <2>1, <2>3
      <3> HIDE DEF y, l, u, M
      <3>5. L[u][1] + (n + 1) <= K
        BY <1>4, <2>1, <3>2, <3>3, <3>4
      <3> QED
        BY <2>1, <3>1, <3>5 DEF d
    <2> QED
      BY <2>2, <2>3
  <1>14. T = Nat
    <2>1. T \in SUBSET Nat
      OBVIOUS
    <2> HIDE DEF T
    <2> QED
      BY <1>12, <1>13, <2>1, SetInduction
  <1> DEFINE s == back[K]
  <1>15. s \in S /\ (s.at = src \/ L[s.at][1] + K <= K)
    BY <1>4, <1>14
  <1> HIDE DEF s
  <1>16. s.at = src
    <2> SUFFICES ASSUME s.at # src PROVE FALSE
      OBVIOUS
    <2> DEFINE y == s.at
               l == L[y][2]
               u == g.links[l].from
               M == Metric(g.links[l], m)
    <2>1. y \in g.nodes /\ L[y] # Unseen
      <3>1. y \in g.nodes
        BY <1>15 DEF S, Backs
      <3> QED
        BY <1>15, <3>1, StepBackOK DEF S
    <2>2. u \in g.nodes /\ L[u] # Unseen /\ M \in Nat \ {0} /\ L[y][1] = L[u][1] + M
      BY <2>1, TracedLink
    <2>3. L[u][1] \in Nat
      BY <1>0, <2>2, LabelFacts
    <2>4. L[y][1] + K <= K
      BY <1>15
    <2> HIDE DEF y, l, u, M
    <2> QED
      BY <1>4, <2>2, <2>3, <2>4
  <1>17. PICK at : Trail(g, m, use, L, at, s.links) /\ at[0] = s.at /\ at[Len(s.links)] = dst
    BY <1>15 DEF S, Backs
  <1> DEFINE p == [links |-> s.links, cost |-> K]
  <1>18. p.links = s.links /\ p.cost = K
    OBVIOUS
  <1> HIDE DEF p
  <1>19. Leads(g, m, use, src, at[Len(p.links)], p)
    <2>1. p.cost = L[at[Len(p.links)]][1]
      BY <1>17, <1>18
    <2> QED
      BY <1>16, <1>17, <1>18, <2>1, TrailIsWalk
  <1>20. Leads(g, m, use, src, dst, p)
    BY <1>17, <1>18, <1>19
  <1> QED
    BY <1>3, <1>20 DEF p, s

-----------------------------------------------------------------------------
(* Shortest paths.                                                          *)

\* The least cost is that of a path, and no path costs less.
LEMMA LeastCostOK ==
  ASSUME NEW g, NEW src, NEW P \in SUBSET Routes(g, src), NEW dst
  PROVE  /\ PathsTo(P, dst) = {} => LeastCost(P, dst) = -1
         /\ PathsTo(P, dst) # {} =>
              /\ LeastCost(P, dst) \in Nat
              /\ \E w \in P : LastHop(w) = dst /\ w.cost = LeastCost(P, dst)
              /\ \A w \in P : LastHop(w) = dst => LeastCost(P, dst) <= w.cost
  <1> DEFINE C == {w.cost : w \in PathsTo(P, dst)}
  <1>1. C \in SUBSET Nat
    BY DEF PathsTo, Routes
  <1>2. ASSUME PathsTo(P, dst) # {}
        PROVE  Smallest(C) \in C /\ Smallest(C) \in Nat /\ \A y \in C : Smallest(C) <= y
    <2>1. C # {}
      BY <1>2
    <2> HIDE DEF C
    <2> QED
      BY <1>1, <2>1, SmallestOK
  <1> QED
    BY <1>2 DEF LeastCost, PathsTo, LastHop

LEMMA ShortestOK ==
  ASSUME NEW g, NEW m, NEW c, Net(g, m, Usable(g, m, c)), NEW src \in g.nodes, NEW dst \in g.nodes
  PROVE  /\ Shortest(g, src, dst, m, c) = NoPath => LeastCost(SimplePaths(g, src, m, c), dst) = -1
         /\ Shortest(g, src, dst, m, c) # NoPath =>
              /\ LeastCost(SimplePaths(g, src, m, c), dst) \in Nat
              /\ Shortest(g, src, dst, m, c).cost = LeastCost(SimplePaths(g, src, m, c), dst)
              /\ Leads(g, m, Usable(g, m, c), src, dst, Shortest(g, src, dst, m, c))
  <1> DEFINE use == Usable(g, m, c)
             L == Search(g, m, use, src, dst)
             P == SimplePaths(g, src, m, c)
             p == Shortest(g, src, dst, m, c)
             q == [links |-> WalkBack(g, L, src, dst), cost |-> L[dst][1]]
  <1>1. p = IF L[dst] = Unseen THEN NoPath ELSE q
    BY DEF Shortest
  <1>2. Final(g, m, use, src, dst, L)
    BY SearchIsFinal
  <1>3. Traced(g, m, use, src, L)
    BY <1>2 DEF Final
  <1>4. P \in SUBSET Routes(g, src)
    BY SimplePathsOK
  <1>5. \A w \in P : LastHop(w) = dst => L[dst] # Unseen /\ L[dst][1] \in Nat /\ L[dst][1] <= w.cost
    <2> HIDE DEF L
    <2> QED
      BY <1>2, LabelsBound
  <1>6. CASE L[dst] = Unseen
    <2>1. p = NoPath
      BY <1>1, <1>6
    <2>2. PathsTo(P, dst) = {}
      BY <1>5, <1>6 DEF PathsTo, LastHop
    <2>3. LeastCost(P, dst) = -1
      BY <2>2 DEF LeastCost
    <2> QED
      BY <2>1, <2>3
  <1>7. CASE L[dst] # Unseen
    <2>1. Leads(g, m, use, src, dst, q)
      <3> HIDE DEF L
      <3> QED
        BY <1>3, <1>7, WalkBackOK
    <2>2. PICK w \in P : Reaches(L, w, dst)
      <3> HIDE DEF L
      <3> QED
        BY <1>3, <1>7, LabelsAttained
    <2>3. LastHop(w) = dst /\ w.cost = L[dst][1] /\ L[dst][1] \in Nat
      BY <1>5, <2>2 DEF Reaches
    <2>4. w \in PathsTo(P, dst)
      BY <2>3 DEF PathsTo, LastHop
    <2>5. p = q
      BY <1>1, <1>7
    <2>6. q.cost = L[dst][1]
      OBVIOUS
    <2> HIDE DEF P, p, q, L
    <2>7. /\ LeastCost(P, dst) \in Nat /\ LeastCost(P, dst) <= L[dst][1]
          /\ \E y \in P : LastHop(y) = dst /\ y.cost = LeastCost(P, dst)
      BY <1>4, <2>3, <2>4, LeastCostOK
    <2>8. LeastCost(P, dst) = L[dst][1]
      BY <1>5, <2>3, <2>7
    <2>9. q # NoPath
      <3>1. NoPath.cost = -1 /\ -1 \notin Nat
        BY DEF NoPath
      <3> QED
        BY <2>3, <2>6, <3>1
    <2> QED
      BY <2>1, <2>5, <2>6, <2>7, <2>8, <2>9 DEF P, p
  <1> QED
    BY <1>6, <1>7

-----------------------------------------------------------------------------
(* Segments joined from stop to stop.                                       *)

\* One walk after another.
Joins(g, m, use, at, sum, a1, s1, l1, a2, s2, l2) ==
    /\ Walk(g, m, use, at, sum, l1 \o l2)
    /\ \A i \in 0..Len(l1) : at[i] = a1[i]
    /\ at[Len(l1) + Len(l2)] = a2[Len(l2)]
    /\ sum[Len(l1) + Len(l2)] = s1[Len(l1)] + s2[Len(l2)]

LEMMA WalksJoin ==
  ASSUME NEW g, NEW m, NEW use, Net(g, m, use), NEW a1, NEW s1, NEW l1, Walk(g, m, use, a1, s1, l1),
         NEW a2, NEW s2, NEW l2, Walk(g, m, use, a2, s2, l2), a1[Len(l1)] = a2[0]
  PROVE  \E at, sum : Joins(g, m, use, at, sum, a1, s1, l1, a2, s2, l2)
  <1> DEFINE j == Len(l1)
             k == Len(l2)
             r == l1 \o l2
             at == [i \in 0..(j + k) |-> IF i <= j THEN a1[i] ELSE a2[i - j]]
             sum == [i \in 0..(j + k) |-> IF i <= j THEN s1[i] ELSE s1[j] + s2[i - j]]
  <1>1. /\ l1 \in Seq(use) /\ j \in Nat /\ a1 \in [0..j -> g.nodes] /\ s1 \in [0..j -> Nat] /\ s1[0] = 0
        /\ \A i \in 1..j : /\ g.links[l1[i]].from = a1[i - 1] /\ g.links[l1[i]].to = a1[i]
                           /\ s1[i] = s1[i - 1] + Metric(g.links[l1[i]], m)
    BY DEF Walk
  <1>2. /\ l2 \in Seq(use) /\ k \in Nat /\ a2 \in [0..k -> g.nodes] /\ s2 \in [0..k -> Nat] /\ s2[0] = 0
        /\ \A i \in 1..k : /\ g.links[l2[i]].from = a2[i - 1] /\ g.links[l2[i]].to = a2[i]
                           /\ s2[i] = s2[i - 1] + Metric(g.links[l2[i]], m)
    BY DEF Walk
  <1>3. /\ r \in Seq(use) /\ Len(r) = j + k
        /\ \A i \in 1..j : r[i] = l1[i]
        /\ \A i \in (j + 1)..(j + k) : r[i] = l2[i - j]
    BY <1>1, <1>2
  <1>4. /\ \A i \in 0..(j + k) : i \in 0..j \/ (i \in (j + 1)..(j + k) /\ i - j \in 1..k /\ i - j \in 0..k)
        /\ \A i \in 0..j : i \in 0..(j + k) /\ i <= j
        /\ \A i \in (j + 1)..(j + k) : i \in 0..(j + k) /\ ~(i <= j) /\ i - j \in 1..k /\ i - j \in 0..k
    BY <1>1, <1>2
  <1>5. /\ \A i \in 0..j : at[i] = a1[i] /\ sum[i] = s1[i]
        /\ \A i \in (j + 1)..(j + k) : at[i] = a2[i - j] /\ sum[i] = s1[j] + s2[i - j]
    BY <1>4
  <1>6. at = [i \in 0..(j + k) |-> at[i]] /\ sum = [i \in 0..(j + k) |-> sum[i]]
    OBVIOUS
  <1>7. s1[j] \in Nat /\ j \in 0..j
    BY <1>1
  <1> HIDE DEF at, sum, r
  <1>8. ASSUME NEW i \in 0..(j + k) PROVE at[i] \in g.nodes /\ sum[i] \in Nat
    <2>1. CASE i \in 0..j
      BY <1>1, <1>5, <2>1
    <2>2. CASE i \in (j + 1)..(j + k) /\ i - j \in 0..k
      <3>1. a2[i - j] \in g.nodes /\ s2[i - j] \in Nat
        BY <1>2, <2>2
      <3> QED
        BY <1>5, <1>7, <2>2, <3>1
    <2> QED
      BY <1>4, <2>1, <2>2
  <1>9. at \in [0..(j + k) -> g.nodes] /\ sum \in [0..(j + k) -> Nat]
    BY <1>6, <1>8
  <1>10. sum[0] = 0
    BY <1>1, <1>5
  <1>11. ASSUME NEW i \in 1..(j + k)
         PROVE  /\ g.links[r[i]].from = at[i - 1] /\ g.links[r[i]].to = at[i]
                /\ sum[i] = sum[i - 1] + Metric(g.links[r[i]], m)
    <2>1. CASE i <= j
      <3>1. i \in 1..j /\ i \in 0..j /\ i - 1 \in 0..j
        BY <1>1, <1>2, <2>1
      <3> QED
        BY <1>1, <1>3, <1>5, <3>1
    <2>2. CASE i = j + 1
      <3>1. i \in (j + 1)..(j + k) /\ i - 1 = j /\ i - j = 1 /\ 1 \in 1..k
        BY <1>1, <1>2, <2>2
      <3>2. r[i] = l2[1] /\ at[i] = a2[1] /\ sum[i] = s1[j] + s2[1] /\ at[i - 1] = a1[j] /\ sum[i - 1] = s1[j]
        BY <1>3, <1>5, <1>7, <3>1
      <3>3. g.links[l2[1]].from = a2[0] /\ g.links[l2[1]].to = a2[1] /\ s2[1] = s2[0] + Metric(g.links[l2[1]], m)
        <4>1. 1 - 1 = 0
          OBVIOUS
        <4> QED
          BY <1>2, <3>1, <4>1
      <3>4. s2[1] \in Nat
        <4>1. 1 \in 0..k
          BY <1>2, <3>1
        <4> QED
          BY <1>2, <4>1
      <3>5. Metric(g.links[l2[1]], m) \in Nat
        <4>1. l2[1] \in use
          BY <1>2, <3>1
        <4> QED
          BY <4>1 DEF Net
      <3>6. s2[1] = Metric(g.links[l2[1]], m)
        BY <1>2, <3>3, <3>5
      <3> QED
        BY <1>7, <3>2, <3>3, <3>6
    <2>3. CASE i > j + 1
      <3>1. /\ i \in (j + 1)..(j + k) /\ i - 1 \in (j + 1)..(j + k)
            /\ i - j \in 1..k /\ (i - 1) - j = (i - j) - 1
        BY <1>1, <1>2, <2>3
      <3> DEFINE h == i - j
      <3>2. h \in 1..k /\ h \in 0..k /\ h - 1 \in 0..k
        BY <1>2, <3>1
      <3>3. /\ r[i] = l2[h] /\ at[i] = a2[h] /\ sum[i] = s1[j] + s2[h]
            /\ at[i - 1] = a2[h - 1] /\ sum[i - 1] = s1[j] + s2[h - 1]
        BY <1>3, <1>5, <3>1
      <3> HIDE DEF h
      <3>4. /\ g.links[l2[h]].from = a2[h - 1] /\ g.links[l2[h]].to = a2[h]
            /\ s2[h] = s2[h - 1] + Metric(g.links[l2[h]], m)
        BY <1>2, <3>2
      <3>5. s2[h] \in Nat /\ s2[h - 1] \in Nat
        BY <1>2, <3>2
      <3>6. Metric(g.links[l2[h]], m) \in Nat
        <4>1. l2[h] \in use
          BY <1>2, <3>2
        <4> QED
          BY <4>1 DEF Net
      <3> QED
        BY <1>7, <3>3, <3>4, <3>5, <3>6
    <2> QED
      BY <1>1, <1>2, <2>1, <2>2, <2>3
  <1>12. Walk(g, m, use, at, sum, r)
    BY <1>3, <1>9, <1>10, <1>11 DEF Walk
  <1>13. at[j + k] = a2[k] /\ sum[j + k] = s1[j] + s2[k]
    <2>1. CASE k = 0
      BY <1>1, <1>2, <1>5, <1>7, <2>1
    <2>2. CASE k # 0
      <3>1. j + k \in (j + 1)..(j + k) /\ (j + k) - j = k
        BY <1>1, <1>2, <2>2
      <3> QED
        BY <1>5, <3>1
    <2> QED
      BY <2>1, <2>2
  <1> QED
    BY <1>5, <1>12, <1>13 DEF r, Joins

\* The path passes the first n + 1 stops in their order, from the first to the last.
Visits(g, m, use, stops, n, path) ==
    \E at, sum, ix :
        /\ Walk(g, m, use, at, sum, path.links) /\ sum[Len(path.links)] = path.cost
        /\ ix \in [1..(n + 1) -> 0..Len(path.links)] /\ ix[1] = 0 /\ ix[n + 1] = Len(path.links)
        /\ \A i \in 1..(n + 1) : at[ix[i]] = stops[i]
        /\ \A i \in 1..n : ix[i] <= ix[i + 1]

LEMMA VisitsNone ==
  ASSUME NEW g, NEW m, NEW use, NEW stops, stops[1] \in g.nodes
  PROVE  Visits(g, m, use, stops, 0, [links |-> <<>>, cost |-> 0])
  <1> DEFINE p == [links |-> <<>>, cost |-> 0]
             at == [i \in 0..0 |-> stops[1]]
             sum == [i \in 0..0 |-> 0]
             ix == [i \in 1..(0 + 1) |-> 0]
  <1>1. /\ p.links = <<>> /\ p.cost = 0 /\ Len(<<>>) = 0 /\ <<>> \in Seq(use)
        /\ at \in [0..0 -> g.nodes] /\ sum \in [0..0 -> Nat] /\ sum[0] = 0 /\ at[0] = stops[1]
        /\ ix \in [1..(0 + 1) -> 0..0] /\ ix[1] = 0 /\ ix[0 + 1] = 0
        /\ \A i \in 1..(0 + 1) : i = 1
        /\ \A i \in 1..0 : FALSE
    OBVIOUS
  <1> HIDE DEF p, at, sum, ix
  <1>2. Walk(g, m, use, at, sum, p.links)
    BY <1>1 DEF Walk
  <1>3. /\ sum[Len(p.links)] = p.cost
        /\ ix \in [1..(0 + 1) -> 0..Len(p.links)] /\ ix[1] = 0 /\ ix[0 + 1] = Len(p.links)
        /\ \A i \in 1..(0 + 1) : at[ix[i]] = stops[i]
        /\ \A i \in 1..0 : ix[i] <= ix[i + 1]
    BY <1>1
  <1>4. Visits(g, m, use, stops, 0, p)
    BY <1>2, <1>3 DEF Visits
  <1> QED
    BY <1>4 DEF p

LEMMA VisitsMore ==
  ASSUME NEW g, NEW m, NEW use, Net(g, m, use), NEW stops, NEW n \in Nat, NEW p, Visits(g, m, use, stops, n, p),
         NEW q, Leads(g, m, use, stops[n + 1], stops[n + 2], q),
         NEW r, r.links = p.links \o q.links, r.cost = p.cost + q.cost
  PROVE  Visits(g, m, use, stops, n + 1, r)
  <1> DEFINE j == Len(p.links)
             k == Len(q.links)
  <1>1. PICK a1, s1, ix :
        /\ Walk(g, m, use, a1, s1, p.links) /\ s1[j] = p.cost
        /\ ix \in [1..(n + 1) -> 0..j] /\ ix[1] = 0 /\ ix[n + 1] = j
        /\ \A i \in 1..(n + 1) : a1[ix[i]] = stops[i]
        /\ \A i \in 1..n : ix[i] <= ix[i + 1]
    BY DEF Visits
  <1>2. PICK a2, s2 : /\ Walk(g, m, use, a2, s2, q.links)
                      /\ a2[0] = stops[n + 1] /\ a2[k] = stops[n + 2] /\ s2[k] = q.cost
    BY DEF Leads
  <1>3. j \in Nat /\ k \in Nat /\ p.links \in Seq(use) /\ q.links \in Seq(use)
    BY <1>1, <1>2 DEF Walk
  <1>4. a1[j] = a2[0]
    <2>1. n + 1 \in 1..(n + 1)
      OBVIOUS
    <2> QED
      BY <1>1, <1>2, <2>1
  <1>5. PICK at, sum : /\ Walk(g, m, use, at, sum, p.links \o q.links)
                       /\ \A i \in 0..j : at[i] = a1[i]
                       /\ at[j + k] = a2[k] /\ sum[j + k] = s1[j] + s2[k]
    <2>1. PICK at, sum : Joins(g, m, use, at, sum, a1, s1, p.links, a2, s2, q.links)
      BY <1>1, <1>2, <1>4, WalksJoin
    <2> QED
      BY <2>1 DEF Joins
  <1>6. Len(p.links \o q.links) = j + k /\ Len(r.links) = j + k
    BY <1>3
  <1> DEFINE jx == [i \in 1..((n + 1) + 1) |-> IF i = n + 2 THEN j + k ELSE ix[i]]
  <1>7. \A i \in 1..((n + 1) + 1) : i = n + 2 \/ i \in 1..(n + 1)
    OBVIOUS
  <1>8. jx[n + 2] = j + k /\ \A i \in 1..(n + 1) : jx[i] = ix[i] /\ ix[i] \in 0..j
    <2>1. n + 2 \in 1..((n + 1) + 1) /\ \A i \in 1..(n + 1) : i \in 1..((n + 1) + 1) /\ i # n + 2
      OBVIOUS
    <2> QED
      BY <1>1, <2>1
  <1>9. jx = [i \in 1..((n + 1) + 1) |-> jx[i]]
    OBVIOUS
  <1> HIDE DEF j, k, jx
  <1>10. \A i \in 0..j : i \in 0..(j + k)
    BY <1>3
  <1>11. \A i \in 1..((n + 1) + 1) : jx[i] \in 0..(j + k)
    <2>1. j + k \in 0..(j + k)
      BY <1>3
    <2> QED
      BY <1>7, <1>8, <1>10, <2>1
  <1>12. jx \in [1..((n + 1) + 1) -> 0..(j + k)]
    BY <1>9, <1>11
  <1>13. jx[1] = 0 /\ jx[(n + 1) + 1] = j + k
    <2>1. 1 \in 1..(n + 1) /\ (n + 1) + 1 = n + 2
      OBVIOUS
    <2> QED
      BY <1>1, <1>8, <2>1
  <1>14. \A i \in 1..((n + 1) + 1) : at[jx[i]] = stops[i]
    BY <1>1, <1>2, <1>5, <1>7, <1>8
  <1>15. ASSUME NEW i \in 1..(n + 1) PROVE jx[i] <= jx[i + 1]
    <2>1. CASE i = n + 1
      <3>1. i + 1 = n + 2 /\ jx[i] \in 0..j
        BY <1>8, <2>1
      <3>2. jx[i + 1] = j + k
        BY <1>8, <3>1
      <3> QED
        BY <1>3, <3>1, <3>2
    <2>2. CASE i # n + 1
      <3>1. i \in 1..n /\ i + 1 \in 1..(n + 1)
        BY <2>2
      <3> QED
        BY <1>1, <1>8, <3>1
    <2> QED
      BY <2>1, <2>2
  <1>16. sum[j + k] = r.cost
    BY <1>1, <1>2, <1>5 DEF j, k
  <1>17. Walk(g, m, use, at, sum, r.links)
    BY <1>5
  <1> QED
    BY <1>6, <1>12, <1>13, <1>14, <1>15, <1>16, <1>17 DEF Visits

PathsOver(use) == {NoPath} \cup [links : Seq(use), cost : Nat]

LEMMA PathFacts ==
  ASSUME NEW use, NEW p \in PathsOver(use)
  PROVE  p # NoPath => p.links \in Seq(use) /\ p.cost \in Nat
  BY DEF PathsOver

LEMMA RealPath ==
  ASSUME NEW use, NEW p \in [links : Seq(use), cost : Nat]
  PROVE  p # NoPath /\ p \in PathsOver(use)
  <1>1. p.cost \in Nat
    OBVIOUS
  <1>2. NoPath.cost = -1 /\ -1 \notin Nat
    BY DEF NoPath
  <1> QED
    BY <1>1, <1>2 DEF PathsOver

LEMMA ShortestType ==
  ASSUME NEW g, NEW m, NEW c, Net(g, m, Usable(g, m, c)), NEW src, NEW dst
  PROVE  Shortest(g, src, dst, m, c) \in PathsOver(Usable(g, m, c))
  <1> DEFINE p == Shortest(g, src, dst, m, c)
             use == Usable(g, m, c)
  <1>1. CASE p = NoPath
    BY <1>1 DEF PathsOver
  <1>2. CASE p # NoPath
    <2>1. src \in g.nodes /\ dst \in g.nodes
      BY <1>2 DEF Shortest
    <2>2. LeastCost(SimplePaths(g, src, m, c), dst) \in Nat /\ p.cost = LeastCost(SimplePaths(g, src, m, c), dst)
          /\ Leads(g, m, use, src, dst, p)
      BY <1>2, <2>1, ShortestOK
    <2>3. p.links \in Seq(use) /\ p.cost \in Nat
      BY <2>2 DEF Leads, Walk
    <2>4. p = [links |-> p.links, cost |-> p.cost]
      BY <1>2 DEF Shortest
    <2> HIDE DEF p, use
    <2>5. p \in [links : Seq(use), cost : Nat]
      BY <2>3, <2>4
    <2> QED
      BY <2>5 DEF PathsOver, p, use
  <1> QED
    BY <1>1, <1>2

LEMMA ExtendOK ==
  ASSUME NEW use, NEW p \in PathsOver(use), NEW q \in PathsOver(use)
  PROVE  /\ Extend(p, q) \in PathsOver(use)
         /\ NoPath \in {p, q} => Extend(p, q) = NoPath
         /\ NoPath \notin {p, q} => /\ Extend(p, q) # NoPath /\ Extend(p, q).links = p.links \o q.links
                                    /\ Extend(p, q).cost = p.cost + q.cost
  <1>1. CASE NoPath \in {p, q}
    BY <1>1 DEF Extend, PathsOver
  <1>2. CASE NoPath \notin {p, q}
    <2>1. p.links \in Seq(use) /\ p.cost \in Nat /\ q.links \in Seq(use) /\ q.cost \in Nat
      BY <1>2, PathFacts
    <2> DEFINE r == Extend(p, q)
    <2>2. r = [links |-> p.links \o q.links, cost |-> p.cost + q.cost]
      BY <1>2 DEF Extend
    <2>3. r.links = p.links \o q.links /\ r.cost = p.cost + q.cost
      <3> DEFINE a == p.links \o q.links
                 b == p.cost + q.cost
      <3>1. r = [links |-> a, cost |-> b]
        BY <2>2
      <3> HIDE DEF a, b, r
      <3>2. r.links = a /\ r.cost = b
        BY <3>1
      <3> QED
        BY <3>2 DEF a, b
    <2>4. p.links \o q.links \in Seq(use) /\ p.cost + q.cost \in Nat
      BY <2>1
    <2>5. r \in [links : Seq(use), cost : Nat]
      BY <2>2, <2>4
    <2> HIDE DEF r
    <2>6. r # NoPath /\ r \in PathsOver(use)
      BY <2>5, RealPath
    <2> QED
      BY <1>2, <2>3, <2>6 DEF r
  <1> QED
    BY <1>1, <1>2

\* joined is that of Join, over K segments.
JoinedUp(joined, g, stops, m, c, K) ==
    /\ joined \in [0..K -> PathsOver(Usable(g, m, c))] /\ joined[0] = [links |-> <<>>, cost |-> 0]
    /\ \A n \in 1..K : joined[n] = Extend(joined[n - 1], Shortest(g, stops[n], stops[n + 1], m, c))

LEMMA JoinRounds ==
  ASSUME NEW g, NEW m, NEW c, Net(g, m, Usable(g, m, c)), NEW stops, NEW K \in Nat, K = Len(stops) - 1
  PROVE  \E joined : JoinedUp(joined, g, stops, m, c, K) /\ Join(g, stops, m, c) = joined[K]
  <1> DEFINE use == Usable(g, m, c)
             S == PathsOver(use)
             x == [links |-> <<>>, cost |-> 0]
             Step(n, s) == Extend(s, Shortest(g, stops[n], stops[n + 1], m, c))
             F == [n \in Nat |-> [s \in S |-> Step(n, s)]]
             joined == CHOOSE f : f = [n \in 0..K |-> IF n = 0 THEN x ELSE Step(n, f[n - 1])]
  <1>1. ASSUME NEW n \in Nat, NEW s \in S PROVE Step(n, s) \in S
    BY ShortestType, ExtendOK
  <1>2. x \in S
    BY DEF PathsOver
  <1>3. Join(g, stops, m, c) = joined[K]
    BY DEF Join
  <1> HIDE DEF S, x, Step
  <1>4. F \in [Nat -> [S -> S]]
    BY <1>1
  <1>5. PICK r : Rounds(r, K, S, x, F)
    <2> HIDE DEF F
    <2> QED
      BY <1>2, <1>4, RoundsExist
  <1>6. r \in [0..K -> S] /\ r[0] = x /\ \A n \in 1..K : r[n] = F[n][r[n - 1]]
    BY <1>5 DEF Rounds
  <1>7. \A n \in 0..K : n = 0 \/ (n \in 1..K /\ n # 0 /\ n \in Nat /\ n - 1 \in 0..K)
    OBVIOUS
  <1>8. \A n \in 1..K : F[n][r[n - 1]] = Step(n, r[n - 1])
    <2>1. \A n \in 1..K : n \in Nat /\ r[n - 1] \in S
      BY <1>6, <1>7
    <2> QED
      BY <2>1
  <1>9. r = [n \in 0..K |-> IF n = 0 THEN x ELSE Step(n, r[n - 1])]
    <2>1. \A n \in 0..K : r[n] = IF n = 0 THEN x ELSE Step(n, r[n - 1])
      BY <1>6, <1>7, <1>8
    <2> QED
      BY <1>6, <2>1
  <1>10. joined = [n \in 0..K |-> IF n = 0 THEN x ELSE Step(n, joined[n - 1])]
    BY <1>9
  <1> HIDE DEF joined
  <1>11. joined[0] = x /\ \A n \in 1..K : joined[n] = Step(n, joined[n - 1])
    <2>1. 0 \in 0..K /\ \A n \in 1..K : n \in 0..K /\ n # 0
      OBVIOUS
    <2> QED
      BY <1>10, <2>1
  <1>12. joined \in [0..K -> S]
    <2> DEFINE T == {n \in Nat : n <= K => joined[n] \in S}
    <2>1. 0 \in T
      BY <1>2, <1>11
    <2>2. ASSUME NEW n \in T PROVE n + 1 \in T
      <3>1. CASE n + 1 <= K
        <4>1. n + 1 \in 1..K /\ n + 1 \in Nat /\ (n + 1) - 1 = n /\ n <= K
          BY <3>1
        <4>2. joined[n + 1] = Step(n + 1, joined[n]) /\ joined[n] \in S
          BY <1>11, <4>1
        <4> QED
          BY <1>1, <4>1, <4>2
      <3> QED
        BY <3>1
    <2>3. T \in SUBSET Nat
      OBVIOUS
    <2>4. T = Nat
      <3> HIDE DEF T
      <3> QED
        BY <2>1, <2>2, <2>3, SetInduction
    <2>5. \A n \in 0..K : joined[n] \in S
      <3>1. \A n \in 0..K : n \in Nat /\ n <= K
        OBVIOUS
      <3> QED
        BY <2>4, <3>1
    <2> QED
      BY <1>10, <2>5
  <1>13. JoinedUp(joined, g, stops, m, c, K)
    BY <1>11, <1>12 DEF JoinedUp, S, x, Step
  <1> QED
    BY <1>3, <1>13

\* visited is that of CheapestVisit.
VisitedUp(visited, g, stops, m, c, K) ==
    /\ visited \in [0..K -> Nat \cup {-1}] /\ visited[0] = 0
    /\ \A n \in 1..K : LET next == LeastCost(SimplePaths(g, stops[n], m, c), stops[n + 1])
                       IN visited[n] = IF -1 \in {visited[n - 1], next} THEN -1 ELSE visited[n - 1] + next

LEMMA VisitedRounds ==
  ASSUME NEW g, NEW m, NEW c, Net(g, m, Usable(g, m, c)), NEW stops, NEW K \in Nat, K = Len(stops) - 1,
         DOMAIN stops = 1..(K + 1), \A i \in DOMAIN stops : stops[i] \in g.nodes
  PROVE  \E visited : VisitedUp(visited, g, stops, m, c, K) /\ CheapestVisit(g, m, c, stops) = visited[K]
  <1> DEFINE S == Nat \cup {-1}
             Next(n) == LeastCost(SimplePaths(g, stops[n], m, c), stops[n + 1])
             Step(n, s) == IF -1 \in {s, Next(n)} THEN -1 ELSE s + Next(n)
             F == [n \in Nat |-> [s \in S |-> IF n \in 1..K THEN Step(n, s) ELSE s]]
             visited == CHOOSE f : f = [n \in 0..K |-> IF n = 0 THEN 0 ELSE Step(n, f[n - 1])]
  <1>1. ASSUME NEW n \in 1..K, NEW s \in S PROVE Step(n, s) \in S
    <2>1. stops[n] \in g.nodes
      OBVIOUS
    <2> DEFINE P == SimplePaths(g, stops[n], m, c)
    <2>2. P \in SUBSET Routes(g, stops[n])
      BY <2>1, SimplePathsOK
    <2>3. LeastCost(P, stops[n + 1]) \in S
      <3> HIDE DEF P
      <3> QED
        BY <2>2, LeastCostOK
    <2>4. Next(n) \in S
      BY <2>3
    <2> HIDE DEF Next
    <2> QED
      BY <2>4
  <1>2. 0 \in S
    OBVIOUS
  <1>3. CheapestVisit(g, m, c, stops) = visited[K]
    BY DEF CheapestVisit
  <1> HIDE DEF S, Step
  <1>4. F \in [Nat -> [S -> S]]
    BY <1>1
  <1>5. PICK r : Rounds(r, K, S, 0, F)
    <2> HIDE DEF F
    <2> QED
      BY <1>2, <1>4, RoundsExist
  <1>6. r \in [0..K -> S] /\ r[0] = 0 /\ \A n \in 1..K : r[n] = F[n][r[n - 1]]
    BY <1>5 DEF Rounds
  <1>7. \A n \in 0..K : n = 0 \/ (n \in 1..K /\ n # 0 /\ n \in Nat /\ n - 1 \in 0..K)
    OBVIOUS
  <1>8. \A n \in 1..K : F[n][r[n - 1]] = Step(n, r[n - 1])
    <2>1. \A n \in 1..K : n \in Nat /\ r[n - 1] \in S
      <3>1. \A n \in 1..K : n \in Nat /\ n - 1 \in 0..K
        OBVIOUS
      <3> QED
        BY <1>6, <3>1
    <2> QED
      BY <2>1
  <1>9. r = [n \in 0..K |-> IF n = 0 THEN 0 ELSE Step(n, r[n - 1])]
    <2>1. \A n \in 0..K : r[n] = IF n = 0 THEN 0 ELSE Step(n, r[n - 1])
      BY <1>6, <1>7, <1>8
    <2> QED
      BY <1>6, <2>1
  <1>10. visited = [n \in 0..K |-> IF n = 0 THEN 0 ELSE Step(n, visited[n - 1])]
    BY <1>9
  <1> HIDE DEF visited
  <1>11. visited[0] = 0 /\ \A n \in 1..K : visited[n] = Step(n, visited[n - 1])
    <2>1. 0 \in 0..K /\ \A n \in 1..K : n \in 0..K /\ n # 0
      OBVIOUS
    <2> QED
      BY <1>10, <2>1
  <1>12. visited \in [0..K -> S]
    <2> DEFINE T == {n \in Nat : n <= K => visited[n] \in S}
    <2>1. 0 \in T
      BY <1>2, <1>11
    <2>2. ASSUME NEW n \in T PROVE n + 1 \in T
      <3>1. CASE n + 1 <= K
        <4>1. n + 1 \in 1..K /\ n + 1 \in Nat /\ (n + 1) - 1 = n /\ n <= K
          BY <3>1
        <4>2. visited[n + 1] = Step(n + 1, visited[n]) /\ visited[n] \in S
          BY <1>11, <4>1
        <4> QED
          BY <1>1, <4>1, <4>2
      <3> QED
        BY <3>1
    <2>3. T \in SUBSET Nat
      OBVIOUS
    <2>4. T = Nat
      <3> HIDE DEF T
      <3> QED
        BY <2>1, <2>2, <2>3, SetInduction
    <2>5. \A n \in 0..K : visited[n] \in S
      <3>1. \A n \in 0..K : n \in Nat /\ n <= K
        OBVIOUS
      <3> QED
        BY <2>4, <3>1
    <2> QED
      BY <1>10, <2>5
  <1>13. VisitedUp(visited, g, stops, m, c, K)
    BY <1>11, <1>12 DEF VisitedUp, S, Step
  <1> QED
    BY <1>3, <1>13

\* A path through the stops is the cheapest there is, and there is none when none is found.
JoinIsRight(g, m, c, stops, K, p) ==
    \/ p = NoPath /\ CheapestVisit(g, m, c, stops) = -1
    \/ /\ p # NoPath /\ CheapestVisit(g, m, c, stops) \in Nat /\ p.cost = CheapestVisit(g, m, c, stops)
       /\ \A i \in DOMAIN stops : stops[i] \in g.nodes
       /\ Visits(g, m, Usable(g, m, c), stops, K, p)

LEMMA JoinOK ==
  ASSUME NEW g, NEW m, NEW c, Net(g, m, Usable(g, m, c)), NEW stops, NEW K \in Nat \ {0}, K = Len(stops) - 1,
         DOMAIN stops = 1..(K + 1)
  PROVE  JoinIsRight(g, m, c, stops, K, Join(g, stops, m, c))
  <1> DEFINE use == Usable(g, m, c)
             p == Join(g, stops, m, c)
             Seg(n) == Shortest(g, stops[n], stops[n + 1], m, c)
  <1>0. K \in Nat /\ Net(g, m, use)
    OBVIOUS
  <1>1. PICK joined : JoinedUp(joined, g, stops, m, c, K) /\ p = joined[K]
    BY <1>0, JoinRounds
  <1>2. /\ joined \in [0..K -> PathsOver(use)] /\ joined[0] = [links |-> <<>>, cost |-> 0]
        /\ \A n \in 1..K : joined[n] = Extend(joined[n - 1], Seg(n))
    BY <1>1 DEF JoinedUp
  <1>3. \A n \in 1..K : Seg(n) \in PathsOver(use) /\ joined[n - 1] \in PathsOver(use)
    <2>1. \A n \in 1..K : n - 1 \in 0..K
      OBVIOUS
    <2> QED
      BY <1>2, <2>1, ShortestType
  <1> HIDE DEF p
  <1>4. CASE \E i \in DOMAIN stops : stops[i] \notin g.nodes
    <2>1. CheapestVisit(g, m, c, stops) = -1
      BY <1>4 DEF CheapestVisit
    <2>2. PICK j \in 1..K : Seg(j) = NoPath
      <3>1. PICK i \in 1..(K + 1) : stops[i] \notin g.nodes
        BY <1>4
      <3>2. CASE i = 1
        <4>1. 1 \in 1..K /\ Seg(1) = NoPath
          BY <3>1, <3>2 DEF Shortest
        <4> QED
          BY <4>1
      <3>3. CASE i # 1
        <4>1. i - 1 \in 1..K /\ (i - 1) + 1 = i
          BY <3>3
        <4>2. Seg(i - 1) = NoPath
          BY <3>1, <4>1 DEF Shortest
        <4> QED
          BY <4>1, <4>2
      <3> QED
        BY <3>2, <3>3
    <2> DEFINE T == {n \in Nat : n <= K /\ j <= n => joined[n] = NoPath}
    <2> HIDE DEF Seg
    <2>3. \A n \in 1..K : NoPath \in {joined[n - 1], Seg(n)} => joined[n] = NoPath
      <3> SUFFICES ASSUME NEW n \in 1..K, NoPath \in {joined[n - 1], Seg(n)} PROVE joined[n] = NoPath
        OBVIOUS
      <3> DEFINE a == joined[n - 1]
                 b == Seg(n)
      <3>1. a \in PathsOver(use) /\ b \in PathsOver(use) /\ joined[n] = Extend(a, b) /\ NoPath \in {a, b}
        BY <1>2, <1>3
      <3> HIDE DEF a, b
      <3> QED
        BY <3>1, ExtendOK
    <2>4. 0 \in T
      OBVIOUS
    <2>5. ASSUME NEW n \in T PROVE n + 1 \in T
      <3> SUFFICES ASSUME n + 1 <= K, j <= n + 1 PROVE joined[n + 1] = NoPath
        OBVIOUS
      <3>1. n \in Nat /\ n + 1 \in 1..K /\ (n + 1) - 1 = n /\ n <= K
        OBVIOUS
      <3>2. CASE j = n + 1
        BY <2>2, <2>3, <3>1, <3>2
      <3>3. CASE j # n + 1
        <4>1. j <= n
          BY <3>1, <3>3
        <4>2. joined[n] = NoPath
          BY <3>1, <4>1
        <4> QED
          BY <2>3, <3>1, <4>2
      <3> QED
        BY <3>2, <3>3
    <2>6. T = Nat
      <3>1. T \in SUBSET Nat
        OBVIOUS
      <3> HIDE DEF T
      <3> QED
        BY <2>4, <2>5, <3>1, SetInduction
    <2>7. p = NoPath
      BY <1>1, <2>6
    <2> QED
      BY <2>1, <2>7 DEF JoinIsRight, p
  <1>5. CASE \A i \in DOMAIN stops : stops[i] \in g.nodes
    <2>1. PICK visited : VisitedUp(visited, g, stops, m, c, K) /\ CheapestVisit(g, m, c, stops) = visited[K]
      BY <1>0, <1>5, VisitedRounds
    <2> DEFINE Next(n) == LeastCost(SimplePaths(g, stops[n], m, c), stops[n + 1])
    <2>2. /\ visited \in [0..K -> Nat \cup {-1}] /\ visited[0] = 0
          /\ \A n \in 1..K : visited[n] = IF -1 \in {visited[n - 1], Next(n)} THEN -1 ELSE visited[n - 1] + Next(n)
      BY <2>1 DEF VisitedUp
    <2>3. ASSUME NEW n \in 1..K
          PROVE  /\ Seg(n) = NoPath => Next(n) = -1
                 /\ Seg(n) # NoPath => /\ Next(n) \in Nat /\ Seg(n).cost = Next(n)
                                       /\ Leads(g, m, use, stops[n], stops[n + 1], Seg(n))
      <3>1. stops[n] \in g.nodes /\ stops[n + 1] \in g.nodes
        BY <1>5
      <3> QED
        BY <3>1, ShortestOK
    <2> HIDE DEF Next, Seg
    <2> DEFINE Right(n) == \/ joined[n] = NoPath /\ visited[n] = -1
                           \/ /\ joined[n] # NoPath /\ visited[n] \in Nat /\ joined[n].cost = visited[n]
                              /\ Visits(g, m, use, stops, n, joined[n])
               T == {n \in Nat : n <= K => Right(n)}
    <2>4. 0 \in T
      <3>1. stops[1] \in g.nodes
        BY <1>5
      <3>2. Visits(g, m, use, stops, 0, joined[0])
        BY <1>2, <3>1, VisitsNone
      <3>3. joined[0].cost = 0 /\ NoPath.cost = -1
        BY <1>2 DEF NoPath
      <3>4. joined[0] # NoPath
        BY <3>3
      <3> QED
        BY <2>2, <3>2, <3>3, <3>4
    <2>5. ASSUME NEW n \in T PROVE n + 1 \in T
      <3> SUFFICES ASSUME n + 1 <= K PROVE Right(n + 1)
        OBVIOUS
      <3>1. n \in Nat /\ n + 1 \in 1..K /\ (n + 1) - 1 = n /\ n <= K /\ (n + 1) + 1 = n + 2
        OBVIOUS
      <3>2. Right(n)
        BY <3>1
      <3> DEFINE a == joined[n]
                 q == Seg(n + 1)
                 b == joined[n + 1]
      <3>3. b = Extend(a, q) /\ a \in PathsOver(use) /\ q \in PathsOver(use)
        BY <1>2, <1>3, <3>1
      <3>4. visited[n + 1] = IF -1 \in {visited[n], Next(n + 1)} THEN -1 ELSE visited[n] + Next(n + 1)
        BY <2>2, <3>1
      <3>5. /\ q = NoPath => Next(n + 1) = -1
            /\ q # NoPath => /\ Next(n + 1) \in Nat /\ q.cost = Next(n + 1)
                             /\ Leads(g, m, use, stops[n + 1], stops[n + 2], q)
        BY <2>3, <3>1
      <3> HIDE DEF a, q, b
      <3>6. /\ NoPath \in {a, q} => b = NoPath
            /\ NoPath \notin {a, q} => b # NoPath /\ b.links = a.links \o q.links /\ b.cost = a.cost + q.cost
        BY <3>3, ExtendOK
      <3>7. CASE NoPath \in {a, q}
        <4>1. -1 \in {visited[n], Next(n + 1)}
          BY <3>2, <3>5, <3>7 DEF a
        <4> QED
          BY <3>4, <3>6, <3>7, <4>1 DEF b
      <3>8. CASE NoPath \notin {a, q}
        <4>1. /\ visited[n] \in Nat /\ a.cost = visited[n] /\ Visits(g, m, use, stops, n, a)
              /\ Next(n + 1) \in Nat /\ q.cost = Next(n + 1) /\ Leads(g, m, use, stops[n + 1], stops[n + 2], q)
          BY <3>2, <3>5, <3>8 DEF a
        <4>2. b # NoPath /\ b.links = a.links \o q.links /\ b.cost = a.cost + q.cost
          BY <3>6, <3>8
        <4>3. Visits(g, m, use, stops, n + 1, b)
          BY <1>0, <3>1, <4>1, <4>2, VisitsMore
        <4>4. visited[n + 1] = visited[n] + Next(n + 1) /\ visited[n + 1] \in Nat
          BY <3>4, <4>1
        <4> QED
          BY <4>1, <4>2, <4>3, <4>4 DEF b
      <3> QED
        BY <3>7, <3>8
    <2>6. T = Nat
      <3>1. T \in SUBSET Nat
        OBVIOUS
      <3> HIDE DEF T
      <3> QED
        BY <2>4, <2>5, <3>1, SetInduction
    <2>7. Right(K)
      BY <1>0, <2>6
    <2> QED
      BY <1>1, <1>5, <2>1, <2>7 DEF JoinIsRight, p
  <1> QED
    BY <1>4, <1>5

LEMMA PathCostOK ==
  ASSUME NEW g, NEW m, NEW use, NEW at, NEW sum, NEW links, Walk(g, m, use, at, sum, links)
  PROVE  PathCost(g, m, links) = sum[Len(links)]
  <1> DEFINE k == Len(links)
             M(n) == Metric(g.links[links[n]], m)
             f == CHOOSE h : h = [n \in 0..k |-> IF n = 0 THEN 0 ELSE h[n - 1] + M(n)]
  <1>1. /\ k \in Nat /\ sum \in [0..k -> Nat] /\ sum[0] = 0
        /\ \A n \in 1..k : sum[n] = sum[n - 1] + M(n)
    BY DEF Walk
  <1>2. PathCost(g, m, links) = f[k]
    BY DEF PathCost
  <1> HIDE DEF M, k
  <1>3. sum = [n \in 0..k |-> IF n = 0 THEN 0 ELSE sum[n - 1] + M(n)]
    <2>1. \A n \in 0..k : n = 0 \/ n \in 1..k
      BY <1>1
    <2>2. \A n \in 0..k : sum[n] = IF n = 0 THEN 0 ELSE sum[n - 1] + M(n)
      BY <1>1, <2>1
    <2> QED
      BY <1>1, <2>2
  <1>4. f = [n \in 0..k |-> IF n = 0 THEN 0 ELSE f[n - 1] + M(n)]
    BY <1>3
  <1> HIDE DEF f
  <1> DEFINE T == {n \in Nat : n <= k => f[n] = sum[n]}
  <1>5. 0 \in T
    BY <1>1, <1>4
  <1>6. ASSUME NEW n \in T PROVE n + 1 \in T
    <2>1. CASE n + 1 <= k
      <3>1. n \in Nat /\ n + 1 \in 0..k /\ n + 1 \in 1..k /\ n + 1 # 0 /\ (n + 1) - 1 = n /\ n <= k
        BY <1>1, <2>1
      <3>2. f[n + 1] = f[n] + M(n + 1) /\ sum[n + 1] = sum[n] + M(n + 1) /\ f[n] = sum[n]
        BY <1>1, <1>4, <3>1
      <3> QED
        BY <3>1, <3>2
    <2> QED
      BY <2>1
  <1>7. T = Nat
    <2>1. T \in SUBSET Nat
      OBVIOUS
    <2> HIDE DEF T
    <2> QED
      BY <1>5, <1>6, <2>1, SetInduction
  <1> QED
    BY <1>1, <1>2, <1>7 DEF k

\* The hops of a path are the nodes of its walk.
HopsAre(g, hops, at, k) ==
    hops \in Seq(g.nodes) /\ Len(hops) = k + 1 /\ \A i \in 1..(k + 1) : hops[i] = at[i - 1]

LEMMA HopsOK ==
  ASSUME NEW g, NEW m, NEW use, NEW at, NEW sum, NEW path, Walk(g, m, use, at, sum, path.links)
  PROVE  HopsAre(g, Hops(g, at[0], path), at, Len(path.links))
  <1> DEFINE k == Len(path.links)
             t == [i \in DOMAIN path.links |-> g.links[path.links[i]].to]
             h == Hops(g, at[0], path)
  <1>1. /\ path.links \in Seq(use) /\ k \in Nat /\ at \in [0..k -> g.nodes]
        /\ \A i \in 1..k : g.links[path.links[i]].to = at[i]
    BY DEF Walk
  <1>2. t = [i \in 1..k |-> at[i]]
    <2>1. DOMAIN path.links = 1..k
      BY <1>1
    <2> QED
      BY <1>1, <2>1
  <1>3. h = <<at[0]>> \o t
    BY DEF Hops
  <1> HIDE DEF t, h
  <1>4. t \in Seq(g.nodes) /\ Len(t) = k /\ \A i \in 1..k : t[i] = at[i]
    <2>1. \A i \in 1..k : at[i] \in g.nodes
      BY <1>1
    <2>2. t \in [1..k -> g.nodes]
      BY <1>2, <2>1
    <2>3. t \in Seq(g.nodes)
      BY <1>1, <2>2
    <2> QED
      BY <1>1, <1>2, <2>2, <2>3
  <1>5. at[0] \in g.nodes
    BY <1>1
  <1>6. /\ h \in Seq(g.nodes) /\ Len(h) = k + 1 /\ h[1] = at[0]
        /\ \A i \in 2..(k + 1) : h[i] = t[i - 1]
    <2> DEFINE a == at[0]
               N == g.nodes
    <2>1. a \in N /\ t \in Seq(N) /\ Len(t) = k /\ k \in Nat /\ h = <<a>> \o t
      BY <1>1, <1>3, <1>4, <1>5
    <2> HIDE DEF a, N, k
    <2>2. /\ h \in Seq(N) /\ Len(h) = k + 1 /\ h[1] = a
          /\ \A i \in 2..(k + 1) : h[i] = t[i - 1]
      BY <2>1
    <2> QED
      BY <2>2 DEF a, N, k
  <1>7. ASSUME NEW i \in 1..(k + 1) PROVE h[i] = at[i - 1]
    <2>1. CASE i = 1
      BY <1>6, <2>1
    <2>2. CASE i # 1
      <3>1. i \in 2..(k + 1) /\ i - 1 \in 1..k
        BY <1>1, <2>2
      <3> QED
        BY <1>4, <1>6, <3>1
    <2> QED
      BY <2>1, <2>2
  <1> QED
    BY <1>6, <1>7 DEF h, HopsAre

LEMMA VisitsOK ==
  ASSUME NEW g, NEW m, NEW c, NEW src, NEW dst, NEW V, c.include \in Seq(V), NEW path,
         Visits(g, m, Usable(g, m, c), <<src>> \o c.include \o <<dst>>, Len(c.include) + 1, path)
  PROVE  VisitsInOrder(g, src, dst, m, c, path)
  <1> DEFINE use == Usable(g, m, c)
             links == path.links
             k == Len(links)
             K == Len(c.include) + 1
             stops == <<src>> \o c.include \o <<dst>>
             hops == Hops(g, src, path)
  <1>1. PICK at, sum, ix :
        /\ Walk(g, m, use, at, sum, links) /\ sum[k] = path.cost
        /\ ix \in [1..(K + 1) -> 0..k] /\ ix[1] = 0 /\ ix[K + 1] = k
        /\ \A i \in 1..(K + 1) : at[ix[i]] = stops[i]
        /\ \A i \in 1..K : ix[i] <= ix[i + 1]
    BY DEF Visits
  <1>2. K \in Nat /\ DOMAIN stops = 1..(K + 1) /\ Len(stops) = K + 1 /\ stops[1] = src /\ stops[K + 1] = dst
    <2> DEFINE W == V \cup {src, dst}
    <2>1. c.include \in Seq(W) /\ <<src>> \in Seq(W) /\ <<dst>> \in Seq(W)
      OBVIOUS
    <2> HIDE DEF W
    <2> QED
      BY <2>1
  <1>3. /\ links \in Seq(use) /\ k \in Nat /\ at \in [0..k -> g.nodes]
        /\ \A i \in 1..k : g.links[links[i]].from = at[i - 1] /\ g.links[links[i]].to = at[i]
    BY <1>1 DEF Walk
  <1>4. at[0] = src /\ at[k] = dst
    <2>1. 1 \in 1..(K + 1) /\ K + 1 \in 1..(K + 1)
      BY <1>2
    <2> QED
      BY <1>1, <1>2, <2>1
  <1> HIDE DEF stops, K
  <1>5. path.cost = PathCost(g, m, links)
    BY <1>1, PathCostOK
  <1>6. hops \in Seq(g.nodes) /\ Len(hops) = k + 1 /\ \A i \in 1..(k + 1) : hops[i] = at[i - 1]
    <2>1. HopsAre(g, Hops(g, at[0], path), at, k)
      BY <1>1, HopsOK
    <2>2. HopsAre(g, hops, at, k)
      BY <1>4, <2>1
    <2> QED
      BY <2>2 DEF HopsAre
  <1>7. DOMAIN links = 1..k /\ DOMAIN hops = 1..(k + 1)
    BY <1>3, <1>6
  <1> HIDE DEF links, k, hops
  <1>8. IsWalk(g, src, dst, m, c, links)
    <2>1. \A i \in DOMAIN links : links[i] \in use
      BY <1>3
    <2>2. \A i \in 1..(Len(links) - 1) : g.links[links[i]].to = g.links[links[i + 1]].from
      <3>1. \A i \in 1..(k - 1) : i \in 1..k /\ i + 1 \in 1..k /\ (i + 1) - 1 = i
        BY <1>3
      <3> QED
        BY <1>3, <3>1 DEF k
    <2>3. CASE links = <<>>
      <3>1. k = 0
        BY <2>3 DEF k
      <3>2. src = dst
        BY <1>4, <3>1
      <3> QED
        BY <2>1, <2>2, <2>3, <3>2 DEF IsWalk
    <2>4. CASE links # <<>>
      <3>1. k >= 1 /\ 1 \in 1..k /\ k \in 1..k /\ 1 - 1 = 0
        BY <1>3, <2>4 DEF k
      <3>2. g.links[links[1]].from = src /\ g.links[links[k]].to = dst
        BY <1>3, <1>4, <3>1
      <3> QED
        BY <2>1, <2>2, <2>4, <3>2 DEF IsWalk, k
    <2> QED
      BY <2>3, <2>4
  <1>9. ASSUME links # <<>>, NEW i \in DOMAIN hops PROVE hops[i] \notin c.avoidNodes
    <2>0. \A l \in use : g.links[l].from \notin c.avoidNodes /\ g.links[l].to \notin c.avoidNodes
      BY DEF Usable, Eligible
    <2>1. k >= 1
      BY <1>3, <1>9 DEF k
    <2>2. CASE i = 1
      <3>1. hops[i] = at[0] /\ 1 \in 1..k /\ 1 - 1 = 0
        BY <1>3, <1>6, <2>1, <2>2
      <3>2. links[1] \in use /\ g.links[links[1]].from = hops[i]
        <4>1. links[1] \in use
          BY <1>3, <1>7, <3>1
        <4> QED
          BY <1>3, <3>1, <4>1
      <3> QED
        BY <2>0, <3>2
    <2>3. CASE i # 1
      <3>1. i \in 1..(k + 1) /\ i - 1 \in 1..k
        BY <1>3, <1>7, <2>3
      <3>2. links[i - 1] \in use /\ g.links[links[i - 1]].to = hops[i]
        <4>1. links[i - 1] \in use
          BY <1>3, <1>7, <3>1
        <4> QED
          BY <1>3, <1>6, <3>1, <4>1
      <3> QED
        BY <2>0, <3>2
    <2> QED
      BY <2>2, <2>3
  <1> DEFINE to == [i \in 1..(K + 1) |-> ix[i] + 1]
  <1>10. \A i \in 1..(K + 1) : to[i] = ix[i] + 1 /\ to[i] \in 1..(k + 1) /\ hops[to[i]] = stops[i]
    <2> SUFFICES ASSUME NEW i \in 1..(K + 1)
                 PROVE to[i] = ix[i] + 1 /\ to[i] \in 1..(k + 1) /\ hops[to[i]] = stops[i]
      OBVIOUS
    <2>1. ix[i] \in 0..k
      BY <1>1
    <2>2. ix[i] + 1 \in 1..(k + 1) /\ (ix[i] + 1) - 1 = ix[i]
      BY <1>3, <2>1
    <2>3. to[i] = ix[i] + 1
      OBVIOUS
    <2> HIDE DEF to
    <2>4. hops[ix[i] + 1] = at[ix[i]]
      BY <1>6, <2>2
    <2> QED
      BY <1>1, <2>2, <2>3, <2>4
  <1>11. to \in [1..(K + 1) -> 1..(k + 1)]
    BY <1>10
  <1> HIDE DEF to
  <1>12. \A i \in 1..K : to[i] <= to[i + 1]
    <2>1. \A i \in 1..K : i \in 1..(K + 1) /\ i + 1 \in 1..(K + 1)
      BY <1>2
    <2>2. \A i \in 1..K : ix[i] \in 0..k /\ ix[i + 1] \in 0..k /\ ix[i] <= ix[i + 1]
      BY <1>1, <2>1
    <2>3. \A i \in 1..K : ix[i] + 1 <= ix[i + 1] + 1
      BY <1>3, <2>2
    <2> QED
      BY <1>10, <2>1, <2>3
  <1>13. \E b \in [DOMAIN stops -> DOMAIN hops] :
            /\ \A i \in DOMAIN stops : hops[b[i]] = stops[i]
            /\ \A i \in 1..(Len(stops) - 1) : b[i] <= b[i + 1]
    <2>1. Len(stops) - 1 = K
      BY <1>2
    <2>2. to \in [DOMAIN stops -> DOMAIN hops]
      BY <1>2, <1>7, <1>11
    <2> QED
      BY <1>2, <1>10, <1>12, <2>1, <2>2
  <1> QED
    BY <1>5, <1>8, <1>9, <1>13 DEF VisitsInOrder, stops, hops, links

LEMMA BottleneckOK ==
  ASSUME NEW g, NEW m, NEW c, c.bandwidth \in Nat, \A l \in Usable(g, m, c) : g.links[l].bandwidth \in Nat,
         NEW path, path.links \in Seq(Usable(g, m, c)), path.links # <<>>
  PROVE  Bottleneck(g, path) >= c.bandwidth
  <1> DEFINE B == {g.links[path.links[i]].bandwidth : i \in DOMAIN path.links}
  <1>1. \A i \in DOMAIN path.links : path.links[i] \in Usable(g, m, c)
    OBVIOUS
  <1>2. B \in SUBSET Nat /\ B # {}
    <2>1. 1 \in DOMAIN path.links
      OBVIOUS
    <2> QED
      BY <1>1, <2>1
  <1>3. \A b \in B : b >= c.bandwidth
    <2> SUFFICES ASSUME NEW i \in DOMAIN path.links PROVE g.links[path.links[i]].bandwidth >= c.bandwidth
      OBVIOUS
    <2> DEFINE l == path.links[i]
    <2>1. l \in Usable(g, m, c)
      BY <1>1
    <2> HIDE DEF l
    <2>2. g.links[l].bandwidth \in Nat /\ (c.bandwidth > 0 => g.links[l].bandwidth >= c.bandwidth)
      BY <2>1 DEF Usable, Eligible
    <2>3. g.links[l].bandwidth >= c.bandwidth
      BY <2>2
    <2> QED
      BY <2>3 DEF l
  <1>4. Bottleneck(g, path) = Smallest(B)
    BY DEF Bottleneck
  <1> HIDE DEF B
  <1>5. Smallest(B) \in B
    BY <1>2, SmallestOK
  <1> QED
    BY <1>3, <1>4, <1>5

\* With a limit of 1 there is nothing but the first path.
LEMMA FirstOnly ==
  ASSUME NEW g, NEW m, NEW c, NEW src, NEW dst, Len(Compute(g, src, dst, m, c).links) \in Nat
  PROVE  ComputeMany(g, src, dst, m, c, 1) =
           IF Compute(g, src, dst, m, c) = NoPath THEN <<>> ELSE <<Compute(g, src, dst, m, c)>>
  <1> DEFINE first == Compute(g, src, dst, m, c)
             n == Len(first.links)
             Step(i, out) == Consider(g, src, dst, m, c, 1, out, first.links[i])
             found == CHOOSE f : f = [i \in 0..n |-> IF i = 0 THEN <<first>> ELSE Step(i, f[i - 1])]
             r == [i \in 0..n |-> <<first>>]
  <1>1. Clip(1) = 1
    BY MaxPathsAssumption DEF Clip
  <1>2. n \in Nat
    OBVIOUS
  <1>3. Alternatives(g, src, dst, m, c, 1, first) = found[n]
    BY DEF Alternatives
  <1>4. \A i : Step(i, <<first>>) = <<first>>
    <2>1. ~(Len(<<first>>) < 1)
      OBVIOUS
    <2> QED
      BY <2>1 DEF Consider
  <1>5. ComputeMany(g, src, dst, m, c, 1) = IF first = NoPath THEN <<>> ELSE found[n]
    BY <1>1, <1>3 DEF ComputeMany
  <1> HIDE DEF first, Step, n
  <1>6. r = [i \in 0..n |-> IF i = 0 THEN <<first>> ELSE Step(i, r[i - 1])]
    <2>1. \A i \in 0..n : i = 0 \/ i - 1 \in 0..n
      BY <1>2
    <2>2. \A i \in 0..n : i # 0 => r[i - 1] = <<first>>
      BY <2>1
    <2> QED
      BY <1>4, <2>2
  <1>7. found = [i \in 0..n |-> IF i = 0 THEN <<first>> ELSE Step(i, found[i - 1])]
    BY <1>6
  <1> HIDE DEF found
  <1> DEFINE T == {i \in Nat : i <= n => found[i] = <<first>>}
  <1>8. 0 \in T
    BY <1>2, <1>7
  <1>9. ASSUME NEW i \in T PROVE i + 1 \in T
    <2>1. CASE i + 1 <= n
      <3>1. i + 1 \in 0..n /\ i + 1 # 0 /\ (i + 1) - 1 = i /\ i <= n
        BY <1>2, <2>1
      <3>2. found[i + 1] = Step(i + 1, found[i]) /\ found[i] = <<first>>
        BY <1>7, <3>1
      <3> QED
        BY <1>4, <3>2
    <2> QED
      BY <2>1
  <1>10. T = Nat
    <2>1. T \in SUBSET Nat
      OBVIOUS
    <2> HIDE DEF T
    <2> QED
      BY <1>8, <1>9, <2>1, SetInduction
  <1>11. found[n] = <<first>>
    BY <1>2, <1>10
  <1> QED
    BY <1>5, <1>11 DEF first

LEMMA ComputeOK ==
  ASSUME NEW g, NEW m, NEW c, Net(g, m, Usable(g, m, c)), NEW src, NEW dst, NEW V, c.include \in Seq(V)
  PROVE  JoinIsRight(g, m, c, <<src>> \o c.include \o <<dst>>, Len(c.include) + 1, Compute(g, src, dst, m, c))
  <1> DEFINE stops == <<src>> \o c.include \o <<dst>>
             K == Len(c.include) + 1
  <1>1. K \in Nat \ {0} /\ DOMAIN stops = 1..(K + 1) /\ K = Len(stops) - 1
    <2> DEFINE W == V \cup {src, dst}
    <2>1. c.include \in Seq(W) /\ <<src>> \in Seq(W) /\ <<dst>> \in Seq(W)
      OBVIOUS
    <2> HIDE DEF W
    <2>2. Len(stops) = K + 1 /\ K \in Nat \ {0} /\ DOMAIN stops = 1..(K + 1)
      BY <2>1
    <2> HIDE DEF stops, K
    <2> QED
      BY <2>2
  <1>2. Compute(g, src, dst, m, c) = Join(g, stops, m, c)
    BY DEF Compute
  <1> HIDE DEF stops, K
  <1>3. JoinIsRight(g, m, c, stops, K, Join(g, stops, m, c))
    BY <1>1, JoinOK
  <1> QED
    BY <1>2, <1>3 DEF stops, K

\* A path, if there is one, is the cheapest and obeys the constraints.
PathIsRight(g, m, c, src, dst, p) ==
    \/ p = NoPath /\ CheapestVisit(g, m, c, <<src>> \o c.include \o <<dst>>) = -1
    \/ /\ p # NoPath /\ p.links \in Seq(Usable(g, m, c))
       /\ CheapestVisit(g, m, c, <<src>> \o c.include \o <<dst>>) \in Nat
       /\ p.cost = CheapestVisit(g, m, c, <<src>> \o c.include \o <<dst>>)
       /\ VisitsInOrder(g, src, dst, m, c, p)

LEMMA ComputeIsRight ==
  ASSUME NEW g, NEW m, NEW c, Net(g, m, Usable(g, m, c)), NEW src, NEW dst, NEW V, c.include \in Seq(V)
  PROVE  PathIsRight(g, m, c, src, dst, Compute(g, src, dst, m, c))
  <1> DEFINE stops == <<src>> \o c.include \o <<dst>>
             K == Len(c.include) + 1
             p == Compute(g, src, dst, m, c)
  <1>1. JoinIsRight(g, m, c, stops, K, p)
    BY ComputeOK
  <1>2. ASSUME p # NoPath
        PROVE  PathIsRight(g, m, c, src, dst, p)
    <2>1. /\ CheapestVisit(g, m, c, stops) \in Nat /\ p.cost = CheapestVisit(g, m, c, stops)
          /\ Visits(g, m, Usable(g, m, c), stops, K, p)
      BY <1>1, <1>2 DEF JoinIsRight
    <2>2. p.links \in Seq(Usable(g, m, c))
      BY <2>1 DEF Visits, Walk
    <2>3. VisitsInOrder(g, src, dst, m, c, p)
      <3> HIDE DEF p
      <3> QED
        BY <2>1, VisitsOK
    <2> HIDE DEF p
    <2> QED
      BY <1>2, <2>1, <2>2, <2>3 DEF PathIsRight
  <1>3. ASSUME p = NoPath PROVE PathIsRight(g, m, c, src, dst, p)
    BY <1>1, <1>3 DEF JoinIsRight, PathIsRight
  <1> QED
    BY <1>2, <1>3

\* The first path alone.
LEMMA FirstIsRight ==
  ASSUME NEW g, NEW m, NEW c, Net(g, m, Usable(g, m, c)), NEW src, NEW dst, NEW V, c.include \in Seq(V)
  PROVE  \/ /\ ComputeMany(g, src, dst, m, c, 1) = <<>>
            /\ PathIsRight(g, m, c, src, dst, NoPath)
         \/ \E p : /\ ComputeMany(g, src, dst, m, c, 1) = <<p>> /\ p # NoPath
                   /\ PathIsRight(g, m, c, src, dst, p)
  <1> DEFINE p == Compute(g, src, dst, m, c)
  <1>1. PathIsRight(g, m, c, src, dst, p)
    BY ComputeIsRight
  <1>2. Len(p.links) \in Nat
    <2> HIDE DEF p
    <2>1. CASE p = NoPath
      BY <2>1 DEF NoPath
    <2>2. CASE p # NoPath
      BY <1>1, <2>2 DEF PathIsRight
    <2> QED
      BY <2>1, <2>2
  <1>3. ComputeMany(g, src, dst, m, c, 1) = IF p = NoPath THEN <<>> ELSE <<p>>
    BY <1>2, FirstOnly
  <1> HIDE DEF p
  <1> QED
    BY <1>1, <1>3

-----------------------------------------------------------------------------
(* Alternatives.                                                            *)

\* c has the fields of PathConstraints.
Limits(c) ==
    c = [mt |-> c.mt, bandwidth |-> c.bandwidth, avoidLinks |-> c.avoidLinks, avoidNodes |-> c.avoidNodes,
         require |-> c.require, exclude |-> c.exclude, include |-> c.include]

\* The constraints of a candidate.
Without(c, l) == [c EXCEPT !.avoidLinks = @ \cup {l}]

LEMMA WithoutOK ==
  ASSUME NEW g, NEW m, NEW c, Limits(c), NEW l
  PROVE  /\ Usable(g, m, Without(c, l)) = Usable(g, m, c) \ {l}
         /\ Without(c, l).avoidNodes = c.avoidNodes /\ Without(c, l).include = c.include
  <1> DEFINE d == Without(c, l)
  <1>1. /\ d.mt = c.mt /\ d.bandwidth = c.bandwidth /\ d.avoidLinks = c.avoidLinks \cup {l}
        /\ d.avoidNodes = c.avoidNodes /\ d.require = c.require /\ d.exclude = c.exclude
        /\ d.include = c.include
    BY DEF Without, Limits
  <1> HIDE DEF d
  <1>2. \A k : Eligible(k, g.links[k], d) <=> Eligible(k, g.links[k], c) /\ k # l
    BY <1>1 DEF Eligible
  <1>3. Usable(g, m, d) = Usable(g, m, c) \ {l}
    BY <1>2 DEF Usable
  <1> QED
    BY <1>1, <1>3 DEF d

LEMMA WithoutNet ==
  ASSUME NEW g, NEW m, NEW c, Limits(c), NEW l, Net(g, m, Usable(g, m, c))
  PROVE  Net(g, m, Usable(g, m, Without(c, l)))
  <1> DEFINE use == Usable(g, m, c)
             less == Usable(g, m, Without(c, l))
  <1>1. less \in SUBSET use
    BY WithoutOK
  <1> HIDE DEF less, use
  <1>2. IsFiniteSet(use)
    BY DEF Net, use
  <1>3. IsFiniteSet(less)
    BY <1>1, <1>2, FS_Subset
  <1> QED
    BY <1>1, <1>3 DEF Net, use, less

\* What obeys the constraints of a candidate obeys those of the request.
LEMMA WithoutVisits ==
  ASSUME NEW g, NEW m, NEW c, Limits(c), NEW l, NEW src, NEW dst, NEW p,
         VisitsInOrder(g, src, dst, m, Without(c, l), p)
  PROVE  VisitsInOrder(g, src, dst, m, c, p)
  <1> DEFINE d == Without(c, l)
  <1>1. Usable(g, m, d) \subseteq Usable(g, m, c) /\ d.avoidNodes = c.avoidNodes /\ d.include = c.include
    BY WithoutOK
  <1> HIDE DEF d
  <1>2. VisitsInOrder(g, src, dst, m, d, p)
    BY DEF d
  <1>3. IsWalk(g, src, dst, m, d, p.links)
    BY <1>2 DEF VisitsInOrder
  <1>4. IsWalk(g, src, dst, m, c, p.links)
    BY <1>1, <1>3 DEF IsWalk
  <1> DEFINE Stops(f) == <<src>> \o f \o <<dst>>
             hops == Hops(g, src, p)
             Passes(stops) == \E at \in [DOMAIN stops -> DOMAIN hops] :
                                 /\ \A i \in DOMAIN stops : hops[at[i]] = stops[i]
                                 /\ \A i \in 1..(Len(stops) - 1) : at[i] <= at[i + 1]
  <1>5. Passes(Stops(d.include)) /\ p.cost = PathCost(g, m, p.links)
    BY <1>2 DEF VisitsInOrder
  <1>6. p.links # <<>> => \A i \in DOMAIN hops : hops[i] \notin d.avoidNodes
    BY <1>2 DEF VisitsInOrder
  <1> HIDE DEF Passes, Stops
  <1>7. Passes(Stops(c.include))
    BY <1>1, <1>5
  <1>8. p.links # <<>> => \A i \in DOMAIN hops : hops[i] \notin c.avoidNodes
    BY <1>1, <1>6
  <1> QED
    BY <1>4, <1>5, <1>7, <1>8 DEF VisitsInOrder, Passes, Stops

\* The links lead from hop to hop.
Steps(g, links, hops) ==
    \A i \in 1..Len(links) : g.links[links[i]].from = hops[i] /\ g.links[links[i]].to = hops[i + 1]

\* The links of p lead over its hops, from src to dst.
Passing(g, src, dst, p, hops) ==
    /\ Len(hops) = Len(p.links) + 1 /\ Steps(g, p.links, hops)
    /\ hops[1] = src /\ hops[Len(p.links) + 1] = dst
    /\ hops = [i \in 1..(Len(p.links) + 1) |-> hops[i]]

\* The links of a path lead from hop to hop.
LEMMA HopsLinks ==
  ASSUME NEW g, NEW m, NEW c, NEW src, NEW dst, NEW p, NEW use, p.links \in Seq(use),
         IsWalk(g, src, dst, m, c, p.links)
  PROVE  Passing(g, src, dst, p, Hops(g, src, p))
  <1> DEFINE links == p.links
             n == Len(links)
             To == [i \in 1..n |-> g.links[links[i]].to]
             W == {src} \cup {g.links[links[i]].to : i \in 1..n}
             h == <<src>> \o To
  <1>1. n \in Nat /\ DOMAIN links = 1..n
    OBVIOUS
  <1>2. Hops(g, src, p) = h
    BY <1>1 DEF Hops
  <1>3. \A i \in 1..(n - 1) : g.links[links[i]].to = g.links[links[i + 1]].from
    BY DEF IsWalk
  <1>4. IF links = <<>> THEN src = dst ELSE g.links[links[1]].from = src /\ g.links[links[n]].to = dst
    BY DEF IsWalk
  <1>5. links = <<>> <=> n = 0
    OBVIOUS
  <1> HIDE DEF n
  <1>6. To \in Seq(W) /\ Len(To) = n /\ \A i \in 1..n : To[i] = g.links[links[i]].to
    <2>1. To \in [1..n -> W]
      OBVIOUS
    <2> HIDE DEF W
    <2>2. To \in Seq(W) /\ Len(To) = n
      <3> HIDE DEF To
      <3> QED
        BY <1>1, <2>1
    <2> QED
      BY <2>2
  <1>7. <<src>> \in Seq(W) /\ Len(<<src>>) = 1 /\ <<src>>[1] = src
    OBVIOUS
  <1> HIDE DEF To, W, links
  <1>8. Len(h) = n + 1 /\ h[1] = src /\ \A i \in 1..n : h[i + 1] = To[i]
    BY <1>1, <1>6, <1>7
  <1>9. h \in Seq(W)
    BY <1>6, <1>7
  <1> HIDE DEF h
  <1>10. h = [i \in 1..(n + 1) |-> h[i]]
    BY <1>8, <1>9
  <1>11. ASSUME NEW i \in 1..n PROVE g.links[links[i]].from = h[i]
    <2>1. CASE i = 1
      BY <1>1, <1>4, <1>5, <1>8, <2>1
    <2>2. CASE i # 1
      <3>1. i - 1 \in 1..(n - 1) /\ (i - 1) + 1 = i /\ i - 1 \in 1..n
        BY <1>1, <2>2
      <3> DEFINE j == i - 1
      <3> HIDE DEF j
      <3>2. j \in 1..(n - 1) /\ j + 1 = i /\ j \in 1..n
        BY <3>1 DEF j
      <3>3. g.links[links[j]].to = g.links[links[j + 1]].from
        BY <1>3, <3>2
      <3>4. h[j + 1] = To[j] /\ To[j] = g.links[links[j]].to
        BY <1>6, <1>8, <3>2
      <3> QED
        BY <3>2, <3>3, <3>4
    <2> QED
      BY <2>1, <2>2
  <1>12. h[n + 1] = dst
    <2>1. CASE n = 0
      BY <1>4, <1>5, <1>8, <2>1
    <2>2. CASE n # 0
      <3>1. n \in 1..n
        BY <1>1, <2>2
      <3>2. h[n + 1] = To[n] /\ To[n] = g.links[links[n]].to
        BY <1>6, <1>8, <3>1
      <3> QED
        BY <1>4, <1>5, <2>2, <3>2
    <2> QED
      BY <2>1, <2>2
  <1>13. \A i \in 1..n : g.links[links[i]].to = h[i + 1]
    BY <1>6, <1>8
  <1>14. Steps(g, links, h)
    BY <1>11, <1>13 DEF Steps, n
  <1>15. Passing(g, src, dst, p, h)
    BY <1>8, <1>12, <1>14, <1>10 DEF Passing, n, links
  <1> QED
    BY <1>2, <1>15

LEMMA ComputeType ==
  ASSUME NEW g, NEW m, NEW c, Net(g, m, Usable(g, m, c)), NEW src, NEW dst, NEW V, c.include \in Seq(V)
  PROVE  Compute(g, src, dst, m, c) \in PathsOver(Usable(g, m, c))
  <1> DEFINE stops == <<src>> \o c.include \o <<dst>>
             K == Len(c.include) + 1
  <1>1. K \in Nat /\ K = Len(stops) - 1
    <2> DEFINE W == V \cup {src, dst}
    <2>1. c.include \in Seq(W) /\ <<src>> \in Seq(W) /\ <<dst>> \in Seq(W)
      OBVIOUS
    <2> HIDE DEF W
    <2>2. Len(stops) = K + 1 /\ K \in Nat
      BY <2>1
    <2> HIDE DEF stops, K
    <2> QED
      BY <2>2
  <1>2. Compute(g, src, dst, m, c) = Join(g, stops, m, c)
    BY DEF Compute
  <1> HIDE DEF stops, K
  <1>3. PICK joined : JoinedUp(joined, g, stops, m, c, K) /\ Join(g, stops, m, c) = joined[K]
    BY <1>1, JoinRounds
  <1>4. joined[K] \in PathsOver(Usable(g, m, c))
    BY <1>1, <1>3 DEF JoinedUp
  <1> QED
    BY <1>2, <1>3, <1>4

\* Paths that obey the constraints and cost the same.
Equals(g, m, c, src, dst, cost) ==
    {p \in PathsOver(Usable(g, m, c)) : p # NoPath /\ p.cost = cost /\ VisitsInOrder(g, src, dst, m, c, p)}

\* What ComputeMany has found: the first path and others as good, no two over the same nodes.
Choices(g, m, c, src, dst, limit, first) ==
    {out \in Seq(Equals(g, m, c, src, dst, first.cost)) :
        /\ Len(out) >= 1 /\ Len(out) <= limit /\ out[1] = first
        /\ \A i, j \in 1..Len(out) : i < j => Hops(g, src, out[i]) # Hops(g, src, out[j])}

\* q is another path.
Differs(g, src, q, first) == q # NoPath /\ q.cost = first.cost /\ Hops(g, src, q) # Hops(g, src, first)

LEMMA ConsiderOK ==
  ASSUME NEW g, NEW m, NEW c, Net(g, m, Usable(g, m, c)), Limits(c), NEW V, c.include \in Seq(V),
         NEW src, NEW dst, NEW limit \in Nat, NEW first, NEW out \in Choices(g, m, c, src, dst, limit, first), NEW l
  PROVE  /\ Consider(g, src, dst, m, c, limit, out, l) \in Choices(g, m, c, src, dst, limit, first)
         /\ Len(Consider(g, src, dst, m, c, limit, out, l)) >= Len(out)
         /\ Len(out) = 1 /\ limit > 1 /\ Differs(g, src, Compute(g, src, dst, m, Without(c, l)), first) =>
              Len(Consider(g, src, dst, m, c, limit, out, l)) > 1
  <1> DEFINE q == Compute(g, src, dst, m, Without(c, l))
             E == Equals(g, m, c, src, dst, first.cost)
             new == /\ Len(out) < limit
                    /\ Equal(q, out[1])
                    /\ \A k \in DOMAIN out : Hops(g, src, out[k]) # Hops(g, src, q)
             next == Consider(g, src, dst, m, c, limit, out, l)
  <1>1. next = IF new THEN Append(out, q) ELSE out
    BY DEF Consider, Without, PathKey
  <1>2. Without(c, l).include \in Seq(V)
    BY WithoutOK
  <1>3. Net(g, m, Usable(g, m, Without(c, l)))
    BY WithoutNet
  <1>4. PathIsRight(g, m, Without(c, l), src, dst, q) /\ q \in PathsOver(Usable(g, m, Without(c, l)))
    BY <1>2, <1>3, ComputeIsRight, ComputeType
  <1> HIDE DEF q
  <1>5. /\ out \in Seq(E) /\ Len(out) >= 1 /\ Len(out) <= limit /\ out[1] = first
        /\ \A i, j \in 1..Len(out) : i < j => Hops(g, src, out[i]) # Hops(g, src, out[j])
    BY DEF Choices
  <1>6. ASSUME Equal(q, first) PROVE q \in E
    <2>1. q # NoPath /\ q.cost = first.cost
      BY <1>6 DEF Equal
    <2>2. VisitsInOrder(g, src, dst, m, Without(c, l), q)
      BY <1>4, <2>1 DEF PathIsRight
    <2>3. VisitsInOrder(g, src, dst, m, c, q)
      BY <2>2, WithoutVisits
    <2>4. q \in PathsOver(Usable(g, m, c))
      <3>1. Usable(g, m, Without(c, l)) \subseteq Usable(g, m, c)
        BY WithoutOK
      <3> DEFINE U == Usable(g, m, c)
                 X == Usable(g, m, Without(c, l))
      <3> HIDE DEF U, X
      <3>2. q \in [links : Seq(X), cost : Nat] /\ X \subseteq U
        BY <1>4, <2>1, <3>1 DEF PathsOver, U, X
      <3>3. Seq(X) \subseteq Seq(U)
        BY <3>2
      <3>4. q \in [links : Seq(U), cost : Nat]
        BY <3>2, <3>3
      <3> QED
        BY <3>4 DEF PathsOver, U
    <2> QED
      BY <2>1, <2>3, <2>4 DEF Equals
  <1> HIDE DEF E, next
  <1>7. CASE ~new
    <2>1. next = out
      BY <1>1, <1>7
    <2>2. ~(Len(out) = 1 /\ limit > 1 /\ Differs(g, src, q, first))
      <3> SUFFICES ASSUME Len(out) = 1, limit > 1, Differs(g, src, q, first) PROVE new
        BY <1>7
      <3>1. Len(out) < limit
        OBVIOUS
      <3>2. Equal(q, out[1])
        BY <1>5 DEF Differs, Equal
      <3>3. \A k \in DOMAIN out : k = 1
        BY <1>5
      <3>4. \A k \in DOMAIN out : Hops(g, src, out[k]) # Hops(g, src, q)
        BY <1>5, <3>3 DEF Differs
      <3> QED
        BY <3>1, <3>2, <3>4
    <2>3. Len(next) >= Len(out)
      BY <1>5, <2>1
    <2> QED
      BY <2>1, <2>2, <2>3 DEF q, next
  <1>8. CASE new
    <2>1. next = Append(out, q) /\ Len(out) < limit /\ \A k \in DOMAIN out : Hops(g, src, out[k]) # Hops(g, src, q)
      BY <1>1, <1>8
    <2>2. q \in E
      BY <1>5, <1>6, <1>8
    <2> HIDE DEF new
    <2> DEFINE n == Len(out)
    <2>3. n \in Nat /\ DOMAIN out = 1..n
      BY <1>5
    <2>4. /\ next \in Seq(E) /\ Len(next) = n + 1 /\ next[n + 1] = q
          /\ \A i \in 1..n : next[i] = out[i]
      BY <1>5, <2>1, <2>2, <2>3
    <2> HIDE DEF n
    <2>5. n >= 1 /\ n <= limit /\ n < limit
      BY <1>5, <2>1 DEF n
    <2>6. Len(next) >= 1 /\ Len(next) <= limit /\ Len(next) >= n /\ Len(next) > 1
      BY <2>3, <2>4, <2>5
    <2>7. next[1] = first
      <3>1. 1 \in 1..n
        BY <2>3, <2>5
      <3> QED
        BY <1>5, <2>4, <3>1
    <2>8. ASSUME NEW i \in 1..Len(next), NEW j \in 1..Len(next), i < j
          PROVE  Hops(g, src, next[i]) # Hops(g, src, next[j])
      <3>1. i \in 1..n /\ next[i] = out[i]
        BY <2>3, <2>4, <2>8
      <3>2. CASE j = n + 1
        BY <2>1, <2>3, <2>4, <3>1, <3>2
      <3>3. CASE j # n + 1
        <4>1. j \in 1..n /\ next[j] = out[j]
          BY <2>3, <2>4, <3>3
        <4> QED
          BY <1>5, <2>8, <3>1, <4>1 DEF n
      <3> QED
        BY <3>2, <3>3
    <2>9. next \in Choices(g, m, c, src, dst, limit, first)
      BY <2>4, <2>6, <2>7, <2>8 DEF Choices, E
    <2> QED
      BY <2>6, <2>9 DEF n, next
  <1> QED
    BY <1>7, <1>8

\* found is that of Alternatives.
FoundUp(found, g, src, dst, m, c, limit, first, K) ==
    /\ found \in [0..K -> Choices(g, m, c, src, dst, limit, first)]
    /\ \A n \in 1..K : found[n] = Consider(g, src, dst, m, c, limit, found[n - 1], first.links[n])

LEMMA FoundRounds ==
  ASSUME NEW g, NEW m, NEW c, Net(g, m, Usable(g, m, c)), Limits(c), NEW V, c.include \in Seq(V),
         NEW src, NEW dst, NEW limit \in Nat \ {0}, NEW first, first \in Equals(g, m, c, src, dst, first.cost),
         NEW K \in Nat, K = Len(first.links)
  PROVE  \E found : /\ FoundUp(found, g, src, dst, m, c, limit, first, K)
                    /\ Alternatives(g, src, dst, m, c, limit, first) = found[K]
  <1> DEFINE S == Choices(g, m, c, src, dst, limit, first)
             x == <<first>>
             Step(n, s) == Consider(g, src, dst, m, c, limit, s, first.links[n])
             F == [n \in Nat |-> [s \in S |-> Step(n, s)]]
             found == CHOOSE f : f = [n \in 0..K |-> IF n = 0 THEN x ELSE Step(n, f[n - 1])]
  <1>1. ASSUME NEW n \in Nat, NEW s \in S PROVE Step(n, s) \in S
    BY ConsiderOK
  <1>2. x \in S
    BY DEF Choices
  <1>3. Alternatives(g, src, dst, m, c, limit, first) = found[K]
    BY DEF Alternatives
  <1> HIDE DEF S, x, Step
  <1>4. F \in [Nat -> [S -> S]]
    BY <1>1
  <1>5. PICK r : Rounds(r, K, S, x, F)
    <2> HIDE DEF F
    <2> QED
      BY <1>2, <1>4, RoundsExist
  <1>6. r \in [0..K -> S] /\ r[0] = x /\ \A n \in 1..K : r[n] = F[n][r[n - 1]]
    BY <1>5 DEF Rounds
  <1>7. \A n \in 0..K : n = 0 \/ (n \in 1..K /\ n # 0 /\ n \in Nat /\ n - 1 \in 0..K)
    OBVIOUS
  <1>8. \A n \in 1..K : F[n][r[n - 1]] = Step(n, r[n - 1])
    <2>1. \A n \in 1..K : n \in Nat /\ r[n - 1] \in S
      BY <1>6, <1>7
    <2> QED
      BY <2>1
  <1>9. r = [n \in 0..K |-> IF n = 0 THEN x ELSE Step(n, r[n - 1])]
    <2>1. \A n \in 0..K : r[n] = IF n = 0 THEN x ELSE Step(n, r[n - 1])
      BY <1>6, <1>7, <1>8
    <2> QED
      BY <1>6, <2>1
  <1>10. found = [n \in 0..K |-> IF n = 0 THEN x ELSE Step(n, found[n - 1])]
    BY <1>9
  <1> HIDE DEF found
  <1>11. found[0] = x /\ \A n \in 1..K : found[n] = Step(n, found[n - 1])
    <2>1. 0 \in 0..K /\ \A n \in 1..K : n \in 0..K /\ n # 0
      OBVIOUS
    <2> QED
      BY <1>10, <2>1
  <1>12. found \in [0..K -> S]
    <2> DEFINE T == {n \in Nat : n <= K => found[n] \in S}
    <2>1. 0 \in T
      BY <1>2, <1>11
    <2>2. ASSUME NEW n \in T PROVE n + 1 \in T
      <3>1. CASE n + 1 <= K
        <4>1. n + 1 \in 1..K /\ n + 1 \in Nat /\ (n + 1) - 1 = n /\ n <= K
          BY <3>1
        <4>2. found[n + 1] = Step(n + 1, found[n]) /\ found[n] \in S
          BY <1>11, <4>1
        <4> QED
          BY <1>1, <4>1, <4>2
      <3> QED
        BY <3>1
    <2>3. T \in SUBSET Nat
      OBVIOUS
    <2>4. T = Nat
      <3> HIDE DEF T
      <3> QED
        BY <2>1, <2>2, <2>3, SetInduction
    <2>5. \A n \in 0..K : found[n] \in S
      <3>1. \A n \in 0..K : n \in Nat /\ n <= K
        OBVIOUS
      <3> QED
        BY <2>4, <3>1
    <2> QED
      BY <1>10, <2>5
  <1>13. FoundUp(found, g, src, dst, m, c, limit, first, K)
    BY <1>11, <1>12 DEF FoundUp, S, Step
  <1> QED
    BY <1>3, <1>13

\* The links that a path of the reference definition leads over; it is there also when
\* others are avoided.
Along(g, m, c, src, w, links) ==
    /\ links \in Seq(Usable(g, m, c)) /\ Len(w.hops) = Len(links) + 1
    /\ \A i \in 1..Len(links) : /\ g.links[links[i]].from = w.hops[i]
                                /\ g.links[links[i]].to = w.hops[i + 1]
    /\ \A l : (\A i \in 1..Len(links) : links[i] # l) => w \in SimplePaths(g, src, m, Without(c, l))

LEMMA RouteLinks ==
  ASSUME NEW g, NEW m, NEW c, Net(g, m, Usable(g, m, c)), Limits(c), NEW src \in g.nodes,
         NEW x \in SimplePaths(g, src, m, c)
  PROVE  \E links : Along(g, m, c, src, x, links)
  <1> DEFINE use == Usable(g, m, c)
             Q == {w \in Routes(g, src) : \E links : Along(g, m, c, src, w, links)}
  <1>0. \A l : /\ Start(src) \in SimplePaths(g, src, m, Without(c, l))
               /\ \A w \in SimplePaths(g, src, m, Without(c, l)), k \in use : k # l /\ Onward(g, w, k) =>
                    Further(g, m, w, k) \in SimplePaths(g, src, m, Without(c, l))
    <2> SUFFICES ASSUME NEW l
                 PROVE  /\ Start(src) \in SimplePaths(g, src, m, Without(c, l))
                        /\ \A w \in SimplePaths(g, src, m, Without(c, l)), k \in use : k # l /\ Onward(g, w, k) =>
                             Further(g, m, w, k) \in SimplePaths(g, src, m, Without(c, l))
      OBVIOUS
    <2> DEFINE d == Without(c, l)
    <2>1. Net(g, m, Usable(g, m, d)) /\ Usable(g, m, d) = use \ {l}
      BY WithoutNet, WithoutOK
    <2> HIDE DEF d
    <2>2. /\ Start(src) \in SimplePaths(g, src, m, d)
          /\ \A w \in SimplePaths(g, src, m, d), k \in Usable(g, m, d) :
               Onward(g, w, k) => Further(g, m, w, k) \in SimplePaths(g, src, m, d)
      BY <2>1, SimplePathsOK
    <2> QED
      BY <2>1, <2>2 DEF d
  <1>1. Start(src) \in Q
    <2>1. Along(g, m, c, src, Start(src), <<>>)
      BY <1>0 DEF Along, Start
    <2> QED
      BY <2>1, StartOK
  <1>2. ASSUME NEW w \in Q, NEW k \in use, Onward(g, w, k)
        PROVE  Further(g, m, w, k) \in Q
    <2>1. PICK links : Along(g, m, c, src, w, links)
      OBVIOUS
    <2> DEFINE n == Len(links)
               f == Further(g, m, w, k)
               more == Append(links, k)
    <2>2. /\ links \in Seq(use) /\ n \in Nat /\ Len(w.hops) = n + 1
          /\ \A i \in 1..n : g.links[links[i]].from = w.hops[i] /\ g.links[links[i]].to = w.hops[i + 1]
      BY <2>1 DEF Along
    <2>3. w \in Routes(g, src)
      OBVIOUS
    <2>4. /\ f \in Routes(g, src) /\ Len(f.hops) = n + 2 /\ LastHop(f) = g.links[k].to
          /\ \A i \in DOMAIN w.hops : f.hops[i] = w.hops[i]
      BY <1>2, <2>2, <2>3, FurtherOK
    <2>5. DOMAIN w.hops = 1..(n + 1)
      BY <2>2, <2>3 DEF Routes, IsRoute
    <2>6. g.links[k].from = w.hops[n + 1] /\ f.hops[n + 2] = g.links[k].to
      BY <1>2, <2>2, <2>4 DEF Onward, LastHop
    <2>7. \A l : (\A i \in 1..n : links[i] # l) => w \in SimplePaths(g, src, m, Without(c, l))
      BY <2>1 DEF Along
    <2> HIDE DEF f, Q, use
    <2>8. more \in Seq(use) /\ Len(more) = n + 1 /\ more[n + 1] = k /\ \A i \in 1..n : more[i] = links[i]
      BY <2>2
    <2> HIDE DEF more, n
    <2>9. ASSUME NEW i \in 1..(n + 1) PROVE g.links[more[i]].from = f.hops[i] /\ g.links[more[i]].to = f.hops[i + 1]
      <3>1. CASE i = n + 1
        <4>1. i \in 1..(n + 1) /\ i + 1 = n + 2
          BY <2>2, <3>1
        <4> QED
          BY <2>4, <2>5, <2>6, <2>8, <3>1, <4>1
      <3>2. CASE i # n + 1
        <4>1. i \in 1..n /\ i + 1 \in 1..(n + 1)
          BY <2>2, <3>2
        <4> QED
          BY <2>2, <2>4, <2>5, <2>8, <4>1
      <3> QED
        BY <3>1, <3>2
    <2>10. ASSUME NEW l, \A i \in 1..(n + 1) : more[i] # l PROVE f \in SimplePaths(g, src, m, Without(c, l))
      <3>1. k # l /\ \A i \in 1..n : links[i] # l
        <4>1. n + 1 \in 1..(n + 1) /\ \A i \in 1..n : i \in 1..(n + 1)
          BY <2>2
        <4> QED
          BY <2>8, <2>10, <4>1
      <3>2. w \in SimplePaths(g, src, m, Without(c, l))
        BY <2>7, <3>1
      <3> QED
        BY <1>0, <1>2, <3>1, <3>2 DEF f
    <2>11. Along(g, m, c, src, f, more)
      <3>1. Len(f.hops) = Len(more) + 1
        BY <2>2, <2>4, <2>8
      <3> QED
        BY <2>8, <2>9, <2>10, <3>1 DEF Along, use
    <2> QED
      BY <2>4, <2>11 DEF Q, f
  <1>3. SimplePaths(g, src, m, c) \subseteq Q
    <2> HIDE DEF Q
    <2> QED
      BY <1>1, <1>2, PathInduction
  <1> QED
    BY <1>3

LEMMA WithoutRoutes ==
  ASSUME NEW g, NEW m, NEW c, Net(g, m, Usable(g, m, c)), Limits(c), NEW src \in g.nodes, NEW l
  PROVE  SimplePaths(g, src, m, Without(c, l)) \subseteq SimplePaths(g, src, m, c)
  <1> DEFINE d == Without(c, l)
             Q == SimplePaths(g, src, m, c)
  <1>1. Net(g, m, Usable(g, m, d)) /\ Usable(g, m, d) \subseteq Usable(g, m, c)
    BY WithoutNet, WithoutOK
  <1>2. /\ Start(src) \in Q
        /\ \A w \in Q, k \in Usable(g, m, c) : Onward(g, w, k) => Further(g, m, w, k) \in Q
    BY SimplePathsOK
  <1> HIDE DEF d, Q
  <1>3. \A w \in Q \cap Routes(g, src), k \in Usable(g, m, d) : Onward(g, w, k) => Further(g, m, w, k) \in Q
    BY <1>1, <1>2
  <1>4. SimplePaths(g, src, m, d) \subseteq Q
    BY <1>1, <1>2, <1>3, PathInduction
  <1> QED
    BY <1>4 DEF d, Q

\* There are no waypoints.
Direct(c) == c.include = <<>>

\* Without waypoints the cheapest visit is the cheapest path.
LEMMA DirectCost ==
  ASSUME NEW g, NEW m, NEW c, Net(g, m, Usable(g, m, c)), NEW src \in g.nodes, NEW dst \in g.nodes, Direct(c)
  PROVE  CheapestVisit(g, m, c, <<src>> \o c.include \o <<dst>>) = LeastCost(SimplePaths(g, src, m, c), dst)
  <1> DEFINE stops == <<src>> \o c.include \o <<dst>>
             least == LeastCost(SimplePaths(g, src, m, c), dst)
  <1>1. Len(stops) = 2 /\ DOMAIN stops = 1..(1 + 1) /\ stops[1] = src /\ stops[2] = dst
    BY DEF Direct
  <1> HIDE DEF stops
  <1>2. \A i \in DOMAIN stops : stops[i] \in g.nodes
    <2>1. \A i \in 1..(1 + 1) : i = 1 \/ i = 2
      OBVIOUS
    <2> QED
      BY <1>1, <2>1
  <1> DEFINE K == 1
  <1>3. K \in Nat /\ K = Len(stops) - 1 /\ DOMAIN stops = 1..(K + 1)
    BY <1>1
  <1>4. PICK visited : VisitedUp(visited, g, stops, m, c, K) /\ CheapestVisit(g, m, c, stops) = visited[K]
    <2> HIDE DEF K
    <2> QED
      BY <1>2, <1>3, VisitedRounds
  <1>5. least \in Nat \cup {-1}
    <2>1. SimplePaths(g, src, m, c) \in SUBSET Routes(g, src)
      BY SimplePathsOK
    <2> QED
      BY <2>1, LeastCostOK
  <1>6. visited[1] = IF -1 \in {visited[1 - 1], least} THEN -1 ELSE visited[1 - 1] + least
    BY <1>1, <1>4 DEF VisitedUp
  <1>7. visited[0] = 0 /\ 1 - 1 = 0
    BY <1>4 DEF VisitedUp
  <1> HIDE DEF least
  <1>8. visited[1] = least
    BY <1>5, <1>6, <1>7
  <1> QED
    BY <1>4, <1>8 DEF stops, least

\* The links P, over the hops k, are among the links L, over the hops h, which visit no
\* node twice; their ends are the same.
Among(g, L, P, h, k) ==
    /\ Steps(g, L, h) /\ Steps(g, P, k)
    /\ \A i, j \in 1..(Len(L) + 1) : h[i] = h[j] => i = j
    /\ k[1] = h[1] /\ k[Len(P) + 1] = h[Len(L) + 1]
    /\ \A i \in 1..Len(P) : \E j \in 1..Len(L) : P[i] = L[j]

\* A path over the links of another that visits no node twice, with the same ends, is that one.
LEMMA SameHops ==
  ASSUME NEW g, NEW use, NEW L \in Seq(use), NEW P \in Seq(use), NEW h, NEW k, Among(g, L, P, h, k)
  PROVE  Len(P) = Len(L) /\ \A i \in 1..(Len(L) + 1) : k[i] = h[i]
  <1> DEFINE n == Len(L)
             e == Len(P)
             T == {i \in Nat : i <= e => i <= n /\ k[i + 1] = h[i + 1]}
  <1>1. n \in Nat /\ e \in Nat
    OBVIOUS
  <1>2. /\ \A i \in 1..n : g.links[L[i]].from = h[i] /\ g.links[L[i]].to = h[i + 1]
        /\ \A i \in 1..e : g.links[P[i]].from = k[i] /\ g.links[P[i]].to = k[i + 1]
        /\ \A i, j \in 1..(n + 1) : h[i] = h[j] => i = j
        /\ k[1] = h[1] /\ k[e + 1] = h[n + 1]
        /\ \A i \in 1..e : \E j \in 1..n : P[i] = L[j]
    BY DEF Steps, Among
  <1> HIDE DEF n, e
  <1>3. 0 \in T
    BY <1>1, <1>2
  <1>4. ASSUME NEW i \in T PROVE i + 1 \in T
    <2> SUFFICES ASSUME i + 1 <= e PROVE i + 1 <= n /\ k[(i + 1) + 1] = h[(i + 1) + 1]
      OBVIOUS
    <2> DEFINE a == i + 1
    <2>1. i \in Nat /\ a \in 1..e /\ i <= e
      BY <1>1
    <2>2. i <= n /\ k[a] = h[a]
      BY <2>1
    <2>3. a \in 1..(n + 1)
      BY <1>1, <2>1, <2>2
    <2> HIDE DEF a
    <2>4. PICK j \in 1..n : P[a] = L[j]
      BY <1>2, <2>1
    <2>5. g.links[P[a]].from = k[a] /\ g.links[P[a]].to = k[a + 1]
      BY <1>2, <2>1
    <2>6. g.links[L[j]].from = h[j] /\ g.links[L[j]].to = h[j + 1]
      BY <1>2
    <2>7. j \in 1..(n + 1)
      BY <1>1
    <2>8. h[j] = h[a]
      BY <2>2, <2>4, <2>5, <2>6
    <2>9. j = a
      BY <1>2, <2>3, <2>7, <2>8
    <2>10. k[a + 1] = h[a + 1]
      BY <2>4, <2>5, <2>6, <2>9
    <2>11. a <= n
      BY <1>1, <2>9
    <2> QED
      BY <2>10, <2>11 DEF a
  <1>5. T = Nat
    <2>1. T \in SUBSET Nat
      OBVIOUS
    <2> HIDE DEF T
    <2> QED
      BY <1>3, <1>4, <2>1, SetInduction
  <1>6. e <= n /\ k[e + 1] = h[e + 1]
    <2>1. e \in T
      <3> HIDE DEF T
      <3> QED
        BY <1>1, <1>5
    <2>2. e <= e
      BY <1>1
    <2> QED
      BY <2>1, <2>2
  <1>7. e = n
    <2>1. e + 1 \in 1..(n + 1) /\ n + 1 \in 1..(n + 1)
      BY <1>1, <1>6
    <2>2. h[e + 1] = h[n + 1]
      BY <1>2, <1>6
    <2>3. e + 1 = n + 1
      BY <1>2, <2>1, <2>2
    <2> QED
      BY <1>1, <2>3
  <1>8. ASSUME NEW i \in 1..(n + 1) PROVE k[i] = h[i]
    <2>1. i - 1 \in Nat /\ i - 1 <= e /\ (i - 1) + 1 = i
      BY <1>1, <1>7
    <2>2. i - 1 \in T
      <3> HIDE DEF T
      <3> QED
        BY <1>5, <2>1
    <2> QED
      BY <2>1, <2>2
  <1> QED
    BY <1>7, <1>8 DEF n, e

\* No two usable links lead from the same node to the same node.
NoParallel(g, m, c) ==
    \A k, l \in Usable(g, m, c) :
        g.links[k].from = g.links[l].from /\ g.links[k].to = g.links[l].to => k = l

\* No path to dst costs less than w.
Cheapest(g, m, c, src, dst, w) == LastHop(w) = dst /\ w.cost = LeastCost(SimplePaths(g, src, m, c), dst)

\* A path that is as cheap as the first and goes over other nodes leads to a candidate
\* that is taken.
LEMMA CandidateDiffers ==
  ASSUME NEW g, NEW m, NEW c, Net(g, m, Usable(g, m, c)), Limits(c), Direct(c), NoParallel(g, m, c),
         NEW src \in g.nodes, NEW dst \in g.nodes,
         NEW first, first # NoPath, PathIsRight(g, m, c, src, dst, first),
         NEW w \in SimplePaths(g, src, m, c), Cheapest(g, m, c, src, dst, w), w.hops # Hops(g, src, first)
  PROVE  \E j \in 1..Len(first.links) :
            Differs(g, src, Compute(g, src, dst, m, Without(c, first.links[j])), first)
  <1> DEFINE use == Usable(g, m, c)
             P == first.links
             k == Hops(g, src, first)
             h == w.hops
             all == SimplePaths(g, src, m, c)
             least == LeastCost(all, dst)
  <1>1. PICK L : Along(g, m, c, src, w, L)
    BY RouteLinks
  <1>2. /\ P \in Seq(use) /\ IsWalk(g, src, dst, m, c, P)
        /\ first.cost = CheapestVisit(g, m, c, <<src>> \o c.include \o <<dst>>)
        /\ CheapestVisit(g, m, c, <<src>> \o c.include \o <<dst>>) \in Nat
    BY DEF PathIsRight, VisitsInOrder
  <1>3. first.cost = least /\ least \in Nat
    BY <1>2, DirectCost
  <1>4. Passing(g, src, dst, first, k)
    BY <1>2, HopsLinks
  <1>5. all \in SUBSET Routes(g, src)
    BY SimplePathsOK
  <1>6. /\ h \in Seq(g.nodes) /\ h[1] = src /\ \A i, j \in DOMAIN h : h[i] = h[j] => i = j
    BY <1>5 DEF Routes, IsRoute
  <1>7. /\ L \in Seq(use) /\ Len(h) = Len(L) + 1 /\ Steps(g, L, h)
        /\ \A l : (\A i \in 1..Len(L) : L[i] # l) => w \in SimplePaths(g, src, m, Without(c, l))
    BY <1>1 DEF Along, Steps
  <1>8. h[Len(L) + 1] = dst
    BY <1>7 DEF LastHop, Cheapest
  <1>9. Len(L) \in Nat /\ Len(P) \in Nat /\ DOMAIN h = 1..(Len(L) + 1)
    <2>1. DOMAIN h = 1..Len(h) /\ Len(L) \in Nat /\ Len(P) \in Nat
      BY <1>2, <1>6, <1>7
    <2> QED
      BY <1>7, <2>1
  <1> HIDE DEF k, h, all
  <1>10. \E j \in 1..Len(P) : \A i \in 1..Len(L) : L[i] # P[j]
    <2> SUFFICES ASSUME \A j \in 1..Len(P) : \E i \in 1..Len(L) : P[j] = L[i] PROVE FALSE
      OBVIOUS
    <2>1. Among(g, L, P, h, k)
      <3>1. \A i, j \in 1..(Len(L) + 1) : h[i] = h[j] => i = j
        BY <1>6, <1>9
      <3>2. k[1] = h[1] /\ k[Len(P) + 1] = h[Len(L) + 1] /\ Steps(g, P, k)
        BY <1>4, <1>6, <1>8 DEF Passing
      <3> QED
        BY <1>7, <3>1, <3>2 DEF Among
    <2>2. k = h
      <3>1. h = [i \in 1..(Len(L) + 1) |-> h[i]]
        BY <1>6, <1>9
      <3>2. k = [i \in 1..(Len(P) + 1) |-> k[i]]
        BY <1>4 DEF Passing
      <3> HIDE DEF use, P
      <3>3. Len(P) = Len(L) /\ \A i \in 1..(Len(L) + 1) : k[i] = h[i]
        <4>1. P \in Seq(use) /\ L \in Seq(use)
          BY <1>2, <1>7
        <4> QED
          BY <2>1, <4>1, SameHops
      <3> QED
        BY <3>1, <3>2, <3>3
    <2> QED
      BY <2>2 DEF k, h
  <1>11. PICK j \in 1..Len(P) : \A i \in 1..Len(L) : L[i] # P[j]
    BY <1>10
  <1> DEFINE l == P[j]
             d == Without(c, l)
             q == Compute(g, src, dst, m, d)
             some == SimplePaths(g, src, m, d)
             low == LeastCost(some, dst)
  <1>12. w \in some
    BY <1>7, <1>11
  <1>13. Net(g, m, Usable(g, m, d)) /\ Usable(g, m, d) = use \ {l} /\ Direct(d)
    BY WithoutNet, WithoutOK DEF Direct
  <1>14. some \subseteq all
    BY WithoutRoutes DEF all
  <1>15. l \in use
    BY <1>2
  <1> HIDE DEF l, d, some, P, use
  <1>16. low = least
    <2>1. some \in SUBSET Routes(g, src)
      BY <1>5, <1>14
    <2>2. PathsTo(some, dst) # {} /\ PathsTo(all, dst) # {}
      BY <1>12, <1>14 DEF PathsTo, LastHop, Cheapest
    <2>3. /\ low \in Nat
          /\ \E v \in some : LastHop(v) = dst /\ v.cost = low
          /\ \A v \in some : LastHop(v) = dst => low <= v.cost
      <3>1. PathsTo(some, dst) # {}
        BY <2>2
      <3> QED
        BY <2>1, <3>1, LeastCostOK
    <2>4. \A v \in all : LastHop(v) = dst => least <= v.cost
      BY <1>5, <2>2, LeastCostOK
    <2>5. least <= low
      BY <1>14, <2>3, <2>4
    <2>6. w.cost = least /\ LastHop(w) = dst
      BY DEF all, Cheapest
    <2> HIDE DEF low, least
    <2>7. low <= least
      BY <1>12, <2>3, <2>6
    <2> QED
      BY <1>3, <2>3, <2>5, <2>7
  <1>17. PathIsRight(g, m, d, src, dst, q)
    <2>1. d.include \in Seq(Nat)
      BY <1>13 DEF Direct
    <2> QED
      BY <1>13, <2>1, ComputeIsRight
  <1>18. CheapestVisit(g, m, d, <<src>> \o d.include \o <<dst>>) = low
    <2>1. Net(g, m, Usable(g, m, d)) /\ Direct(d)
      BY <1>13
    <2> QED
      BY <2>1, DirectCost DEF some
  <1> HIDE DEF q, low, least
  <1>19. q # NoPath /\ q.cost = low /\ q.links \in Seq(use \ {l}) /\ IsWalk(g, src, dst, m, d, q.links)
    <2>1. low # -1
      BY <1>3, <1>16
    <2> QED
      BY <1>13, <1>17, <1>18, <2>1 DEF PathIsRight, VisitsInOrder
  <1>20. Hops(g, src, q) # k
    <2> SUFFICES ASSUME Hops(g, src, q) = k PROVE FALSE
      OBVIOUS
    <2>1. Passing(g, src, dst, q, k)
      BY <1>19, HopsLinks
    <2>2. Len(q.links) \in Nat
      BY <1>19
    <2>3. Len(q.links) = Len(P)
      BY <1>4, <1>9, <2>1, <2>2 DEF Passing, P
    <2>4. g.links[q.links[j]].from = g.links[l].from /\ g.links[q.links[j]].to = g.links[l].to
      BY <1>4, <2>1, <2>3 DEF Passing, Steps, l, P
    <2>5. q.links[j] \in use \ {l}
      BY <1>19, <2>3
    <2>6. q.links[j] = l
      BY <1>15, <2>4, <2>5 DEF NoParallel, use
    <2> QED
      BY <2>5, <2>6
  <1>21. Differs(g, src, q, first)
    BY <1>3, <1>16, <1>19, <1>20 DEF Differs, k
  <1> QED
    BY <1>21 DEF q, d, l, P

\* A path that is found is one that is equal to itself.
LEMMA FirstEquals ==
  ASSUME NEW g, NEW m, NEW c, Net(g, m, Usable(g, m, c)), NEW V, c.include \in Seq(V), NEW src, NEW dst,
         Compute(g, src, dst, m, c) # NoPath
  PROVE  /\ Compute(g, src, dst, m, c) \in Equals(g, m, c, src, dst, Compute(g, src, dst, m, c).cost)
         /\ Len(Compute(g, src, dst, m, c).links) \in Nat
  <1> DEFINE p == Compute(g, src, dst, m, c)
  <1>1. PathIsRight(g, m, c, src, dst, p) /\ p \in PathsOver(Usable(g, m, c))
    BY ComputeIsRight, ComputeType
  <1> HIDE DEF p
  <1>2. p # NoPath
    BY DEF p
  <1>3. VisitsInOrder(g, src, dst, m, c, p) /\ p.links \in Seq(Usable(g, m, c))
    BY <1>1, <1>2 DEF PathIsRight
  <1>4. p \in Equals(g, m, c, src, dst, p.cost)
    BY <1>1, <1>2, <1>3 DEF Equals
  <1>5. Len(p.links) \in Nat
    BY <1>3
  <1> QED
    BY <1>4, <1>5 DEF p

\* found is that of ComputeMany, with the largest limit.
ManyUp(found, g, src, dst, m, c, first) ==
    /\ FoundUp(found, g, src, dst, m, c, MaxPaths, first, Len(first.links))
    /\ ComputeMany(g, src, dst, m, c, MaxPaths) = found[Len(first.links)]

LEMMA ManyRounds ==
  ASSUME NEW g, NEW m, NEW c, Net(g, m, Usable(g, m, c)), Limits(c), NEW V, c.include \in Seq(V),
         NEW src, NEW dst, Compute(g, src, dst, m, c) # NoPath
  PROVE  \E found : ManyUp(found, g, src, dst, m, c, Compute(g, src, dst, m, c))
  <1> DEFINE first == Compute(g, src, dst, m, c)
             K == Len(first.links)
  <1>1. Clip(MaxPaths) = MaxPaths /\ MaxPaths \in Nat \ {0}
    BY MaxPathsAssumption DEF Clip
  <1>2. ComputeMany(g, src, dst, m, c, MaxPaths) = Alternatives(g, src, dst, m, c, MaxPaths, first)
    BY <1>1 DEF ComputeMany
  <1>3. first \in Equals(g, m, c, src, dst, first.cost) /\ K \in Nat
    BY FirstEquals
  <1> HIDE DEF first
  <1>4. \E found : /\ FoundUp(found, g, src, dst, m, c, MaxPaths, first, K)
                   /\ Alternatives(g, src, dst, m, c, MaxPaths, first) = found[K]
    BY <1>1, <1>3, FoundRounds
  <1> QED
    BY <1>2, <1>4 DEF ManyUp, first

\* More than one element: two that differ.
LEMMA TwoOf ==
  ASSUME NEW R, Cardinality(R) > 1, NEW x
  PROVE  \E w \in R : w # x
  <1> SUFFICES ASSUME \A w \in R : w = x PROVE FALSE
    OBVIOUS
  <1>1. R = {} \/ R = {x}
    OBVIOUS
  <1>2. Cardinality({}) = 0 /\ Cardinality({x}) = 1
    BY FS_EmptySet, FS_Singleton
  <1> QED
    BY <1>1, <1>2

\* The cheapest paths there are.
Rivals(g, m, c, src, dst) ==
    LET all == SimplePaths(g, src, m, c) IN {w \in PathsTo(all, dst) : w.cost = LeastCost(all, dst)}

\* Another path is found when there is one.
LEMMA ManyFound ==
  ASSUME NEW g, NEW m, NEW c, Net(g, m, Usable(g, m, c)), Limits(c), Direct(c), NoParallel(g, m, c),
         NEW src \in g.nodes, NEW dst \in g.nodes, Cardinality(Rivals(g, m, c, src, dst)) > 1
  PROVE  Len(ComputeMany(g, src, dst, m, c, MaxPaths)) > 1
  <1> DEFINE all == SimplePaths(g, src, m, c)
             first == Compute(g, src, dst, m, c)
             k == Hops(g, src, first)
             least == LeastCost(all, dst)
             K == Len(first.links)
  <1>1. \A w \in Rivals(g, m, c, src, dst) : w \in all /\ Cheapest(g, m, c, src, dst, w)
    BY DEF Rivals, PathsTo, Cheapest, LastHop
  <1>2. all \in SUBSET Routes(g, src)
    BY SimplePathsOK
  <1>3. c.include \in Seq(Nat)
    BY DEF Direct
  <1>4. PathIsRight(g, m, c, src, dst, first)
    BY <1>3, ComputeIsRight
  <1>5. PICK w \in Rivals(g, m, c, src, dst) : w.hops # k
    <2>1. PICK v \in Rivals(g, m, c, src, dst) : v # [hops |-> k, cost |-> least]
      BY TwoOf
    <2>2. v = [hops |-> v.hops, cost |-> v.cost] /\ v.cost = least
      BY <1>1, <1>2 DEF Routes, IsRoute, Cheapest
    <2> HIDE DEF k, least
    <2>3. v.hops # k
      BY <2>1, <2>2
    <2> QED
      BY <2>3
  <1>6. first # NoPath
    <2>1. w \in PathsTo(all, dst)
      BY DEF Rivals
    <2>2. least \in Nat
      BY <1>2, <2>1, LeastCostOK
    <2>3. CheapestVisit(g, m, c, <<src>> \o c.include \o <<dst>>) = least
      BY DirectCost
    <2>4. least # -1
      BY <2>2
    <2> HIDE DEF first, least
    <2> QED
      BY <1>4, <2>3, <2>4 DEF PathIsRight
  <1>7. PICK found : ManyUp(found, g, src, dst, m, c, first)
    BY <1>3, <1>6, ManyRounds
  <1> HIDE DEF first, k, all, least
  <1>8. PICK j \in 1..K : Differs(g, src, Compute(g, src, dst, m, Without(c, first.links[j])), first)
    <2>1. w \in SimplePaths(g, src, m, c) /\ Cheapest(g, m, c, src, dst, w) /\ w.hops # Hops(g, src, first)
      BY <1>1, <1>5 DEF k, all
    <2> QED
      BY <1>4, <1>6, <2>1, CandidateDiffers
  <1> DEFINE F == Choices(g, m, c, src, dst, MaxPaths, first)
  <1>9. MaxPaths \in Nat /\ MaxPaths > 1
    BY MaxPathsAssumption
  <1>10. K \in Nat
    BY <1>3, <1>6, FirstEquals DEF first
  <1>11. /\ found \in [0..K -> F]
         /\ \A n \in 1..K : found[n] = Consider(g, src, dst, m, c, MaxPaths, found[n - 1], first.links[n])
         /\ ComputeMany(g, src, dst, m, c, MaxPaths) = found[K]
    BY <1>7 DEF ManyUp, FoundUp
  <1> HIDE DEF K
  <1>12. \A n \in 0..K : found[n] \in F /\ Len(found[n]) \in Nat /\ Len(found[n]) >= 1
    <2>1. \A f \in F : Len(f) \in Nat /\ Len(f) >= 1
      BY DEF Choices
    <2> HIDE DEF F
    <2> QED
      BY <1>11, <2>1
  <1>13. ASSUME NEW n \in 1..K PROVE Len(found[n]) >= Len(found[n - 1])
    <2>1. n - 1 \in 0..K
      BY <1>10
    <2> DEFINE o == found[n - 1]
    <2>2. o \in F /\ found[n] = Consider(g, src, dst, m, c, MaxPaths, o, first.links[n])
      BY <1>11, <1>12, <2>1
    <2> HIDE DEF o
    <2>3. Len(Consider(g, src, dst, m, c, MaxPaths, o, first.links[n])) >= Len(o)
      BY <1>3, <1>9, <2>2, ConsiderOK
    <2> QED
      BY <2>2, <2>3 DEF o
  <1>14. Len(found[j]) > 1
    <2>1. j - 1 \in 0..K /\ j \in 0..K
      BY <1>10
    <2> DEFINE o == found[j - 1]
    <2>2. o \in F /\ found[j] = Consider(g, src, dst, m, c, MaxPaths, o, first.links[j])
      BY <1>11, <1>12, <2>1
    <2>3. Len(o) \in Nat /\ Len(o) >= 1 /\ Len(found[j]) \in Nat /\ Len(found[j]) >= Len(o)
      BY <1>12, <1>13, <2>1
    <2> HIDE DEF o
    <2>4. Len(o) = 1 =>
            Len(Consider(g, src, dst, m, c, MaxPaths, o, first.links[j])) > 1
      BY <1>3, <1>8, <1>9, <2>2, ConsiderOK
    <2>5. Len(o) = 1 => Len(found[j]) > 1
      BY <2>2, <2>4
    <2> DEFINE a == Len(o)
               b == Len(found[j])
    <2>6. a \in Nat /\ a >= 1 /\ b \in Nat /\ b >= a /\ (a = 1 => b > 1)
      BY <2>3, <2>5
    <2> HIDE DEF a, b
    <2>7. b > 1
      BY <2>6
    <2> QED
      BY <2>7 DEF b
  <1> DEFINE T == {n \in Nat : n >= j /\ n <= K => Len(found[n]) > 1}
  <1>15. ASSUME NEW n \in T PROVE n + 1 \in T
    <2> SUFFICES ASSUME n + 1 >= j, n + 1 <= K PROVE Len(found[n + 1]) > 1
      OBVIOUS
    <2>1. CASE n + 1 = j
      BY <1>14, <2>1
    <2>2. CASE n + 1 # j
      <3>1. n >= j /\ n <= K /\ n + 1 \in 1..K /\ (n + 1) - 1 = n /\ n \in 0..K /\ n + 1 \in 0..K
        BY <1>10, <2>2
      <3>2. Len(found[n]) > 1
        BY <3>1
      <3>3. Len(found[n + 1]) >= Len(found[n])
        BY <1>13, <3>1
      <3>4. Len(found[n]) \in Nat /\ Len(found[n + 1]) \in Nat
        BY <1>12, <3>1
      <3> QED
        BY <3>2, <3>3, <3>4
    <2> QED
      BY <2>1, <2>2
  <1>16. 0 \in T
    BY <1>10
  <1>17. T = Nat
    <2>1. T \in SUBSET Nat
      OBVIOUS
    <2> HIDE DEF T
    <2> QED
      BY <1>15, <1>16, <2>1, SetInduction
  <1>18. Len(found[K]) > 1
    <2>1. K \in T
      <3> HIDE DEF T
      <3> QED
        BY <1>10, <1>17
    <2>2. K >= j /\ K <= K
      BY <1>10
    <2> QED
      BY <2>1, <2>2
  <1> QED
    BY <1>11, <1>18

\* What ComputeMany has found, whatever the constraints.
LEMMA ManyOK ==
  ASSUME NEW g, NEW m, NEW c, Net(g, m, Usable(g, m, c)), Limits(c), NEW V, c.include \in Seq(V),
         NEW src, NEW dst
  PROVE  \/ ComputeMany(g, src, dst, m, c, MaxPaths) = <<>>
         \/ ComputeMany(g, src, dst, m, c, MaxPaths) \in
              Choices(g, m, c, src, dst, MaxPaths, Compute(g, src, dst, m, c))
  <1> DEFINE first == Compute(g, src, dst, m, c)
             K == Len(first.links)
  <1>1. CASE first = NoPath
    BY <1>1 DEF ComputeMany
  <1>2. CASE first # NoPath
    <2>1. PICK found : ManyUp(found, g, src, dst, m, c, first)
      BY <1>2, ManyRounds
    <2>2. K \in Nat
      BY <1>2, FirstEquals
    <2> HIDE DEF first
    <2>3. /\ found \in [0..K -> Choices(g, m, c, src, dst, MaxPaths, first)]
          /\ ComputeMany(g, src, dst, m, c, MaxPaths) = found[K]
      BY <2>1 DEF ManyUp, FoundUp
    <2> HIDE DEF K
    <2>4. found[K] \in Choices(g, m, c, src, dst, MaxPaths, first)
      BY <2>2, <2>3
    <2> QED
      BY <2>3, <2>4 DEF first
  <1> QED
    BY <1>1, <1>2

\* What is promised of ComputeMany, for one graph.
Promised(g, m, c, src, dst) ==
    LET paths == ComputeMany(g, src, dst, m, c, MaxPaths) IN
    /\ \A i \in DOMAIN paths : VisitsInOrder(g, src, dst, m, c, paths[i]) /\ paths[i].cost = paths[1].cost
    /\ \A i, j \in DOMAIN paths : i < j => Hops(g, src, paths[i]) # Hops(g, src, paths[j])
    /\ Len(paths) <= MaxPaths
    /\ NoParallel(g, m, c) /\ c.include = <<>> /\ Cardinality(Rivals(g, m, c, src, dst)) > 1 => Len(paths) > 1

LEMMA PromiseKept ==
  ASSUME NEW g, NEW m, NEW c, Net(g, m, Usable(g, m, c)), Limits(c), NEW V, c.include \in Seq(V),
         NEW src \in g.nodes, NEW dst \in g.nodes
  PROVE  Promised(g, m, c, src, dst)
  <1> DEFINE paths == ComputeMany(g, src, dst, m, c, MaxPaths)
             first == Compute(g, src, dst, m, c)
             E == Equals(g, m, c, src, dst, first.cost)
  <1>1. \/ paths = <<>>
        \/ paths \in Choices(g, m, c, src, dst, MaxPaths, first)
    BY ManyOK
  <1>2. NoParallel(g, m, c) /\ c.include = <<>> /\ Cardinality(Rivals(g, m, c, src, dst)) > 1 => Len(paths) > 1
    <2> SUFFICES ASSUME NoParallel(g, m, c), Direct(c), Cardinality(Rivals(g, m, c, src, dst)) > 1
                 PROVE  Len(paths) > 1
      BY DEF Direct
    <2> QED
      BY ManyFound
  <1> HIDE DEF paths, first
  <1>3. /\ \A i \in DOMAIN paths : VisitsInOrder(g, src, dst, m, c, paths[i]) /\ paths[i].cost = paths[1].cost
        /\ \A i, j \in DOMAIN paths : i < j => Hops(g, src, paths[i]) # Hops(g, src, paths[j])
        /\ Len(paths) <= MaxPaths
    <2>1. CASE paths = <<>>
      BY <2>1, MaxPathsAssumption
    <2>2. CASE paths \in Choices(g, m, c, src, dst, MaxPaths, first)
      <3>1. /\ paths \in Seq(E) /\ Len(paths) >= 1 /\ Len(paths) <= MaxPaths
            /\ \A i, j \in 1..Len(paths) : i < j => Hops(g, src, paths[i]) # Hops(g, src, paths[j])
        BY <2>2 DEF Choices
      <3>2. \A p \in E : VisitsInOrder(g, src, dst, m, c, p) /\ p.cost = first.cost
        BY DEF Equals
      <3> HIDE DEF E
      <3>3. DOMAIN paths = 1..Len(paths) /\ \A i \in 1..Len(paths) : paths[i] \in E
        BY <3>1
      <3>4. 1 \in 1..Len(paths)
        BY <3>1
      <3>5. \A i \in DOMAIN paths : paths[i].cost = first.cost /\ VisitsInOrder(g, src, dst, m, c, paths[i])
        BY <3>2, <3>3
      <3>6. paths[1].cost = first.cost
        BY <3>3, <3>4, <3>5
      <3> QED
        BY <3>1, <3>3, <3>5, <3>6
    <2> QED
      BY <1>1, <2>1, <2>2
  <1> QED
    BY <1>2, <1>3 DEF Promised, paths

-----------------------------------------------------------------------------
(* Components.                                                              *)

\* Edges of an undirected graph over the nodes of A.
Undirected(edges, A) ==
    /\ IsFiniteSet(A) /\ edges \in SUBSET (A \X A)
    /\ \A a, b \in A : <<a, b>> \in edges => <<b, a>> \in edges

\* No edge leaves S.
Closed(edges, S) == \A e \in edges : e[1] \in S => e[2] \in S

\* F is the component of n in A.
Component(edges, A, n, F) ==
    /\ F \in SUBSET A /\ n \in F /\ Closed(edges, F)
    /\ \A S : n \in S /\ Closed(edges, S) => F \subseteq S

LEMMA AroundOK ==
  ASSUME NEW A, NEW edges \in SUBSET (A \X A), NEW S \in SUBSET A
  PROVE  /\ Around(edges, S) \in SUBSET A /\ S \subseteq Around(edges, S)
         /\ Closed(edges, S) => Around(edges, S) = S
         /\ ~Closed(edges, S) => Around(edges, S) # S
         /\ \A Q : S \subseteq Q /\ Closed(edges, Q) => Around(edges, S) \subseteq Q
  <1>1. \A e \in edges : e[1] \in A /\ e[2] \in A
    OBVIOUS
  <1> QED
    BY <1>1 DEF Around, Closed

LEMMA FloodOK ==
  ASSUME NEW g, IsFiniteSet(g.nodes), NEW A \in SUBSET g.nodes, NEW edges, Undirected(edges, A), NEW n \in A
  PROVE  Component(edges, A, n, Flood(g, edges, n))
  <1> DEFINE S == SUBSET A
             x == {n}
             Step(s) == Around(edges, s)
             F == [k \in Nat |-> [s \in S |-> Step(s)]]
             seen == CHOOSE f : f = [k \in Nat |-> IF k = 0 THEN x ELSE Step(f[k - 1])]
             K == Cardinality(g.nodes)
  <1>0. edges \in SUBSET (A \X A) /\ IsFiniteSet(A)
    BY DEF Undirected
  <1>1. \A s \in S : Step(s) \in S
    BY <1>0, AroundOK
  <1>2. x \in S
    OBVIOUS
  <1>3. Flood(g, edges, n) = seen[K]
    BY DEF Flood
  <1>4. K \in Nat /\ Cardinality(A) \in Nat /\ Cardinality(A) <= K
    <2> DEFINE N == g.nodes
    <2>1. IsFiniteSet(N) /\ A \in SUBSET N
      OBVIOUS
    <2> HIDE DEF N
    <2>2. Cardinality(N) \in Nat /\ Cardinality(A) \in Nat /\ Cardinality(A) <= Cardinality(N)
      BY <2>1, FS_Subset, FS_CardinalityType
    <2> QED
      BY <2>2 DEF N
  <1> HIDE DEF S, x, Step, K
  <1>6. F \in [Nat -> [S -> S]]
    BY <1>1
  <1>7. PICK r : Iterates(r, S, x, F)
    <2> HIDE DEF F
    <2> QED
      BY <1>2, <1>6, Iteration
  <1>8. r \in [Nat -> S] /\ r[0] = x /\ \A k \in Nat \ {0} : r[k] = F[k][r[k - 1]]
    BY <1>7 DEF Iterates
  <1>9. r = [k \in Nat |-> IF k = 0 THEN x ELSE Step(r[k - 1])]
    <2>1. \A k \in Nat \ {0} : k - 1 \in Nat /\ r[k - 1] \in S
      <3>1. \A k \in Nat \ {0} : k - 1 \in Nat
        OBVIOUS
      <3> QED
        BY <1>8, <3>1
    <2>2. \A k \in Nat \ {0} : F[k][r[k - 1]] = Step(r[k - 1])
      BY <2>1
    <2>3. \A k \in Nat : r[k] = IF k = 0 THEN x ELSE Step(r[k - 1])
      BY <1>8, <2>2
    <2> QED
      BY <1>8, <2>3
  <1>10. seen = [k \in Nat |-> IF k = 0 THEN x ELSE Step(seen[k - 1])]
    BY <1>9
  <1> HIDE DEF seen
  <1>11. seen[0] = {n} /\ \A k \in Nat : seen[k + 1] = Around(edges, seen[k])
    <2>1. \A k \in Nat : k + 1 \in Nat /\ k + 1 # 0 /\ (k + 1) - 1 = k
      OBVIOUS
    <2> QED
      BY <1>10, <2>1 DEF x, Step
  \* A round that does not end the flood adds a node.
  <1> DEFINE T == {k \in Nat : /\ seen[k] \in SUBSET A /\ n \in seen[k]
                               /\ Closed(edges, seen[k]) \/ Cardinality(seen[k]) >= k + 1}
  <1>12. 0 \in T
    <2>1. Cardinality({n}) = 1
      BY FS_Singleton
    <2> QED
      BY <1>11, <2>1
  <1>13. ASSUME NEW k \in T PROVE k + 1 \in T
    <2> DEFINE s == seen[k]
               d == seen[k + 1]
    <2>1. /\ k \in Nat /\ s \in SUBSET A /\ n \in s /\ d = Around(edges, s)
          /\ Closed(edges, s) \/ Cardinality(s) >= k + 1
      BY <1>11
    <2> HIDE DEF s, d
    <2>2. /\ d \in SUBSET A /\ s \subseteq d
          /\ Closed(edges, s) => d = s
          /\ ~Closed(edges, s) => d # s
      BY <1>0, <2>1, AroundOK
    <2>3. CASE Closed(edges, s)
      BY <2>1, <2>2, <2>3 DEF d
    <2>4. CASE ~Closed(edges, s)
      <3>1. IsFiniteSet(d)
        BY <1>0, <2>2, FS_Subset
      <3>2. IsFiniteSet(s) /\ Cardinality(s) < Cardinality(d)
        <4>1. s \in SUBSET d /\ s # d
          BY <2>2, <2>4
        <4>2. IsFiniteSet(s) /\ Cardinality(s) <= Cardinality(d) /\ (Cardinality(s) = Cardinality(d) => s = d)
          BY <3>1, <4>1, FS_Subset
        <4>3. Cardinality(s) \in Nat /\ Cardinality(d) \in Nat
          BY <3>1, <4>2, FS_CardinalityType
        <4> QED
          BY <4>1, <4>2, <4>3
      <3>3. Cardinality(s) \in Nat /\ Cardinality(d) \in Nat
        BY <3>1, <3>2, FS_CardinalityType
      <3>4. Cardinality(d) >= (k + 1) + 1
        BY <2>1, <2>4, <3>2, <3>3
      <3> QED
        BY <2>1, <2>2, <3>4 DEF d
    <2> QED
      BY <2>3, <2>4
  <1>14. T = Nat
    <2>1. T \in SUBSET Nat
      OBVIOUS
    <2> HIDE DEF T
    <2> QED
      BY <1>12, <1>13, <2>1, SetInduction
  <1> DEFINE C == seen[K]
  <1>15. C \in SUBSET A /\ n \in C /\ (Closed(edges, C) \/ Cardinality(C) >= K + 1)
    BY <1>4, <1>14
  <1>16. ASSUME NEW Q, n \in Q, Closed(edges, Q) PROVE C \subseteq Q
    <2> DEFINE U == {k \in Nat : seen[k] \subseteq Q}
    <2>1. 0 \in U
      BY <1>11, <1>16
    <2>2. ASSUME NEW k \in U PROVE k + 1 \in U
      <3>1. k \in T
        BY <1>14
      <3>2. seen[k] \in SUBSET A /\ seen[k] \subseteq Q
        BY <3>1
      <3>3. Around(edges, seen[k]) \subseteq Q
        BY <1>0, <1>16, <3>2, AroundOK
      <3> QED
        BY <1>11, <3>3
    <2>3. U = Nat
      <3>1. U \in SUBSET Nat
        OBVIOUS
      <3> HIDE DEF U
      <3> QED
        BY <2>1, <2>2, <3>1, SetInduction
    <2> QED
      BY <1>4, <2>3
  <1> HIDE DEF C
  <1>17. Closed(edges, C)
    <2>1. Cardinality(C) \in Nat /\ Cardinality(C) <= Cardinality(A)
      <3>1. IsFiniteSet(C) /\ Cardinality(C) <= Cardinality(A)
        BY <1>0, <1>15, FS_Subset
      <3> QED
        BY <3>1, FS_CardinalityType
    <2>2. ~(Cardinality(C) >= K + 1)
      BY <1>4, <2>1
    <2> QED
      BY <1>15, <2>2
  <1>18. Component(edges, A, n, C)
    BY <1>15, <1>16, <1>17 DEF Component
  <1> QED
    BY <1>3, <1>18 DEF C

\* A component is that of each of its nodes.
LEMMA ComponentsEqual ==
  ASSUME NEW edges, NEW A, Undirected(edges, A), NEW a, NEW b, NEW F, NEW G,
         Component(edges, A, a, F), Component(edges, A, b, G), b \in F
  PROVE  F = G
  <1>1. G \subseteq F
    BY DEF Component
  <1>2. a \in G
    <2> SUFFICES ASSUME a \notin G PROVE FALSE
      OBVIOUS
    <2> DEFINE S == A \ G
    <2>1. Closed(edges, S)
      <3> SUFFICES ASSUME NEW e \in edges, e[1] \in S PROVE e[2] \in S
        BY DEF Closed
      <3>1. e[1] \in A /\ e[2] \in A /\ e = <<e[1], e[2]>>
        BY DEF Undirected
      <3>2. <<e[2], e[1]>> \in edges
        BY <3>1 DEF Undirected
      <3>3. e[2] \in G => e[1] \in G
        <4> DEFINE f == <<e[2], e[1]>>
        <4>1. f \in edges /\ f[1] = e[2] /\ f[2] = e[1]
          BY <3>2
        <4> HIDE DEF f
        <4>2. Closed(edges, G)
          BY DEF Component
        <4> QED
          BY <4>1, <4>2 DEF Closed
      <3> QED
        BY <3>1, <3>3
    <2>2. a \in S
      BY DEF Component
    <2>3. F \subseteq S
      BY <2>1, <2>2 DEF Component
    <2>4. b \in G
      BY DEF Component
    <2> QED
      BY <2>3, <2>4
  <1>3. F \subseteq G
    BY <1>2 DEF Component
  <1> QED
    BY <1>1, <1>3

\* The links of a finite graph join two of its nodes.
Ended(g) ==
    /\ IsFiniteSet(g.nodes) /\ g.nodes \in SUBSET Nat
    /\ \A l \in DOMAIN g.links : g.links[l].from \in g.nodes /\ g.links[l].to \in g.nodes

\* The links that are left after a failure.
Left(g, fN, fL) == {l \in DOMAIN g.links \ fL : {g.links[l].from, g.links[l].to} \cap fN = {}}

LEMMA EdgesOK ==
  ASSUME NEW g, Ended(g), NEW fN, NEW fL
  PROVE  /\ Undirected(Edges(g, fN, fL), g.nodes \ fN)
         /\ \A l \in Left(g, fN, fL) : /\ <<g.links[l].from, g.links[l].to>> \in Edges(g, fN, fL)
                                       /\ <<g.links[l].to, g.links[l].from>> \in Edges(g, fN, fL)
         /\ \A e \in Edges(g, fN, fL) : \E l \in Left(g, fN, fL) :
              \/ e[1] = g.links[l].from /\ e[2] = g.links[l].to
              \/ e[1] = g.links[l].to /\ e[2] = g.links[l].from
  <1> DEFINE A == g.nodes \ fN
             E == Edges(g, fN, fL)
             left == Left(g, fN, fL)
  <1>1. E = {<<g.links[l].from, g.links[l].to>> : l \in left} \cup {<<g.links[l].to, g.links[l].from>> : l \in left}
    BY DEF Edges, Left
  <1>2. \A l \in left : g.links[l].from \in A /\ g.links[l].to \in A
    BY DEF Left, Ended
  <1>3. IsFiniteSet(A)
    <2> DEFINE N == g.nodes
    <2>1. A \in SUBSET N /\ IsFiniteSet(N)
      BY DEF Ended
    <2> HIDE DEF N, A
    <2> QED
      BY <2>1, FS_Subset
  <1> HIDE DEF A, E, left
  <1>4. E \in SUBSET (A \X A)
    BY <1>1, <1>2
  <1>5. \A l \in left : /\ <<g.links[l].from, g.links[l].to>> \in E
                        /\ <<g.links[l].to, g.links[l].from>> \in E
    BY <1>1
  <1>6. \A a, b \in A : <<a, b>> \in E => <<b, a>> \in E
    BY <1>1
  <1>7. \A e \in E : \E l \in left : \/ e[1] = g.links[l].from /\ e[2] = g.links[l].to
                                     \/ e[1] = g.links[l].to /\ e[2] = g.links[l].from
    BY <1>1
  <1>8. Undirected(E, A)
    BY <1>3, <1>4, <1>6 DEF Undirected
  <1> QED
    BY <1>5, <1>7, <1>8 DEF A, E, left

\* A component is what the nodes are connected to.
LEMMA ConnectedOK ==
  ASSUME NEW g, Ended(g), NEW fN, NEW fL, NEW a \in g.nodes \ fN, NEW b \in g.nodes \ fN,
         NEW F, Component(Edges(g, fN, fL), g.nodes \ fN, a, F)
  PROVE  b \in F <=> Connected(g, fN, fL, a, b)
  <1> DEFINE A == g.nodes \ fN
             E == Edges(g, fN, fL)
             left == Left(g, fN, fL)
             Crosses(S) == \E l \in left : (g.links[l].from \in S) # (g.links[l].to \in S)
  <1>1. /\ F \in SUBSET A /\ a \in F /\ Closed(E, F)
        /\ \A S : a \in S /\ Closed(E, S) => F \subseteq S
    BY DEF Component
  <1>2. Connected(g, fN, fL, a, b) <=> \A S \in SUBSET A : a \in S /\ b \notin S => Crosses(S)
    <2>1. left = {l \in DOMAIN g.links \ fL : {g.links[l].from, g.links[l].to} \subseteq A}
      BY DEF Left, Ended
    <2> HIDE DEF left
    <2> QED
      BY <2>1 DEF Connected
  <1>3. ASSUME NEW S \in SUBSET A PROVE Closed(E, S) <=> ~Crosses(S)
    <2>1. /\ \A l \in left : /\ <<g.links[l].from, g.links[l].to>> \in E
                             /\ <<g.links[l].to, g.links[l].from>> \in E
          /\ \A e \in E : \E l \in left : \/ e[1] = g.links[l].from /\ e[2] = g.links[l].to
                                          \/ e[1] = g.links[l].to /\ e[2] = g.links[l].from
      BY EdgesOK
    <2> HIDE DEF E, left
    <2>2. ASSUME Closed(E, S), NEW l \in left PROVE (g.links[l].from \in S) = (g.links[l].to \in S)
      <3>1. /\ <<g.links[l].from, g.links[l].to>>[1] \in S => <<g.links[l].from, g.links[l].to>>[2] \in S
            /\ <<g.links[l].to, g.links[l].from>>[1] \in S => <<g.links[l].to, g.links[l].from>>[2] \in S
        BY <2>1, <2>2 DEF Closed
      <3>2. g.links[l].from \in S <=> g.links[l].to \in S
        BY <3>1
      <3> QED
        BY <3>2
    <2>3. ASSUME ~Crosses(S), NEW e \in E, e[1] \in S PROVE e[2] \in S
      <3>1. PICK l \in left : \/ e[1] = g.links[l].from /\ e[2] = g.links[l].to
                              \/ e[1] = g.links[l].to /\ e[2] = g.links[l].from
        BY <2>1
      <3>2. (g.links[l].from \in S) = (g.links[l].to \in S)
        BY <2>3
      <3>3. g.links[l].from \in S <=> g.links[l].to \in S
        BY <3>2
      <3> QED
        BY <2>3, <3>1, <3>3
    <2> QED
      BY <2>2, <2>3 DEF Closed
  <1> HIDE DEF A, E, left, Crosses
  <1>4. ASSUME b \in F, NEW S \in SUBSET A, a \in S, b \notin S PROVE Crosses(S)
    BY <1>1, <1>3, <1>4
  <1>5. ASSUME \A S \in SUBSET A : a \in S /\ b \notin S => Crosses(S) PROVE b \in F
    BY <1>1, <1>3, <1>5
  <1> QED
    BY <1>2, <1>4, <1>5

\* Of finite sets of numbers one is the largest, with the smallest member.
LEMMA LargestOK ==
  ASSUME NEW A \in SUBSET Nat, IsFiniteSet(A), NEW comps \in SUBSET (SUBSET A), comps # {}, {} \notin comps
  PROVE  /\ Largest(comps) \in comps
         /\ \A d \in comps : Cardinality(d) <= Cardinality(Largest(comps))
  <1> DEFINE K == Cardinality(A)
             R == {K - Cardinality(d) : d \in comps}
  <1>1. /\ K \in Nat
        /\ \A d \in comps : Cardinality(d) \in Nat /\ Cardinality(d) <= K
    BY FS_Subset, FS_CardinalityType
  <1> HIDE DEF K
  <1>2. PICK r \in R : \A y \in R : r <= y
    <2>1. R \subseteq Nat /\ R # {}
      BY <1>1
    <2> HIDE DEF R
    <2> QED
      BY <2>1, LeastOf
  <1>3. PICK c \in comps : r = K - Cardinality(c)
    BY <1>2
  <1>4. \A d \in comps : Cardinality(d) <= Cardinality(c)
    <2> SUFFICES ASSUME NEW d \in comps PROVE Cardinality(d) <= Cardinality(c)
      OBVIOUS
    <2>1. r <= K - Cardinality(d)
      BY <1>2
    <2> QED
      BY <1>1, <1>3, <2>1
  <1> DEFINE M == {d \in comps : Cardinality(d) = Cardinality(c)}
             X == {Smallest(d) : d \in M}
  <1>5. \A d \in comps : Smallest(d) \in Nat
    <2> SUFFICES ASSUME NEW d \in comps PROVE Smallest(d) \in Nat
      OBVIOUS
    <2>1. d \in SUBSET Nat /\ d # {}
      OBVIOUS
    <2> QED
      BY <2>1, SmallestOK
  <1>6. PICK x \in X : \A y \in X : x <= y
    <2>1. X \subseteq Nat /\ X # {}
      BY <1>5
    <2> HIDE DEF X
    <2> QED
      BY <2>1, LeastOf
  <1>7. PICK z \in M : x = Smallest(z)
    BY <1>6
  <1>8. ASSUME NEW d \in comps
        PROVE  \/ Cardinality(z) > Cardinality(d)
               \/ Cardinality(z) = Cardinality(d) /\ Smallest(z) <= Smallest(d)
    <2>1. Cardinality(z) = Cardinality(c) /\ Cardinality(d) <= Cardinality(c)
          /\ Cardinality(c) \in Nat /\ Cardinality(d) \in Nat
      BY <1>1, <1>4
    <2>2. CASE Cardinality(d) = Cardinality(c)
      <3>1. Smallest(d) \in X
        BY <2>2
      <3> QED
        BY <1>6, <1>7, <2>1, <2>2, <3>1
    <2>3. CASE Cardinality(d) # Cardinality(c)
      BY <2>1, <2>3
    <2> QED
      BY <2>2, <2>3
  <1> DEFINE L == Largest(comps)
  <1>9. L \in comps /\ \A d \in comps : \/ Cardinality(L) > Cardinality(d)
                                        \/ Cardinality(L) = Cardinality(d) /\ Smallest(L) <= Smallest(d)
    <2>1. z \in comps
      OBVIOUS
    <2>2. \E q \in comps : \A d \in comps : \/ Cardinality(q) > Cardinality(d)
                                            \/ Cardinality(q) = Cardinality(d) /\ Smallest(q) <= Smallest(d)
      BY <1>8, <2>1
    <2> QED
      BY <2>2 DEF Largest
  <1> HIDE DEF L
  <1>10. \A d \in comps : Cardinality(d) <= Cardinality(L)
    BY <1>1, <1>9
  <1> QED
    BY <1>9, <1>10 DEF L

\* What Analyze makes of the components C of the nodes A that are left.
Parted(A, C, comps, lost, parts) ==
    /\ comps = {C[n] : n \in A}
    /\ lost = IF Cardinality(comps) > 1 THEN UNION (comps \ {Largest(comps)}) ELSE {}
    /\ parts = IF Cardinality(comps) > 1 THEN comps ELSE {}

\* The parts are the components, and what is lost is never in the larger one.
PartedOK(A, C, lost, parts) ==
    /\ lost \subseteq A
    /\ \A a, b \in A : (parts = {} \/ \E k \in parts : {a, b} \subseteq k) <=> b \in C[a]
    /\ \A a, b \in A : a \in lost /\ b \notin lost =>
         b \notin C[a] /\ Cardinality(C[a]) <= Cardinality(C[b])

\* What Analyze calls components and unreachable, for the components C of the nodes A.
LEMMA ImpactOK ==
  ASSUME NEW A \in SUBSET Nat, NEW edges, Undirected(edges, A), NEW C,
         \A n \in A : Component(edges, A, n, C[n]),
         NEW comps, NEW lost, NEW parts, Parted(A, C, comps, lost, parts)
  PROVE  PartedOK(A, C, lost, parts)
  <1> USE DEF Parted, PartedOK
  <1>0. IsFiniteSet(A)
    BY DEF Undirected
  <1>1. \A a \in A : C[a] \in SUBSET A /\ a \in C[a] /\ C[a] \in comps
    BY DEF Component
  <1>2. \A a, b \in A : b \in C[a] => C[a] = C[b]
    BY ComponentsEqual
  <1>3. IsFiniteSet(comps)
    BY <1>0, ImageCount
  <1>4. Cardinality(comps) \in Nat
    BY <1>3, FS_CardinalityType
  <1>5. \A k \in comps : \E n \in A : k = C[n]
    OBVIOUS
  <1>6. CASE ~(Cardinality(comps) > 1)
    <2>1. \A a, b \in A : C[a] = C[b]
      <3> SUFFICES ASSUME NEW a \in A, NEW b \in A, C[a] # C[b] PROVE FALSE
        OBVIOUS
      <3> DEFINE x == C[a]
                 y == C[b]
                 P == {x, y}
      <3>1. P \in SUBSET comps /\ x # y
        BY <1>1
      <3> HIDE DEF x, y
      <3>2. IsFiniteSet({x}) /\ Cardinality({x}) = 1
        BY FS_Singleton
      <3>3. P = {x} \cup {y} /\ y \notin {x}
        BY <3>1
      <3>4. Cardinality({x} \cup {y}) = 2
        <4>1. Cardinality({x} \cup {y}) = Cardinality({x}) + 1
          BY <3>2, <3>3, FS_AddElement
        <4> QED
          BY <3>2, <4>1
      <3> HIDE DEF P
      <3>5. Cardinality(P) <= Cardinality(comps)
        BY <1>3, <3>1, FS_Subset
      <3> QED
        BY <1>4, <1>6, <3>3, <3>4, <3>5
    <2>2. parts = {} /\ lost = {}
      BY <1>6
    <2> QED
      BY <1>1, <2>1, <2>2
  <1>7. CASE Cardinality(comps) > 1
    <2>1. parts = comps /\ lost = UNION (comps \ {Largest(comps)})
      BY <1>7
    <2>2. comps # {}
      BY <1>4, <1>7, FS_EmptySet
    <2>3. comps \in SUBSET (SUBSET A) /\ {} \notin comps
      BY <1>1, <1>5
    <2> DEFINE Z == Largest(comps)
    <2>4. Z \in comps /\ \A d \in comps : Cardinality(d) <= Cardinality(Z)
      <3>1. ASSUME NEW K, K = comps PROVE Largest(K) \in K /\ \A d \in K : Cardinality(d) <= Cardinality(Largest(K))
        <4>1. K \in SUBSET (SUBSET A) /\ {} \notin K /\ K # {}
          BY <2>2, <2>3, <3>1
        <4> QED
          BY <1>0, <4>1, LargestOK
      <3> QED
        BY <3>1
    <2>5. lost = UNION (comps \ {Z})
      BY <2>1
    <2> HIDE DEF Z
    <2>6. lost \subseteq A
      BY <2>3, <2>5
    <2>7. ASSUME NEW a \in A, NEW b \in A
          PROVE  (parts = {} \/ \E k \in parts : {a, b} \subseteq k) <=> b \in C[a]
      <3>1. ASSUME NEW k \in comps, a \in k, b \in k PROVE b \in C[a]
        <4>1. PICK n \in A : k = C[n]
          BY <1>5
        <4> QED
          BY <1>2, <3>1, <4>1
      <3>2. b \in C[a] => \E k \in comps : a \in k /\ b \in k
        BY <1>1
      <3>3. parts = comps /\ comps # {}
        BY <2>1, <2>2
      <3> QED
        BY <3>1, <3>2, <3>3
    <2>8. ASSUME NEW a \in A, NEW b \in A, a \in lost, b \notin lost
          PROVE  b \notin C[a] /\ Cardinality(C[a]) <= Cardinality(C[b])
      <3>1. PICK k \in comps : k # Z /\ a \in k
        BY <2>5, <2>8
      <3>2. k = C[a]
        <4>1. PICK n \in A : k = C[n]
          BY <1>5
        <4> QED
          BY <1>2, <3>1, <4>1
      <3>3. C[b] = Z
        BY <1>1, <2>5, <2>8
      <3>4. b \notin C[a]
        BY <1>2, <3>1, <3>2, <3>3
      <3> QED
        BY <1>1, <2>4, <3>3, <3>4
    <2> QED
      BY <2>6, <2>7, <2>8
  <1> QED
    BY <1>6, <1>7

\* A walk over links that are left stays in its component.
LEMMA WalkStays ==
  ASSUME NEW g, Ended(g), NEW fN, NEW fL, NEW m, NEW c, c.avoidNodes = fN, c.avoidLinks = fL,
         NEW a, NEW b, NEW F, Closed(Edges(g, fN, fL), F), a \in F,
         NEW links \in Seq(Usable(g, m, c)), IsWalk(g, a, b, m, c, links)
  PROVE  b \in F
  <1> DEFINE k == Len(links)
             E == Edges(g, fN, fL)
             T == {i \in Nat : i + 1 <= k => g.links[links[i + 1]].to \in F}
  <1>1. \A l \in Usable(g, m, c) : g.links[l].from \in F => g.links[l].to \in F
    <2> SUFFICES ASSUME NEW l \in Usable(g, m, c), g.links[l].from \in F PROVE g.links[l].to \in F
      OBVIOUS
    <2>1. l \in Left(g, fN, fL)
      BY DEF Usable, Eligible, Left
    <2> DEFINE e == <<g.links[l].from, g.links[l].to>>
    <2>2. e \in E
      BY <2>1, EdgesOK
    <2>3. e[1] = g.links[l].from /\ e[2] = g.links[l].to
      OBVIOUS
    <2> HIDE DEF e
    <2> QED
      BY <2>2, <2>3 DEF Closed
  <1>2. k \in Nat /\ \A i \in 1..k : links[i] \in Usable(g, m, c)
    OBVIOUS
  <1>3. CASE links = <<>>
    BY <1>3 DEF IsWalk
  <1>4. CASE links # <<>>
    <2>1. k >= 1
      BY <1>2, <1>4
    <2>2. g.links[links[1]].from = a /\ g.links[links[k]].to = b
      BY <1>4 DEF IsWalk
    <2>3. \A i \in 1..(k - 1) : g.links[links[i]].to = g.links[links[i + 1]].from
      BY DEF IsWalk
    <2> HIDE DEF k
    <2>4. 0 \in T
      <3>1. 1 \in 1..k /\ 0 + 1 = 1
        BY <1>2, <2>1
      <3>2. g.links[links[1]].to \in F
        BY <1>1, <1>2, <2>2, <3>1
      <3> QED
        BY <3>1, <3>2
    <2>5. ASSUME NEW i \in T PROVE i + 1 \in T
      <3> SUFFICES ASSUME (i + 1) + 1 <= k PROVE g.links[links[(i + 1) + 1]].to \in F
        OBVIOUS
      <3>1. i \in Nat /\ i + 1 \in 1..(k - 1) /\ (i + 1) + 1 \in 1..k /\ i + 1 <= k
        BY <1>2
      <3>2. g.links[links[i + 1]].to \in F
        BY <3>1
      <3>3. g.links[links[(i + 1) + 1]].from \in F
        BY <2>3, <3>1, <3>2
      <3> QED
        BY <1>1, <1>2, <3>1, <3>3
    <2>6. T = Nat
      <3>1. T \in SUBSET Nat
        OBVIOUS
      <3> HIDE DEF T
      <3> QED
        BY <2>4, <2>5, <3>1, SetInduction
    <2>7. k - 1 \in Nat /\ (k - 1) + 1 = k /\ (k - 1) + 1 <= k
      BY <1>2, <2>1
    <2>8. k - 1 \in T
      BY <2>6, <2>7
    <2> QED
      BY <2>2, <2>7, <2>8
  <1> QED
    BY <1>3, <1>4
=============================================================================
