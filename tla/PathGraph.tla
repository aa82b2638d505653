------------------------------ MODULE PathGraph ------------------------------
(***************************************************************************)
(* Path computation and impact analysis (internal/topology/graph.go) and    *)
(* the two handlers that call it (PathService in internal/api/topology.go), *)
(* as operators over one snapshot of the topology.                          *)
(*                                                                         *)
(* Ids are numbers, in the order of the strings they stand for.  A snapshot *)
(* is [nodes, links, prefixes], functions from the ids there are.  Metrics  *)
(* come from 32-bit attributes, so that the sums the code guards against    *)
(* overflow of 64 bits cannot.                                              *)
(***************************************************************************)
EXTENDS Integers, Sequences, FiniteSets

CONSTANTS MaxPaths,   \* what ComputeMany clips its limit to
          NoNode      \* nothing resolved

\* 16 in the code.
ASSUME MaxPathsAssumption == MaxPaths \in Nat /\ MaxPaths >= 2

ASSUME NoNodeAssumption == NoNode \notin Nat

NoPath == [links |-> <<>>, cost |-> -1]

\* No constraint: the zero PathConstraints, which a nil one equals.
NoConstraints == [mt |-> 0, bandwidth |-> 0, avoidLinks |-> {}, avoidNodes |-> {},
                  require |-> {}, exclude |-> {}, include |-> <<>>]

Smallest(S) == CHOOSE x \in S : \A y \in S : x <= y

-----------------------------------------------------------------------------
(* The graph.                                                               *)

Active(map) == {i \in DOMAIN map : map[i].fresh = "active"}

InDomain(map, d) == [i \in {j \in DOMAIN map : map[j].domain = d} |-> map[i]]

\* NewGraph: the active nodes, and the active links between two of them.
NewGraph(nodes, links) ==
    [nodes |-> Active(nodes),
     links |-> [l \in {k \in Active(links) : {links[k].from, links[k].to} \subseteq Active(nodes)}
                    |-> links[l]]]

\* 0 is not eligible: an unknown TE metric or delay.  An unknown IGP metric is 1.
Metric(l, m) ==
    CASE m = "te" -> l.te
      [] m = "delay" -> l.delay
      [] m = "igp" -> IF l.igp = 0 THEN 1 ELSE l.igp

Eligible(id, l, c) ==
    /\ c.mt # 0 => l.mt = c.mt
    /\ c.bandwidth > 0 => l.bandwidth >= c.bandwidth
    /\ id \notin c.avoidLinks
    /\ {l.from, l.to} \cap c.avoidNodes = {}
    /\ c.require \subseteq l.groups
    /\ c.exclude \cap l.groups = {}

\* The links shortest may take.
Usable(g, m, c) ==
    {l \in DOMAIN g.links : Eligible(l, g.links[l], c) /\ Metric(g.links[l], m) > 0}

-----------------------------------------------------------------------------
(* Dijkstra.  A label is the cost of a node and the link it was reached by. *)

Unseen == <<-1, 0>>

Better(a, b) ==
    /\ a # Unseen
    /\ b = Unseen \/ a[1] < b[1] \/ (a[1] = b[1] /\ a[2] < b[2])

Best(S) == CHOOSE a \in S : \A b \in S : b = a \/ Better(a, b)

\* out are usable links that leave u.  Whatever their order, a node is left with the best
\* of its label and what they offer: of two that reach it at the same cost, the one with
\* the smaller id.
Relax(g, m, labels, u, out) ==
    [v \in g.nodes |->
        Best({labels[v]} \cup {<<labels[u][1] + Metric(g.links[l], m), l>> :
                                  l \in {k \in out : g.links[k].to = v}})]

\* Mutant: the queue is ordered by node only.
PopFirst(queue) == CHOOSE q \in queue : \A p \in queue : q[2] <= p[2]

\* heap.Pop: the smallest cost, then the smallest node.
Pop(queue) ==
    CHOOSE q \in queue : \A p \in queue : q[1] < p[1] \/ (q[1] = p[1] /\ q[2] <= p[2])

\* One round of the loop.  A stale item is dropped; at the destination the loop ends, as
\* it does without items.
Expand(g, m, use, dst, s) ==
    IF s.queue = {} THEN s
    ELSE LET item == Pop(s.queue)
             rest == s.queue \ {item}
             next == Relax(g, m, s.labels, item[2], {l \in use : g.links[l].from = item[2]})
         IN IF item[1] # s.labels[item[2]][1] THEN [s EXCEPT !.queue = rest]
            ELSE IF item[2] = dst THEN [s EXCEPT !.queue = {}]
            ELSE [labels |-> next,
                  queue |-> rest \cup {<<next[v][1], v>> : v \in {w \in g.nodes : next[w] # s.labels[w]}}]

\* Each link is relaxed once at most, so that there are no more items than links, and the
\* first one.
Search(g, m, use, src, dst) ==
    LET round[n \in Nat] ==
            IF n = 0 THEN [labels |-> [v \in g.nodes |-> IF v = src THEN <<0, 0>> ELSE Unseen],
                           queue |-> {<<0, src>>}]
            ELSE Expand(g, m, use, dst, round[n - 1])
    IN round[Cardinality(use) + 1].labels

\* From a node one link back, to the left of the links there are.
StepBack(g, labels, src, s) ==
    IF s.at = src THEN s
    ELSE [at |-> g.links[labels[s.at][2]].from, links |-> <<labels[s.at][2]>> \o s.links]

\* A link costs at least 1, so that the path has no more links than it costs.
WalkBack(g, labels, src, dst) ==
    LET back[n \in Nat] ==
            IF n = 0 THEN [at |-> dst, links |-> <<>>] ELSE StepBack(g, labels, src, back[n - 1])
    IN back[labels[dst][1]].links

Shortest(g, src, dst, m, c) ==
    IF ~({src, dst} \subseteq g.nodes) THEN NoPath
    ELSE LET labels == Search(g, m, Usable(g, m, c), src, dst)
         IN IF labels[dst] = Unseen THEN NoPath
            ELSE [links |-> WalkBack(g, labels, src, dst), cost |-> labels[dst][1]]

-----------------------------------------------------------------------------
(* Compute joins the segments between the waypoints.                        *)

\* One segment more.
Extend(path, segment) ==
    IF path = NoPath \/ segment = NoPath THEN NoPath
    ELSE [links |-> path.links \o segment.links, cost |-> path.cost + segment.cost]

Join(g, waypoints, m, c) ==
    LET joined[n \in 0..(Len(waypoints) - 1)] ==
            IF n = 0 THEN [links |-> <<>>, cost |-> 0]
            ELSE Extend(joined[n - 1], Shortest(g, waypoints[n], waypoints[n + 1], m, c))
    IN joined[Len(waypoints) - 1]

\* The nodes of a path are its hops.
Hops(g, src, path) == <<src>> \o [i \in DOMAIN path.links |-> g.links[path.links[i]].to]

\* 0 for a path without links.
Bottleneck(g, path) ==
    IF path.links = <<>> THEN 0
    ELSE Smallest({g.links[path.links[i]].bandwidth : i \in DOMAIN path.links})

Compute(g, src, dst, m, c) == Join(g, <<src>> \o c.include \o <<dst>>, m, c)

\* Mutant: an alternative may cost more.
WorthTaking(candidate, first) == candidate # NoPath

Equal(candidate, first) == candidate # NoPath /\ candidate.cost = first.cost

\* pathKey: paths are told apart by their nodes.
PathKey(g, src, path) == Hops(g, src, path)

\* Without the link l of the first path: another path, if it is as good and new.
Consider(g, src, dst, m, c, limit, out, l) ==
    LET candidate == Compute(g, src, dst, m, [c EXCEPT !.avoidLinks = @ \cup {l}])
        new == /\ Len(out) < limit
               /\ Equal(candidate, out[1])
               /\ \A k \in DOMAIN out : PathKey(g, src, out[k]) # PathKey(g, src, candidate)
    IN IF new THEN Append(out, candidate) ELSE out

\* Each link of the first path is avoided in turn.
Alternatives(g, src, dst, m, c, limit, first) ==
    LET found[n \in 0..Len(first.links)] ==
            IF n = 0 THEN <<first>> ELSE Consider(g, src, dst, m, c, limit, found[n - 1], first.links[n])
    IN found[Len(first.links)]

Clip(limit) == IF limit <= 0 THEN 1 ELSE IF limit > MaxPaths THEN MaxPaths ELSE limit

\* No path at all is the empty sequence.
ComputeMany(g, src, dst, m, c, limit) ==
    LET first == Compute(g, src, dst, m, c) IN
    IF first = NoPath THEN <<>>
    ELSE Alternatives(g, src, dst, m, c, Clip(limit), first)

-----------------------------------------------------------------------------
(* Analyze: the undirected components that remain.                          *)

\* Mutant: a link is followed in its direction only.
EdgesDirected(g, failedNodes, failedLinks) ==
    {<<g.links[l].from, g.links[l].to>> : l \in
        {k \in DOMAIN g.links \ failedLinks : {g.links[k].from, g.links[k].to} \cap failedNodes = {}}}

Edges(g, failedNodes, failedLinks) ==
    LET left == {k \in DOMAIN g.links \ failedLinks :
                    {g.links[k].from, g.links[k].to} \cap failedNodes = {}}
    IN {<<g.links[l].from, g.links[l].to>> : l \in left} \cup {<<g.links[l].to, g.links[l].from>> : l \in left}

\* One step along the edges.
Around(edges, seen) == seen \cup {e[2] : e \in {f \in edges : f[1] \in seen}}

\* The component of n: there are no more steps to take than nodes.
Flood(g, edges, n) ==
    LET seen[k \in Nat] == IF k = 0 THEN {n} ELSE Around(edges, seen[k - 1])
    IN seen[Cardinality(g.nodes)]

\* The largest component, and of equal ones the one with the smallest node.
Largest(comps) ==
    CHOOSE c \in comps : \A d \in comps :
        \/ Cardinality(c) > Cardinality(d)
        \/ Cardinality(c) = Cardinality(d) /\ Smallest(c) <= Smallest(d)

Analyze(g, failedNodes, failedLinks, prefixes) ==
    LET edges == Edges(g, failedNodes, failedLinks)
        comps == {Flood(g, edges, n) : n \in g.nodes \ failedNodes}
        lost == IF Cardinality(comps) > 1 THEN UNION (comps \ {Largest(comps)}) ELSE {}
    IN [components |-> IF Cardinality(comps) > 1 THEN comps ELSE {},
        nodes |-> lost,
        prefixes |-> {p \in DOMAIN prefixes : prefixes[p].origin \in failedNodes \cup lost}]

-----------------------------------------------------------------------------
(* The handlers.                                                            *)

\* resolveNodeID: the first node of the domain that has the id or name, stale or not;
\* otherwise the origin of the longest prefix that covers it.
ResolveNodeID(t, d, q) ==
    LET named == {n \in DOMAIN t.nodes : t.nodes[n].domain = d /\ q \in {t.nodes[n].word} \cup t.nodes[n].names}
        covering == {p \in DOMAIN t.prefixes : t.prefixes[p].domain = d /\ q \in t.prefixes[p].covers}
        best == {p \in covering : \A o \in covering : t.prefixes[o].bits <= t.prefixes[p].bits}
    IN IF named # {} THEN Smallest(named)
       ELSE IF covering # {} THEN t.prefixes[Smallest(best)].origin ELSE NoNode

DomainGraph(t, d) == NewGraph(InDomain(t.nodes, d), InDomain(t.links, d))

\* No answer when an end cannot be resolved.
ComputePaths(t, d, src, dst, m, c, limit) ==
    LET from == ResolveNodeID(t, d, src)
        to == ResolveNodeID(t, d, dst)
    IN IF NoNode \in {from, to} THEN <<>> ELSE ComputeMany(DomainGraph(t, d), from, to, m, c, limit)

AnalyzeImpact(t, d, failedNodes, failedLinks) ==
    Analyze(DomainGraph(t, d), failedNodes, failedLinks, InDomain(t.prefixes, d))

-----------------------------------------------------------------------------
(* What the answers should be: all paths that visit no node twice.          *)

\* The paths, and those with one link more.
Longer(g, m, use, paths) ==
    paths \cup UNION {{[hops |-> Append(w.hops, g.links[l].to), cost |-> w.cost + Metric(g.links[l], m)] :
                         l \in {k \in use : /\ g.links[k].from = w.hops[Len(w.hops)]
                                           /\ \A i \in DOMAIN w.hops : w.hops[i] # g.links[k].to}} : w \in paths}

\* All paths from src over usable links; none has more links than there are nodes.
SimplePaths(g, src, m, c) ==
    LET upTo[n \in Nat] ==
            IF n = 0 THEN {[hops |-> <<src>>, cost |-> 0]} ELSE Longer(g, m, Usable(g, m, c), upTo[n - 1])
    IN upTo[Cardinality(g.nodes)]

PathsTo(paths, dst) == {w \in paths : w.hops[Len(w.hops)] = dst}

\* -1 if there is no path.
LeastCost(paths, dst) ==
    IF PathsTo(paths, dst) = {} THEN -1 ELSE Smallest({w.cost : w \in PathsTo(paths, dst)})

\* links lead from src to dst over usable links.
IsWalk(g, src, dst, m, c, links) ==
    /\ \A i \in DOMAIN links : links[i] \in Usable(g, m, c)
    /\ \A i \in 1..(Len(links) - 1) : g.links[links[i]].to = g.links[links[i + 1]].from
    /\ IF links = <<>> THEN src = dst
       ELSE g.links[links[1]].from = src /\ g.links[links[Len(links)]].to = dst

\* What the links of a path cost.
PathCost(g, m, links) ==
    LET sum[n \in 0..Len(links)] == IF n = 0 THEN 0 ELSE sum[n - 1] + Metric(g.links[links[n]], m)
    IN sum[Len(links)]

\* The path is one over usable links from the source through the waypoints, in their
\* order, to the destination, and costs what its links cost.
VisitsInOrder(g, src, dst, m, c, path) ==
    LET stops == <<src>> \o c.include \o <<dst>>
        hops == Hops(g, src, path)
    IN /\ IsWalk(g, src, dst, m, c, path.links)
       /\ path.cost = PathCost(g, m, path.links)
       /\ path.links # <<>> => \A i \in DOMAIN hops : hops[i] \notin c.avoidNodes
       /\ \E at \in [DOMAIN stops -> DOMAIN hops] :
            /\ \A i \in DOMAIN stops : hops[at[i]] = stops[i]
            /\ \A i \in 1..(Len(stops) - 1) : at[i] <= at[i + 1]

\* The cost of the cheapest way from stop to stop; -1 if there is none.
CheapestVisit(g, m, c, stops) ==
    LET visited[n \in 0..(Len(stops) - 1)] ==
            IF n = 0 THEN 0
            ELSE LET so == visited[n - 1]
                     next == LeastCost(SimplePaths(g, stops[n], m, c), stops[n + 1])
                 IN IF -1 \in {so, next} THEN -1 ELSE so + next
    IN IF \A i \in DOMAIN stops : stops[i] \in g.nodes THEN visited[Len(stops) - 1] ELSE -1

\* Two nodes are connected when every set with one and not the other has a link that
\* leaves or enters it and is left after the failure.
Connected(g, failedNodes, failedLinks, a, b) ==
    LET alive == g.nodes \ failedNodes
        left == {l \in DOMAIN g.links \ failedLinks : {g.links[l].from, g.links[l].to} \subseteq alive}
    IN \A S \in SUBSET alive : a \in S /\ b \notin S =>
           \E l \in left : (g.links[l].from \in S) # (g.links[l].to \in S)
=============================================================================
