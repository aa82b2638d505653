------------------------------- MODULE Listing -------------------------------
(***************************************************************************)
(* What clients read of the topology (internal/api/topology.go, filter.go,  *)
(* ListPeers in internal/api/collector.go): lists in pages, changes in      *)
(* pages, the snapshot as a stream, the summary, neighbours, searches, and  *)
(* the paths and failures of PathGraph, while the topology goes on changing. *)
(*                                                                         *)
(* A page is one atomic look at the store.  A token is the id the next page *)
(* starts after; tokens are encoded and decoded without loss, and an empty  *)
(* one is 0 here.  A list at a revision reads the same snapshot for every   *)
(* page, as StoreHistory.tla shows while the revision is retained.  The     *)
(* journal is cut from below by CompactHistory, between any two looks.      *)
(***************************************************************************)
EXTENDS PathGraph

CONSTANTS
    Init0,        \* the topology at the start: [nodes, links, prefixes, domains, peers]
    Mutations,    \* what can happen to it: [kind, id, value, domain]
    Filters,      \* the filters clients use
    NilFilter,    \* no filter
    Absent,       \* a deletion; no client request
    Within,       \* <<q, w>>: word w contains the query q
    PageSizes,    \* the page sizes clients ask for
    Windows,      \* <<after_revision, before_revision>> of the listings of changes
    DefaultSize,  \* 100 in the code
    MaxSize,      \* 1000 in the code
    ChunkSize,    \* 500 in the code
    ResolveLimit, \* 20 in the code
    MaxRev,       \* bound on the mutations
    Constraints,  \* the constraints of path requests
    Failures      \* <<nodes, links>> whose failure is analysed

VARIABLES
    topo,     \* the current topology
    journal,  \* the domain of the entity each revision changed, deleted events too
    cut,      \* the events up to here are deleted
    client    \* a listing under way

listVars == <<topo, journal, cut, client>>

-----------------------------------------------------------------------------
(* The messages, as far as a read looks at them.                            *)

Freshness == {"unspecified", "active", "stale", "withdrawn"}

PathMetric == {"igp", "te", "delay"}

EntityMeta(e) ==
    e.domain \in Nat /\ e.fresh \in Freshness /\ e.sources \subseteq STRING /\ e.conflict \in BOOLEAN

\* word is the id as text; names are the name and the router ids.
Node(e) ==
    EntityMeta(e) /\ e.protocol \in STRING /\ e.word \in STRING /\ e.names \subseteq STRING

\* names are the addresses.
Link(e) ==
    /\ EntityMeta(e)
    /\ {e.from, e.to, e.igp, e.te, e.delay, e.bandwidth, e.mt} \subseteq Nat
    /\ e.groups \subseteq Nat
    /\ e.word \in STRING /\ e.names \subseteq STRING

\* covers are the addresses within the prefix, bits is its length.
Prefix(e) ==
    /\ EntityMeta(e)
    /\ {e.origin, e.bits, e.mt} \subseteq Nat
    /\ {e.word, e.forward} \subseteq STRING /\ e.names \cup e.covers \subseteq STRING

TopologyFilter(f) ==
    /\ f.domains \cup f.mts \subseteq Nat
    /\ f.freshness \subseteq Freshness
    /\ f.protocols \cup f.sources \subseteq STRING
    /\ f.conflictsOnly \in BOOLEAN /\ f.query \in STRING

PathConstraints(c) ==
    c \in [mt : Nat, bandwidth : Nat, avoidLinks : SUBSET Nat, avoidNodes : SUBSET Nat,
           require : SUBSET Nat, exclude : SUBSET Nat, include : Seq(Nat)]

Kinds == {"nodes", "links", "prefixes", "domains", "peers"}

\* Finite maps from ids, of entities that have their types.
Topology(t) ==
    /\ DOMAIN t = Kinds
    /\ \A kind \in Kinds : IsFiniteSet(DOMAIN t[kind]) /\ DOMAIN t[kind] \subseteq Nat \ {0}
    /\ \A n \in DOMAIN t.nodes : Node(t.nodes[n])
    /\ \A l \in DOMAIN t.links : Link(t.links[l])
    /\ \A p \in DOMAIN t.prefixes : Prefix(t.prefixes[p])

ASSUME InputsAssumption ==
    /\ Topology(Init0)
    /\ \A m \in Mutations :
         /\ m.kind \in Kinds /\ m.id \in Nat \ {0} /\ m.domain \in Nat
         /\ m.value # Absent =>
              /\ m.kind = "nodes" => Node(m.value)
              /\ m.kind = "links" => Link(m.value)
              /\ m.kind = "prefixes" => Prefix(m.value)
    /\ \A f \in Filters \ {NilFilter} : TopologyFilter(f)
    /\ \A c \in Constraints : PathConstraints(c)
    /\ PageSizes \subseteq Int
    /\ \A w \in Windows : w[1] \in Nat /\ w[2] \in Nat

ASSUME SizesAssumption ==
    /\ {DefaultSize, MaxSize, ChunkSize, ResolveLimit} \subseteq Nat \ {0}
    /\ DefaultSize <= MaxSize
    /\ MaxRev \in Nat

-----------------------------------------------------------------------------
(* Filters.                                                                 *)

\* containsString, and the tests for protocols and topologies like it: no value
\* stands for all.
Contains(values, value) == values = {} \/ value \in values

\* No freshness stands for active.
ContainsFreshness(values, value) == IF values = {} THEN value = "active" ELSE value \in values

SourcesMatch(values, sources) == values = {} \/ values \cap sources # {}

\* strings.Contains of a query in one of the words of an entity.
QueryMatch(q, words) == q = "" \/ \E w \in words : q = w \/ <<q, w>> \in Within

MetaMatch(e, f) ==
    /\ Contains(f.domains, e.domain)
    /\ ContainsFreshness(f.freshness, e.fresh)
    /\ SourcesMatch(f.sources, e.sources)
    /\ f.conflictsOnly => e.conflict

NodeMatch(n, f) ==
    IF f = NilFilter THEN n.fresh = "active"
    ELSE MetaMatch(n, f) /\ Contains(f.protocols, n.protocol) /\ QueryMatch(f.query, {n.word} \cup n.names)

LinkMatch(l, f) ==
    IF f = NilFilter THEN l.fresh = "active"
    ELSE MetaMatch(l, f) /\ Contains(f.mts, l.mt) /\ QueryMatch(f.query, {l.word} \cup l.names)

PrefixMatch(p, f) ==
    IF f = NilFilter THEN p.fresh = "active"
    ELSE MetaMatch(p, f) /\ Contains(f.mts, p.mt) /\ QueryMatch(f.query, {p.word, p.forward} \cup p.names)

-----------------------------------------------------------------------------
(* Pages.                                                                   *)

\* Mutant: a page may be as long as the client wants.
PageBoundsUnclipped(size) == IF size <= 0 THEN DefaultSize ELSE size

PageBounds(size) ==
    IF size <= 0 THEN DefaultSize ELSE IF size > MaxSize THEN MaxSize ELSE size

\* The first n numbers of a set, in order: the i-th is the one with i - 1 below it.
FirstOf(S, n) ==
    [i \in 1..(IF n < Cardinality(S) THEN n ELSE Cardinality(S)) |->
        CHOOSE x \in S : Cardinality({y \in S : y < x}) = i - 1]

Elements(s) == {s[i] : i \in DOMAIN s}

\* Mutant: there is more only when the next page would be full.
PageShort(ids, size, after) ==
    LET all == FirstOf({i \in ids : i > after}, 2 * size)
        out == SubSeq(all, 1, IF Len(all) > size THEN size ELSE Len(all))
    IN [items |-> out, token |-> IF Len(all) = 2 * size THEN out[size] ELSE 0]

\* The loop of every list: one more than the page is fetched, and the token is the
\* last id of the page if there is one more.
Page(ids, size, after) ==
    LET all == FirstOf({i \in ids : i > after}, size + 1)
        out == SubSeq(all, 1, IF Len(all) > size THEN size ELSE Len(all))
    IN [items |-> out, token |-> IF Len(all) > size THEN out[size] ELSE 0]

NodeIds(t, f) == {n \in DOMAIN t.nodes : NodeMatch(t.nodes[n], f)}

LinkIds(t, f) == {l \in DOMAIN t.links : LinkMatch(t.links[l], f)}

PrefixIds(t, f) == {p \in DOMAIN t.prefixes : PrefixMatch(t.prefixes[p], f)}

ListNodes(t, f, size, after) == Page(NodeIds(t, f), PageBounds(size), after)

ListLinks(t, f, size, after) == Page(LinkIds(t, f), PageBounds(size), after)

ListPrefixes(t, f, size, after) == Page(PrefixIds(t, f), PageBounds(size), after)

ListDomains(t, size, after) == Page(DOMAIN t.domains, PageBounds(size), after)

\* Peers are filtered by one domain or not at all.
PeerIds(t, f) == {p \in DOMAIN t.peers : f = NilFilter \/ Contains(f.domains, t.peers[p])}

ListPeers(t, f, size, after) == Page(PeerIds(t, f), PageBounds(size), after)

\* What a complete listing of a kind is about.
Matching(kind, t, f) ==
    CASE kind = "nodes" -> NodeIds(t, f)
      [] kind = "links" -> LinkIds(t, f)
      [] kind = "prefixes" -> PrefixIds(t, f)
      [] kind = "domains" -> DOMAIN t.domains
      [] kind = "peers" -> PeerIds(t, f)

List(kind, t, f, size, after) ==
    CASE kind = "nodes" -> ListNodes(t, f, size, after)
      [] kind = "links" -> ListLinks(t, f, size, after)
      [] kind = "prefixes" -> ListPrefixes(t, f, size, after)
      [] kind = "domains" -> ListDomains(t, size, after)
      [] kind = "peers" -> ListPeers(t, f, size, after)

-----------------------------------------------------------------------------
(* The other reads.                                                         *)

ChangeMatch(r, f) == f = NilFilter \/ Contains(f.domains, journal[r])

\* What OldestRevision finds when the events up to c are deleted: 0 in an empty journal.
OldestRevision(c) == IF c < Len(journal) THEN c + 1 ELSE 0

\* The first events that are still there between two revisions; before = 0 is no bound.
Events(after, before, limit) ==
    Elements(FirstOf({r \in DOMAIN journal : r > cut /\ r > after /\ (before = 0 \/ r <= before)}, limit))

\* The token counts only when it is after after_revision.
Cursor(from, token) == IF token > from THEN token ELSE from

\* Mutant: no event more than the page is fetched.
ListChangesExact(f, size, from, before, token) ==
    LET n == PageBounds(size)
        after == Cursor(from, token)
    IN Page({r \in Events(after, before, n) : ChangeMatch(r, f)}, n, after)

\* ListChanges fetches one event more than a page, and filters after that.  It has no
\* test for events that are no longer there: the client is told the oldest revision.
ListChanges(f, size, from, before, token) ==
    LET n == PageBounds(size)
        after == Cursor(from, token)
    IN Page({r \in Events(after, before, n + 1) : ChangeMatch(r, f)}, n, after)

Get(map, id, includeStale) ==
    IF id \in DOMAIN map /\ (includeStale \/ map[id].fresh = "active") THEN {id} ELSE {}

Stale(map, ids) == Cardinality({i \in ids : map[i].fresh # "active"})

Conflicts(map, ids) == Cardinality({i \in ids : map[i].conflict})

GetSummary(t, f) ==
    LET n == NodeIds(t, f)
        l == LinkIds(t, f)
        p == PrefixIds(t, f)
    IN [nodes |-> Cardinality(n), links |-> Cardinality(l), prefixes |-> Cardinality(p),
        peers |-> Cardinality(DOMAIN t.peers),
        domains |-> Cardinality({t.nodes[i].domain : i \in n} \cup {t.links[i].domain : i \in l}
                                   \cup {t.prefixes[i].domain : i \in p}),
        conflicts |-> Conflicts(t.nodes, n) + Conflicts(t.links, l) + Conflicts(t.prefixes, p),
        stale |-> Stale(t.nodes, n) + Stale(t.links, l) + Stale(t.prefixes, p)]

\* The links of a node in both directions, and the nodes at their other ends.
GetNeighbors(t, node, f) ==
    LET links == {l \in LinkIds(t, f) : node \in {t.links[l].from, t.links[l].to}}
        other(l) == IF t.links[l].from = node THEN t.links[l].to ELSE t.links[l].from
    IN [links |-> links, nodes |-> {other(l) : l \in links} \cap DOMAIN t.nodes]

\* Resolve: the first entities of each kind with the query in one of their words, of
\* one domain or of all, stale ones too.  The address of a link is matched whole.
Resolve(t, ds, q, limit) ==
    LET n == IF limit <= 0 \/ limit > 100 THEN ResolveLimit ELSE limit
        Found(map, Match(_)) ==
            FirstOf({i \in DOMAIN map : Contains(ds, map[i].domain) /\ Match(map[i])}, n)
    IN [nodes |-> Found(t.nodes, LAMBDA e : QueryMatch(q, {e.word} \cup e.names)),
        links |-> Found(t.links, LAMBDA e : QueryMatch(q, {e.word}) \/ q \in e.names),
        prefixes |-> Found(t.prefixes, LAMBDA e : QueryMatch(q, {e.word} \cup e.names))]

\* Mutant: the last message is the one that is not full.
IsLastShort(left, room) == room > 0

\* msg.Last: every cursor is at its end.
IsLast(left, room) == left = 0

\* One message of StreamSnapshot: it goes on through the entities after the k-th, of all
\* three kinds in turn, until it has ChunkSize that match.
FillChunk(all, match, k) ==
    LET Hits(e) == {i \in (k + 1)..e : all[i] \in match}
        end == Smallest({e \in k..Len(all) : Cardinality(Hits(e)) = ChunkSize} \cup {Len(all)})
    IN [items |-> {all[i] : i \in Hits(end)}, end |-> end]

\* One round of the loop: at is where the cursors are.
SendChunk(all, match, s) ==
    IF s.at = Len(all) /\ s.msgs # <<>> THEN s
    ELSE LET c == FillChunk(all, match, s.at)
             msg == [items |-> c.items, last |-> IsLast(Len(all) - c.end, ChunkSize - Cardinality(c.items))]
         IN [at |-> c.end, msgs |-> Append(s.msgs, msg)]

\* Each message but an only one moves a cursor.
Chunks(all, match) ==
    LET sent[n \in Nat] ==
            IF n = 0 THEN [at |-> 0, msgs |-> <<>>] ELSE SendChunk(all, match, sent[n - 1])
    IN sent[Len(all) + 1].msgs

InOrder(kind, ids) == [i \in 1..Cardinality(ids) |-> <<kind, FirstOf(ids, Cardinality(ids))[i]>>]

\* The messages of a stream; there is always at least one.
StreamSnapshot(t, f) ==
    Chunks(InOrder("nodes", DOMAIN t.nodes) \o InOrder("links", DOMAIN t.links)
               \o InOrder("prefixes", DOMAIN t.prefixes),
           ({"nodes"} \X NodeIds(t, f)) \cup ({"links"} \X LinkIds(t, f))
               \cup ({"prefixes"} \X PrefixIds(t, f)))

-----------------------------------------------------------------------------
(* The topology changes, and a client lists it page by page.                *)

Update(map, id, value) ==
    IF value = Absent THEN [i \in DOMAIN map \ {id} |-> map[i]]
    ELSE [i \in DOMAIN map \cup {id} |-> IF i = id THEN value ELSE map[i]]

\* A mutation of the store; it makes one revision.
Mutate(m) ==
    /\ Len(journal) < MaxRev
    /\ topo' = [topo EXCEPT ![m.kind] = Update(@, m.id, m.value)]
    /\ journal' = Append(journal, m.domain)
    /\ client' =
         IF client = Absent \/ client.kind = "changes" \/ client.done THEN client
         ELSE LET now == Matching(client.kind, topo', client.filter)
              IN [client EXCEPT !.always = @ \cap now, !.ever = @ \cup now]
    /\ UNCHANGED cut

\* CompactHistory deletes the oldest events, without the lock and beside every reader.
CompactHistory ==
    /\ cut' \in (cut + 1)..Len(journal)
    /\ UNCHANGED <<topo, journal, client>>

\* A client starts to list; pinned is the snapshot of a revision, or Absent, and w the
\* window of a listing of changes.  warned is what it is told of deleted events.
StartListing(kind, f, size, pinned, w) ==
    /\ client = Absent
    /\ client' = [kind |-> kind, filter |-> f, size |-> size, from |-> w[1], before |-> w[2],
                  after |-> 0, got |-> <<>>, done |-> FALSE, until |-> 0, cut |-> 0, warned |-> FALSE,
                  pinned |-> IF pinned THEN topo ELSE Absent,
                  always |-> IF kind = "changes" THEN {} ELSE Matching(kind, topo, f),
                  ever |-> IF kind = "changes" THEN {} ELSE Matching(kind, topo, f)]
    /\ UNCHANGED <<topo, journal, cut>>

\* c with one page more.
WithPage(c, page) ==
    [c EXCEPT !.got = @ \o page.items, !.after = page.token, !.done = page.token = 0]

\* It asks for the next page until there is no token.
FetchPage ==
    /\ client # Absent
    /\ client.kind # "changes" /\ ~client.done
    /\ LET t == IF client.pinned = Absent THEN topo ELSE client.pinned
       IN client' = WithPage(client, List(client.kind, t, client.filter, client.size, client.after))
    /\ UNCHANGED <<topo, journal, cut>>

\* The oldest revision that comes with a page leaves out an event after the cursor.
Warns(c, oldest) == oldest = 0 \/ oldest > Cursor(c.from, c.after) + 1

\* A page of changes comes with the oldest revision, read after the events were: the
\* journal may be cut in between.
FetchChanges ==
    /\ client # Absent
    /\ client.kind = "changes" /\ ~client.done
    /\ cut' \in cut..Len(journal)
    /\ LET page == ListChanges(client.filter, client.size, client.from, client.before, client.after)
       IN client' = [WithPage(client, page) EXCEPT
                        !.until = Len(journal), !.cut = cut,
                        !.warned = @ \/ Warns(client, OldestRevision(cut'))]
    /\ UNCHANGED <<topo, journal>>

EndListing ==
    /\ client # Absent
    /\ client.done
    /\ client' = Absent
    /\ UNCHANGED <<topo, journal, cut>>

ListInit == topo = Init0 /\ journal = <<>> /\ cut = 0 /\ client = Absent

Unbounded == <<0, 0>>

ListNext ==
    \/ \E m \in Mutations : Mutate(m)
    \/ CompactHistory
    \/ \E kind \in {"nodes", "links", "prefixes"}, f \in Filters, size \in PageSizes, pinned \in BOOLEAN :
         StartListing(kind, f, size, pinned, Unbounded)
    \/ \E f \in Filters, size \in PageSizes : StartListing("peers", f, size, FALSE, Unbounded)
    \/ \E f \in Filters, size \in PageSizes, w \in Windows : StartListing("changes", f, size, FALSE, w)
    \/ \E size \in PageSizes : StartListing("domains", NilFilter, size, FALSE, Unbounded)
    \/ FetchPage
    \/ FetchChanges
    \/ EndListing

ListSpec == ListInit /\ [][ListNext]_listVars

-----------------------------------------------------------------------------
(* Properties.                                                              *)

Ascending(s) == \A i \in 1..(Len(s) - 1) : s[i] < s[i + 1]

\* Every message and variable has its type; a page of a listing is not longer than
\* MaxSize and no message of a stream is longer than ChunkSize, whatever is asked for.
ListTypeOK ==
    /\ Len(journal) <= MaxRev /\ cut \in 0..Len(journal)
    /\ client # Absent =>
         /\ client.filter # NilFilter => TopologyFilter(client.filter)
         /\ client.done \in BOOLEAN /\ client.after \in Nat
    /\ client = Absent =>
         /\ Topology(topo)
         /\ \A f \in Filters :
              /\ LET msgs == StreamSnapshot(topo, f)
                 IN \A i \in DOMAIN msgs : Cardinality(msgs[i].items) <= ChunkSize
              /\ \A size \in PageSizes :
                   /\ \A kind \in Kinds : Len(List(kind, topo, f, size, 0).items) <= MaxSize
                   /\ Len(ListChanges(f, size, 0, 0, 0).items) <= MaxSize

\* A listing in pages shows nothing twice and nothing that never matched, and, when it
\* has ended, everything that matched from its first page to its last, whatever was
\* added and deleted meanwhile, the entity of the token included.  A listing at a
\* revision is, when it has ended, exactly what matched at that revision.
ListingsAreComplete ==
    client # Absent /\ client.kind # "changes" =>
        /\ Ascending(client.got)
        /\ Elements(client.got) \subseteq client.ever
        /\ client.done => client.always \subseteq Elements(client.got)
        /\ client.done /\ client.pinned # Absent =>
             Elements(client.got) = Matching(client.kind, client.pinned, client.filter)

\* The matching events of a client's window, deleted or not.
Wanted(c) ==
    {r \in DOMAIN journal : r > c.from /\ (c.before = 0 \/ r <= c.before) /\ ChangeMatch(r, c.filter)}

\* A listing of changes shows no event twice and none from outside of its window.  It has
\* no hole that the client is not told of: while no page came with an oldest revision
\* after its cursor, it is every matching event up to its last one, however the journal
\* is cut between the pages and within one, and in any case every one that was there when
\* the last page was read.  Without a filter it goes on to the revision of its last page.
\* (With one it may end early: whether there is more is told from what is left after
\* filtering.)
ChangesHaveNoHole ==
    client # Absent /\ client.kind = "changes" =>
        LET got == Elements(client.got)
            due == {r \in Wanted(client) : client.warned => r > client.cut}
        IN /\ Ascending(client.got)
           /\ got \subseteq Wanted(client)
           /\ \A r \in due : (\E last \in got : r <= last) => r \in got
           /\ client.done /\ client.filter = NilFilter => \A r \in due : r <= client.until => r \in got

\* A read of one look depends on the topology alone.  Such reads are compared while nobody
\* lists and nothing is compacted yet, which is so in some state with each topology.
Reading == client = Absent /\ cut = 0

\* The same filter selects the same entities whichever call applies it: the stream has
\* each matching entity once, says last once and at its end, the summary counts it, Get
\* finds it, and Resolve shows every node that can be named as the end of a path.
ReadsAgree ==
    Reading => \A f \in Filters :
        LET msgs == StreamSnapshot(topo, f)
            sent == UNION {msgs[i].items : i \in DOMAIN msgs}
            Sent(kind) == {e[2] : e \in {x \in sent : x[1] = kind}}
            sum == GetSummary(topo, f)
        IN /\ \A i \in DOMAIN msgs : msgs[i].last <=> i = Len(msgs)
           /\ \A i, j \in DOMAIN msgs : i # j => msgs[i].items \cap msgs[j].items = {}
           /\ \A kind \in {"nodes", "links", "prefixes"} : Sent(kind) = Matching(kind, topo, f)
           /\ sum.nodes + sum.links + sum.prefixes = Cardinality(sent)
           /\ \A n \in DOMAIN topo.nodes : GetNeighbors(topo, n, f).links \subseteq Sent("links")
           /\ \A n \in Sent("nodes") : Get(topo.nodes, n, topo.nodes[n].fresh # "active") = {n}
           /\ \A n \in DOMAIN topo.nodes : \A q \in {topo.nodes[n].word} \cup topo.nodes[n].names :
                LET end == ResolveNodeID(topo, topo.nodes[n].domain, q)
                    shown == Resolve(topo, {topo.nodes[n].domain}, q, ResolveLimit).nodes
                IN Len(shown) < ResolveLimit => {n, end} \subseteq Elements(shown)

-----------------------------------------------------------------------------
(* Paths and failures, for every topology the mutations lead to.            *)

\* ComputePaths answers iff the words resolve to nodes and active links that satisfy the
\* constraints lead from stop to stop between them; the cost of its first answer is the
\* least there is, over a path that stays within the constraints, as does its bottleneck.
PathsAreShortest ==
    Reading => \A d \in DOMAIN topo.domains, m \in PathMetric, c \in Constraints :
        LET g == DomainGraph(topo, d)
            words == UNION {{topo.nodes[n].word} \cup topo.nodes[n].names : n \in DOMAIN topo.nodes}
                     \cup UNION {topo.prefixes[p].covers : p \in DOMAIN topo.prefixes}
        IN \A from, to \in words :
             LET src == ResolveNodeID(topo, d, from)
                 dst == ResolveNodeID(topo, d, to)
                 paths == ComputePaths(topo, d, from, to, m, c, 1)
                 least == CheapestVisit(g, m, c, <<src>> \o c.include \o <<dst>>)
             IN /\ paths = <<>> <=> least = -1
                /\ paths # <<>> =>
                     /\ paths[1].cost = least
                     /\ VisitsInOrder(g, src, dst, m, c, paths[1])
                     /\ paths[1].links # <<>> => Bottleneck(g, paths[1]) >= c.bandwidth

\* Alternatives cost what the first path costs, satisfy the constraints, and no two have
\* the same nodes.  Where there is an alternative and no two links are parallel, at
\* least one is found, in spite of the search by excluding one link at a time.
AlternativesAreEqual ==
    Reading => \A d \in DOMAIN topo.domains, m \in PathMetric, c \in Constraints :
        LET g == DomainGraph(topo, d)
            simple == \A k, l \in Usable(g, m, c) :
                        g.links[k].from = g.links[l].from /\ g.links[k].to = g.links[l].to => k = l
        IN \A src, dst \in g.nodes :
             LET paths == ComputeMany(g, src, dst, m, c, MaxPaths)
                 all == SimplePaths(g, src, m, c)
                 routes == {w \in PathsTo(all, dst) : w.cost = LeastCost(all, dst)}
             IN /\ \A i \in DOMAIN paths : /\ VisitsInOrder(g, src, dst, m, c, paths[i])
                                          /\ paths[i].cost = paths[1].cost
                /\ \A i, j \in DOMAIN paths : i < j => Hops(g, src, paths[i]) # Hops(g, src, paths[j])
                /\ Len(paths) <= MaxPaths
                /\ simple /\ c.include = <<>> /\ Cardinality(routes) > 1 => Len(paths) > 1

\* AnalyzeImpact separates exactly the nodes that the failure separates; what it calls
\* unreachable is no larger a component than what it does not; and ComputePaths, told
\* to avoid what failed, finds no path between components.
ImpactIsTheCut ==
    Reading => \A d \in DOMAIN topo.domains, f \in Failures :
        LET g == DomainGraph(topo, d)
            alive == g.nodes \ f[1]
            r == AnalyzeImpact(topo, d, f[1], f[2])
            c == [NoConstraints EXCEPT !.avoidNodes = f[1], !.avoidLinks = f[2]]
            Together(a, b) == r.components = {} \/ \E k \in r.components : {a, b} \subseteq k
            Part(a) == {b \in alive : Together(a, b)}
        IN /\ r.nodes \subseteq alive
           /\ \A a, b \in alive :
                /\ Together(a, b) <=> Connected(g, f[1], f[2], a, b)
                /\ a \in r.nodes /\ b \notin r.nodes =>
                     /\ ~Connected(g, f[1], f[2], a, b)
                     /\ Cardinality(Part(a)) <= Cardinality(Part(b))
                     /\ ComputeMany(g, a, b, "igp", c, 1) = <<>>
           /\ \A p \in DOMAIN topo.prefixes :
                topo.prefixes[p].domain = d /\ topo.prefixes[p].origin \in g.nodes =>
                    (p \in r.prefixes <=> topo.prefixes[p].origin \notin alive \ r.nodes)
=============================================================================
