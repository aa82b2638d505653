----------------------------- MODULE Reconciler -----------------------------
(***************************************************************************)
(* From BGP updates to canonical entities: Collector.handlePaths            *)
(* (internal/bgp/collector.go), Reconciler.Apply                            *)
(* (internal/topology/reconcile.go) and the Store.Apply it ends with, one   *)
(* atomic step that succeeds or fails, as Store.tla shows.                  *)
(*                                                                         *)
(* GoBGP is external: it keeps what each peer advertises and reports the    *)
(* changes in order.  A process that restarts gets the tables again, in any *)
(* order, because its sessions start anew.                                  *)
(***************************************************************************)
EXTENDS Decode

CONSTANTS
    Nlris,       \* the NLRIs the peers send
    Offers,      \* Offers[p][n]: what peer p may say of NLRI n
    Absent,      \* no such entity in the store
    QueueCap,    \* bound on the updates under way
    MaxUpdates,  \* bound on the updates the peers send
    MaxRev       \* bound on the revisions

VARIABLES
    rib,       \* GoBGP: what each peer offers for each NLRI
    sent,      \* bound: the updates the peers have sent
    queue,     \* updates GoBGP has still to report
    toSync,    \* GoBGP: the peers and NLRIs not sent again since the restart
    up,        \* the process runs
    work,      \* handlePath: the advertisements of the path not yet applied
    sources,   \* memory: r.sources
    canon,     \* store: the canonical entities
    rev,       \* store: the revision
    rejected,  \* history: the peers and entities whose last update was rejected
    unsaved,   \* history: the entities whose last mutation the store refused
    orphans    \* history: the entities of an earlier run no update has come for

recVars == <<rib, sent, queue, toSync, up, work, sources, canon, rev, rejected, unsaved,
             orphans>>

Path(p, n, offer) == [peer |-> p, nlri |-> n, offer |-> offer]

\* The entities an NLRI of a peer names.
IdsOf(p, n) ==
    LET adverts == Decode(Path(p, n, NoAdvert)).adverts IN {adverts[i].id : i \in DOMAIN adverts}

Ids == UNION {IdsOf(p, n) : p \in Peers, n \in Nlris}

\* No two NLRIs of a peer name one entity; they could with several multi-topology ids.
\* Only a link has a remote end.
ASSUME NlrisAssumption ==
    /\ \A p \in Peers, m, n \in Nlris : m # n => IdsOf(p, m) \cap IdsOf(p, n) = {}
    /\ \A n \in Nlris : /\ n.networks \in Seq({n.networks[i] : i \in DOMAIN n.networks})
                        /\ n.type # "link" => n.remote = NoDescriptor

ASSUME BoundsAssumption == QueueCap \in Nat /\ MaxUpdates \in Nat /\ MaxRev \in Nat

\* The paths the peers can send.
Paths == UNION {{Path(p, n, offer) : offer \in Offers[p][n] \cup {NoAdvert}} : p \in Peers, n \in Nlris}

AdvertsOf(path) == LET adverts == Decode(path).adverts IN {adverts[i] : i \in DOMAIN adverts}

\* What can be advertised of an entity, and the sources it can have.
Adverts == {a.advert : a \in UNION {AdvertsOf(path) : path \in {q \in Paths : q.offer # NoAdvert}}}

SourceMaps == UNION {[D -> Adverts] : D \in SUBSET Peers}

ASSUME MarksAssumption ==
    /\ NoAdvert \notin Adverts
    /\ Malformed \notin Adverts \cup {NoAdvert, NoAttrs}

-----------------------------------------------------------------------------
(* GoBGP.                                                                   *)

\* A peer announces, changes or withdraws an NLRI.  A process that is down does not
\* hear of it.
PeerUpdate(p, n, offer) ==
    /\ rib[p][n] # offer
    /\ sent < MaxUpdates
    /\ sent' = sent + 1
    /\ Len(queue) < QueueCap
    /\ rib' = [rib EXCEPT ![p][n] = offer]
    /\ queue' = IF up THEN Append(queue, Path(p, n, offer)) ELSE queue
    /\ toSync' = toSync \ {<<p, n>>}
    /\ UNCHANGED <<up, work, sources, canon, rev, rejected, unsaved, orphans>>

\* The session of a restarted process brings back what the peer advertises.
Resend(p, n) ==
    /\ up
    /\ <<p, n>> \in toSync
    /\ Len(queue) < QueueCap
    /\ queue' = Append(queue, Path(p, n, rib[p][n]))
    /\ toSync' = toSync \ {<<p, n>>}
    /\ UNCHANGED <<rib, sent, up, work, sources, canon, rev, rejected, unsaved, orphans>>

-----------------------------------------------------------------------------
(* Reconciler.Apply.                                                        *)

\* Mutant: a withdrawal leaves the advertisement of the peer in place.
NewSourcesKept(a) ==
    IF a.advert = NoAdvert THEN sources[a.id] ELSE PutSource(sources[a.id], a.peer, a.advert)

\* The sources of the entity of an advertisement after it.
NewSources(a) ==
    IF a.advert = NoAdvert THEN DropSource(sources[a.id], a.peer)
    ELSE PutSource(sources[a.id], a.peer, a.advert)

WithFirstSeen(value, time) ==
    [val |-> value.val, tlvs |-> value.tlvs, conflicts |-> value.conflicts,
     rest |-> value.rest, sources |-> value.sources, firstSeen |-> time]

\* Mutant: the time is not set.
EnsureMetaUnset(value, now) == WithFirstSeen(value, 0)

\* ensureMeta: the value the reconciler hands over never has a first_seen, because no
\* advertisement has one.
EnsureMeta(value, now) == WithFirstSeen(value, now)

ASSUME AbsentAssumption ==
    \A src \in SourceMaps \ {NoSources}, now \in 1..MaxRev : EnsureMeta(Canonical(src), now) # Absent

\* Mutant: the other sources are not merged into the first one.
StoredValueOfFirst(src, now) ==
    IF src = NoSources THEN Absent
    ELSE EnsureMeta(Canonical([p \in {Ordered(src)[1]} |-> src[p]]), now)

\* What Reconciler.Apply stores: nothing, when the last source is gone.
StoredValue(src, now) ==
    IF src = NoSources THEN Absent ELSE EnsureMeta(Canonical(src), now)

\* Reconciler.Apply, when the store accepts the mutation.
Reconcile(a) ==
    /\ sources' = [sources EXCEPT ![a.id] = NewSources(a)]
    /\ canon' = [canon EXCEPT ![a.id] = StoredValue(NewSources(a), rev + 1)]
    /\ rev' = rev + 1
    /\ rejected' = rejected \ {<<a.peer, a.id>>}
    /\ unsaved' = unsaved \ {a.id}
    /\ orphans' = orphans \ {a.id}

\* incrementRejected makes a revision of the peer, if the store has it and accepts it.
IncrementRejected == rev' \in {rev, rev + 1}

\* Reconciler.Apply, when it does not: the sources have changed already, and the
\* entities that follow in the path are not applied.
ReconcileFails(a, others) ==
    /\ sources' = [sources EXCEPT ![a.id] = NewSources(a)]
    /\ IncrementRejected
    /\ rejected' = (rejected \ {<<a.peer, a.id>>}) \cup {<<b.peer, b.id>> : b \in others}
    /\ unsaved' = unsaved \cup {a.id}
    /\ UNCHANGED <<canon, orphans>>

-----------------------------------------------------------------------------
(* handlePaths.                                                             *)

\* The reconciler does not hear of a path that cannot be decoded; the rejected updates
\* of the peer are counted, unless the NLRI is of an unsupported type.
PathRejected(path, error) ==
    /\ IF error = "unsupported_nlri" THEN rev' = rev ELSE IncrementRejected
    /\ rejected' = rejected \cup ({path.peer} \X IdsOf(path.peer, path.nlri))

\* Mutant: paths are handled concurrently, in any order.
TakeAnyPath ==
    /\ up
    /\ work = <<>>
    /\ rev < MaxRev
    /\ \E i \in 1..Len(queue) :
          LET decoded == Decode(queue[i]) IN
          /\ work' = decoded.adverts
          /\ IF decoded.error = "none" THEN UNCHANGED <<rev, rejected>>
             ELSE PathRejected(queue[i], decoded.error)
          /\ queue' = SubSeq(queue, 1, i - 1) \o SubSeq(queue, i + 1, Len(queue))
    /\ UNCHANGED <<rib, sent, toSync, up, sources, canon, unsaved, orphans>>

\* handlePaths takes the next path.
TakePath ==
    /\ up
    /\ work = <<>>
    /\ queue # <<>>
    /\ rev < MaxRev
    /\ LET decoded == Decode(Head(queue)) IN
       /\ work' = decoded.adverts
       /\ IF decoded.error = "none" THEN UNCHANGED <<rev, rejected>>
          ELSE PathRejected(Head(queue), decoded.error)
    /\ queue' = Tail(queue)
    /\ UNCHANGED <<rib, sent, toSync, up, sources, canon, unsaved, orphans>>

\* Collector.apply of the next entity of the path; the first error ends the path.
ApplyNext ==
    /\ up
    /\ work # <<>>
    /\ rev < MaxRev
    /\ \/ Reconcile(Head(work)) /\ work' = Tail(work)
       \/ ReconcileFails(Head(work), {work[i] : i \in 2..Len(work)}) /\ work' = <<>>
    /\ UNCHANGED <<rib, sent, queue, toSync, up>>

\* The process ends, perhaps between two entities of a path: the sources are only in
\* memory.
Crash ==
    /\ up
    /\ up' = FALSE
    /\ work' = <<>>
    /\ sources' = [e \in Ids |-> NoSources]
    /\ queue' = <<>>
    /\ toSync' = {}
    /\ rejected' = {}
    /\ unsaved' = {}
    /\ UNCHANGED <<rib, sent, canon, rev, orphans>>

\* The store has the entities of the last run; the sources start empty and the
\* sessions bring the tables of the peers.
Restart ==
    /\ ~up
    /\ up' = TRUE
    /\ toSync' = {s \in Peers \X Nlris : rib[s[1]][s[2]] # NoAdvert}
    /\ orphans' = {e \in Ids : canon[e] # Absent}
    /\ UNCHANGED <<rib, sent, queue, work, sources, canon, rev, rejected, unsaved>>

Init ==
    /\ rib = [p \in Peers |-> [n \in Nlris |-> NoAdvert]]
    /\ sent = 0
    /\ queue = <<>>
    /\ toSync = {}
    /\ up = TRUE
    /\ work = <<>>
    /\ sources = [e \in Ids |-> NoSources]
    /\ canon = [e \in Ids |-> Absent]
    /\ rev = 0
    /\ rejected = {}
    /\ unsaved = {}
    /\ orphans = {}

Next ==
    \/ \E p \in Peers : \E n \in Nlris :
         \/ \E offer \in Offers[p][n] \cup {NoAdvert} : PeerUpdate(p, n, offer)
         \/ Resend(p, n)
    \/ TakePath
    \/ ApplyNext
    \/ Crash
    \/ Restart

Spec == Init /\ [][Next]_recVars

-----------------------------------------------------------------------------
(* Properties.                                                              *)

\* Every variable has its type.
RecTypeOK ==
    /\ \A p \in Peers, n \in Nlris : rib[p][n] \in Offers[p][n] \cup {NoAdvert}
    /\ sent \in 0..MaxUpdates /\ Len(queue) <= QueueCap
    /\ toSync \subseteq Peers \X Nlris
    /\ up \in BOOLEAN
    /\ \A i \in DOMAIN work : work[i].id \in Ids
    /\ \A e \in Ids : DOMAIN sources[e] \subseteq Peers
    /\ \A e \in Ids : canon[e] # Absent => canon[e].firstSeen \in 1..rev
    /\ rev \in 0..MaxRev
    /\ rejected \subseteq Peers \X Ids
    /\ unsaved \subseteq Ids /\ orphans \subseteq Ids

\* What a path says of an entity; a path that cannot be decoded says something else
\* than any source.
Says(path, e) ==
    LET adverts == Decode(path).adverts
        own == {i \in DOMAIN adverts : adverts[i].id = e}
    IN  IF own = {} THEN Malformed ELSE adverts[CHOOSE i \in own : TRUE].advert

\* What a peer says of an entity, by the reports that are still to come, then by the
\* path at hand and then by the sources.
Heard(p, n, e) ==
    LET reports == {i \in 1..Len(queue) : queue[i].peer = p /\ queue[i].nlri = n}
        under == {i \in 1..Len(work) : work[i].peer = p /\ work[i].id = e}
    IN  IF reports # {} THEN Says(queue[CHOOSE i \in reports : \A j \in reports : j <= i], e)
        ELSE IF under # {} THEN work[CHOOSE i \in under : TRUE].advert
        ELSE IF p \in DOMAIN sources[e] THEN sources[e][p] ELSE NoAdvert

\* The sources, once the reports under way have been handled, are what the peers
\* advertise: no update is lost or applied to another peer's entry, a withdrawal finds
\* the entity its announcement made, and an NLRI of several entities that fails half
\* way leaves only the rest of them behind; after a restart too.  Excepted are the
\* entities of a path that could not be decoded.
SourcesFollowPeers ==
    up => \A p \in Peers : \A n \in Nlris : \A e \in IdsOf(p, n) :
             <<p, n>> \notin toSync /\ <<p, e>> \notin rejected =>
                 Heard(p, n, e) = Says(Path(p, n, rib[p][n]), e)

\* A stored entity is the merge of the current sources, and there is none without a
\* source: withdrawals reveal the next producer and the last one removes the entity.
\* Excepted are entities whose mutation the store refused and entities of an earlier
\* run that nobody has sent again.
CanonIsMerge ==
    up => \A e \in Ids \ (unsaved \cup orphans) :
             /\ canon[e] = Absent <=> sources[e] = NoSources
             /\ canon[e] # Absent => canon[e] = EnsureMeta(Canonical(sources[e]), canon[e].firstSeen)

Quiet == up /\ queue = <<>> /\ toSync = {} /\ work = <<>>

\* The peers that advertise an entity, with what they say of it.
Advertising(e) ==
    {p \in Peers : \E n \in Nlris : e \in IdsOf(p, n) /\ rib[p][n] # NoAdvert}

Advertised(e) ==
    [p \in Advertising(e) |->
        LET n == CHOOSE m \in Nlris : e \in IdsOf(p, m) IN Says(Path(p, n, rib[p][n]), e)]

Undisturbed(e) == e \notin unsaved /\ \A p \in Peers : <<p, e>> \notin rejected

\* When every report has been handled and none failed, the store holds exactly the
\* merge of what the peers advertise, whatever the order of the reports, also of an
\* entity that was there before a restart and is still advertised.
ConvergesToMerge ==
    Quiet => \A e \in Ids :
        Undisturbed(e) =>
            IF Advertised(e) # NoSources
            THEN /\ \A p \in Advertising(e) : Advertised(e)[p] # Malformed
                 /\ canon[e] # Absent
                 /\ canon[e] = EnsureMeta(Canonical(Advertised(e)), canon[e].firstSeen)
            ELSE canon[e] = Absent \/ e \in orphans

\* The ends of a stored link and the origin of a stored prefix are stored nodes when a
\* source of it advertises those nodes, whoever else does: the ids that handlePath
\* computes from a link, a prefix and a node are the same.
ReferencesResolve ==
    Quiet => \A e \in Ids : canon[e] # Absent /\ Undisturbed(e) /\ e \notin orphans =>
        \A p \in Advertising(e) :
            \A n \in {m \in Nlris : m.type = "node" /\ rib[p][m] # NoAdvert} :
                \A l \in {m \in Nlris : m.type # "node" /\ e \in IdsOf(p, m)} :
                    \A d \in {l.local, l.remote} \ {NoDescriptor} :
                        /\ n.local = d
                        /\ n.protocol = l.protocol /\ n.identifier = l.identifier
                        /\ \A f \in IdsOf(p, n) : Undisturbed(f)
                        => \E i \in DOMAIN canon[e].rest.refs :
                               canon[e].rest.refs[i] \in IdsOf(p, n) /\ canon[canon[e].rest.refs[i]] # Absent
=============================================================================
