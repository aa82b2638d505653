------------------------------ MODULE PeerAdmin ------------------------------
(***************************************************************************)
(* Peer administration: the handlers of internal/api/collector.go, the      *)
(* collector's maps and callbacks (internal/bgp/collector.go), and how the  *)
(* process bootstraps and starts them (cmd/bgpls/main.go).                  *)
(*                                                                         *)
(* A request reads the store, writes it and then changes the collector, or  *)
(* the other way round for a delete, each in a step of its own; other       *)
(* requests and the callbacks of GoBGP come between.  Store.Apply is one    *)
(* step, as Store.tla justifies, or it fails and stores nothing: the        *)
(* context of the request is done, or Pebble refuses.  What runs under the  *)
(* collector's mutex is one step too.                                       *)
(*                                                                         *)
(* An address is a text, and several texts are one address.  c.byAddress is *)
(* keyed by the text of the configuration; GoBGP, which is external, parses *)
(* it, has its neighbours by address, and names them in its events by the   *)
(* canonical text.  It refuses to add a neighbour twice or to delete one it *)
(* does not have, and reports events late, in a goroutine of its own.       *)
(*                                                                         *)
(* A peer is its address, its domain and its secret: administrative and     *)
(* session state, counters and times travel with them and decide nothing    *)
(* here.                                                                    *)
(***************************************************************************)
EXTENDS Integers, Sequences, FiniteSets

CONSTANTS
    Ids,          \* peer ids
    Addrs,        \* remote addresses that parse, as texts
    Canon,        \* netip.Addr.String of what a text parses to
    NoSecret,     \* the empty tcp_md5_secret
    Configs,      \* what a request may ask for, a subset of Config
    Yaml,         \* the domains and then the peers of the configuration file, a
                  \* sequence of [kind, id] and [kind, id, config]
    Imports,      \* the imports: a sequence of [id, config], and whether to replace
    EventCap,     \* bound on the events GoBGP has still to report
    Requests,     \* API requests that can be under way at once
    Absent,       \* no such peer
    Idle,         \* no request; no callback
    MaxRev        \* bound on the revisions

VARIABLES
    main,       \* serve: "down", "boot", "serving"
    booting,    \* what the bootstrap has still to store, a sequence
    rev,        \* store: the revision
    domains,    \* store: the domains
    peers,      \* store: id -> peer
    cpeers,     \* collector: c.peers
    byAddress,  \* collector: c.byAddress
    neighbors,  \* GoBGP: canonical address -> id of the peer it was added for
    pending,    \* GoBGP: the canonical addresses with events not yet reported
    callback,   \* the event being handled
    reqs,       \* the requests under way
    booted,     \* history: a bootstrap has been completed
    disturbed,  \* history: the peers that two actors worked on at once, or that
                \* GoBGP refused or lost, since the start
    undeleted   \* history: the peers the collector has dropped and the store not,
                \* because the second half of a deletion failed

store == <<rev, domains, peers>>

collector == <<cpeers, byAddress, neighbors>>

process == <<main, booting, booted>>

marks == <<disturbed, undeleted>>

peerVars == <<main, booting, rev, domains, peers, cpeers, byAddress, neighbors,
              pending, callback, reqs, booted, disturbed, undeleted>>

-----------------------------------------------------------------------------
(* Peers and requests.                                                      *)

Config == [addr : Addrs, domain : STRING, secret : STRING]

Entry == [id : Ids, config : Config]

\* An entity of the configuration file.
Item == [kind : {"domain"}, id : STRING] \cup [kind : {"peer"}, id : Ids, config : Config]

\* config.Validate: no two peers have the same id.
DistinctPeers(s) ==
    \A m, n \in DOMAIN s :
        s[m].kind = "peer" /\ s[n].kind = "peer" /\ s[m].id = s[n].id => m = n

ASSUME InputsAssumption ==
    /\ Configs \subseteq Config
    /\ Imports \subseteq [peers : Seq(Entry), replace : BOOLEAN]
    /\ Yaml \in Seq(Item) /\ DistinctPeers(Yaml)
    /\ MaxRev \in Nat

ASSUME CanonAssumption == Canon \in [Addrs -> Addrs] /\ \A t \in Addrs : Canon[Canon[t]] = Canon[t]

ASSUME AbsentAssumption == Absent \notin Config \cup [config : Config, version : Nat]

\* A request: the peer it is at, the ones that follow and the ones it drops then.
Req == [id : Ids, config : Config \cup {Absent}, todo : Seq(Entry), drop : SUBSET Ids,
        expected : Nat, pc : {"get", "apply", "upsert", "delete", "forget"}]

\* A callback: the peer it is about, and the copy of it that it will store.
Call == [id : Ids, config : Config \cup {Absent}, pc : {"get", "apply"}]

ASSUME IdleAssumption == Idle \notin Req \cup Call

\* Mutant: the stamp is one too high.
StampAhead(c, r) == [config |-> c, version |-> r + 1]

\* setRevision: the resource version of a peer is the revision that wrote it.
Stamp(c, r) == [config |-> c, version |-> r]

NoMap == [x \in {} |-> Absent]

Put(map, x, y) == [z \in DOMAIN map \cup {x} |-> IF z = x THEN y ELSE map[z]]

Drop(map, x) == [z \in DOMAIN map \ {x} |-> map[z]]

\* validatePeer: its domain is stored and its address parses.
ValidatePeer(c) == c.domain \in domains /\ c.addr \in Addrs

\* Mutant: an empty secret is stored as it is.
KeepSecretNot(c, old) == c

\* An empty secret stands for the stored one.
KeepSecret(c, old) ==
    IF c.secret = NoSecret /\ old # Absent THEN [c EXCEPT !.secret = old.config.secret] ELSE c

\* The peers a request has still to change.
Touches(q) == IF q = Idle THEN {} ELSE {q.id} \cup {q.todo[n].id : n \in DOMAIN q.todo} \cup q.drop

Busy(i, others) ==
    \/ \E r \in others : i \in Touches(reqs[r])
    \/ callback # Idle /\ callback.id = i

Begin(r, q) ==
    /\ main = "serving"
    /\ reqs[r] = Idle
    /\ rev < MaxRev
    /\ reqs' = [reqs EXCEPT ![r] = q]
    /\ disturbed' = disturbed \cup {i \in Touches(q) : Busy(i, Requests \ {r})}
    /\ UNCHANGED <<store, collector, process, pending, callback, undeleted>>

Request(i, c, pc) ==
    [id |-> i, config |-> c, todo |-> <<>>, drop |-> {}, expected |-> 0, pc |-> pc]

\* Store.Apply of a peer.
StorePeer(i, c) ==
    /\ rev < MaxRev
    /\ rev' = rev + 1
    /\ peers' = [peers EXCEPT ![i] = IF c = Absent THEN Absent ELSE Stamp(c, rev + 1)]
    /\ UNCHANGED domains

-----------------------------------------------------------------------------
(* The collector.                                                           *)

\* Mutant: the neighbour with the new address is deleted, not the old one.
OldAddressNew(i, c) == IF i \in DOMAIN cpeers THEN {Canon[c.addr]} ELSE {}

\* The neighbour upsertLocked deletes first; that there is none is only logged.
OldAddress(i, c) == IF i \in DOMAIN cpeers THEN {Canon[cpeers[i].addr]} ELSE {}

\* GoBGP without the neighbours of some addresses.
Without(addrs) == [a \in DOMAIN neighbors \ addrs |-> neighbors[a]]

\* The other peers that lose the neighbour of an address.
Losers(i, addrs) == {neighbors[a] : a \in addrs \cap DOMAIN neighbors} \ {i}

\* upsertLocked, when AddPeer succeeds.  byAddress gets the text as it was configured,
\* and keeps the one of before.
Upserted(i, c) ==
    /\ Canon[c.addr] \notin DOMAIN neighbors \ OldAddress(i, c)
    /\ neighbors' = Put(Without(OldAddress(i, c)), Canon[c.addr], i)
    /\ cpeers' = Put(cpeers, i, c)
    /\ byAddress' = Put(byAddress, c.addr, i)
    /\ disturbed' = disturbed \cup Losers(i, OldAddress(i, c))
    /\ undeleted' = undeleted \ {i}

\* upsertLocked, when AddPeer refuses: the old neighbour is gone already.
Refused(i, c) ==
    /\ Canon[c.addr] \in DOMAIN neighbors \ OldAddress(i, c)
    /\ neighbors' = Without(OldAddress(i, c))
    /\ disturbed' = disturbed \cup Losers(i, OldAddress(i, c)) \cup {i}
    /\ UNCHANGED <<cpeers, byAddress, undeleted>>

CanDelete(i) == i \in DOMAIN cpeers /\ Canon[cpeers[i].addr] \in DOMAIN neighbors

\* Mutant: the peer stays in c.peers.
DeletedKept(i) ==
    /\ CanDelete(i)
    /\ neighbors' = Without({Canon[cpeers[i].addr]})
    /\ byAddress' = Drop(byAddress, cpeers[i].addr)
    /\ disturbed' = disturbed \cup Losers(i, {Canon[cpeers[i].addr]})
    /\ UNCHANGED <<cpeers, undeleted>>

\* Collector.Delete, when it knows the peer and GoBGP has the neighbour.
Deleted(i) ==
    /\ CanDelete(i)
    /\ neighbors' = Without({Canon[cpeers[i].addr]})
    /\ byAddress' = Drop(byAddress, cpeers[i].addr)
    /\ cpeers' = Drop(cpeers, i)
    /\ disturbed' = disturbed \cup Losers(i, {Canon[cpeers[i].addr]})
    /\ UNCHANGED undeleted

-----------------------------------------------------------------------------
(* The handlers of the API.  A request that fails before it changes         *)
(* anything is a stuttering step.                                           *)

CreatePeer(r, i, c) ==
    /\ ValidatePeer(c)
    /\ peers[i] = Absent
    /\ Begin(r, Request(i, c, "apply"))

\* expected is the version the client has seen; the handler compares it with the
\* version it reads now, and not again when it writes.
UpdatePeer(r, i, c) ==
    /\ ValidatePeer(c)
    /\ peers[i] # Absent
    /\ Begin(r, [Request(i, KeepSecret(c, peers[i]), "apply")
                    EXCEPT !.expected = peers[i].version])

\* The rest of the peer is stored as it was read.
SetPeerAdminState(r, i) ==
    /\ peers[i] # Absent
    /\ Begin(r, [Request(i, peers[i].config, "apply") EXCEPT !.expected = peers[i].version])

DeletePeer(r, i) ==
    /\ peers[i] # Absent
    /\ Begin(r, [Request(i, Absent, "delete") EXCEPT !.expected = peers[i].version])

\* Reset asks GoBGP to start a session anew: an event of its address will follow.
ResetPeer(i) ==
    /\ main = "serving"
    /\ peers[i] # Absent
    /\ CanDelete(i)
    /\ Cardinality(pending) < EventCap
    /\ pending' = pending \cup {Canon[cpeers[i].addr]}
    /\ UNCHANGED <<store, collector, process, callback, reqs, marks>>

\* What a request does after it has dealt with a peer: the next one of an import,
\* then the peers to drop, or return.
Following(q) ==
    IF q.todo # <<>>
    THEN {[q EXCEPT !.id = Head(q.todo).id, !.config = Head(q.todo).config, !.todo = Tail(@), !.pc = "get"]}
    ELSE IF q.drop # {} THEN {[q EXCEPT !.id = i, !.config = Absent, !.drop = @ \ {i}, !.pc = "delete"] : i \in q.drop}
    ELSE {Idle}

\* The snapshot at the start of an import decides which peers a replacement drops.
ImportPeerConfig(r, m) ==
    LET incoming == {m.peers[n].id : n \in DOMAIN m.peers}
        drop == IF m.replace THEN {i \in Ids : peers[i] # Absent} \ incoming ELSE {}
    IN /\ \A n \in DOMAIN m.peers : ValidatePeer(m.peers[n].config)
       /\ \E q \in Following([Request("", Absent, "get") EXCEPT !.todo = m.peers, !.drop = drop]) :
            q # Idle /\ Begin(r, q)

\* Each peer of the file is looked up for its secret.
ImportGet(r) ==
    /\ reqs[r] # Idle
    /\ reqs[r].pc = "get"
    /\ reqs' = [reqs EXCEPT ![r].config = KeepSecret(@, peers[reqs[r].id]), ![r].pc = "apply"]
    /\ UNCHANGED <<store, collector, process, pending, callback, marks>>

\* Store.Apply of a create, an update or a peer of an import; when it fails the request
\* returns, and an import has done only a part.
ApplyPeer(r) ==
    /\ reqs[r] # Idle
    /\ reqs[r].pc = "apply"
    /\ \/ /\ StorePeer(reqs[r].id, reqs[r].config)
          /\ reqs' = [reqs EXCEPT ![r].pc = "upsert", ![r].expected = 0]
       \/ UNCHANGED store /\ reqs' = [reqs EXCEPT ![r] = Idle]
    /\ UNCHANGED <<collector, process, pending, callback, marks>>

\* Collector.Upsert; when GoBGP refuses the request fails and the peer stays stored.
UpsertPeer(r) ==
    /\ reqs[r] # Idle
    /\ reqs[r].pc = "upsert"
    /\ \/ Upserted(reqs[r].id, reqs[r].config) /\ \E q \in Following(reqs[r]) : reqs' = [reqs EXCEPT ![r] = q]
       \/ Refused(reqs[r].id, reqs[r].config) /\ reqs' = [reqs EXCEPT ![r] = Idle]
    /\ UNCHANGED <<store, process, pending, callback>>

\* Collector.Delete of a delete or a replacement.
RemovePeer(r) ==
    /\ reqs[r] # Idle
    /\ reqs[r].pc = "delete"
    /\ \/ Deleted(reqs[r].id) /\ reqs' = [reqs EXCEPT ![r].pc = "forget"]
       \/ ~CanDelete(reqs[r].id) /\ reqs' = [reqs EXCEPT ![r] = Idle] /\ UNCHANGED <<collector, marks>>
    /\ UNCHANGED <<store, process, pending, callback>>

\* Store.Apply of the deletion that follows.  When it fails the request returns: the
\* peer is stored and neither the collector nor GoBGP has it.
ForgetPeer(r) ==
    /\ reqs[r] # Idle
    /\ reqs[r].pc = "forget"
    /\ \/ /\ StorePeer(reqs[r].id, Absent)
          /\ \E q \in Following(reqs[r]) : reqs' = [reqs EXCEPT ![r] = q]
          /\ UNCHANGED undeleted
       \/ /\ reqs' = [reqs EXCEPT ![r] = Idle]
          /\ undeleted' = undeleted \cup {reqs[r].id}
          /\ UNCHANGED store
    /\ UNCHANGED <<collector, process, pending, callback, disturbed>>

-----------------------------------------------------------------------------
(* The callbacks.                                                           *)

\* A session of a neighbour changes, or it sends a path that is rejected.
SessionEvent(a) ==
    /\ main = "serving"
    /\ a \in DOMAIN neighbors
    /\ Cardinality(pending) < EventCap
    /\ pending' = pending \cup {a}
    /\ UNCHANGED <<store, collector, process, callback, reqs, marks>>

\* peerForAddress: a copy of the peer that byAddress has for the canonical text of the
\* address.  An event whose text is not there is ignored.  handlePeer goes on with the
\* copy; handlePaths keeps its id and reads the peer when a path is rejected.
PeerForAddress(a, pc) ==
    /\ main = "serving"
    /\ callback = Idle
    /\ a \in pending
    /\ pending' = pending \ {a}
    /\ IF a \in DOMAIN byAddress /\ byAddress[a] \in DOMAIN cpeers
       THEN /\ callback' = [id |-> byAddress[a], pc |-> pc,
                             config |-> IF pc = "apply" THEN cpeers[byAddress[a]] ELSE Absent]
            /\ disturbed' = disturbed \cup {i \in {byAddress[a]} : Busy(i, Requests)}
       ELSE a \notin DOMAIN byAddress /\ UNCHANGED <<callback, disturbed>>
    /\ UNCHANGED <<store, collector, process, reqs, undeleted>>

\* incrementRejected reads the stored peer, if there is one.
GetRejected ==
    /\ callback # Idle
    /\ callback.pc = "get"
    /\ callback' = IF peers[callback.id] = Absent THEN Idle
                   ELSE [callback EXCEPT !.config = peers[callback.id].config, !.pc = "apply"]
    /\ UNCHANGED <<store, collector, process, pending, reqs, marks>>

\* handlePeer and incrementRejected store the whole peer they hold; a failure is only
\* logged.
StoreCallback ==
    /\ callback # Idle
    /\ callback.pc = "apply"
    /\ StorePeer(callback.id, callback.config) \/ UNCHANGED store
    /\ callback' = Idle
    /\ UNCHANGED <<collector, process, pending, reqs, marks>>

-----------------------------------------------------------------------------
(* The process.                                                             *)

Down ==
    /\ main' = "down"
    /\ booting' = <<>>
    /\ cpeers' = NoMap
    /\ byAddress' = NoMap
    /\ neighbors' = NoMap
    /\ pending' = {}
    /\ callback' = Idle
    /\ reqs' = [r \in Requests |-> Idle]
    /\ disturbed' = {}
    /\ undeleted' = {}

\* A crash or a shutdown, at any moment; also what a callback makes of an address
\* whose peer is gone, because it uses a peer that is nil.
Crash ==
    /\ main # "down"
    /\ Down
    /\ UNCHANGED <<store, booted>>

\* Mutant: the file is loaded at every start.
UninitializedAlways == TRUE

\* serve loads the file only into a store without a revision.
Uninitialized == rev = 0

Serve ==
    /\ main = "down"
    /\ main' = "boot"
    /\ booting' = IF Uninitialized THEN Yaml ELSE <<>>
    /\ UNCHANGED <<store, collector, pending, callback, reqs, booted, marks>>

\* One Store.Apply of the bootstrap.
Bootstrap ==
    /\ main = "boot"
    /\ booting # <<>>
    /\ rev < MaxRev
    /\ booting' = Tail(booting)
    /\ IF Head(booting).kind = "domain"
       THEN /\ domains' = domains \cup {Head(booting).id}
            /\ rev' = rev + 1
            /\ UNCHANGED peers
       ELSE StorePeer(Head(booting).id, Head(booting).config)
    /\ UNCHANGED <<main, booted, collector, pending, callback, reqs, marks>>

Stored == {i \in Ids : peers[i] # Absent}

\* Two peers with one address, whatever their texts.
Clash == \E i, j \in Stored : i # j /\ Canon[peers[i].config.addr] = Canon[peers[j].config.addr]

\* The stored peer with an address as the collector's map, and as GoBGP, knows it.
ByText(t) == CHOOSE i \in Stored : peers[i].config.addr = t

ByCanon(a) == CHOOSE i \in Stored : Canon[peers[i].config.addr] = a

\* Collector.Start upserts every stored peer.
Start ==
    /\ main = "boot"
    /\ booting = <<>>
    /\ ~Clash
    /\ main' = "serving"
    /\ booted' = TRUE
    /\ cpeers' = [i \in Stored |-> peers[i].config]
    /\ byAddress' = [t \in {peers[i].config.addr : i \in Stored} |-> ByText(t)]
    /\ neighbors' = [a \in {Canon[peers[i].config.addr] : i \in Stored} |-> ByCanon(a)]
    /\ UNCHANGED <<store, booting, pending, callback, reqs, marks>>

\* When GoBGP refuses one of them serve returns, and so does the next one.
StartFails ==
    /\ main = "boot"
    /\ booting = <<>>
    /\ Clash
    /\ booted' = TRUE
    /\ Down
    /\ UNCHANGED store

Init ==
    /\ main = "down"
    /\ booting = <<>>
    /\ rev = 0
    /\ domains = {}
    /\ peers = [i \in Ids |-> Absent]
    /\ cpeers = NoMap
    /\ byAddress = NoMap
    /\ neighbors = NoMap
    /\ pending = {}
    /\ callback = Idle
    /\ reqs = [r \in Requests |-> Idle]
    /\ booted = FALSE
    /\ disturbed = {}
    /\ undeleted = {}

Next ==
    \/ \E r \in Requests, i \in Ids :
         \/ \E c \in Configs : CreatePeer(r, i, c) \/ UpdatePeer(r, i, c)
         \/ SetPeerAdminState(r, i)
         \/ DeletePeer(r, i)
    \/ \E r \in Requests, m \in Imports : ImportPeerConfig(r, m)
    \/ \E i \in Ids : ResetPeer(i)
    \/ \E r \in Requests :
         ImportGet(r) \/ ApplyPeer(r) \/ UpsertPeer(r) \/ RemovePeer(r) \/ ForgetPeer(r)
    \/ \E a \in Addrs : SessionEvent(a)
    \/ \E a \in Addrs, pc \in {"get", "apply"} : PeerForAddress(a, pc)
    \/ GetRejected
    \/ StoreCallback
    \/ Crash
    \/ Serve
    \/ Bootstrap
    \/ Start
    \/ StartFails

PeerSpec == Init /\ [][Next]_peerVars

-----------------------------------------------------------------------------
(* Properties.                                                              *)

Peer == [config : Config, version : 1..rev]

\* Every variable has its type: a stored peer carries a revision there has been.
PeerTypeOK ==
    /\ main \in {"down", "boot", "serving"}
    /\ booted \in BOOLEAN
    /\ rev \in 0..MaxRev
    /\ \A i \in Ids : peers[i] # Absent => peers[i] \in Peer
    /\ DOMAIN cpeers \subseteq Ids /\ \A i \in DOMAIN cpeers : cpeers[i] \in Config
    /\ DOMAIN byAddress \subseteq Addrs /\ \A a \in DOMAIN byAddress : byAddress[a] \in Ids
    /\ DOMAIN neighbors \subseteq Addrs /\ \A a \in DOMAIN neighbors : neighbors[a] \in Ids
    /\ pending \subseteq Addrs
    /\ disturbed \subseteq Ids /\ undeleted \subseteq Ids
    /\ \A r \in Requests : Touches(reqs[r]) \subseteq Ids

\* Every neighbour GoBGP has was added for a peer that the collector still has with that
\* address, and when the peer was configured with the canonical text, byAddress names it:
\* what such a neighbour sends is attributed to its own peer and domain, after any
\* sequence of address changes, refused, failed and repeated requests.
NeighborsHaveOwners ==
    \A a \in DOMAIN neighbors :
        LET i == neighbors[a] IN
        /\ i \in DOMAIN cpeers
        /\ Canon[cpeers[i].addr] = a
        /\ cpeers[i].addr = a => a \in DOMAIN byAddress /\ byAddress[a] = i

\* The store, the collector and GoBGP have the same peer, or a failed deletion has left
\* it in the store alone.
Agree(i) ==
    /\ i \in DOMAIN cpeers =>
         /\ peers[i] # Absent
         /\ cpeers[i] = peers[i].config
         /\ Canon[cpeers[i].addr] \in DOMAIN neighbors
         /\ neighbors[Canon[cpeers[i].addr]] = i
         /\ cpeers[i].addr \in DOMAIN byAddress
         /\ byAddress[cpeers[i].addr] = i
    /\ i \notin DOMAIN cpeers => peers[i] = Absent \/ i \in undeleted

\* A peer nobody is working on, and that was not worked on by two at once or refused
\* by GoBGP, is the same in the store, in the collector and in GoBGP, unless the second
\* half of a deletion failed: then it is in the store and nowhere else.  A session event
\* or a rejected path does not undo what was administered.
QuietPeersAgree ==
    main = "serving" => \A i \in Ids \ disturbed : ~Busy(i, Requests) => Agree(i)

\* An empty tcp_md5_secret in an update or an import keeps the stored one, and so does
\* every callback, as long as a peer is changed by one actor at a time.
SecretKept ==
    [][\A i \in Ids \ disturbed' :
         peers[i] # Absent /\ peers'[i] # Absent /\ peers[i].config.secret # NoSecret =>
             peers'[i].config.secret # NoSecret]_peerVars

\* Once bootstrapped, no start changes a stored peer: what the API made of the peers of
\* the file, deleting them included, stays.
RestartKeepsPeers == [][booted /\ main # "serving" => peers' = peers]_peerVars

\* "Peer enable, disable, update, and delete operations require the current
\* resource_version": what such a request overwrites is the version it named.
UpdatesAreConditional ==
    [][\A r \in Requests :
         reqs[r] # Idle =>
           LET q == reqs[r] IN
           q.expected # 0 /\ rev' # rev /\ reqs' # reqs /\ q.pc \in {"apply", "forget"} /\ reqs'[r] # q
             => peers[q.id] # Absent /\ peers[q.id].version = q.expected]_peerVars
=============================================================================
