--------------------------- MODULE PeerAdminProofs ---------------------------
(***************************************************************************)
(* Proofs about PeerAdmin.tla: for any peers, addresses, configurations,    *)
(* files and imports, and any number of requests at once.                   *)
(***************************************************************************)
EXTENDS PeerAdmin, SequenceTheorems, TLAPS

\* The types of the variables, those of the requests and the callback included.
StoreTyped ==
    /\ rev \in 0..MaxRev
    /\ peers \in [Ids -> [config : Config, version : Nat] \cup {Absent}]
    /\ \A i \in Ids : peers[i] # Absent => peers[i] \in Peer

CollectorTyped ==
    /\ DOMAIN cpeers \subseteq Ids /\ \A i \in DOMAIN cpeers : cpeers[i] \in Config
    /\ DOMAIN byAddress \subseteq Addrs /\ \A a \in DOMAIN byAddress : byAddress[a] \in Ids
    /\ DOMAIN neighbors \subseteq Addrs /\ \A a \in DOMAIN neighbors : neighbors[a] \in Ids
    /\ disturbed \subseteq Ids /\ undeleted \subseteq Ids

ReqsTyped ==
    /\ reqs \in [Requests -> Req \cup {Idle}]
    /\ \A r \in Requests : reqs[r] # Idle /\ reqs[r].pc \in {"get", "apply", "upsert"} =>
                             reqs[r].config \in Config

CallbackTyped ==
    /\ pending \subseteq Addrs
    /\ callback \in Call \cup {Idle}
    /\ callback # Idle /\ callback.pc = "apply" => callback.config \in Config

ProcessTyped ==
    /\ main \in {"down", "boot", "serving"}
    /\ booted \in BOOLEAN
    /\ booting \in Seq(Item)

TypesOK == StoreTyped /\ CollectorTyped /\ ReqsTyped /\ CallbackTyped /\ ProcessTyped

\* The bootstrap: it runs only in a store without a revision, and each of its peers is
\* a new one.
BootOK ==
    /\ main # "serving" => callback = Idle /\ \A r \in Requests : reqs[r] = Idle
    /\ rev = 0 => \A i \in Ids : peers[i] = Absent
    /\ booted => rev > 0 \/ Yaml = <<>>
    /\ main = "boot" =>
         /\ rev > 0 \/ booting = Yaml
         /\ booted => booting = <<>>
         /\ DistinctPeers(booting)
         /\ \A n \in DOMAIN booting :
              booting[n].kind = "peer" => peers[booting[n].id] = Absent

\* One actor at most works on peer i.
Alone(i) ==
    /\ \A r, s \in Requests : i \in Touches(reqs[r]) /\ i \in Touches(reqs[s]) => r = s
    /\ callback # Idle /\ callback.id = i => \A r \in Requests : i \notin Touches(reqs[r])

\* A request is between its two changes of peer i.
Halfway(r, i) == reqs[r] # Idle /\ reqs[r].id = i /\ reqs[r].pc \in {"upsert", "forget"}

\* What a request that works on peer i knows of it.
Knows(q, i) ==
    /\ q.pc = "apply" =>
         (peers[i] # Absent /\ peers[i].config.secret # NoSecret => q.config.secret # NoSecret)
    /\ q.pc = "upsert" => peers[i] # Absent /\ peers[i].config = q.config
    /\ q.pc = "forget" => i \notin DOMAIN cpeers

\* A peer that was never disturbed.
PeerOK(i) ==
    /\ Alone(i)
    /\ (\A r \in Requests : ~Halfway(r, i)) => Agree(i)
    /\ \A r \in Requests : reqs[r] # Idle /\ reqs[r].id = i => Knows(reqs[r], i)
    /\ callback # Idle /\ callback.id = i /\ callback.pc = "apply" =>
         peers[i] # Absent /\ peers[i].config = callback.config

PeersOK == main = "serving" => \A i \in Ids \ disturbed : PeerOK(i)

\* The inductive invariant.
PInv == TypesOK /\ BootOK /\ NeighborsHaveOwners /\ PeersOK

-----------------------------------------------------------------------------
(* Requests.                                                                *)

\* The peers a request touches.
LEMMA RequestTouches ==
  ASSUME NEW q \in Req
  PROVE  /\ q # Idle /\ q.id \in Touches(q) /\ q.id \in Ids
         /\ Touches(q) \subseteq Ids
         /\ Touches(q) = {q.id} \cup {q.todo[n].id : n \in DOMAIN q.todo} \cup q.drop
  <1>1. q # Idle
    BY IdleAssumption
  <1>2. q.id \in Ids /\ q.drop \subseteq Ids /\ q.todo \in Seq(Entry)
    BY DEF Req
  <1>3. ASSUME NEW t \in Seq(Entry), NEW n \in DOMAIN t PROVE t[n].id \in Ids
    <2>1. t[n] \in Entry
      OBVIOUS
    <2> QED
      BY <2>1 DEF Entry
  <1> QED
    BY <1>1, <1>2, <1>3 DEF Touches

\* A request, or what ImportPeerConfig makes before its first peer.
Raw == [id : Ids \cup {""}, config : Config \cup {Absent}, todo : Seq(Entry), drop : SUBSET Ids,
        expected : Nat, pc : {"get", "apply", "upsert", "delete", "forget"}]

\* What follows in a request is the next of its peers, or nothing.
LEMMA FollowingOK ==
  ASSUME NEW q \in Raw, NEW p \in Following(q), p # Idle
  PROVE  /\ p \in Req
         /\ p.pc \in {"get", "delete"}
         /\ p.pc = "get" => p.config \in Config
         /\ Touches(p) \subseteq {q.todo[n].id : n \in DOMAIN q.todo} \cup q.drop
  <1> DEFINE t == q.todo
             d == q.drop
             e == q.expected
  <1>0. t \in Seq(Entry) /\ d \in SUBSET Ids /\ e \in Nat
    BY DEF Raw
  <1>1. CASE t # <<>>
    <2>1. p = [id |-> Head(t).id, config |-> Head(t).config, todo |-> Tail(t), drop |-> d,
               expected |-> e, pc |-> "get"]
      BY <1>1 DEF Following, Raw
    <2>2. /\ Head(t) \in Entry /\ Tail(t) \in Seq(Entry)
          /\ Head(t) = t[1] /\ 1 \in DOMAIN t
          /\ \A n \in DOMAIN Tail(t) : n + 1 \in DOMAIN t /\ Tail(t)[n] = t[n + 1]
      BY <1>0, <1>1
    <2>3. p \in Req /\ p.pc = "get" /\ p.config \in Config
      BY <1>0, <2>1, <2>2 DEF Req, Entry
    <2>4. Touches(p) = {Head(t).id} \cup {Tail(t)[n].id : n \in DOMAIN Tail(t)} \cup d
      BY <2>1, <2>3, RequestTouches
    <2> QED
      BY <2>2, <2>3, <2>4
  <1>2. CASE t = <<>> /\ d # {}
    <2>1. PICK i \in d : p = [id |-> i, config |-> Absent, todo |-> t, drop |-> d \ {i},
                              expected |-> e, pc |-> "delete"]
      BY <1>2 DEF Following, Raw
    <2>2. p \in Req /\ p.pc = "delete"
      BY <1>0, <2>1 DEF Req
    <2>3. Touches(p) = {i} \cup {t[n].id : n \in DOMAIN t} \cup (d \ {i})
      BY <2>1, <2>2, RequestTouches
    <2> QED
      BY <2>2, <2>3
  <1>3. CASE t = <<>> /\ d = {}
    BY <1>3 DEF Following
  <1> QED
    BY <1>1, <1>2, <1>3

\* An empty secret never replaces a stored one.
LEMMA KeptSecret ==
  ASSUME NEW c \in Config, NEW old \in [config : Config, version : Nat] \cup {Absent}
  PROVE  /\ KeepSecret(c, old) \in Config
         /\ KeepSecret(c, old).addr = c.addr
         /\ old # Absent /\ old.config.secret # NoSecret => KeepSecret(c, old).secret # NoSecret
  BY DEF KeepSecret, Config

\* A request as a handler begins it.
Fresh(q) ==
    /\ q \in Req
    /\ q.pc \in {"get", "apply", "delete"}
    /\ q.pc # "delete" => q.config \in Config
    /\ Knows(q, q.id)

\* Every handler begins such a request.
LEMMA HandlersBegin ==
  ASSUME PInv, NEW r \in Requests,
         \/ \E i \in Ids : \/ \E c \in Configs : CreatePeer(r, i, c) \/ UpdatePeer(r, i, c)
                           \/ SetPeerAdminState(r, i)
                           \/ DeletePeer(r, i)
         \/ \E m \in Imports : ImportPeerConfig(r, m)
  PROVE  \E q : Fresh(q) /\ Begin(r, q)
  <1> USE DEF PInv
  <1>0. peers \in [Ids -> [config : Config, version : Nat] \cup {Absent}]
    BY DEF TypesOK, StoreTyped
  <1>e. <<>> \in Seq(Entry) /\ {} \in SUBSET Ids
    OBVIOUS
  <1>1. ASSUME NEW i \in Ids, NEW c \in Configs, CreatePeer(r, i, c)
        PROVE  \E q : Fresh(q) /\ Begin(r, q)
    <2>1. Fresh(Request(i, c, "apply"))
      BY <1>1, <1>e, InputsAssumption DEF CreatePeer, Fresh, Request, Req, Knows
    <2> QED
      BY <1>1, <2>1 DEF CreatePeer
  <1>2. ASSUME NEW i \in Ids, NEW c \in Configs, UpdatePeer(r, i, c)
        PROVE  \E q : Fresh(q) /\ Begin(r, q)
    <2> DEFINE k == KeepSecret(c, peers[i])
               q == [Request(i, k, "apply") EXCEPT !.expected = peers[i].version]
    <2>1. /\ k \in Config
          /\ peers[i] # Absent /\ peers[i].config.secret # NoSecret => k.secret # NoSecret
      BY <1>0, InputsAssumption, KeptSecret
    <2>2. peers[i].version \in Nat
      BY <1>0, <1>2 DEF UpdatePeer
    <2> HIDE DEF k
    <2>3. Request(i, k, "apply") \in Req
      BY <1>e, <2>1 DEF Request, Req
    <2>4. q \in Req /\ q.id = i /\ q.config = k /\ q.pc = "apply"
      BY <2>2, <2>3 DEF Request, Req
    <2> HIDE DEF q
    <2>5. Fresh(q)
      BY <2>1, <2>4 DEF Fresh, Knows
    <2> QED
      BY <1>2, <2>5 DEF UpdatePeer, k, q
  <1>3. ASSUME NEW i \in Ids, SetPeerAdminState(r, i)
        PROVE  \E q : Fresh(q) /\ Begin(r, q)
    <2> DEFINE q == [Request(i, peers[i].config, "apply") EXCEPT !.expected = peers[i].version]
    <2>1. peers[i].version \in Nat /\ peers[i].config \in Config
      BY <1>0, <1>3 DEF SetPeerAdminState
    <2>2. Request(i, peers[i].config, "apply") \in Req
      BY <1>e, <2>1 DEF Request, Req
    <2>3. q \in Req /\ q.id = i /\ q.config = peers[i].config /\ q.pc = "apply"
      BY <2>1, <2>2 DEF Request, Req
    <2> HIDE DEF q
    <2>4. Fresh(q)
      BY <2>1, <2>3 DEF Fresh, Knows
    <2> QED
      BY <1>3, <2>4 DEF SetPeerAdminState, q
  <1>4. ASSUME NEW i \in Ids, DeletePeer(r, i)
        PROVE  \E q : Fresh(q) /\ Begin(r, q)
    <2> DEFINE q == [Request(i, Absent, "delete") EXCEPT !.expected = peers[i].version]
    <2>1. peers[i].version \in Nat
      BY <1>0, <1>4 DEF DeletePeer
    <2>2. Request(i, Absent, "delete") \in Req
      BY <1>e DEF Request, Req
    <2>3. q \in Req /\ q.id = i /\ q.pc = "delete"
      BY <2>1, <2>2 DEF Request, Req
    <2> HIDE DEF q
    <2>4. Fresh(q)
      BY <2>3 DEF Fresh, Knows
    <2> QED
      BY <1>4, <2>4 DEF DeletePeer, q
  <1>5. ASSUME NEW m \in Imports, ImportPeerConfig(r, m)
        PROVE  \E q : Fresh(q) /\ Begin(r, q)
    <2>1. PICK d \in SUBSET Ids :
            \E p \in Following([Request("", Absent, "get") EXCEPT !.todo = m.peers, !.drop = d]) :
              p # Idle /\ Begin(r, p)
      <3> DEFINE d == IF m.replace THEN {i \in Ids : peers[i] # Absent}
                                          \ {m.peers[n].id : n \in DOMAIN m.peers} ELSE {}
      <3>1. d \in SUBSET Ids
        OBVIOUS
      <3> QED
        BY <1>5, <3>1 DEF ImportPeerConfig
    <2> DEFINE q == [Request("", Absent, "get") EXCEPT !.todo = m.peers, !.drop = d]
    <2>2. m.peers \in Seq(Entry)
      BY InputsAssumption
    <2>3. q \in Raw
      <3>1. Request("", Absent, "get") \in Raw
        BY <1>e DEF Request, Raw
      <3> QED
        BY <2>2, <3>1 DEF Raw
    <2>4. PICK p \in Following(q) : p # Idle /\ Begin(r, p)
      BY <2>1
    <2> HIDE DEF q
    <2>5. p \in Req /\ p.pc \in {"get", "delete"} /\ (p.pc = "get" => p.config \in Config)
      BY <2>2, <2>3, <2>4, FollowingOK
    <2>6. Fresh(p)
      BY <2>5 DEF Fresh, Knows
    <2> QED
      BY <2>4, <2>6
  <1> QED
    BY <1>1, <1>2, <1>3, <1>4, <1>5

\* What a request becomes in one of its steps: itself at the same peer, or at its next
\* one, or nothing.
Continues(r, p) ==
    /\ reqs' = [reqs EXCEPT ![r] = p]
    /\ p # Idle => /\ p \in Req
                   /\ p.pc \in {"get", "apply", "upsert"} => p.config \in Config
                   /\ Touches(p) \subseteq Touches(reqs[r])
                   /\ p.id = reqs[r].id \/ p.pc \in {"get", "delete"}

\* A request under way: its peer and its type.
LEMMA UnderWay ==
  ASSUME PInv, NEW r \in Requests, reqs[r] # Idle
  PROVE  /\ reqs[r] \in Req /\ main = "serving"
         /\ reqs[r].id \in Ids /\ reqs[r].id \in Touches(reqs[r])
         /\ reqs[r].pc \in {"get", "apply", "upsert"} => reqs[r].config \in Config
  <1>1. reqs[r] \in Req
    BY DEF PInv, TypesOK, ReqsTyped
  <1>2. main = "serving"
    BY DEF PInv, BootOK
  <1> QED
    BY <1>1, <1>2, RequestTouches DEF PInv, TypesOK, ReqsTyped

\* A request that goes on to its next peer, or returns.
LEMMA GoesOn ==
  ASSUME PInv, NEW r \in Requests, reqs[r] # Idle, NEW p \in Following(reqs[r]) \cup {Idle},
         reqs' = [reqs EXCEPT ![r] = p]
  PROVE  Continues(r, p) /\ (p # Idle => p.pc \in {"get", "delete"})
  <1>1. reqs[r] \in Req
    BY UnderWay
  <1>2. reqs[r] \in Raw
    BY <1>1 DEF Req, Raw
  <1>3. CASE p # Idle
    <2>1. /\ p \in Req
          /\ p.pc \in {"get", "delete"}
          /\ p.pc = "get" => p.config \in Config
          /\ Touches(p) \subseteq {reqs[r].todo[n].id : n \in DOMAIN reqs[r].todo} \cup reqs[r].drop
      BY <1>2, <1>3, FollowingOK
    <2>2. Touches(p) \subseteq Touches(reqs[r])
      BY <1>1, <2>1, RequestTouches
    <2> QED
      BY <2>1, <2>2 DEF Continues
  <1>4. CASE p = Idle
    BY <1>4 DEF Continues
  <1> QED
    BY <1>3, <1>4

\* A step of a request at its peer.
LEMMA StaysAt ==
  ASSUME PInv, NEW r \in Requests, reqs[r] # Idle, NEW p \in Req,
         reqs' = [reqs EXCEPT ![r] = p],
         p.id = reqs[r].id, p.todo = reqs[r].todo, p.drop = reqs[r].drop,
         p.pc \in {"get", "apply", "upsert"} => p.config \in Config
  PROVE  Continues(r, p)
  <1>1. Touches(p) = Touches(reqs[r])
    BY UnderWay, RequestTouches
  <1> QED
    BY <1>1 DEF Continues

\* ImportGet, ApplyPeer and the removal of a peer, told by what they make of the request.
LEMMA ImportGetGoesOn ==
  ASSUME PInv, NEW r \in Requests, ImportGet(r)
  PROVE  \E p : /\ Continues(r, p) /\ p # Idle /\ p.id = reqs[r].id /\ p.pc = "apply"
                /\ Knows(p, p.id)
  <1> DEFINE q == reqs[r]
             k == KeepSecret(q.config, peers[q.id])
             p == [q EXCEPT !.config = k, !.pc = "apply"]
  <1>1. q \in Req /\ q.id \in Ids /\ q.config \in Config /\ q # Idle /\ q.pc = "get"
    BY UnderWay DEF ImportGet
  <1>2. /\ k \in Config
        /\ peers[q.id] # Absent /\ peers[q.id].config.secret # NoSecret => k.secret # NoSecret
    BY <1>1, KeptSecret DEF PInv, TypesOK, StoreTyped
  <1>3. reqs' = [reqs EXCEPT ![r] = p]
    BY DEF ImportGet, PInv, TypesOK, ReqsTyped
  <1> HIDE DEF k, q
  <1>4. /\ p \in Req /\ p.id = q.id /\ p.todo = q.todo /\ p.drop = q.drop
        /\ p.config = k /\ p.pc = "apply"
    BY <1>1, <1>2 DEF Req
  <1> HIDE DEF p
  <1>5. Continues(r, p)
    BY <1>1, <1>2, <1>3, <1>4, StaysAt DEF q
  <1>6. p # Idle
    BY <1>4, RequestTouches
  <1> QED
    BY <1>2, <1>4, <1>5, <1>6 DEF Knows, q

LEMMA ApplyGoesOn ==
  ASSUME PInv, NEW r \in Requests, reqs[r] # Idle, reqs[r].pc = "apply",
         reqs' = [reqs EXCEPT ![r].pc = "upsert", ![r].expected = 0]
  PROVE  \E p : /\ Continues(r, p) /\ p # Idle /\ p.id = reqs[r].id /\ p.pc = "upsert"
                /\ p.config = reqs[r].config
  <1> DEFINE q == reqs[r]
             p == [q EXCEPT !.pc = "upsert", !.expected = 0]
  <1>1. q \in Req /\ q.config \in Config /\ q # Idle
    BY UnderWay
  <1>2. reqs' = [reqs EXCEPT ![r] = p]
    BY DEF PInv, TypesOK, ReqsTyped
  <1> HIDE DEF q
  <1>3. /\ p \in Req /\ p.id = q.id /\ p.todo = q.todo /\ p.drop = q.drop
        /\ p.config = q.config /\ p.pc = "upsert"
    BY <1>1 DEF Req
  <1> HIDE DEF p
  <1>4. Continues(r, p)
    BY <1>1, <1>2, <1>3, StaysAt DEF q
  <1>5. p # Idle
    BY <1>3, RequestTouches
  <1> QED
    BY <1>3, <1>4, <1>5 DEF q

LEMMA RemoveGoesOn ==
  ASSUME PInv, NEW r \in Requests, reqs[r] # Idle, reqs' = [reqs EXCEPT ![r].pc = "forget"]
  PROVE  \E p : Continues(r, p) /\ p # Idle /\ p.id = reqs[r].id /\ p.pc = "forget"
  <1> DEFINE q == reqs[r]
             p == [q EXCEPT !.pc = "forget"]
  <1>1. q \in Req /\ q # Idle
    BY UnderWay
  <1>2. reqs' = [reqs EXCEPT ![r] = p]
    BY DEF PInv, TypesOK, ReqsTyped
  <1> HIDE DEF q
  <1>3. /\ p \in Req /\ p.id = q.id /\ p.todo = q.todo /\ p.drop = q.drop /\ p.pc = "forget"
    BY <1>1 DEF Req
  <1> HIDE DEF p
  <1>4. Continues(r, p)
    BY <1>1, <1>2, <1>3, StaysAt DEF q
  <1>5. p # Idle
    BY <1>3, RequestTouches
  <1> QED
    BY <1>3, <1>4, <1>5 DEF q

-----------------------------------------------------------------------------
(* The store and the collector.                                             *)

\* Store.Apply of one peer leaves the others alone.
LEMMA StoreOne ==
  ASSUME PInv, NEW i \in Ids, NEW c \in Config \cup {Absent}, StorePeer(i, c)
  PROVE  /\ StoreTyped' /\ rev' > 0
         /\ \A j \in Ids \ {i} : peers'[j] = peers[j]
         /\ c = Absent => peers'[i] = Absent
         /\ c # Absent => peers'[i] # Absent /\ peers'[i].config = c
  <1> DEFINE new == IF c = Absent THEN Absent ELSE Stamp(c, rev + 1)
  <1>1. /\ rev \in Nat /\ rev + 1 \in 1..MaxRev /\ rev' = rev + 1
        /\ peers \in [Ids -> [config : Config, version : Nat] \cup {Absent}]
        /\ peers' = [peers EXCEPT ![i] = new]
    BY InputsAssumption DEF StorePeer, PInv, TypesOK, StoreTyped
  <1>2. c # Absent => /\ new \in [config : Config, version : 1..(rev + 1)]
                      /\ new \in [config : Config, version : Nat] /\ new.config = c
    BY <1>1 DEF Stamp
  <1>3. c # Absent => new # Absent
    BY <1>2, AbsentAssumption
  <1>4. c = Absent => new = Absent
    OBVIOUS
  <1> HIDE DEF new
  <1>5. peers' \in [Ids -> [config : Config, version : Nat] \cup {Absent}]
    BY <1>1, <1>2, <1>4
  <1>6. /\ \A j \in Ids \ {i} : peers'[j] = peers[j]
        /\ peers'[i] = new
    BY <1>1
  <1>7. ASSUME NEW j \in Ids, peers'[j] # Absent PROVE peers'[j] \in Peer'
    <2>1. CASE j = i
      BY <1>1, <1>2, <1>4, <1>6, <1>7, <2>1 DEF Peer
    <2>2. CASE j # i
      <3>1. peers[j] \in [config : Config, version : 1..rev]
        BY <1>6, <1>7, <2>2 DEF PInv, TypesOK, StoreTyped, Peer
      <3>2. 1..rev \subseteq 1..(rev + 1)
        BY <1>1
      <3> QED
        BY <1>1, <1>6, <2>2, <3>1, <3>2 DEF Peer
    <2> QED
      BY <2>1, <2>2
  <1> QED
    BY <1>1, <1>2, <1>3, <1>4, <1>5, <1>6, <1>7 DEF StoreTyped

\* What a step of the collector at peer i does for the others: the ones that lose their
\* neighbour are disturbed, the rest agree as before.
OthersAgree(i) ==
    \A j \in Ids \ {i} :
        /\ j \in DOMAIN cpeers' <=> j \in DOMAIN cpeers
        /\ j \notin disturbed' /\ Agree(j) /\ peers'[j] = peers[j] => Agree(j)'

\* The canonical text of an address is its own canonical text.
LEMMA CanonOK ==
  ASSUME NEW t \in Addrs
  PROVE  Canon[t] \in Addrs /\ Canon[Canon[t]] = Canon[t]
  BY CanonAssumption

\* A neighbour and its owner.
LEMMA OwnerOf ==
  ASSUME PInv, NEW a \in DOMAIN neighbors
  PROVE  /\ neighbors[a] \in DOMAIN cpeers /\ neighbors[a] \in Ids
         /\ Canon[cpeers[neighbors[a]].addr] = a
         /\ cpeers[neighbors[a]].addr \in Addrs /\ a \in Addrs /\ Canon[a] = a
         /\ cpeers[neighbors[a]].addr = a => a \in DOMAIN byAddress /\ byAddress[a] = neighbors[a]
  <1>1. /\ neighbors[a] \in DOMAIN cpeers /\ Canon[cpeers[neighbors[a]].addr] = a
        /\ cpeers[neighbors[a]].addr = a => a \in DOMAIN byAddress /\ byAddress[a] = neighbors[a]
    BY DEF PInv, NeighborsHaveOwners
  <1>2. neighbors[a] \in Ids /\ cpeers[neighbors[a]].addr \in Addrs /\ a \in Addrs
    BY <1>1 DEF PInv, TypesOK, CollectorTyped, Config
  <1> QED
    BY <1>1, <1>2, CanonOK

LEMMA UpsertedOK ==
  ASSUME PInv, NEW i \in Ids, NEW c \in Config, Upserted(i, c)
  PROVE  /\ CollectorTyped' /\ NeighborsHaveOwners' /\ disturbed \subseteq disturbed'
         /\ OthersAgree(i)
         /\ i \in DOMAIN cpeers' /\ cpeers'[i] = c
         /\ Canon[c.addr] \in DOMAIN neighbors' /\ neighbors'[Canon[c.addr]] = i
         /\ c.addr \in DOMAIN byAddress' /\ byAddress'[c.addr] = i
  <1> DEFINE old == OldAddress(i, c)
             new == Canon[c.addr]
  <1>1. c.addr \in Addrs /\ new \in Addrs /\ Canon[new] = new
    BY CanonOK DEF Config
  <1>2. CollectorTyped /\ NeighborsHaveOwners
    BY DEF PInv, TypesOK
  <1>3. /\ DOMAIN cpeers' = DOMAIN cpeers \cup {i}
        /\ cpeers'[i] = c /\ \A j \in DOMAIN cpeers \ {i} : cpeers'[j] = cpeers[j]
        /\ DOMAIN byAddress' = DOMAIN byAddress \cup {c.addr}
        /\ byAddress'[c.addr] = i
        /\ \A a \in DOMAIN byAddress \ {c.addr} : byAddress'[a] = byAddress[a]
    BY DEF Upserted, Put
  <1>4. /\ DOMAIN neighbors' = (DOMAIN neighbors \ old) \cup {new}
        /\ neighbors'[new] = i
        /\ \A a \in DOMAIN neighbors \ old : a # new => neighbors'[a] = neighbors[a]
        /\ new \notin DOMAIN neighbors \ old
    BY DEF Upserted, Put, Without
  <1>5. /\ disturbed' = disturbed \cup Losers(i, old) /\ Losers(i, old) \subseteq Ids
        /\ undeleted' = undeleted \ {i}
    BY <1>2 DEF Upserted, Losers, CollectorTyped
  <1> HIDE DEF new
  <1>6. CollectorTyped'
    BY <1>1, <1>2, <1>3, <1>4, <1>5 DEF CollectorTyped
  <1>7. NeighborsHaveOwners'
    <2> SUFFICES ASSUME NEW a \in DOMAIN neighbors'
                 PROVE  /\ neighbors'[a] \in DOMAIN cpeers'
                        /\ Canon[cpeers'[neighbors'[a]].addr] = a
                        /\ cpeers'[neighbors'[a]].addr = a =>
                             a \in DOMAIN byAddress' /\ byAddress'[a] = neighbors'[a]
      BY DEF NeighborsHaveOwners
    <2>1. CASE a = new
      BY <1>3, <1>4, <2>1 DEF new
    <2>2. CASE a \in DOMAIN neighbors \ old /\ a # new
      <3> DEFINE j == neighbors[a]
      <3>1. /\ j \in DOMAIN cpeers /\ Canon[cpeers[j].addr] = a /\ Canon[a] = a
            /\ cpeers[j].addr = a => a \in DOMAIN byAddress /\ byAddress[a] = j
        BY <2>2, OwnerOf
      <3>2. j # i
        BY <2>2, <3>1 DEF OldAddress
      <3>3. a # c.addr
        BY <2>2, <3>1 DEF new
      <3>4. neighbors'[a] = j
        BY <1>4, <2>2
      <3> QED
        BY <1>3, <3>1, <3>2, <3>3, <3>4
    <2> QED
      BY <1>4, <2>1, <2>2
  <1>8. OthersAgree(i)
    <2>1. ASSUME NEW j \in Ids \ {i}, j \notin disturbed', Agree(j), peers'[j] = peers[j]
          PROVE  Agree(j)'
      <3>1. CASE j \notin DOMAIN cpeers
        BY <1>3, <1>5, <2>1, <3>1 DEF Agree
      <3>2. CASE j \in DOMAIN cpeers
        <4> DEFINE t == cpeers[j].addr
        <4>1. /\ peers[j] # Absent /\ cpeers[j] = peers[j].config
              /\ Canon[t] \in DOMAIN neighbors /\ neighbors[Canon[t]] = j
              /\ t \in DOMAIN byAddress /\ byAddress[t] = j
          BY <2>1, <3>2 DEF Agree
        <4>2. Canon[t] \notin old
          BY <1>5, <2>1, <4>1 DEF Losers
        <4>3. Canon[t] # new /\ t # c.addr
          BY <1>4, <4>1, <4>2 DEF new
        <4>4. cpeers'[j] = cpeers[j] /\ j \in DOMAIN cpeers'
          BY <1>3, <2>1, <3>2
        <4>5. /\ Canon[t] \in DOMAIN neighbors' /\ neighbors'[Canon[t]] = j
              /\ t \in DOMAIN byAddress' /\ byAddress'[t] = j
          BY <1>3, <1>4, <4>1, <4>2, <4>3
        <4> QED
          BY <2>1, <4>1, <4>4, <4>5 DEF Agree
      <3> QED
        BY <3>1, <3>2
    <2> QED
      BY <1>3, <2>1 DEF OthersAgree
  <1> QED
    BY <1>3, <1>4, <1>5, <1>6, <1>7, <1>8 DEF new

\* Neighbours that go disturb those they belonged to.
LEMMA WithoutOK ==
  ASSUME PInv, NEW i \in Ids, NEW gone, neighbors' = Without(gone)
  PROVE  /\ DOMAIN neighbors' = DOMAIN neighbors \ gone
         /\ \A a \in DOMAIN neighbors \ gone : neighbors'[a] = neighbors[a]
         /\ Losers(i, gone) \subseteq Ids
         /\ \A j \in Ids \ {i} : \A a \in DOMAIN neighbors :
              neighbors[a] = j /\ j \notin Losers(i, gone) => a \notin gone
  BY DEF Without, Losers, PInv, TypesOK, CollectorTyped

LEMMA RefusedOK ==
  ASSUME PInv, NEW i \in Ids, NEW c \in Config, Refused(i, c)
  PROVE  /\ CollectorTyped' /\ NeighborsHaveOwners' /\ disturbed \subseteq disturbed'
         /\ OthersAgree(i) /\ i \in disturbed'
  <1> DEFINE gone == OldAddress(i, c)
  <1>1. CollectorTyped /\ NeighborsHaveOwners
    BY DEF PInv, TypesOK
  <1>2. /\ disturbed' = disturbed \cup Losers(i, gone) \cup {i}
        /\ neighbors' = Without(gone)
        /\ UNCHANGED <<cpeers, byAddress, undeleted>>
    BY DEF Refused
  <1> HIDE DEF gone
  <1>3. /\ DOMAIN neighbors' = DOMAIN neighbors \ gone
        /\ \A a \in DOMAIN neighbors \ gone : neighbors'[a] = neighbors[a]
        /\ Losers(i, gone) \subseteq Ids
        /\ \A j \in Ids \ {i} : \A a \in DOMAIN neighbors :
             neighbors[a] = j /\ j \notin Losers(i, gone) => a \notin gone
    BY <1>2, WithoutOK
  <1>4. CollectorTyped'
    BY <1>1, <1>2, <1>3 DEF CollectorTyped
  <1>5. NeighborsHaveOwners'
    BY <1>1, <1>2, <1>3 DEF NeighborsHaveOwners
  <1>6. OthersAgree(i)
    BY <1>2, <1>3 DEF OthersAgree, Agree
  <1> QED
    BY <1>2, <1>4, <1>5, <1>6

LEMMA DeletedOK ==
  ASSUME PInv, NEW i \in Ids, Deleted(i)
  PROVE  /\ CollectorTyped' /\ NeighborsHaveOwners' /\ disturbed \subseteq disturbed'
         /\ OthersAgree(i) /\ i \notin DOMAIN cpeers' /\ undeleted' = undeleted
  <1> DEFINE u == cpeers[i].addr
             gone == {Canon[u]}
  <1>1. CollectorTyped /\ NeighborsHaveOwners
    BY DEF PInv, TypesOK
  <1>2. /\ i \in DOMAIN cpeers
        /\ DOMAIN cpeers' = DOMAIN cpeers \ {i}
        /\ \A j \in DOMAIN cpeers \ {i} : cpeers'[j] = cpeers[j]
        /\ DOMAIN byAddress' = DOMAIN byAddress \ {u}
        /\ \A t \in DOMAIN byAddress \ {u} : byAddress'[t] = byAddress[t]
        /\ neighbors' = Without(gone)
        /\ disturbed' = disturbed \cup Losers(i, gone)
        /\ undeleted' = undeleted
    BY DEF Deleted, CanDelete, Drop
  <1> HIDE DEF gone
  <1>3. /\ DOMAIN neighbors' = DOMAIN neighbors \ gone
        /\ \A a \in DOMAIN neighbors \ gone : neighbors'[a] = neighbors[a]
        /\ Losers(i, gone) \subseteq Ids
        /\ \A j \in Ids \ {i} : \A a \in DOMAIN neighbors :
             neighbors[a] = j /\ j \notin Losers(i, gone) => a \notin gone
    BY <1>2, WithoutOK
  <1>4. CollectorTyped'
    BY <1>1, <1>2, <1>3 DEF CollectorTyped
  <1>5. NeighborsHaveOwners'
    <2> SUFFICES ASSUME NEW a \in DOMAIN neighbors'
                 PROVE  /\ neighbors'[a] \in DOMAIN cpeers'
                        /\ Canon[cpeers'[neighbors'[a]].addr] = a
                        /\ cpeers'[neighbors'[a]].addr = a =>
                             a \in DOMAIN byAddress' /\ byAddress'[a] = neighbors'[a]
      BY DEF NeighborsHaveOwners
    <2> DEFINE j == neighbors[a]
    <2>1. a \in DOMAIN neighbors /\ a # Canon[u] /\ neighbors'[a] = j
      BY <1>3 DEF gone
    <2>2. /\ j \in DOMAIN cpeers /\ Canon[cpeers[j].addr] = a /\ Canon[a] = a
          /\ cpeers[j].addr = a => a \in DOMAIN byAddress /\ byAddress[a] = j
      BY <2>1, OwnerOf
    <2>3. j # i /\ a # u
      BY <2>1, <2>2
    <2> QED
      BY <1>2, <2>1, <2>2, <2>3
  <1>6. OthersAgree(i)
    <2>1. ASSUME NEW j \in Ids \ {i}, j \notin disturbed', Agree(j), peers'[j] = peers[j]
          PROVE  Agree(j)'
      <3>1. CASE j \notin DOMAIN cpeers
        BY <1>2, <2>1, <3>1 DEF Agree
      <3>2. CASE j \in DOMAIN cpeers
        <4> DEFINE t == cpeers[j].addr
        <4>1. /\ peers[j] # Absent /\ cpeers[j] = peers[j].config
              /\ Canon[t] \in DOMAIN neighbors /\ neighbors[Canon[t]] = j
              /\ t \in DOMAIN byAddress /\ byAddress[t] = j
          BY <2>1, <3>2 DEF Agree
        <4>2. Canon[t] \notin gone
          BY <1>2, <1>3, <2>1, <4>1
        <4>3. t # u
          BY <4>2 DEF gone
        <4>4. cpeers'[j] = cpeers[j] /\ j \in DOMAIN cpeers'
          BY <1>2, <2>1, <3>2
        <4>5. /\ Canon[t] \in DOMAIN neighbors' /\ neighbors'[Canon[t]] = j
              /\ t \in DOMAIN byAddress' /\ byAddress'[t] = j
          BY <1>2, <1>3, <4>1, <4>2, <4>3
        <4> QED
          BY <2>1, <4>1, <4>4, <4>5 DEF Agree
      <3> QED
        BY <3>1, <3>2
    <2> QED
      BY <1>2, <2>1 DEF OthersAgree
  <1> QED
    BY <1>2, <1>4, <1>5, <1>6

-----------------------------------------------------------------------------
(* The steps of a request.                                                  *)

\* The request that works on an undisturbed peer is alone there.
LEMMA OwnPeer ==
  ASSUME PInv, NEW r \in Requests, reqs[r] # Idle, reqs[r].id \notin disturbed
  PROVE  /\ PeerOK(reqs[r].id) /\ Knows(reqs[r], reqs[r].id)
         /\ \A s \in Requests \ {r} : reqs[s] # Idle => reqs[s].id # reqs[r].id
         /\ callback # Idle => callback.id # reqs[r].id
         /\ reqs[r].pc \notin {"upsert", "forget"} => Agree(reqs[r].id)
  <1> DEFINE i == reqs[r].id
  <1>1. i \in Ids /\ i \in Touches(reqs[r]) /\ main = "serving"
    BY UnderWay
  <1>2. PeerOK(i)
    BY <1>1 DEF PInv, PeersOK
  <1>3. ASSUME NEW s \in Requests \ {r}, reqs[s] # Idle PROVE reqs[s].id # i
    <2>1. reqs[s].id \in Touches(reqs[s])
      BY <1>3, UnderWay
    <2> QED
      BY <1>1, <1>2, <2>1 DEF PeerOK, Alone
  <1> QED
    BY <1>1, <1>2, <1>3 DEF PeerOK, Alone, Halfway

\* The steps of one request, at a distance: what it makes of itself, and that the others
\* and the callback stay as they are.
RequestStep(r, p) ==
    /\ r \in Requests /\ reqs[r] # Idle
    /\ Continues(r, p)
    /\ disturbed \subseteq disturbed'
    /\ UNCHANGED <<process, pending, callback>>

LEMMA AloneKept ==
  ASSUME PInv, NEW r, NEW p, RequestStep(r, p), NEW j \in Ids \ disturbed'
  PROVE  /\ Alone(j)'
         /\ reqs'[r] = p /\ \A s \in Requests \ {r} : reqs'[s] = reqs[s]
         /\ p # Idle => p \in Req
  <1>1. /\ Alone(j) /\ r \in Requests
        /\ reqs' = [reqs EXCEPT ![r] = p] /\ callback' = callback
        /\ j \notin disturbed
    BY UnderWay DEF RequestStep, Continues, PInv, PeersOK, PeerOK
  <1>2. reqs'[r] = p /\ \A s \in Requests \ {r} : reqs'[s] = reqs[s]
    BY <1>1 DEF PInv, TypesOK, ReqsTyped
  <1>3. Touches(p) \subseteq Touches(reqs[r])
    BY DEF RequestStep, Continues, Touches
  <1>4. \A s \in Requests : Touches(reqs'[s]) \subseteq Touches(reqs[s])
    BY <1>2, <1>3
  <1>5. \A s \in Requests : Touches(reqs[s])' = Touches(reqs'[s])
    BY DEF Touches
  <1> QED
    BY <1>1, <1>2, <1>4, <1>5 DEF Alone, RequestStep, Continues

\* Such a step keeps every peer but its own as it is.
LEMMA OtherPeer ==
  ASSUME PInv, NEW r, NEW p, RequestStep(r, p),
         NEW j \in Ids \ disturbed', j # reqs[r].id, peers'[j] = peers[j],
         j \in DOMAIN cpeers' <=> j \in DOMAIN cpeers,
         Agree(j) => Agree(j)'
  PROVE  PeerOK(j)'
  <1>1. PeerOK(j) /\ callback' = callback
    BY UnderWay DEF RequestStep, PInv, PeersOK
  <1>2. /\ Alone(j)' /\ reqs'[r] = p /\ \A s \in Requests \ {r} : reqs'[s] = reqs[s]
        /\ r \in Requests
    BY AloneKept DEF RequestStep
  <1>3. (\A s \in Requests : ~Halfway(s, j)') => Agree(j)'
    BY <1>1, <1>2 DEF PeerOK, Halfway
  <1>4. p # Idle /\ p.id = j => p.pc \in {"get", "delete"}
    BY DEF RequestStep, Continues
  <1>5. ASSUME NEW s \in Requests, reqs'[s] # Idle, reqs'[s].id = j PROVE Knows(reqs[s], j)'
    <2>1. CASE s = r
      BY <1>2, <1>4, <1>5, <2>1 DEF Knows
    <2>2. CASE s # r
      BY <1>1, <1>2, <1>5, <2>2 DEF PeerOK, Knows
    <2> QED
      BY <2>1, <2>2
  <1> QED
    BY <1>1, <1>2, <1>3, <1>5 DEF PeerOK

\* Its own peer agrees again, or the request knows what is left to do.
LEMMA SamePeer ==
  ASSUME PInv, NEW r, NEW p, RequestStep(r, p),
         NEW i \in Ids \ disturbed', i = reqs[r].id,
         \/ p # Idle /\ p.id = i /\ p.pc \in {"upsert", "forget"}
         \/ Agree(i)',
         p # Idle /\ p.id = i => Knows(p, i)'
  PROVE  PeerOK(i)'
  <1>1. /\ \A s \in Requests \ {r} : reqs[s] # Idle => reqs[s].id # i
        /\ callback # Idle => callback.id # i
        /\ callback' = callback
    BY OwnPeer DEF RequestStep
  <1>2. /\ Alone(i)' /\ reqs'[r] = p /\ \A s \in Requests \ {r} : reqs'[s] = reqs[s]
        /\ r \in Requests
    BY AloneKept DEF RequestStep
  <1>3. (\A s \in Requests : ~Halfway(s, i)') => Agree(i)'
    BY <1>2 DEF Halfway
  <1>4. ASSUME NEW s \in Requests, reqs'[s] # Idle, reqs'[s].id = i PROVE Knows(reqs[s], i)'
    <2>1. s = r
      BY <1>1, <1>2, <1>4
    <2>2. Knows(p, i)'
      BY <1>2, <1>4, <2>1
    <2> QED
      BY <1>2, <2>1, <2>2 DEF Knows
  <1> QED
    BY <1>1, <1>2, <1>3, <1>4 DEF PeerOK

\* What is left to show of a step of a request.
LEMMA StepKeeps ==
  ASSUME PInv, NEW r, NEW p, RequestStep(r, p),
         StoreTyped', CollectorTyped', NeighborsHaveOwners',
         UNCHANGED store \/ rev' > 0,
         \A j \in Ids \ disturbed' : PeerOK(j)'
  PROVE  PInv'
  <1>1. main = "serving" /\ main' = "serving"
    BY UnderWay DEF RequestStep, process
  <1>2. /\ reqs \in [Requests -> Req \cup {Idle}]
        /\ reqs' = [reqs EXCEPT ![r] = p] /\ r \in Requests
        /\ p # Idle => p \in Req /\ (p.pc \in {"get", "apply", "upsert"} => p.config \in Config)
    BY DEF RequestStep, Continues, PInv, TypesOK, ReqsTyped
  <1>3. ReqsTyped'
    BY <1>2 DEF PInv, TypesOK, ReqsTyped
  <1>4. CallbackTyped' /\ ProcessTyped'
    BY DEF RequestStep, process, PInv, TypesOK, CallbackTyped, ProcessTyped
  <1>5. rev \in Nat /\ (rev' > 0 => rev' # 0)
    BY DEF PInv, TypesOK, StoreTyped
  <1>6. BootOK'
    BY <1>1, <1>5 DEF RequestStep, process, store, PInv, BootOK
  <1> QED
    BY <1>3, <1>4, <1>6 DEF PInv, TypesOK, PeersOK

LEMMA ImportGetKeeps ==
  ASSUME PInv, NEW r \in Requests, ImportGet(r)
  PROVE  PInv'
  <1> DEFINE i == reqs[r].id
  <1>1. PICK p : /\ Continues(r, p) /\ p # Idle /\ p.id = i /\ p.pc = "apply"
                 /\ Knows(p, p.id)
    BY ImportGetGoesOn
  <1>2. RequestStep(r, p) /\ UNCHANGED <<store, collector, disturbed, undeleted>>
    BY <1>1 DEF RequestStep, ImportGet, marks
  <1>3. StoreTyped' /\ CollectorTyped' /\ NeighborsHaveOwners'
    BY <1>2 DEF store, collector, PInv, TypesOK, StoreTyped, CollectorTyped, NeighborsHaveOwners, Peer
  <1>4. \A j \in Ids : Agree(j) => Agree(j)'
    BY <1>2 DEF store, collector, Agree
  <1>5. ASSUME NEW j \in Ids \ disturbed' PROVE PeerOK(j)'
    <2>1. CASE j = i
      <3>1. Agree(j)
        BY <1>2, <1>5, <2>1, OwnPeer DEF ImportGet
      <3>2. Knows(p, j)'
        BY <1>1, <1>2, <2>1 DEF Knows, store, collector
      <3> QED
        BY <1>2, <1>4, <2>1, <3>1, <3>2, SamePeer
    <2>2. CASE j # i
      BY <1>2, <1>4, <2>2, OtherPeer DEF store, collector
    <2> QED
      BY <2>1, <2>2
  <1> QED
    BY <1>2, <1>3, <1>5, StepKeeps

\* A request that returns without having changed anything.
LEMMA GivesUp ==
  ASSUME PInv, NEW r \in Requests, reqs[r] # Idle, reqs[r].pc \notin {"upsert", "forget"},
         reqs' = [reqs EXCEPT ![r] = Idle],
         UNCHANGED <<store, collector, process, pending, callback, marks>>
  PROVE  PInv'
  <1> DEFINE i == reqs[r].id
  <1>1. RequestStep(r, Idle)
    BY DEF RequestStep, Continues, marks
  <1>2. StoreTyped' /\ CollectorTyped' /\ NeighborsHaveOwners'
    BY DEF store, collector, marks, PInv, TypesOK, StoreTyped, Peer, CollectorTyped, NeighborsHaveOwners
  <1>3. \A j \in Ids : Agree(j) => Agree(j)'
    BY DEF Agree, store, collector, marks
  <1>4. ASSUME NEW j \in Ids \ disturbed' PROVE PeerOK(j)'
    <2>1. CASE j = i
      <3>1. Agree(j)
        BY <1>4, <2>1, OwnPeer DEF marks
      <3> QED
        BY <1>1, <1>3, <2>1, <3>1, SamePeer
    <2>2. CASE j # i
      BY <1>1, <1>3, <2>2, OtherPeer DEF store, collector
    <2> QED
      BY <2>1, <2>2
  <1> QED
    BY <1>1, <1>2, <1>4, StepKeeps

LEMMA ApplyKeeps ==
  ASSUME PInv, NEW r \in Requests, ApplyPeer(r)
  PROVE  PInv'
  <1> DEFINE i == reqs[r].id
             c == reqs[r].config
  <1>0. /\ reqs[r] # Idle /\ reqs[r].pc = "apply"
        /\ UNCHANGED <<collector, process, pending, callback, disturbed, undeleted>>
    BY DEF ApplyPeer, marks
  <1>1. CASE UNCHANGED store /\ reqs' = [reqs EXCEPT ![r] = Idle]
    BY <1>0, <1>1, GivesUp DEF marks
  <1>2. CASE StorePeer(i, c) /\ reqs' = [reqs EXCEPT ![r].pc = "upsert", ![r].expected = 0]
    <2>1. PICK p : Continues(r, p) /\ p # Idle /\ p.id = i /\ p.pc = "upsert" /\ p.config = c
      BY <1>0, <1>2, ApplyGoesOn
    <2>2. RequestStep(r, p)
      BY <1>0, <2>1 DEF RequestStep
    <2>3. i \in Ids /\ c \in Config /\ c # Absent
      BY <1>0, UnderWay, AbsentAssumption
    <2> HIDE DEF i, c
    <2>4. /\ StoreTyped' /\ rev' > 0
          /\ \A j \in Ids \ {i} : peers'[j] = peers[j]
          /\ peers'[i] # Absent /\ peers'[i].config = c
      BY <1>2, <2>3, StoreOne
    <2>5. CollectorTyped' /\ NeighborsHaveOwners'
      BY <1>0 DEF collector, PInv, TypesOK, CollectorTyped, NeighborsHaveOwners
    <2>6. ASSUME NEW j \in Ids \ disturbed' PROVE PeerOK(j)'
      <3>1. CASE j = i
        <4>1. Knows(p, j)'
          BY <2>1, <2>4, <3>1 DEF Knows
        <4> QED
          BY <2>1, <2>2, <3>1, <4>1, SamePeer DEF i
      <3>2. CASE j # i
        <4>1. peers'[j] = peers[j]
          BY <2>4, <3>2
        <4>2. Agree(j) => Agree(j)'
          BY <1>0, <4>1 DEF Agree, collector
        <4> QED
          BY <1>0, <2>2, <3>2, <4>1, <4>2, OtherPeer DEF collector, i
      <3> QED
        BY <3>1, <3>2
    <2> QED
      BY <2>2, <2>4, <2>5, <2>6, StepKeeps
  <1> QED
    BY <1>1, <1>2 DEF ApplyPeer

LEMMA UpsertKeeps ==
  ASSUME PInv, NEW r \in Requests, UpsertPeer(r)
  PROVE  PInv'
  <1> DEFINE i == reqs[r].id
             c == reqs[r].config
  <1>1. PICK p \in Following(reqs[r]) \cup {Idle} :
          /\ reqs' = [reqs EXCEPT ![r] = p]
          /\ Upserted(i, c) \/ Refused(i, c)
    BY DEF UpsertPeer
  <1>2. reqs[r] # Idle /\ reqs[r].pc = "upsert" /\ UNCHANGED <<store, process, pending, callback>>
    BY DEF UpsertPeer
  <1>3. Continues(r, p) /\ (p # Idle => p.pc \in {"get", "delete"})
    BY <1>1, <1>2, GoesOn
  <1>4. i \in Ids /\ c \in Config
    BY <1>2, UnderWay
  <1>5. /\ CollectorTyped' /\ NeighborsHaveOwners' /\ disturbed \subseteq disturbed'
        /\ OthersAgree(i)
    BY <1>1, <1>4, UpsertedOK, RefusedOK
  <1>6. RequestStep(r, p)
    BY <1>2, <1>3, <1>5 DEF RequestStep
  <1>7. StoreTyped'
    BY <1>2 DEF store, PInv, TypesOK, StoreTyped, Peer
  <1>8. ASSUME NEW j \in Ids \ disturbed' PROVE PeerOK(j)'
    <2>1. CASE j = i
      <3>1. /\ i \in DOMAIN cpeers' /\ cpeers'[i] = c
            /\ Canon[c.addr] \in DOMAIN neighbors' /\ neighbors'[Canon[c.addr]] = i
            /\ c.addr \in DOMAIN byAddress' /\ byAddress'[c.addr] = i
        BY <1>1, <1>4, <2>1, UpsertedOK, RefusedOK
      <3>2. peers[i] # Absent /\ peers[i].config = c
        BY <1>2, <1>5, <2>1, OwnPeer DEF Knows
      <3>3. Agree(j)'
        BY <1>2, <2>1, <3>1, <3>2 DEF Agree, store
      <3>4. p # Idle => Knows(p, j)'
        BY <1>3 DEF Knows
      <3> QED
        BY <1>6, <2>1, <3>3, <3>4, SamePeer
    <2>2. CASE j # i
      <3>1. peers'[j] = peers[j]
        BY <1>2 DEF store
      <3> QED
        BY <1>5, <1>6, <2>2, <3>1, OtherPeer DEF OthersAgree
    <2> QED
      BY <2>1, <2>2
  <1> QED
    BY <1>2, <1>5, <1>6, <1>7, <1>8, StepKeeps

LEMMA RemoveKeeps ==
  ASSUME PInv, NEW r \in Requests, RemovePeer(r)
  PROVE  PInv'
  <1> DEFINE i == reqs[r].id
  <1>1. reqs[r] # Idle /\ reqs[r].pc = "delete" /\ UNCHANGED <<store, process, pending, callback>>
    BY DEF RemovePeer
  <1>2. i \in Ids
    BY <1>1, UnderWay
  <1>3. StoreTyped' /\ peers' = peers
    BY <1>1 DEF store, PInv, TypesOK, StoreTyped, Peer
  <1>4. CASE Deleted(i) /\ reqs' = [reqs EXCEPT ![r].pc = "forget"]
    <2>1. PICK p : Continues(r, p) /\ p # Idle /\ p.id = i /\ p.pc = "forget"
      BY <1>1, <1>4, RemoveGoesOn
    <2>2. /\ CollectorTyped' /\ NeighborsHaveOwners' /\ disturbed \subseteq disturbed'
          /\ OthersAgree(i) /\ i \notin DOMAIN cpeers'
      BY <1>2, <1>4, DeletedOK
    <2>3. RequestStep(r, p)
      BY <1>1, <2>1, <2>2 DEF RequestStep
    <2>4. ASSUME NEW j \in Ids \ disturbed' PROVE PeerOK(j)'
      <3>1. CASE j = i
        <4>1. Knows(p, j)'
          BY <2>1, <2>2, <3>1 DEF Knows
        <4> QED
          BY <2>1, <2>3, <3>1, <4>1, SamePeer
      <3>2. CASE j # i
        BY <1>3, <2>2, <2>3, <3>2, OtherPeer DEF OthersAgree
      <3> QED
        BY <3>1, <3>2
    <2> QED
      BY <1>1, <1>3, <2>2, <2>3, <2>4, StepKeeps
  <1>5. CASE reqs' = [reqs EXCEPT ![r] = Idle] /\ UNCHANGED <<collector, marks>>
    BY <1>1, <1>5, GivesUp
  <1> QED
    BY <1>4, <1>5 DEF RemovePeer

LEMMA ForgetKeeps ==
  ASSUME PInv, NEW r \in Requests, ForgetPeer(r)
  PROVE  PInv'
  <1> DEFINE i == reqs[r].id
  <1>1. /\ reqs[r] # Idle /\ reqs[r].pc = "forget"
        /\ UNCHANGED <<collector, process, pending, callback, disturbed>>
    BY DEF ForgetPeer
  <1>2. i \in Ids
    BY <1>1, UnderWay
  <1>3. i \notin disturbed => i \notin DOMAIN cpeers
    BY <1>1, OwnPeer DEF Knows
  <1>4. CASE /\ StorePeer(i, Absent) /\ UNCHANGED undeleted
             /\ \E p \in Following(reqs[r]) : reqs' = [reqs EXCEPT ![r] = p]
    <2>1. PICK p \in Following(reqs[r]) \cup {Idle} : reqs' = [reqs EXCEPT ![r] = p]
      BY <1>4
    <2>2. Continues(r, p) /\ (p # Idle => p.pc \in {"get", "delete"})
      BY <1>1, <2>1, GoesOn
    <2>3. /\ StoreTyped' /\ rev' > 0
          /\ \A j \in Ids \ {i} : peers'[j] = peers[j]
          /\ peers'[i] = Absent
      BY <1>2, <1>4, StoreOne
    <2>4. RequestStep(r, p)
      BY <1>1, <2>2 DEF RequestStep
    <2>5. CollectorTyped' /\ NeighborsHaveOwners'
      BY <1>1, <1>4 DEF collector, PInv, TypesOK, CollectorTyped, NeighborsHaveOwners
    <2>6. ASSUME NEW j \in Ids \ disturbed' PROVE PeerOK(j)'
      <3>1. CASE j = i
        <4>1. Agree(j)'
          BY <1>1, <1>3, <2>3, <2>6, <3>1 DEF Agree, collector
        <4>2. p # Idle => Knows(p, j)'
          BY <2>2 DEF Knows
        <4> QED
          BY <2>4, <3>1, <4>1, <4>2, SamePeer
      <3>2. CASE j # i
        <4>1. Agree(j) => Agree(j)'
          BY <1>1, <1>4, <2>3, <3>2 DEF Agree, collector
        <4> QED
          BY <1>1, <2>3, <2>4, <3>2, <4>1, OtherPeer DEF collector
      <3> QED
        BY <3>1, <3>2
    <2> QED
      BY <2>3, <2>4, <2>5, <2>6, StepKeeps
  <1>5. CASE /\ reqs' = [reqs EXCEPT ![r] = Idle] /\ undeleted' = undeleted \cup {i}
             /\ UNCHANGED store
    <2>1. RequestStep(r, Idle)
      BY <1>1, <1>5 DEF RequestStep, Continues
    <2>2. StoreTyped' /\ CollectorTyped' /\ NeighborsHaveOwners'
      BY <1>1, <1>2, <1>5 DEF store, collector, PInv, TypesOK, StoreTyped, Peer, CollectorTyped,
                              NeighborsHaveOwners
    <2>3. ASSUME NEW j \in Ids \ disturbed' PROVE PeerOK(j)'
      <3>1. CASE j = i
        <4>1. Agree(j)'
          BY <1>1, <1>3, <1>5, <2>3, <3>1 DEF Agree, collector
        <4> QED
          BY <2>1, <3>1, <4>1, SamePeer
      <3>2. CASE j # i
        <4>1. Agree(j) => Agree(j)'
          BY <1>1, <1>5 DEF Agree, store, collector
        <4> QED
          BY <1>1, <1>5, <2>1, <3>2, <4>1, OtherPeer DEF store, collector
      <3> QED
        BY <3>1, <3>2
    <2> QED
      BY <1>5, <2>1, <2>2, <2>3, StepKeeps
  <1> QED
    BY <1>4, <1>5 DEF ForgetPeer

-----------------------------------------------------------------------------
(* The handlers and the callbacks.                                          *)

\* Outside the bootstrap only the store matters to BootOK.
LEMMA BootKept ==
  ASSUME PInv, main' = "serving", booted' = booted, UNCHANGED store \/ (StoreTyped' /\ rev' > 0)
  PROVE  BootOK'
  <1>1. rev \in Nat /\ (StoreTyped' /\ rev' > 0 => rev' # 0)
    BY DEF PInv, TypesOK, StoreTyped
  <1> QED
    BY <1>1 DEF store, PInv, BootOK

\* A new request disturbs the peers somebody else is at.
LEMMA BeginKeeps ==
  ASSUME PInv, NEW r \in Requests, NEW q, Fresh(q), Begin(r, q)
  PROVE  PInv'
  <1>1. /\ main = "serving" /\ reqs[r] = Idle /\ q \in Req
        /\ reqs' = [reqs EXCEPT ![r] = q]
        /\ disturbed' = disturbed \cup {i \in Touches(q) : Busy(i, Requests \ {r})}
        /\ UNCHANGED <<store, collector, process, pending, callback, undeleted>>
    BY DEF Begin, Fresh
  <1>2. /\ q # Idle /\ q.id \in Touches(q) /\ q.id \in Ids /\ Touches(q) \subseteq Ids
    BY <1>1, RequestTouches
  <1>3. reqs'[r] = q /\ \A s \in Requests \ {r} : reqs'[s] = reqs[s]
    BY <1>1 DEF PInv, TypesOK, ReqsTyped
  <1>4. TypesOK'
    <2>1. StoreTyped' /\ CallbackTyped' /\ ProcessTyped'
      BY <1>1 DEF store, process, PInv, TypesOK, StoreTyped, Peer, CallbackTyped, ProcessTyped
    <2>2. CollectorTyped'
      BY <1>1, <1>2 DEF collector, PInv, TypesOK, CollectorTyped
    <2>3. q.pc \in {"get", "apply", "upsert"} => q.config \in Config
      BY DEF Fresh
    <2>4. ReqsTyped'
      BY <1>1, <1>3, <2>3 DEF PInv, TypesOK, ReqsTyped
    <2> QED
      BY <2>1, <2>2, <2>4 DEF TypesOK
  <1>5. BootOK' /\ NeighborsHaveOwners'
    <2>1. BootOK'
      BY <1>1, BootKept DEF process, store
    <2>2. NeighborsHaveOwners'
      BY <1>1 DEF PInv, collector, NeighborsHaveOwners
    <2> QED
      BY <2>1, <2>2
  <1>6. ASSUME NEW j \in Ids \ disturbed' PROVE PeerOK(j)'
    <2>1. PeerOK(j)
      BY <1>1, <1>6 DEF PInv, PeersOK
    <2>2. \A s \in Requests : Touches(reqs[s])' = Touches(reqs'[s])
      BY DEF Touches
    <2>3. j \in Touches(q) => /\ \A s \in Requests \ {r} : j \notin Touches(reqs[s])
                              /\ callback # Idle => callback.id # j
      BY <1>1, <1>6 DEF Busy
    <2>4. Alone(j)'
      BY <1>1, <1>3, <2>1, <2>2, <2>3 DEF PeerOK, Alone
    <2>5. (\A s \in Requests : ~Halfway(s, j)') => Agree(j)'
      BY <1>1, <1>3, <2>1 DEF PeerOK, Halfway, Agree, store, collector
    <2>6. ASSUME NEW s \in Requests, reqs'[s] # Idle, reqs'[s].id = j PROVE Knows(reqs[s], j)'
      <3>1. Knows(reqs'[s], j)
        BY <1>3, <2>1, <2>6 DEF PeerOK, Fresh
      <3> QED
        BY <1>1, <3>1 DEF Knows, store, collector
    <2>7. callback' = callback /\ peers' = peers
      BY <1>1 DEF store
    <2> QED
      BY <2>1, <2>4, <2>5, <2>6, <2>7 DEF PeerOK
  <1> QED
    BY <1>4, <1>5, <1>6 DEF PInv, PeersOK

\* An event that is still to be reported changes nothing.
LEMMA EventKeeps ==
  ASSUME PInv, main = "serving", pending' \subseteq Addrs,
         UNCHANGED <<store, collector, process, callback, reqs, marks>>
  PROVE  PInv'
  <1>1. TypesOK'
    BY DEF store, collector, process, marks, PInv, TypesOK, StoreTyped, Peer, CollectorTyped, ReqsTyped,
           CallbackTyped, ProcessTyped
  <1>2. BootOK' /\ NeighborsHaveOwners'
    <2>1. BootOK'
      BY BootKept DEF process, store
    <2>2. NeighborsHaveOwners'
      BY DEF PInv, collector, NeighborsHaveOwners
    <2> QED
      BY <2>1, <2>2
  <1>3. PeersOK'
    BY DEF PInv, PeersOK, PeerOK, Alone, Touches, Halfway, Agree, Knows, store, collector, process,
           marks
  <1> QED
    BY <1>1, <1>2, <1>3 DEF PInv

\* A step that changes the callback and leaves the requests and the collector alone.
CallbackStep ==
    /\ main = "serving"
    /\ pending' \subseteq Addrs
    /\ disturbed \subseteq disturbed' /\ disturbed' \subseteq Ids
    /\ UNCHANGED <<collector, process, reqs, undeleted>>

LEMMA CallbackKeeps ==
  ASSUME PInv, CallbackStep, StoreTyped',
         UNCHANGED store \/ rev' > 0,
         callback' \in Call \cup {Idle},
         callback' # Idle /\ callback'.pc = "apply" => callback'.config \in Config,
         \A j \in Ids \ disturbed' : PeerOK(j)'
  PROVE  PInv'
  <1>1. TypesOK'
    BY DEF CallbackStep, collector, process, PInv, TypesOK, CollectorTyped, ReqsTyped,
           CallbackTyped, ProcessTyped
  <1>2. BootOK' /\ NeighborsHaveOwners'
    <2>1. BootOK'
      BY BootKept DEF CallbackStep, process, store
    <2>2. NeighborsHaveOwners'
      BY DEF PInv, CallbackStep, collector, NeighborsHaveOwners
    <2> QED
      BY <2>1, <2>2
  <1> QED
    BY <1>1, <1>2 DEF PInv, PeersOK

\* The callback gets the peer as the collector has it, which is as it is stored.
LEMMA PeerForAddressKeeps ==
  ASSUME PInv, NEW a \in Addrs, NEW pc \in {"get", "apply"}, PeerForAddress(a, pc)
  PROVE  PInv'
  <1>1. /\ main = "serving" /\ callback = Idle /\ pending' \subseteq Addrs
        /\ UNCHANGED <<store, collector, process, reqs, undeleted>>
    BY DEF PeerForAddress, PInv, TypesOK, CallbackTyped
  <1>2. CASE a \in DOMAIN byAddress /\ byAddress[a] \in DOMAIN cpeers
    <2> DEFINE i == byAddress[a]
               c == IF pc = "apply" THEN cpeers[i] ELSE Absent
    <2>1. i \in Ids /\ i \in DOMAIN cpeers /\ c \in Config \cup {Absent}
          /\ (pc = "apply" => c \in Config /\ c = cpeers[i])
      BY <1>2 DEF PInv, TypesOK, CollectorTyped
    <2>2. /\ callback' = [id |-> i, pc |-> pc, config |-> c]
          /\ disturbed' = disturbed \cup {k \in {i} : Busy(k, Requests)}
      BY <1>2 DEF PeerForAddress
    <2> HIDE DEF i, c
    <2>3. /\ callback' \in Call /\ callback'.id = i /\ callback'.pc = pc
          /\ callback'.config = c
      BY <2>1, <2>2 DEF Call
    <2>4. callback' # Idle
      BY <2>3, IdleAssumption
    <2>5. CallbackStep
      BY <1>1, <2>1, <2>2 DEF CallbackStep, PInv, TypesOK, CollectorTyped
    <2>6. StoreTyped'
      BY <1>1 DEF store, PInv, TypesOK, StoreTyped, Peer
    <2>7. ASSUME NEW j \in Ids \ disturbed' PROVE PeerOK(j)'
      <3>1. PeerOK(j) /\ reqs' = reqs /\ peers' = peers
        BY <1>1, <2>2, <2>7 DEF PInv, PeersOK, store
      <3>2. \A s \in Requests : Touches(reqs[s])' = Touches(reqs[s])
        BY <1>1 DEF Touches
      <3>3. j = i => \A s \in Requests : j \notin Touches(reqs[s])
        BY <2>2, <2>7 DEF Busy
      <3>4. Alone(j)'
        BY <2>3, <3>1, <3>2, <3>3 DEF PeerOK, Alone
      <3>5. Agree(j)' <=> Agree(j)
        BY <1>1 DEF Agree, store, collector
      <3>6. \A s \in Requests : (Knows(reqs[s], j)' <=> Knows(reqs[s], j))
                               /\ (Halfway(s, j)' <=> Halfway(s, j))
        BY <1>1 DEF Knows, Halfway, store, collector
      <3>7. ASSUME j = i, pc = "apply" PROVE peers[j] # Absent /\ peers[j].config = c
        <4>1. ASSUME NEW s \in Requests PROVE ~Halfway(s, j)
          BY <3>3, <3>7, UnderWay DEF Halfway
        <4>2. Agree(j)
          BY <3>1, <4>1 DEF PeerOK
        <4> QED
          BY <2>1, <3>7, <4>2 DEF Agree
      <3> QED
        BY <2>3, <2>4, <3>1, <3>4, <3>5, <3>6, <3>7 DEF PeerOK
    <2> QED
      BY <1>1, <2>1, <2>3, <2>5, <2>6, <2>7, CallbackKeeps
  <1>3. CASE ~(a \in DOMAIN byAddress /\ byAddress[a] \in DOMAIN cpeers)
    BY <1>1, <1>3, EventKeeps DEF PeerForAddress, marks
  <1> QED
    BY <1>2, <1>3

LEMMA GetRejectedKeeps ==
  ASSUME PInv, GetRejected
  PROVE  PInv'
  <1> DEFINE i == callback.id
  <1>1. /\ main = "serving" /\ callback # Idle /\ callback \in Call /\ i \in Ids
        /\ UNCHANGED <<store, collector, process, reqs, pending, disturbed, undeleted>>
    BY DEF GetRejected, marks, PInv, BootOK, TypesOK, CallbackTyped, Call
  <1>2. CallbackStep /\ StoreTyped'
    BY <1>1 DEF CallbackStep, PInv, TypesOK, CollectorTyped, CallbackTyped, StoreTyped, store, Peer
  <1>3. /\ callback' \in Call \cup {Idle}
        /\ callback' # Idle => /\ callback'.id = i /\ callback'.config \in Config
                               /\ peers[i] # Absent /\ peers[i].config = callback'.config
    <2>1. CASE peers[i] = Absent
      BY <2>1 DEF GetRejected
    <2>2. CASE peers[i] # Absent
      <3> DEFINE c == peers[i].config
      <3>1. c \in Config
        BY <1>1, <2>2 DEF PInv, TypesOK, StoreTyped
      <3>2. callback' = [callback EXCEPT !.config = c, !.pc = "apply"]
        BY <2>2 DEF GetRejected
      <3> HIDE DEF c
      <3>3. callback' \in Call /\ callback'.id = callback.id /\ callback'.config = c
        BY <1>1, <3>1, <3>2 DEF Call
      <3> QED
        BY <2>2, <3>1, <3>3 DEF c
    <2> QED
      BY <2>1, <2>2
  <1>4. ASSUME NEW j \in Ids \ disturbed' PROVE PeerOK(j)'
    <2>1. PeerOK(j) /\ peers' = peers /\ reqs' = reqs
      BY <1>1, <1>4 DEF PInv, PeersOK, store
    <2>2. \A s \in Requests : Touches(reqs[s])' = Touches(reqs[s])
      BY <1>1 DEF Touches
    <2>3. Alone(j)'
      BY <1>1, <1>3, <2>1, <2>2 DEF PeerOK, Alone
    <2>4. Agree(j)' <=> Agree(j)
      BY <1>1 DEF Agree, store, collector
    <2>5. \A s \in Requests : (Knows(reqs[s], j)' <=> Knows(reqs[s], j))
                             /\ (Halfway(s, j)' <=> Halfway(s, j))
      BY <1>1 DEF Knows, Halfway, store, collector
    <2> QED
      BY <1>3, <2>1, <2>3, <2>4, <2>5 DEF PeerOK
  <1> QED
    BY <1>1, <1>2, <1>3, <1>4, CallbackKeeps

\* What the callback stores, if it does, is what is stored already.
LEMMA StoreCallbackKeeps ==
  ASSUME PInv, StoreCallback
  PROVE  PInv'
  <1> DEFINE i == callback.id
             c == callback.config
  <1>1. /\ main = "serving" /\ callback # Idle /\ callback.pc = "apply" /\ callback' = Idle
        /\ i \in Ids /\ c \in Config /\ (StorePeer(i, c) \/ UNCHANGED store)
        /\ UNCHANGED <<collector, process, reqs, pending, disturbed, undeleted>>
    BY DEF StoreCallback, marks, PInv, BootOK, TypesOK, CallbackTyped, Call
  <1>2. c # Absent
    BY <1>1, AbsentAssumption
  <1>3. CallbackStep
    BY <1>1 DEF CallbackStep, PInv, TypesOK, CollectorTyped, CallbackTyped
  <1> HIDE DEF i, c
  <1>4. /\ StoreTyped' /\ (UNCHANGED store \/ rev' > 0)
        /\ \A j \in Ids \ {i} : peers'[j] = peers[j]
        /\ peers'[i] = peers[i] \/ (peers'[i] # Absent /\ peers'[i].config = c)
    <2>1. CASE StorePeer(i, c)
      BY <1>1, <1>2, <2>1, StoreOne
    <2>2. CASE UNCHANGED store
      BY <2>2 DEF store, PInv, TypesOK, StoreTyped, Peer
    <2> QED
      BY <1>1, <2>1, <2>2
  <1>5. ASSUME NEW j \in Ids \ disturbed' PROVE PeerOK(j)'
    <2>1. PeerOK(j)
      BY <1>1, <1>5 DEF PInv, PeersOK
    <2>2. \A s \in Requests : Touches(reqs[s])' = Touches(reqs[s])
      BY <1>1 DEF Touches
    <2>3. Alone(j)'
      BY <1>1, <2>1, <2>2 DEF PeerOK, Alone
    <2>4. /\ peers'[j] = Absent <=> peers[j] = Absent
          /\ peers[j] # Absent => peers'[j].config = peers[j].config
      <3>1. CASE j = i
        BY <1>1, <1>4, <2>1, <3>1 DEF PeerOK, i, c
      <3>2. CASE j # i
        BY <1>4, <3>2
      <3> QED
        BY <3>1, <3>2
    <2>5. Agree(j)' <=> Agree(j)
      BY <1>1, <2>4 DEF Agree, collector
    <2>6. \A s \in Requests : (Knows(reqs[s], j)' <=> Knows(reqs[s], j))
                             /\ (Halfway(s, j)' <=> Halfway(s, j))
      BY <1>1, <2>4 DEF Knows, Halfway, collector
    <2> QED
      BY <1>1, <2>1, <2>3, <2>5, <2>6 DEF PeerOK
  <1> QED
    BY <1>1, <1>3, <1>4, <1>5, CallbackKeeps

-----------------------------------------------------------------------------
(* The process.                                                             *)

\* A crash, a shutdown or a failed start.
LEMMA DownKeeps ==
  ASSUME PInv, Down, UNCHANGED store,
         booted' = booted \/ (booted' = TRUE /\ (rev > 0 \/ Yaml = <<>>))
  PROVE  PInv'
  <1>1. /\ main' = "down" /\ booting' = <<>> /\ cpeers' = NoMap /\ byAddress' = NoMap
        /\ neighbors' = NoMap /\ pending' = {} /\ callback' = Idle
        /\ disturbed' = {} /\ undeleted' = {}
        /\ reqs' = [r \in Requests |-> Idle]
    BY DEF Down
  <1>2. StoreTyped' /\ CollectorTyped'
    <2>1. DOMAIN cpeers' = {} /\ DOMAIN byAddress' = {} /\ DOMAIN neighbors' = {}
      BY <1>1 DEF NoMap
    <2>2. CollectorTyped'
      BY <1>1, <2>1 DEF CollectorTyped
    <2>3. StoreTyped'
      BY DEF store, PInv, TypesOK, StoreTyped, Peer
    <2> QED
      BY <2>2, <2>3
  <1>3. ReqsTyped' /\ CallbackTyped'
    <2>1. reqs' \in [Requests -> Req \cup {Idle}] /\ \A r \in Requests : reqs'[r] = Idle
      BY <1>1
    <2>2. ReqsTyped'
      BY <2>1 DEF ReqsTyped
    <2>3. CallbackTyped'
      BY <1>1 DEF CallbackTyped
    <2> QED
      BY <2>2, <2>3
  <1>4. ProcessTyped'
    <2>1. <<>> \in Seq(Item)
      OBVIOUS
    <2>2. booted' \in BOOLEAN
      BY Zenon DEF PInv, TypesOK, ProcessTyped
    <2> QED
      BY <1>1, <2>1, <2>2 DEF ProcessTyped
  <1>5. BootOK'
    BY <1>1 DEF store, PInv, BootOK
  <1>6. NeighborsHaveOwners' /\ PeersOK'
    BY <1>1 DEF NoMap, NeighborsHaveOwners, PeersOK
  <1> QED
    BY <1>2, <1>3, <1>4, <1>5, <1>6 DEF PInv, TypesOK

\* The peers of the file have ids of their own type.
LEMMA ItemPeer ==
  ASSUME NEW s \in Seq(Item), NEW n \in DOMAIN s
  PROVE  /\ s[n].kind \in {"domain", "peer"}
         /\ s[n].kind = "peer" => s[n].id \in Ids /\ s[n].config \in Config
  <1>1. s[n] \in Item
    OBVIOUS
  <1> QED
    BY <1>1 DEF Item

\* A process that starts: the collector and the requests stay as they are.
LEMMA BootsKeep ==
  ASSUME PInv, main \in {"down", "boot"}, main' = "boot", booted' = booted, booting' \in Seq(Item),
         UNCHANGED <<collector, pending, callback, reqs, marks>>,
         StoreTyped', BootOK'
  PROVE  PInv'
  <1>1. CollectorTyped' /\ ReqsTyped' /\ CallbackTyped' /\ ProcessTyped'
    BY DEF collector, marks, PInv, TypesOK, CollectorTyped, ReqsTyped, CallbackTyped, ProcessTyped
  <1>2. NeighborsHaveOwners' /\ PeersOK'
    BY DEF PInv, collector, NeighborsHaveOwners, PeersOK
  <1> QED
    BY <1>1, <1>2 DEF PInv, TypesOK

LEMMA ServeKeeps ==
  ASSUME PInv, Serve
  PROVE  PInv'
  <1>1. /\ main = "down" /\ main' = "boot" /\ booting' = IF rev = 0 THEN Yaml ELSE <<>>
        /\ UNCHANGED <<store, collector, pending, callback, reqs, booted, marks>>
    BY DEF Serve, Uninitialized
  <1>2. Yaml \in Seq(Item) /\ DistinctPeers(Yaml) /\ <<>> \in Seq(Item) /\ rev \in Nat
    BY InputsAssumption DEF PInv, TypesOK, StoreTyped
  <1>3. StoreTyped'
    BY <1>1 DEF store, PInv, TypesOK, StoreTyped, Peer
  <1>4. BootOK'
    <2>1. CASE rev = 0
      <3>1. booting' = Yaml
        BY <1>1, <2>1
      <3>2. \A n \in DOMAIN Yaml : Yaml[n].kind = "peer" => peers[Yaml[n].id] = Absent
        BY <1>2, <2>1, ItemPeer DEF PInv, BootOK
      <3>3. DistinctPeers(booting)'
        BY <1>2, <3>1 DEF DistinctPeers
      <3> QED
        BY <1>1, <2>1, <3>1, <3>2, <3>3 DEF PInv, BootOK, store
    <2>2. CASE rev # 0
      <3>1. booting' = <<>> /\ rev > 0
        BY <1>1, <1>2, <2>2
      <3>2. DistinctPeers(booting)'
        BY <3>1 DEF DistinctPeers
      <3> QED
        BY <1>1, <3>1, <3>2 DEF PInv, BootOK, store
    <2> QED
      BY <2>1, <2>2
  <1> QED
    BY <1>1, <1>2, <1>3, <1>4, BootsKeep

\* The peer a bootstrap stores next is a new one.
LEMMA BootstrapIsNew ==
  ASSUME PInv, Bootstrap
  PROVE  /\ rev \in Nat /\ rev + 1 > 0 /\ ~booted /\ Head(booting) = booting[1] /\ 1 \in DOMAIN booting
         /\ Head(booting).kind = "peer" => /\ Head(booting).id \in Ids
                                           /\ Head(booting).config \in Config
                                           /\ peers[Head(booting).id] = Absent
  <1>1. booting \in Seq(Item) /\ booting # <<>> /\ main = "boot"
    BY DEF PInv, TypesOK, ProcessTyped, Bootstrap
  <1>2. 1 \in DOMAIN booting /\ Head(booting) = booting[1]
    BY <1>1
  <1>3. rev \in Nat /\ rev + 1 > 0
    BY DEF PInv, TypesOK, StoreTyped
  <1> QED
    BY <1>1, <1>2, <1>3, ItemPeer DEF PInv, BootOK

LEMMA BootstrapKeeps ==
  ASSUME PInv, Bootstrap
  PROVE  PInv'
  <1> DEFINE h == Head(booting)
  <1>1. /\ main = "boot" /\ booting # <<>> /\ booting \in Seq(Item) /\ booting' = Tail(booting)
        /\ rev < MaxRev /\ DistinctPeers(booting)
        /\ UNCHANGED <<main, booted, collector, pending, callback, reqs, marks>>
    BY DEF Bootstrap, PInv, TypesOK, ProcessTyped, BootOK
  <1>2. /\ booting' \in Seq(Item)
        /\ \A n \in DOMAIN booting' :
             n + 1 \in DOMAIN booting /\ n + 1 # 1 /\ booting'[n] = booting[n + 1]
        /\ \A m, n \in DOMAIN booting' : m + 1 = n + 1 => m = n
    BY <1>1
  <1>3. DistinctPeers(booting)'
    BY <1>1, <1>2 DEF DistinctPeers
  <1>4. /\ h = booting[1] /\ 1 \in DOMAIN booting /\ ~booted /\ rev \in Nat
        /\ h.kind \in {"domain", "peer"}
        /\ h.kind = "peer" => h.id \in Ids /\ h.config \in Config
    BY <1>1, BootstrapIsNew, ItemPeer
  <1>5. \A n \in DOMAIN booting : booting[n].kind = "peer" =>
                 booting[n].id \in Ids /\ peers[booting[n].id] = Absent
    BY <1>1, ItemPeer DEF PInv, BootOK
  <1>6. StoreTyped' /\ rev' > 0 /\ rev' # 0
        /\ \A j \in Ids : h.kind = "domain" \/ j # h.id => peers'[j] = peers[j]
    <2>1. CASE h.kind = "domain"
      <3>1. rev' = rev + 1 /\ peers' = peers
        BY <2>1 DEF Bootstrap
      <3>2. rev + 1 \in 0..MaxRev /\ 1..rev \subseteq 1..(rev + 1) /\ rev + 1 > 0 /\ rev + 1 # 0
        BY <1>1, <1>4, InputsAssumption
      <3>3. /\ peers \in [Ids -> [config : Config, version : Nat] \cup {Absent}]
            /\ \A i \in Ids : peers[i] # Absent => peers[i] \in [config : Config, version : 1..rev]
        BY DEF PInv, TypesOK, StoreTyped, Peer
      <3> QED
        BY <3>1, <3>2, <3>3 DEF StoreTyped, Peer
    <2>2. CASE h.kind = "peer"
      <3>1. StorePeer(h.id, h.config)
        BY <2>2 DEF Bootstrap
      <3> HIDE DEF h
      <3>2. StoreTyped' /\ rev' > 0 /\ \A j \in Ids \ {h.id} : peers'[j] = peers[j]
        BY <1>4, <2>2, <3>1, StoreOne
      <3>3. rev' # 0
        BY <3>2
      <3> QED
        BY <2>2, <3>2, <3>3
    <2> QED
      BY <1>4, <2>1, <2>2
  <1>7. ASSUME NEW n \in DOMAIN booting', booting'[n].kind = "peer"
        PROVE  peers'[booting'[n].id] = Absent
    <2>1. /\ booting'[n] = booting[n + 1] /\ n + 1 \in DOMAIN booting /\ n + 1 # 1
          /\ booting[n + 1].id \in Ids /\ peers[booting[n + 1].id] = Absent
      BY <1>2, <1>5, <1>7
    <2>2. h.kind = "domain" \/ booting[n + 1].id # h.id
      BY <1>1, <1>4, <1>7, <2>1 DEF DistinctPeers
    <2> QED
      BY <1>6, <2>1, <2>2
  <1>8. BootOK'
    BY <1>1, <1>3, <1>4, <1>6, <1>7 DEF PInv, BootOK
  <1> QED
    BY <1>1, <1>2, <1>6, <1>8, BootsKeep

\* Collector.Start: every stored peer has its address to itself.
LEMMA StartKeeps ==
  ASSUME PInv, Start
  PROVE  PInv'
  <1> DEFINE text(i) == peers[i].config.addr
  <1>1. /\ main = "boot" /\ booting = <<>> /\ main' = "serving" /\ booted' = TRUE
        /\ cpeers' = [i \in Stored |-> peers[i].config]
        /\ byAddress' = [t \in {text(i) : i \in Stored} |-> ByText(t)]
        /\ neighbors' = [a \in {Canon[text(i)] : i \in Stored} |-> ByCanon(a)]
        /\ UNCHANGED <<store, booting, pending, callback, reqs, disturbed, undeleted>>
    BY DEF Start, marks
  <1>2. \A i, j \in Stored : Canon[text(i)] = Canon[text(j)] => i = j
    BY DEF Start, Clash
  <1>3. /\ Stored \subseteq Ids
        /\ \A i \in Stored : peers[i].config \in Config
        /\ \A i \in Ids : i \in Stored <=> peers[i] # Absent
    BY DEF Stored, PInv, TypesOK, StoreTyped
  <1>4. \A i \in Stored : text(i) \in Addrs /\ Canon[text(i)] \in Addrs
    BY <1>3, CanonOK DEF Config
  <1>5. \A i \in Stored : /\ ByText(text(i)) \in Stored /\ text(ByText(text(i))) = text(i)
                          /\ ByCanon(Canon[text(i)]) \in Stored
                          /\ Canon[text(ByCanon(Canon[text(i)]))] = Canon[text(i)]
    BY DEF ByText, ByCanon
  <1>6. \A i \in Stored : ByText(text(i)) = i /\ ByCanon(Canon[text(i)]) = i
    BY <1>2, <1>5
  <1>7. /\ DOMAIN cpeers' = Stored /\ \A i \in Stored : cpeers'[i] = peers[i].config
        /\ \A i \in Stored : /\ text(i) \in DOMAIN byAddress' /\ byAddress'[text(i)] = i
                             /\ Canon[text(i)] \in DOMAIN neighbors' /\ neighbors'[Canon[text(i)]] = i
        /\ \A t \in DOMAIN byAddress' : \E i \in Stored : t = text(i)
        /\ \A a \in DOMAIN neighbors' : \E i \in Stored : a = Canon[text(i)]
    BY <1>1, <1>6
  <1>8. TypesOK'
    <2>1. CollectorTyped'
      BY <1>1, <1>3, <1>4, <1>7 DEF CollectorTyped, PInv, TypesOK
    <2>2. StoreTyped'
      BY <1>1 DEF store, PInv, TypesOK, StoreTyped, Peer
    <2>3. ReqsTyped' /\ CallbackTyped' /\ ProcessTyped'
      BY <1>1 DEF PInv, TypesOK, ReqsTyped, CallbackTyped, ProcessTyped
    <2> QED
      BY <2>1, <2>2, <2>3 DEF TypesOK
  <1>9. BootOK'
    BY <1>1 DEF PInv, BootOK, store
  <1>10. NeighborsHaveOwners'
    BY <1>7 DEF NeighborsHaveOwners
  <1>11. ASSUME NEW j \in Ids PROVE PeerOK(j)'
    <2>1. callback' = Idle /\ \A r \in Requests : reqs'[r] = Idle
      BY <1>1 DEF PInv, BootOK
    <2>2. Agree(j)'
      BY <1>1, <1>3, <1>7 DEF Agree, store
    <2> QED
      BY <2>1, <2>2 DEF PeerOK, Alone, Touches
  <1> QED
    BY <1>8, <1>9, <1>10, <1>11 DEF PInv, PeersOK

-----------------------------------------------------------------------------
(* The invariant and what follows from it.                                  *)

LEMMA PInvInit ==
  ASSUME Init
  PROVE  PInv
  <1>1. TypesOK
    <2>1. DOMAIN cpeers = {} /\ DOMAIN byAddress = {} /\ DOMAIN neighbors = {}
      BY DEF Init, NoMap
    <2>2. CollectorTyped
      BY <2>1 DEF Init, CollectorTyped
    <2>3. StoreTyped
      BY InputsAssumption DEF Init, StoreTyped
    <2>4. ReqsTyped /\ CallbackTyped
      <3>1. reqs \in [Requests -> Req \cup {Idle}] /\ \A r \in Requests : reqs[r] = Idle
        BY DEF Init
      <3>2. ReqsTyped
        BY <3>1 DEF ReqsTyped
      <3>3. CallbackTyped
        BY DEF Init, CallbackTyped
      <3> QED
        BY <3>2, <3>3
    <2>5. ProcessTyped
      <3>1. <<>> \in Seq(Item)
        OBVIOUS
      <3> QED
        BY <3>1, Zenon DEF Init, ProcessTyped
    <2> QED
      BY <2>2, <2>3, <2>4, <2>5 DEF TypesOK
  <1>2. BootOK /\ NeighborsHaveOwners /\ PeersOK
    BY DEF Init, NoMap, BootOK, NeighborsHaveOwners, PeersOK
  <1> QED
    BY <1>1, <1>2 DEF PInv

LEMMA PInvNext ==
  ASSUME PInv, [Next]_peerVars
  PROVE  PInv'
  <1>1. ASSUME NEW r \in Requests,
               \/ \E i \in Ids : \/ \E c \in Configs : CreatePeer(r, i, c) \/ UpdatePeer(r, i, c)
                                 \/ SetPeerAdminState(r, i)
                                 \/ DeletePeer(r, i)
               \/ \E m \in Imports : ImportPeerConfig(r, m)
        PROVE  PInv'
    BY <1>1, HandlersBegin, BeginKeeps
  <1>2. ASSUME NEW i \in Ids, ResetPeer(i) PROVE PInv'
    <2>1. Canon[cpeers[i].addr] \in Addrs /\ pending \subseteq Addrs
      BY <1>2 DEF ResetPeer, CanDelete, PInv, TypesOK, CollectorTyped, CallbackTyped
    <2> QED
      BY <1>2, <2>1, EventKeeps DEF ResetPeer
  <1>3. ASSUME NEW a \in Addrs, SessionEvent(a) PROVE PInv'
    <2>1. pending \subseteq Addrs
      BY DEF PInv, TypesOK, CallbackTyped
    <2> QED
      BY <1>3, <2>1, EventKeeps DEF SessionEvent
  <1>4. ASSUME NEW r \in Requests,
               ImportGet(r) \/ ApplyPeer(r) \/ UpsertPeer(r) \/ RemovePeer(r) \/ ForgetPeer(r)
        PROVE  PInv'
    BY <1>4, ImportGetKeeps, ApplyKeeps, UpsertKeeps, RemoveKeeps, ForgetKeeps
  <1>5. ASSUME NEW a \in Addrs, NEW pc \in {"get", "apply"}, PeerForAddress(a, pc) PROVE PInv'
    BY <1>5, PeerForAddressKeeps
  <1>6. CASE GetRejected \/ StoreCallback
    BY <1>6, GetRejectedKeeps, StoreCallbackKeeps
  <1>7. CASE Crash
    BY <1>7, DownKeeps DEF Crash
  <1>8. CASE StartFails
    <2>1. rev > 0 \/ Yaml = <<>>
      BY <1>8 DEF StartFails, PInv, BootOK
    <2> QED
      BY <1>8, <2>1, DownKeeps DEF StartFails
  <1>9. CASE Serve \/ Bootstrap \/ Start
    BY <1>9, ServeKeeps, BootstrapKeeps, StartKeeps
  <1>10. CASE UNCHANGED peerVars
    <2>1. TypesOK'
      BY <1>10 DEF peerVars, PInv, TypesOK, StoreTyped, Peer, CollectorTyped, ReqsTyped,
                   CallbackTyped, ProcessTyped
    <2>2. BootOK' /\ NeighborsHaveOwners'
      BY <1>10 DEF peerVars, PInv, BootOK, DistinctPeers, NeighborsHaveOwners
    <2>3. PeersOK'
      BY <1>10 DEF peerVars, PInv, PeersOK, PeerOK, Alone, Touches, Halfway, Agree, Knows
    <2> QED
      BY <2>1, <2>2, <2>3 DEF PInv
  <1> QED
    BY <1>1, <1>2, <1>3, <1>4, <1>5, <1>6, <1>7, <1>8, <1>9, <1>10 DEF Next

LEMMA PInvAlways == PeerSpec => []PInv
  BY PInvInit, PInvNext, PTL DEF PeerSpec

\* Only four steps write a peer into the store.
LEMMA WhoStores ==
  ASSUME [Next]_peerVars, peers' # peers
  PROVE  (\E r \in Requests : ApplyPeer(r) \/ ForgetPeer(r)) \/ StoreCallback \/ Bootstrap
  <1>1. ASSUME NEW r \in Requests, NEW i \in Ids,
               \/ \E c \in Configs : CreatePeer(r, i, c) \/ UpdatePeer(r, i, c)
               \/ SetPeerAdminState(r, i)
               \/ DeletePeer(r, i)
        PROVE  FALSE
    BY <1>1 DEF CreatePeer, UpdatePeer, SetPeerAdminState, DeletePeer, Begin, store
  <1>2. ASSUME NEW r \in Requests, NEW m \in Imports, ImportPeerConfig(r, m) PROVE FALSE
    <2>1. \E q : Begin(r, q)
      BY <1>2 DEF ImportPeerConfig
    <2> QED
      BY <2>1 DEF Begin, store
  <1>3. ASSUME NEW i \in Ids, ResetPeer(i) PROVE FALSE
    BY <1>3 DEF ResetPeer, store
  <1>4. ASSUME NEW r \in Requests, ImportGet(r) \/ UpsertPeer(r) \/ RemovePeer(r) PROVE FALSE
    BY <1>4 DEF ImportGet, UpsertPeer, RemovePeer, store
  <1>5. ASSUME NEW a \in Addrs, NEW pc \in {"get", "apply"}, SessionEvent(a) \/ PeerForAddress(a, pc)
        PROVE  FALSE
    BY <1>5 DEF SessionEvent, PeerForAddress, store
  <1>6. CASE GetRejected \/ Crash \/ Serve \/ Start \/ StartFails \/ UNCHANGED peerVars
    BY <1>6 DEF GetRejected, Crash, Serve, Start, StartFails, store, peerVars
  <1> QED
    BY <1>1, <1>2, <1>3, <1>4, <1>5, <1>6 DEF Next

\* For any number of requests: every stored peer is whole and stamped with a revision
\* there has been, and nothing refers to a peer or an address that does not exist.
THEOREM PeersAreTyped == PeerSpec => []PeerTypeOK
  <1>1. PInv => PeerTypeOK
    <2> SUFFICES ASSUME PInv PROVE PeerTypeOK
      OBVIOUS
    <2>1. ASSUME NEW r \in Requests PROVE Touches(reqs[r]) \subseteq Ids
      BY RequestTouches DEF PInv, TypesOK, ReqsTyped, Touches
    <2>2. booted \in BOOLEAN
      BY Zenon DEF PInv, TypesOK, ProcessTyped
    <2> QED
      BY <2>1, <2>2 DEF PInv, TypesOK, StoreTyped, CollectorTyped, CallbackTyped, ProcessTyped,
                        PeerTypeOK
  <1> QED
    BY <1>1, PInvAlways, PTL

\* Whatever upserts, refusals, deletions, failed writes, callbacks and crashes come between
\* each other, and however addresses are written, every neighbour of GoBGP belongs to a peer
\* of the collector with its address, and byAddress names this peer if it has the canonical
\* text.
THEOREM NeighborsAreOwned == PeerSpec => []NeighborsHaveOwners
  <1>1. PInv => NeighborsHaveOwners
    BY DEF PInv
  <1> QED
    BY <1>1, PInvAlways, PTL

\* A peer that one actor at a time has worked on, and that nobody works on now, is the
\* same in the store, in the collector and in GoBGP, or was left in the store alone by a
\* deletion whose second half failed; a write that fails does no other harm.
THEOREM PeersAgree == PeerSpec => []QuietPeersAgree
  <1>1. PInv => QuietPeersAgree
    <2> SUFFICES ASSUME PInv, main = "serving", NEW i \in Ids \ disturbed, ~Busy(i, Requests)
                 PROVE  Agree(i)
      BY DEF QuietPeersAgree
    <2>1. PeerOK(i)
      BY DEF PInv, PeersOK
    <2>2. ASSUME NEW r \in Requests PROVE ~Halfway(r, i)
      BY UnderWay DEF Busy, Halfway
    <2> QED
      BY <2>1, <2>2 DEF PeerOK
  <1> QED
    BY <1>1, PInvAlways, PTL

\* No update, import or callback, alone at its peer, replaces a stored TCP MD5 secret by
\* the empty one.
THEOREM SecretsAreKept == PeerSpec => SecretKept
  <1> DEFINE Kept == \A i \in Ids \ disturbed' :
                        peers[i] # Absent /\ peers'[i] # Absent /\ peers[i].config.secret # NoSecret =>
                            peers'[i].config.secret # NoSecret
  <1>1. PInv /\ [Next]_peerVars => [Kept]_peerVars
    <2> SUFFICES ASSUME PInv, [Next]_peerVars, peers' # peers,
                        NEW i \in Ids \ disturbed',
                        peers[i] # Absent, peers'[i] # Absent, peers[i].config.secret # NoSecret
                 PROVE  peers'[i].config.secret # NoSecret
      OBVIOUS
    <2>1. ASSUME NEW r \in Requests, ApplyPeer(r) PROVE peers'[i].config.secret # NoSecret
      <3> DEFINE k == reqs[r].id
                 c == reqs[r].config
      <3>1. k \in Ids /\ c \in Config /\ StorePeer(k, c) /\ disturbed' = disturbed
        BY <2>1, UnderWay DEF ApplyPeer, store, marks
      <3>2. i = k => c.secret # NoSecret
        BY <2>1, <3>1, OwnPeer DEF ApplyPeer, Knows
      <3>3. c # Absent
        BY <3>1, AbsentAssumption
      <3> HIDE DEF k, c
      <3> QED
        BY <3>1, <3>2, <3>3, StoreOne
    <2>2. ASSUME NEW r \in Requests, ForgetPeer(r) PROVE peers'[i].config.secret # NoSecret
      <3> DEFINE k == reqs[r].id
      <3>1. k \in Ids /\ StorePeer(k, Absent)
        BY <2>2, UnderWay DEF ForgetPeer, store
      <3> HIDE DEF k
      <3> QED
        BY <3>1, StoreOne
    <2>3. CASE StoreCallback
      <3> DEFINE k == callback.id
                 c == callback.config
      <3>1. /\ k \in Ids /\ c \in Config /\ StorePeer(k, c) /\ disturbed' = disturbed
            /\ main = "serving" /\ callback # Idle /\ callback.pc = "apply"
        BY <2>3 DEF StoreCallback, store, marks, PInv, BootOK, TypesOK, CallbackTyped, Call
      <3>2. i = k => c = peers[i].config
        BY <3>1 DEF PInv, PeersOK, PeerOK
      <3>3. c # Absent
        BY <3>1, AbsentAssumption
      <3> HIDE DEF k, c
      <3> QED
        BY <3>1, <3>2, <3>3, StoreOne
    <2>4. CASE Bootstrap
      <3> DEFINE k == Head(booting).id
                 c == Head(booting).config
      <3>1. Head(booting).kind # "domain"
        BY <2>4 DEF Bootstrap
      <3>2. /\ k \in Ids /\ c \in Config /\ StorePeer(k, c) /\ peers[k] = Absent
        <4>1. Head(booting).kind = "peer"
          BY <2>4, <3>1, BootstrapIsNew, ItemPeer DEF PInv, TypesOK, ProcessTyped
        <4> QED
          BY <2>4, <3>1, <4>1, BootstrapIsNew DEF Bootstrap
      <3> HIDE DEF k, c
      <3> QED
        BY <3>2, StoreOne
    <2> QED
      BY <2>1, <2>2, <2>3, <2>4, WhoStores
  <1> QED
    BY <1>1, PInvAlways, PTL DEF PeerSpec, SecretKept

\* Once a bootstrap is complete, neither a crash nor a restart, at any moment, changes a
\* stored peer or brings a deleted one back from the file.
THEOREM RestartsKeepPeers == PeerSpec => RestartKeepsPeers
  <1>1. PInv /\ [Next]_peerVars => [booted /\ main # "serving" => peers' = peers]_peerVars
    <2> SUFFICES ASSUME PInv, [Next]_peerVars, booted, main # "serving", peers' # peers
                 PROVE  FALSE
      OBVIOUS
    <2>1. ~Bootstrap
      BY BootstrapIsNew
    <2>2. ~StoreCallback
      BY DEF StoreCallback, PInv, BootOK
    <2>3. ASSUME NEW r \in Requests, ApplyPeer(r) \/ ForgetPeer(r) PROVE FALSE
      BY <2>3, UnderWay DEF ApplyPeer, ForgetPeer
    <2> QED
      BY <2>1, <2>2, <2>3, WhoStores
  <1> QED
    BY <1>1, PInvAlways, PTL DEF PeerSpec, RestartKeepsPeers
=============================================================================
