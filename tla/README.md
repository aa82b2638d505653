# bgPLS: a TLA+ verification project

bgPLS collects BGP-LS routes from several peers, merges them into one topology,
keeps the topology with its history in an embedded store, and serves it over an
API. This directory holds TLA+ models of that program, the TLC runs that check
them, and proofs checked by TLAPS. Source paths are relative to the repository
root (`src/` in `PROJECT.json`).

## The system

| Component | State | Operations | What makes it correct |
|---|---|---|---|
| Store (`internal/store/store.go`) | Pebble: `meta/revision`, one key per entity, one `event/` key per revision. Memory: revision, time, five maps, subscriptions; one RW mutex | `Open`/`load`, `Apply`, `Get`, `Snapshot`, `Revision`, `Events`, `OldestRevision`, `CompactHistory`, `Close` | one revision per mutation, seen whole; the journal is an exact record of the last revisions; nothing acknowledged is lost by a crash |
| Point-in-time reads (`SnapshotAt` in the store, `DiffTopology` and `ListChanges` in `internal/api/topology.go`) | local to a request | read memory once, then the journal in chunks | a snapshot is the revision it names; a diff has no hole |
| Watches (`Store.Subscribe`, `WatchTopology`) | `s.subs`, a channel and a goroutine per subscription | subscribe and replay, notify, drop a slow subscriber, unsubscribe | a client gets each revision once and in order, or the stream ends; nobody holds the mutex for ever |
| Reconciler (`internal/topology/reconcile.go`) | `r.sources`: what each peer advertises of each entity; its own mutex | `Apply` (announce, withdraw), `mergeEntity` | the stored entity is the merge of what is advertised, in whatever order it arrived |
| Decoding (`handlePath` in `internal/bgp/collector.go`) | none | which entities an NLRI describes, under which ids | announcements and withdrawals meet in one id, and links and prefixes point at the ids of their nodes |
| Collector (`internal/bgp/collector.go`) | the embedded GoBGP server, `peers`, `byAddress` | `Start`, `Close`, `Upsert`, `Delete`, `Reset`, callbacks `handlePaths` and `handlePeer` | updates are attributed to the right peer; session state does not undo administration |
| Peer administration (`internal/api/collector.go`) | none of its own: the store and the collector | create, update, delete, admin state, reset, import | optimistic concurrency; store and collector agree |
| Paths and impact (`internal/topology/graph.go`) | none | `Compute`, `ComputeMany`, `Analyze` | the cheapest path that satisfies the constraints; alternatives of the same cost; exactly the nodes that are cut off |
| Topology API (`internal/api/topology.go`, `filter.go`) | none | lists, filters, pages, summary, search, stream | a listing is complete although the topology changes between pages; all reads agree |
| Process (`cmd/bgpls/main.go`) | configuration, TLS, authorizers, deferred calls | bootstrap of an empty store, SIGHUP reload, hourly compaction, shutdown | nothing runs without its role; the last SIGHUP is obeyed; the way down ends and closes the store after collector and UI; history goes when it is too old or too large and not before |
| Web UI (`internal/ui/static/app.js`) | last revision seen, loaded lists, in the browser | polling | not part of the process; not modelled |

How they interact. GoBGP calls `handlePaths` and `handlePeer` from its own
goroutine. `handlePaths` decodes a path and calls `Reconciler.Apply`, which
changes `r.sources` and then calls `Store.Apply`. API handlers run one goroutine
per request and share the store's mutex. `CompactHistory` runs every hour and
takes no lock; neither do `Events` and `OldestRevision`. `Apply` notifies the
subscribers before it unlocks.

What is hard here: the readers of the journal look at Pebble several times while
it grows at one end and is cut at the other; `Subscribe` fills a channel while it
holds the mutex; two parties may close a channel; a crash can come between the
commit and everything that follows it; the reconciler's memory is lost in a
restart while the store's is not; the store can refuse a mutation after the
reconciler has already changed; a request writes the store and then GoBGP, beside
other requests and session events; and a listing takes its pages from different
revisions. `hazards` in `PROJECT.json` lists these and the
others at their lines.

## Modules

| Module | Models | Checked by |
|---|---|---|
| `RevisionedStore` | abstract specification: a numbered sequence of mutations and a journal that may lose its oldest entries | `store` |
| `Store` | `Apply`, `CompactHistory`, crash, `Open`; the readers `Events` and `OldestRevision` as operators | `store` |
| `StoreProofs` | theorems about `Store` | TLAPS |
| `StoreHistory` | `SnapshotAt` and `DiffTopology`, step by step, over `Store` | `store`, `history_expired` |
| `StoreHistoryProofs` | theorems about `StoreHistory` | TLAPS |
| `StoreWatch` | `Subscribe`, the notifications of `Apply`, `WatchTopology` and a client that resumes, over `Store` | `watch`, `watch_live`, `watch_stuck` |
| `StoreWatchProofs` | theorems about `StoreWatch` | TLAPS |
| `Merge` | the pure part of `Reconciler.Apply` and its reference | `merge` |
| `Decode` | `handlePath`: the advertisements a path makes, or its error, over `Merge` | `reconciler` |
| `Reconciler` | `handlePaths` and `Reconciler.Apply` with external GoBGP, over `Decode` | `reconciler` |
| `ReconcilerProofs` | theorems about `Merge` and `Reconciler` | TLAPS |
| `PeerAdmin` | peer administration, the collector's maps and callbacks, bootstrap and start, with external GoBGP | `peers`, `peers_lost_update` |
| `PeerAdminProofs` | theorems about `PeerAdmin` | TLAPS |
| `PathGraph` | path computation and impact analysis as operators, and their reference | `queries` |
| `PathGraphProofs` | lemmas about `PathGraph` | TLAPS |
| `Listing` | the reads of the API over a topology that changes and a journal that is compacted, over `PathGraph` | `queries` |
| `ListingProofs` | theorems about `Listing` and, of every topology it reaches, about `PathGraph` | TLAPS |
| `Serve` | the process: configuration, roles, routes, reload, retention, shutdown | `serve`, `retention_young` |
| `ServeProofs` | theorems about `Serve` | TLAPS |

The `MC*` modules only add model values, small inputs, symmetry sets and, for
`Merge`, the state machine that walks through every set of sources. Operators that
a `Mutant:` comment introduces are plausible bugs that `PROJECT.json` puts in the
place of the definition after them, to see that a property notices.

### Store

`dbRev`, `dbEnts` and `events` are Pebble; `revision`, `observed` and `ents` are
memory; `hist` is a history variable that remembers what each revision was.
`Apply` holds the mutex throughout. It is nevertheless two actions, the commit of
the batch (`ApplyUpsert`, `ApplyDelete`) and the update of memory with the
notifications (`ApplyMemory`), because a crash, a compaction and the readers that
take no lock can come between them; `applying` holds what is between, and the
mutex is free when it is `NoApply`. Readers under the mutex (`Get`, `Snapshot`,
`Revision`) see `revision` and `ents`.

Abstractions. An entity is a pair of a kind and an id, its content one value of
`Data` and the stamped revision; the five maps and key prefixes are one function,
because no operation relates two kinds. The JSON of an event stores the value and
reads it back, and `null` for no value. The time `Apply` reads for revision `r`
is `r` and the zero time is 0. An `Apply` that fails changes nothing. Which event
a compaction stops at depends on ages and sizes and is left open: any retained
event can be it. `MaxRev` bounds the number of mutations.

### StoreHistory

A request is a `pc` and the local variables of the Go function: the revision
asked (`target`), the one memory was copied at (`base`), the cursor, the events
read and the maps being rewritten. Each look at Pebble is one step, and each
event is undone in a step, so that writers, compaction and crashes come between
any two. `DiffTopology` uses the same loop over `Events`. `EventsLimit` is the
10000 of the code.

### StoreWatch

`Subscribe` is `Subscribe` (lock, read the events), one `ReplayEvent` per send
into the channel, and `Register` (enter the map, unlock, start the goroutine).
`holder` is the subscription that has the mutex meanwhile. `Notify` extends
`ApplyMemory` with the `select` of `Apply`: send, or drop the subscription and
close its channel. `Cleanup` is the goroutine that waits for the context.
A client remembers the last revision it received (`last`) and watches from there,
again after the stream ended or the process restarted. `ChanCap` is the 256 of
the code. The domain filter of a watch selects from what is taken out of the
channel and is left out.

### Merge, Decode and Reconciler

A source has the fields that `mergeEntity` merges, its TLVs, and the `rest`, which
is taken from the first source unmerged. `Canonical` sorts and folds exactly as the
code does; `MergeIsRight` says what should come out without sorting or folding.

`Decode` says what `handlePath` makes of a path: the ids of its entities, the nodes
they refer to, the merged fields, or the class of the error, a panic included. The
hash of an id is taken to tell its inputs apart. So is the text of a link descriptor,
which the code puts into the id of a link with `fmt.Sprint`: what GoBGP's descriptor
prints is not in this repository and need not show every field, and two links that
differ only in a field it leaves out would be one entity. The text of addresses, areas
and TLVs is not built; its values stand for it.

In `Reconciler`, GoBGP is external: it reports the changes of each peer in order,
and a restarted process gets the tables of its peers again. `TakePath` takes the
next report and decodes it; `ApplyNext` is one `Reconciler.Apply` for the next of its
entities, which the store accepts, or refuses after the sources have changed, and
then the rest of the path is skipped. A crash can come between two entities.
`Store.Apply` is one step here, as `Store` justifies. `rejected`, `unsaved` and
`orphans` are history variables that record what went wrong, for the properties.
`NlrisAssumption` leaves out two NLRIs of a peer that name one entity, which
happens when they differ only in their second multi-topology id, or only in what the
text of a link descriptor does not show.

### PeerAdmin

`rev`, `domains` and `peers` are the store, `cpeers` and `byAddress` the collector's
maps, `neighbors` and `pending` are GoBGP's. A request is a record with its place:
the handler's test and its `Store.Get` are one step (both read the store and
nothing is changed between them that the later one would not see), then
`Store.Apply`, then `Collector.Upsert`; a deletion does it the other way round.
`Store.Apply` may fail wherever a request calls it, because the request was cancelled or
because of Pebble: an update then changes nothing, a deletion leaves the peer in the
store and nowhere else (`undeleted`). An import takes its peers one by one. `handlePeer` and `incrementRejected` read and
write in two steps as well. `Begin` and the callbacks note in `disturbed` the peers
two actors work on at once, and `Refused`, `Upserted` and `Deleted` those that GoBGP
refused or that lost their neighbour: the code promises nothing for these, and
`QuietPeersAgree` and `SecretKept` except them and no others. `Bootstrap` stores the
file one mutation at a time, so that a crash can come between.

An address is a text, and `Canon` is the canonical text of what it parses to.
`byAddress` is keyed by the text of the configuration, `neighbors` and `pending`, GoBGP's,
by the canonical one, which is what its events carry and the callbacks look up. That
GoBGP parses the address of a neighbour, and so takes two texts of one address for one
neighbour, is assumed of it.

### PathGraph and Listing

`PathGraph` has the functions of `graph.go` as operators: Dijkstra with its queue and
its order of equal costs, the join over waypoints, the alternatives, the flood of
`Analyze`. Ids are numbers in the order of the strings. A loop of the code is a
recursive function of the number of its rounds (`round`, `back`, `joined`, `found`,
`seen`; `sent` in `Listing`), evaluated at a number after which it has ended: a round
after the end changes nothing. That the number is large enough (no more queue items
than links, no more links on the way back than the path costs) is part of what the
proofs show. The reference enumerates all simple paths (`SimplePaths`,
`CheapestVisit`), and for `Analyze` all cuts (`Connected`).

`Listing` has every read. Its state is the topology, the domains of the events of the
journal and how many of them are compacted away (`cut`), and one client that lists
something page by page, with or without a revision, or changes between two revisions,
while `Mutate` changes the topology and `CompactHistory` the journal; a page of changes
reads the events and then the oldest revision, and a compaction can come between; `always` and `ever` remember what
matched at every moment and at some moment of the listing. The reads that need one
look (summary, stream, search, neighbours, paths, failures) are operators of the topology
alone; the invariants evaluate them in the states without a listing and a compaction
(`Reading`), of which there is one with every topology.

### Serve

`pc` follows `serve` from `Load` through the listeners to the shutdown; `defers` is
the stack of its deferred calls, `up` what is open. A reload is four steps, because
requests and handshakes come between its three stores. `conns` has the clients: a
connection keeps its certificate, a request the role `Middleware` found; the listener of
the metrics has no `Middleware` and one handler. `Role`, `RequiredRole`, the routes of
the generated handlers and the calls of the commands are operators. `Handle` lets a
handler return, `Disconnect` a client leave; neither has to.

The journal here has ages and sizes. A pass of retention is two steps, the decision
(`CompactHistory`) and the deletion (`DeleteRange`), which nobody waits for and which may
come after the store is closed; that it then fails, or that Pebble's panic ends the
process, are both possible. `DeleteTo` is the choice by age and size. It takes two
readings of the disk usage: `DiskUsage` is the size of the events and something more,
any member of `Overhead`, because Pebble counts current state, its log and tables it has
not dropped yet, and does work of its own between the readings. The subtraction wraps
at `Word`.

## Runs

Passing:

- `store` (2 keys, 2 values, 4 mutations, one request, chunks of 2). `StoreHistory`, which
  has every behaviour of `Store`: all invariants of `Store`, the action property
  `RevisionsAreFinal`, refinement of `RevisionedStore`, and the two properties of the
  requests. Four mutations on two keys are enough to create, change, delete and recreate
  an entity around a crash, and to cut the journal in the middle and wholly; with chunks
  of two they give a loop of several turns with compaction between them. One request is
  enough, because requests only read shared state.
- `watch` (2 clients, 3 mutations, channel of 2): replay, drop, cancel, resume
  and crash. Three revisions overrun a channel of two.
- `watch_live` (2 clients, 2 mutations, channel of 1): liveness under the fairness
  below. The properties are conditional on no `Subscribe` being stuck, which
  `watch_stuck` shows can happen.
- `merge`: all sets of advertisements of three peers, two of equal preference,
  over two fields of two values each. Three is the number of peers at which the
  value of a field can come from the second and be contradicted by the third.
- `reconciler` (2 peers of different preference, a node of both, a link to it, an
  NLRI of two prefixes, one of an unsupported type and an attribute that cannot be
  extracted; 4 updates, 2 reports under way, 4 revisions). Four updates are
  enough for an announcement of two peers, a change and a withdrawal around a
  restart, and for a link or a prefix with its node.
- `peers` (2 peers, 2 addresses of which one has two texts, 2 requests, 1 event under
  way, 4 revisions): the file takes two revisions, two are left for two requests or a
  callback. Two addresses are the least at which they can be swapped and clash.
- `queries` (5 nodes in 2 domains, 7 links, 2 prefixes; 6 mutations of which any 3
  happen; 3 filters, 5 sets of constraints, pages of 1, 2 and 3, chunks of 2, 3 windows of
  changes). Three mutations can delete the entity of a token, insert after it, and turn a
  node before it stale; three events can be cut before, in and behind the window of a
  listing. The network starts with equal costs, the mutations make parallel links, unknown
  metrics and missing nodes, and the failures cut it.
- `serve` (5 files, 1 edit, 1 connection at a time, 2 events): the invariants, and the
  liveness of the way down under the fairness below. The files are: TLS,
  TLS with other roles, one whose certificate is missing, one for development with a
  metrics listener, and an invalid one. One edit can come between a signal and the load, or
  between the load and a second signal. One connection is enough because connections share
  nothing but what the process decides, and a client that has left one listener can keep
  the next one busy.

No run bounds crashes; in `peers`, `reconciler` and the store runs the bound on
revisions ends them.

Violations, each a finding in `PROJECT.json`:

- `watch_stuck`: `Subscribe` fills a channel of 256 that nobody reads before it
  returns. A client that resumes more than 256 retained events back blocks the
  store's mutex for ever.
- `history_expired`: `SnapshotAt` of an expired revision is answered with later
  entities when the journal is empty, or is compacted after the test.
- `peers_lost_update`: the resource version is compared before `Store.Apply` and not
  in it, so that two updates that name the same version both succeed.
- `retention_young`: young events go although the history is below `max_bytes`, because
  current state counts too, or because the difference of two readings wraps.

Other places where the code does less than its documents say. They are behaviours of the
models, which the properties except by name:

- `WatchTopology` accepts a watch whose next event is compacted away, when the journal is
  empty or is compacted after the test, and the stream skips revisions (`missed` in
  `StoreWatch`); `README.md:19` has "resumable event watches".
- An entity that was withdrawn while the process was down stays, active (`orphans` in
  `Reconciler`); `docs/PRD.md:17` has "honor withdrawals, and distinguish active from
  stale data".
- A session event between the two halves of an update stores the collector's older copy
  of the peer over it (`disturbed` in `PeerAdmin`); `README.md:102` has "Runtime API
  changes are authoritative afterward".
- A peer whose address is valid but not written canonically gets a neighbour that
  `byAddress` never finds, so that its session and its paths are ignored: the last
  conjunct of `NeighborsHaveOwners` is about canonical addresses only.
- A reload replaces TLS before the roles: in between a request is decided by parts of two
  files (`reload` in `Serve`); `README.md:28` has "atomic TLS/RBAC reload on `SIGHUP`".
- The pass of retention by size overwrites the end the pass by age has found, so that
  expired events may stay until a later pass (`DeleteTo` in `Serve`); `docs/PRD.md:24` has
  "30 days or 50 GB of history".

And than a reader may expect, where no document contradicts: a conflict can name a peer
that did not advertise the selected value, each reconciliation resets `first_seen`, a
filtered `ListChanges` can end early, a diff whose events are compacted away is short
without an error, a deletion whose write fails leaves a stored peer without a session, an
interrupted bootstrap is not completed, an import that fails half way is not undone.
`hazards` in `PROJECT.json` says of each whether a property is about it.

### Fairness

`FairWatchSpec` and `ServeSpec` have some. In `FairWatchSpec` each goroutine that can take its next step does
(weak fairness of `Notify`, `ReplayEvent`, `Register`, `Send`, `SendLost`,
`EndOfStream`). Getting the mutex is strongly fair (`Subscribe`, `Cleanup`):
`sync.RWMutex` does not let later lockers overtake a waiting one for ever. `Send`
being fair also says that a client that has not gone away takes what it is sent.
Nothing is assumed of writers, compaction, clients that cancel or crashes.

`ServeSpec` is fair to the main goroutine only (weak fairness of `MainStep`): it goes on
when nothing blocks it, and the 15 seconds of `server.Shutdown` pass. The code justifies
it step by step: the bootstrap runs before there is a watch that could hold the store's
mutex; `collector.Close` takes the collector's mutex, which nobody holds while it waits
for that of the store; `s.Close` takes none. That GoBGP's and Pebble's own calls return, also
while a callback of GoBGP waits for the store, is assumed of them. Handlers need not return, since `watch_stuck` shows that they may be
stuck for ever, and clients need not leave, on any listener. So `ShutdownEnds` says that
the process ends or stays for ever in the `Shutdown` of the UI or of the metrics, which
have no limit of time, with a request still running there.

## Proofs

`StoreProofs` proves about `Store`, for all sets `Keys` and `Data` and every
`MaxRev`, from the assumptions that `Absent` is no value, `NoApply` no mutation
and `MaxRev` a natural number:

- `TypeCorrect`, `ReadersSeeARevision`, `JournalHasNoHole`, `JournalIsExact`,
  `CrashLosesNothing`, `StampsAreTrue`: the invariants of the `store` run;
- `RevisionsStayFinal`: the action property;
- `ImplementsRevisionedStore`: the refinement.

The argument. `VisibleIsARevision` alone is not inductive: that `Open` restores a
revision needs the disk to hold the last one, and that the next mutation extends
the history needs memory to agree with the disk. `DiskIsLastRevision` states both;
in the state between commit and publication it says that memory is the disk with
one mutation missing. Together with the other invariants this is `IInv`. The only
hard step is the commit: `CommitEffect` first says what it makes of the history
and the journal (the lemma's conclusion is `Committed`), and every conjunct of
`IInv` follows from that. For the refinement each commit is an `Accept`, a
compaction is a `Prune`, everything else stutters.

`StoreHistoryProofs` proves about `StoreHistory`, for any set of `Readers` and any
`EventsLimit` above 0 as well:

- `SnapshotsAreExact`: what `SnapshotAt` returns is the revision it names while the
  events after that revision are retained;
- `DiffsAreGapFree`: a diff has every event of its interval while they are retained.

The argument. Every step of `HistoryNext` is a step of `Store` or leaves the store
alone, so `IInv` holds throughout. The inductive invariant `HInv` adds, per request,
what is true in each of its places: the events read still undo the revisions they
belong to, even after they were compacted away (`BufOK`); what was read from
`target` to `cursor` is complete unless some of it is gone by now (`ReadUpTo`);
while events are undone, the maps are the revision just below the ones already
undone (`Undone`). `StoreGoesOn` says what other steps can do: add revisions behind
the last one, and remove events; so each of these facts survives them.
`ChunkIsInterval` and `NextEventIsRead` say that one call of `Events` returns an
interval, and a non-empty one if the next event is there. TLC checks the two
theorems' properties in the run `store`.

`StoreWatchProofs` proves about `StoreWatch`, for any set of `Watchers` and any
`ChanCap` above 0:

- `ChannelsCloseOnce`, `StreamsReachTheRevision`, `MutexHasOneHolder`: the invariants
  of the `watch` run;
- `ClientsMissNothing`: its action property;
- `WatchesKeepTheStore`: a behaviour with watches is one of `Store`.

The argument. The inductive invariant `WInv` has `IInv`; where a watch can be
registered, have its goroutine or a closed channel, for each place of its handler
(`Lifecycle`); and, for a client that missed nothing, what is in the channel follows
what it received (`Stream`). While `Subscribe` replays, the events it has still to send
continue the channel up to some revision `n`, and `n` is either the last one or so far
away that the channel is full first (`ReplayReaches`). The second case is the reason
for the assumption `EventsLimit > ChanCap`: a replay that `Events` cuts at its limit
ends before the current revision, and the first notification after it would leave a
hole. With the 10000 and 256 of the code such a replay never ends, because it fills
the channel; a larger channel would turn the blocked mutex of `watch_stuck` into a
silent gap.

`ReconcilerProofs` first proves `CanonicalOK` about `Merge`: for any finite set of peers, any preferences and
any sources, what the sort and the fold of `Reconciler.Apply` compute satisfies
`MergeIsRight`. The installed provers cannot use an induction rule; the argument takes
the least round at which the fold would be wrong instead (`LeastOf`, from the
well-foundedness of the naturals). `OrderedOK` says that the sort is one: the rank of a
source, the number of sources before it, grows with the order and takes every value
below their number. `MergedExists` says that the recursive definition defines a
function, `RoundsOK` what the fold holds after each round. `MergeIsAlwaysRight` states it
as the run `merge` does.

It then proves about `Reconciler`, for any `Peers`, `Nlris` and `Offers`
and any bounds, the five invariants of the run `reconciler`: `CollectorIsTyped`,
`SourcesAreThePeers`, `StoreIsTheMerge`, `StoreConverges`, `ReferencesAreStored`. The
assumptions: those of `Merge`; no two NLRIs of a peer name one entity, networks are a
sequence and only a link has a remote end (`NlrisAssumption`); the marks for no
advertisement, an undecodable attribute and no entity are no values
(`MarksAssumption`, `AbsentAssumption`).

The argument. `DecodeShape` first says what is the same in all paths of one NLRI,
announcements and withdrawals: the ids. The inductive invariant `RInv` has the types
(what is left of a path comes from one path), that nothing is in memory while the
process is down (`DownOK`), that a peer is a source only of what one of its NLRIs names
(`NamedOK`), that nobody has sent an orphan again (`OrphansOK`), `CanonIsMerge`, and
`FollowsOK`. `SourcesFollowPeers` is not inductive: it says nothing of an entity whose
last path was rejected, although a report that is still to come, or the path at hand,
makes it good again; `FollowsOK` includes these. The steps are proved on operators
that take the state as parameters (`FollowsIn`): `QueuedFollows` for a report,
`TakenFollows` for `TakePath`, `AppliedFollows` for one `Reconciler.Apply` that
succeeds or fails. When nothing is under way, the sources of an entity are its
advertisements (`QuietSources`), from which the last two theorems follow; for
`ReferencesAreStored`, the nodes an entity refers to are part of its id (`RefsOf`),
so that it does not matter whose advertisement is the canonical one.

`PeerAdminProofs` proves about `PeerAdmin`, for any ids, addresses, configurations,
imports and files and any number of requests at once: `PeersAreTyped`,
`NeighborsAreOwned`, `PeersAgree` (the invariants of the run `peers`), `SecretsAreKept`
and `RestartsKeepPeers` (its action properties). `CanonAssumption` says that the canonical
text of an address is its own canonical text, `InputsAssumption` that the
inputs have their types and that no two peers of the file have one id, as
`Config.Validate` demands; `AbsentAssumption` and `IdleAssumption`, that the marks are
no values. In the inductive invariant `PInv` a peer that nobody disturbed has at most
one actor (`Alone`); the store, the collector and GoBGP agree on it, unless its
request is between its two changes (`Halfway`); and what that request or the
callback has read is still true (`Knows`).

`ServeProofs` proves about `Serve`, for any files, certificates and clients and any
commands of the CLI (`CommandsAssumption`): `RequestsAreAuthorized`, `ReloadsAreWhole`,
`NoSignalIsLost`, `StoreIsClosedLast`. The inductive invariant `SInv` says what a reload
has done in each of its places (`ReloadOK`), that the channel of SIGHUP is empty only
when the file was read after the last signal (`SignalsOK`), that whatever runs has its
deferred call and that of the store is the first (`DefersOK`).
`RolesAreDocumented` compares the role of every command with the documented one.
`StoreIsClosedLast` is about the collector and the requests of the UI. Requests of the
API that outlast their 15 seconds and a pass of retention may come after it.

`ListingProofs` proves about `Listing`, for any first topology, mutations, filters,
page sizes, constraints and failures of the right types (`InputsAssumption`,
`SizesAssumption`, `NoNodeAssumption`, and `MaxPathsAssumption`: at least two paths may
be asked for; the code has 16), all invariants of the run `queries`:

- `ListingsComplete` and `ChangesComplete`, from the inductive invariant `LInv`
  (`ListingsFollow`). It says of a listing that it has, in order and once each, whatever
  matched from its start until now up to the token, and, if pinned, exactly what matched
  at its revision up to there (`Found`); of a listing of changes, that it is every
  matching event up to the token, but for those that were compacted away and of which the
  client was warned, and that the rest is still to come (`Followed`). The
  token, an id and not a position, is the reason that an insertion or deletion before it
  disturbs nothing. `PageOK` says what one page is: the smallest ids after the token.
- `ReadsTyped` and `ReadsAlwaysAgree`: what a page and a message may hold, and that all
  reads select the same. A message of the stream ends where the cursors are, so each
  round sends the matching entities of an interval, the intervals follow each other, and
  only the last one reaches the end.
- `PathsShortest`, `AlternativesEqual` and `ImpactCut`, from the lemmas of
  `PathGraphProofs` about one graph; `LInv` supplies that it is one.

`PathGraphProofs`, for any finite graph with natural metrics. The loop of `shortest`
has the invariant `Running`: every label was offered by a link from a node with a
final label (`Traced`), the links of the nodes that are settled, and not in the queue,
are relaxed, and no queue item is cheaper than a settled node. A round drops a stale
item (`StaleStep`), ends at the destination (`ArrivedIsFinal`) or settles a node
(`SettleStep`); links that are still ahead bound the rounds (`SearchOK`). What remains is
`Final`. `LabelsBound` says, by induction over the paths of the reference
(`PathInduction`), that no simple path to the destination is cheaper than its label,
`LabelsAttained` that one costs as much, `WalkBackOK` that the way back is a walk of
that cost. `JoinOK` follows the waypoints. For the alternatives, each one taken is
right by the same lemma under one constraint more (`ConsiderOK`); `CandidateDiffers` is
the reason a second path is found: a walk over links of another cheapest path that
visits no node twice would be that path (`SameHops`), so the first path has a link the
other lacks, and without parallel links the candidate that avoids it differs in its
nodes. For `Analyze`, the flood is closed under the edges and in every set that is
(`FloodOK`), and so is what a cut cannot separate (`ConnectedOK`). Two statements
changed when they met the proof: a cut was first said to be crossed by a link with one
end in it, counted in a way a link from a node to itself also satisfied, and the paths
were first compared only for ends that are nodes; they now are for every name and
covered address a client may give.

What stays with TLC: liveness, `ShutdownEnds` included (fairness is out of the prover's
reach), and the retention decision, of which only the violation is stated.

## Not modelled

- Text: formatting and parsing of addresses, areas, TLVs, tokens, YAML and JSON.
- Protobuf encoding, Connect's transport and GoBGP, whose part is external.
- The counters behind the metrics, logging, the flags and the printing of the CLI.
- The web UI (`internal/ui/static/app.js`), a script of a browser, and the lab.
- `MarkPeerStale`, which has no caller; `NoopPeerManager`, which is for tests.
- `GetPeer`, `ExportPeerConfig`, `ValidatePeerConfig` and `GetStatus`, which return a
  redacted copy or a count and change nothing.
- What Pebble does to a handler that runs when the store is closed.

## What is left

1. `PeerAdmin` and `Reconciler` in one model, for the withdrawals of a deleted peer.
2. The web UI's polling, if it grows beyond one request at a time.
