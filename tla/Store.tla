-------------------------------- MODULE Store --------------------------------
(***************************************************************************)
(* The embedded topology store (internal/store/store.go): entities and a    *)
(* journal of events in Pebble, mirrored in memory under one RW mutex.      *)
(*                                                                         *)
(* Apply holds the mutex from its lookup to its last notification.  It is   *)
(* two steps here, the Pebble commit and the update of memory, because a    *)
(* crash, CompactHistory and the readers of the journal, none of which      *)
(* takes the mutex, can come between them.  An Apply that returns an error  *)
(* (no id, no value, a marshalling or a commit error) changes nothing and   *)
(* is a stuttering step.                                                    *)
(*                                                                         *)
(* Times are represented by revisions: the time Apply reads for revision r  *)
(* is r, and the zero time is 0.                                            *)
(***************************************************************************)
EXTENDS Integers, FiniteSets

CONSTANTS
    Keys,     \* entities, a kind and an id each
    Data,     \* what an entity can hold, apart from its revision
    Absent,   \* no entity; null in the JSON of an event
    NoApply,  \* no Apply is between its commit and its update of memory
    MaxRev    \* bound on the number of mutations

Value == [data : Data, revision : Nat \ {0}]

ASSUME AbsentAssumption == Absent \notin Value

ASSUME MaxRevAssumption == MaxRev \in Nat

Entity == Value \cup {Absent}

Event == [key : Keys, before : Entity, after : Entity]

Applying == [key : Keys, after : Entity, rev : Nat \ {0}]

ASSUME NoApplyAssumption == NoApply \notin Applying

VARIABLES
    dbRev,     \* Pebble: meta/revision
    dbEnts,    \* Pebble: the domain/, node/, link/, prefix/ and peer/ keys
    events,    \* Pebble: the event/ keys, revision -> event
    up,        \* the process runs and the store is open
    revision,  \* memory: s.revision
    observed,  \* memory: s.observed
    ents,      \* memory: s.nodes, s.links, s.prefixes, s.peers, s.domains
    applying,  \* the mutation Apply has committed and not yet put in memory
    hist       \* history: revision -> the entities committed at that revision

dbVars == <<dbRev, dbEnts, events>>

memVars == <<up, revision, observed, ents, applying>>

vars == <<dbRev, dbEnts, events, up, revision, observed, ents, applying, hist>>

-----------------------------------------------------------------------------
(* The parts of Apply.                                                      *)

Empty == [k \in Keys |-> Absent]

\* Mutant: the counter is not advanced.
NextRevisionStale == revision

NextRevision == revision + 1

\* Mutant: the stamp is the revision before the mutation.
SetRevisionStale(d, rev) == [data |-> d, revision |-> revision]

\* setRevision stamps the value before it is marshalled.
SetRevision(d, rev) == [data |-> d, revision |-> rev]

\* The value in memory, nil when the entity is not there.
Lookup(k) == ents[k]

\* Mutant: before is marshalled after the value was replaced.
NewEventLate(k, after) == [key |-> k, before |-> after, after |-> after]

NewEvent(k, after) == [key |-> k, before |-> Lookup(k), after |-> after]

PutEvent(rev, e) ==
    [r \in DOMAIN events \cup {rev} |-> IF r = rev THEN e ELSE events[r]]

PutEntity(map, k, after) == [map EXCEPT ![k] = after]

\* Mutant: Apply does not take the mutex.
UnlockedAlways == up

\* The mutex is free: no Apply is between its two steps.
Unlocked == up /\ applying = NoApply

\* One Pebble batch: the entity, the event and meta/revision.
Commit(k, after, rev) ==
    /\ dbEnts' = PutEntity(dbEnts, k, after)
    /\ events' = PutEvent(rev, NewEvent(k, after))
    /\ dbRev' = rev
    /\ hist' = [r \in DOMAIN hist \cup {rev} |-> IF r = rev THEN dbEnts' ELSE hist[r]]

\* Apply, up to the commit of its batch.
Apply(k, after, rev) ==
    /\ Unlocked
    /\ revision < MaxRev
    /\ Commit(k, after, rev)
    /\ applying' = [key |-> k, after |-> after, rev |-> rev]
    /\ UNCHANGED <<up, revision, observed, ents>>

ApplyUpsert(k, d) == Apply(k, SetRevision(d, NextRevision), NextRevision)

ApplyDelete(k) == Apply(k, Absent, NextRevision)

\* applyMemoryLocked, the two assignments after it, and the unlock.
ApplyMemory ==
    /\ up
    /\ applying # NoApply
    /\ ents' = PutEntity(ents, applying.key, applying.after)
    /\ revision' = applying.rev
    /\ observed' = applying.rev
    /\ applying' = NoApply
    /\ UNCHANGED <<dbVars, up, hist>>

-----------------------------------------------------------------------------
(* The readers of the journal.  None takes the mutex, so each is one atomic *)
(* look at Pebble, at any moment.                                           *)

NoEvents == [r \in {} |-> NoApply]

\* Mutant: the first event after the cursor is skipped.
WindowOffByOne(after, before) ==
    {r \in DOMAIN events : r > after + 1 /\ (before = 0 \/ r <= before)}

\* The retained revisions after one revision and, unless it is 0, up to another.
Window(after, before) ==
    {r \in DOMAIN events : r > after /\ (before = 0 \/ r <= before)}

\* Events: the first ones of the window, as many as the limit allows.
Events(after, before, limit) ==
    {r \in Window(after, before) :
        Cardinality({q \in Window(after, before) : q <= r}) <= limit}

\* 0 when the journal is empty.
OldestRevision ==
    IF DOMAIN events = {} THEN 0
    ELSE CHOOSE r \in DOMAIN events : \A q \in DOMAIN events : r <= q

-----------------------------------------------------------------------------
(* The other operations.                                                    *)

\* Mutant: only the event found is deleted, not the range up to it.
KeptAllBut(deleteTo) == DOMAIN events \ {deleteTo}

\* The events DeleteRange keeps when deleteTo is the last one to go.
KeptAfter(deleteTo) == {r \in DOMAIN events : r > deleteTo}

\* CompactHistory takes no lock.  Which event it stops at depends on the age and
\* the size of the events: any retained one can be it.
CompactHistory(deleteTo) ==
    /\ up
    /\ events' = [r \in KeptAfter(deleteTo) |-> events[r]]
    /\ UNCHANGED <<dbRev, dbEnts, memVars, hist>>

\* The process ends, between any two steps: Close or a crash.  Memory is gone.
Crash ==
    /\ up
    /\ up' = FALSE
    /\ revision' = 0
    /\ observed' = 0
    /\ ents' = Empty
    /\ applying' = NoApply
    /\ UNCHANGED <<dbVars, hist>>

\* Mutant: load does not restore the revision.
OpenForgetful ==
    /\ ~up
    /\ up' = TRUE
    /\ revision' = 0
    /\ observed' = 0
    /\ ents' = dbEnts
    /\ applying' = NoApply
    /\ UNCHANGED <<dbVars, hist>>

\* load reads the time of the last event back, if that event is still there.
LoadObserved == IF dbRev \in DOMAIN events THEN dbRev ELSE 0

Open ==
    /\ ~up
    /\ up' = TRUE
    /\ revision' = dbRev
    /\ observed' = LoadObserved
    /\ ents' = dbEnts
    /\ applying' = NoApply
    /\ UNCHANGED <<dbVars, hist>>

\* The first Open of an empty directory.
Init ==
    /\ dbRev = 0
    /\ dbEnts = Empty
    /\ events = NoEvents
    /\ up = TRUE
    /\ revision = 0
    /\ observed = 0
    /\ ents = Empty
    /\ applying = NoApply
    /\ hist = [r \in {0} |-> Empty]

Next ==
    \/ \E k \in Keys, d \in Data : ApplyUpsert(k, d)
    \/ \E k \in Keys : ApplyDelete(k)
    \/ ApplyMemory
    \/ \E deleteTo \in DOMAIN events : CompactHistory(deleteTo)
    \/ Crash
    \/ Open

Spec == Init /\ [][Next]_vars

-----------------------------------------------------------------------------
(* Properties.                                                              *)

\* Every variable of the store has its type; memory holds nothing while the
\* process is down.
TypeOK ==
    /\ dbRev \in Nat
    /\ dbEnts \in [Keys -> Entity]
    /\ DOMAIN events \subseteq 1..dbRev
    /\ \A r \in DOMAIN events : events[r] \in Event
    /\ events = [r \in DOMAIN events |-> events[r]]
    /\ up \in BOOLEAN
    /\ revision \in Nat
    /\ observed \in Nat
    /\ ents \in [Keys -> Entity]
    /\ applying \in Applying \cup {NoApply}
    /\ hist \in [0..dbRev -> [Keys -> Entity]]

\* What Get, Snapshot and Revision return under the mutex is one revision of the
\* history, whole: never the entities of one revision with the number of another,
\* after any crash, restart or compaction.  Between commit and publication the
\* disk is exactly one revision ahead.
VisibleIsARevision ==
    up => /\ revision \in DOMAIN hist
          /\ ents = hist[revision]
          /\ dbRev = IF applying = NoApply THEN revision ELSE revision + 1
          /\ observed # revision => observed = 0 /\ revision \notin DOMAIN events

\* The journal is a suffix of the history: after any compaction the retained
\* events are consecutive and, unless there are none, end at the last committed
\* revision.  SnapshotAt and WatchTopology only look at the oldest one.
JournalIsASuffix ==
    \A r \in DOMAIN events : r..dbRev \subseteq DOMAIN events

\* A retained event takes its revision back to the one before: what SnapshotAt
\* and DiffTopology rely on, for a mutation made right after a restart too.
EventsUndo ==
    \A r \in DOMAIN events :
        /\ r - 1 \in DOMAIN hist
        /\ hist[r - 1] = PutEntity(hist[r], events[r].key, events[r].before)
        /\ hist[r][events[r].key] = events[r].after

\* The revision stamped on an entity (meta.revision, resource_version) names the
\* revision that wrote it: the entity was another one the revision before, and the
\* same at every revision since.
StampNamesItsWrite ==
    \A r \in DOMAIN hist : \A k \in Keys :
        hist[r][k] # Absent =>
            /\ hist[r][k].revision \in 1..r
            /\ \A q \in hist[r][k].revision..r : hist[q][k] = hist[r][k]
            /\ hist[hist[r][k].revision - 1][k] # hist[r][k]

\* The disk holds the last revision of the history; an Apply between its two steps
\* is what takes memory to it.  With the four properties above, inductive.
DiskIsLastRevision ==
    /\ dbEnts = hist[dbRev]
    /\ applying # NoApply =>
         /\ up
         /\ applying.rev = dbRev
         /\ dbEnts = PutEntity(ents, applying.key, applying.after)

\* A revision number is used once: no step, a restart and the mutation that
\* follows it included, changes what an earlier revision was, and no step
\* rewrites a retained event.
RevisionsAreFinal ==
    [][/\ \A r \in DOMAIN hist : r \in DOMAIN hist' /\ hist'[r] = hist[r]
       /\ \A r \in DOMAIN events \cap DOMAIN events' : events'[r] = events[r]]_vars

\* The store implements RevisionedStore with what is on disk.
Durable == INSTANCE RevisionedStore
             WITH rev <- dbRev, state <- dbEnts, journal <- events

\* Every durable step is one accepted mutation or one pruning, a crash, a restart
\* and the publication in memory are invisible.
DurableSpec == Durable!Spec
=============================================================================
