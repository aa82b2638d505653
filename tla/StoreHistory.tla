---------------------------- MODULE StoreHistory ----------------------------
(***************************************************************************)
(* The two readers of the past: Store.SnapshotAt (internal/store/store.go)  *)
(* and HistoryService.DiffTopology (internal/api/topology.go).  Each is a   *)
(* request handler that looks at Pebble several times without the mutex, so *)
(* mutations, CompactHistory and a crash come between any two looks.        *)
(***************************************************************************)
EXTENDS Store

CONSTANTS
    Readers,     \* requests that can be under way at the same time
    EventsLimit  \* how many events one call of Events returns (10000)

ASSUME EventsLimitAssumption == EventsLimit \in Nat \ {0}

VARIABLES
    pc,      \* where the request is
    target,  \* the revision asked for; the from_revision of a diff
    base,    \* snap.Revision; the to_revision of a diff
    cursor,  \* the last revision read
    buf,     \* events: the ones read and, in SnapshotAt, not yet undone
    work,    \* the five maps SnapshotAt rewrites
    when     \* out.Observed

locals == <<target, base, cursor, buf, work, when>>

readerVars == <<pc, locals>>

historyVars == <<vars, readerVars>>

-----------------------------------------------------------------------------
\* The request is over, answered or refused: its local variables are gone.
Forget(r) ==
    /\ pc' = [pc EXCEPT ![r] = "idle"]
    /\ target' = [target EXCEPT ![r] = 0]
    /\ base' = [base EXCEPT ![r] = 0]
    /\ cursor' = [cursor EXCEPT ![r] = 0]
    /\ buf' = [buf EXCEPT ![r] = NoEvents]
    /\ work' = [work EXCEPT ![r] = Empty]
    /\ when' = [when EXCEPT ![r] = 0]

\* Snapshot copies memory under the read lock.
Snapshot(r) ==
    /\ Unlocked
    /\ pc[r] = "idle"
    /\ base' = [base EXCEPT ![r] = revision]
    /\ work' = [work EXCEPT ![r] = ents]

\* SnapshotAt of the current revision is answered at once.
SnapshotCurrent(r) ==
    /\ Snapshot(r)
    /\ target' = [target EXCEPT ![r] = revision]
    /\ when' = [when EXCEPT ![r] = observed]
    /\ pc' = [pc EXCEPT ![r] = "snapshot"]
    /\ UNCHANGED <<vars, cursor, buf>>

\* SnapshotAt of an earlier revision; a later one is refused.
SnapshotAt(r, asked) ==
    /\ Snapshot(r)
    /\ asked # 0 /\ asked < revision
    /\ target' = [target EXCEPT ![r] = asked]
    /\ cursor' = [cursor EXCEPT ![r] = asked]
    /\ pc' = [pc EXCEPT ![r] = "oldest"]
    /\ UNCHANGED <<vars, buf, when>>

\* The test that refuses an expired revision.
Expired(asked, oldestRevision) == oldestRevision # 0 /\ asked + 1 < oldestRevision

\* The look at the oldest event, with which the revision is accepted or refused.
SnapOldest(r) ==
    /\ pc[r] = "oldest"
    /\ \/ /\ Expired(target[r], OldestRevision)
          /\ Forget(r)
       \/ /\ ~Expired(target[r], OldestRevision)
                /\ pc' = [pc EXCEPT ![r] = "read"]
          /\ UNCHANGED <<target, base, cursor, buf, work, when>>
    /\ UNCHANGED vars

\* Mutant: a chunk replaces the ones before it.
AppendReplaces(b, chunk) == [x \in chunk |-> events[x]]

AppendChunk(b, chunk) ==
    [x \in DOMAIN b \cup chunk |-> IF x \in chunk THEN events[x] ELSE b[x]]

\* One turn of the loop over Events: a chunk is kept and the cursor moves to its
\* last event, or the loop ends in the given place.
ReadChunk(r, after) ==
    LET chunk == Events(cursor[r], base[r], EventsLimit) IN
    /\ \/ /\ cursor[r] < base[r]
          /\ \E last \in chunk :
                /\ \A x \in chunk : x <= last
                /\ cursor' = [cursor EXCEPT ![r] = last]
          /\ buf' = [buf EXCEPT ![r] = AppendChunk(buf[r], chunk)]
          /\ UNCHANGED pc
       \/ /\ cursor[r] >= base[r] \/ chunk = {}
          /\ pc' = [pc EXCEPT ![r] = after]
          /\ UNCHANGED <<cursor, buf>>
    /\ UNCHANGED <<vars, target, base, work, when>>

SnapRead(r) == pc[r] = "read" /\ ReadChunk(r, "undo")

\* One turn of the loop over the events read, from the last one down: undoEntity
\* deletes what did not exist and puts back what did.
UndoEntity(r, x) ==
    /\ pc[r] = "undo"
    /\ x \in DOMAIN buf[r]
    /\ \A y \in DOMAIN buf[r] : y <= x
    /\ work' = [work EXCEPT ![r] = PutEntity(work[r], buf[r][x].key, buf[r][x].before)]
    /\ buf' = [buf EXCEPT ![r] = [y \in DOMAIN buf[r] \ {x} |-> buf[r][y]]]
    /\ UNCHANGED <<vars, pc, target, base, cursor, when>>

\* Everything is undone.  The maps become the answer, which names the revision asked
\* and has the time of its event, if that is still there.
SnapDone(r) ==
    /\ pc[r] = "undo"
    /\ DOMAIN buf[r] = {}
    /\ when' = [when EXCEPT ![r] = IF target[r] \in DOMAIN events THEN target[r] ELSE 0]
    /\ pc' = [pc EXCEPT ![r] = "snapshot"]
    /\ UNCHANGED <<vars, target, base, cursor, buf, work>>

\* DiffTopology refuses an empty interval and then reads it, chunk by chunk.  Its
\* filter selects from the answer and is left out.
DiffTopology(r, from, to) ==
    /\ up
    /\ pc[r] = "idle"
    /\ from < to
    /\ target' = [target EXCEPT ![r] = from]
    /\ base' = [base EXCEPT ![r] = to]
    /\ cursor' = [cursor EXCEPT ![r] = from]
    /\ buf' = [buf EXCEPT ![r] = NoEvents]
    /\ pc' = [pc EXCEPT ![r] = "diffRead"]
    /\ UNCHANGED <<vars, work, when>>

DiffRead(r) == pc[r] = "diffRead" /\ ReadChunk(r, "diff")

\* The answer has left: the request is forgotten.
Return(r) ==
    /\ pc[r] \in {"snapshot", "diff"}
    /\ Forget(r)
    /\ UNCHANGED vars

\* The store's own steps go on beside the requests; a crash takes them with it.
StoreStep ==
    /\ \/ \E k \in Keys, d \in Data : ApplyUpsert(k, d)
       \/ \E k \in Keys : ApplyDelete(k)
       \/ ApplyMemory
       \/ \E deleteTo \in DOMAIN events : CompactHistory(deleteTo)
       \/ Open
    /\ UNCHANGED readerVars

CrashStep ==
    /\ Crash
    /\ pc' = [r \in Readers |-> "idle"]
    /\ target' = [r \in Readers |-> 0]
    /\ base' = [r \in Readers |-> 0]
    /\ cursor' = [r \in Readers |-> 0]
    /\ buf' = [r \in Readers |-> NoEvents]
    /\ work' = [r \in Readers |-> Empty]
    /\ when' = [r \in Readers |-> 0]

HistoryInit ==
    /\ Init
    /\ pc = [r \in Readers |-> "idle"]
    /\ target = [r \in Readers |-> 0]
    /\ base = [r \in Readers |-> 0]
    /\ cursor = [r \in Readers |-> 0]
    /\ buf = [r \in Readers |-> NoEvents]
    /\ work = [r \in Readers |-> Empty]
    /\ when = [r \in Readers |-> 0]

ReaderStep(r) ==
    \/ SnapshotCurrent(r)
    \/ \E asked \in 0..MaxRev : SnapshotAt(r, asked)
    \/ SnapOldest(r)
    \/ SnapRead(r)
    \/ \E x \in 1..MaxRev : UndoEntity(r, x)
    \/ SnapDone(r)
    \/ \E from, to \in 0..MaxRev : DiffTopology(r, from, to)
    \/ DiffRead(r)
    \/ Return(r)

HistoryNext ==
    \/ StoreStep
    \/ CrashStep
    \/ \E r \in Readers : ReaderStep(r)

HistorySpec == HistoryInit /\ [][HistoryNext]_historyVars

-----------------------------------------------------------------------------
(* Properties.                                                              *)

States == {"idle", "oldest", "read", "undo", "snapshot", "diffRead", "diff"}

\* The variables of the requests have their types (a part of the invariant that
\* StoreHistoryProofs.tla proves).
HistoryTypeOK ==
    /\ TypeOK
    /\ pc \in [Readers -> States]
    /\ target \in [Readers -> Nat]
    /\ base \in [Readers -> Nat]
    /\ cursor \in [Readers -> Nat]
    /\ work \in [Readers -> [Keys -> Entity]]
    /\ when \in [Readers -> Nat]
    /\ DOMAIN buf = Readers
    /\ \A r \in Readers : DOMAIN buf[r] \subseteq Nat /\ \A x \in DOMAIN buf[r] : buf[r][x] \in Event

\* Every event of the interval is still in the journal.
Retained(from, to) == from + 1..to \subseteq DOMAIN events

\* A snapshot of a revision whose later events are all still retained when it is
\* returned is that revision, whole, whatever was committed and compacted while
\* SnapshotAt was reading; its time is that revision's, or zero once the event of the
\* revision itself is compacted away.
RetainedSnapshotIsExact ==
    \A r \in Readers :
        pc[r] = "snapshot" /\ Retained(target[r], base[r]) =>
            /\ work[r] = hist[target[r]]
            /\ when[r] # target[r] => when[r] = 0 /\ target[r] \notin DOMAIN events

\* A diff has no hole: if nothing of it has been compacted away when it is returned,
\* it starts right after from_revision, and read backwards its events lead from the
\* last revision it reaches to from_revision.
RetainedDiffIsGapFree ==
    \A r \in Readers :
        pc[r] = "diff" /\ Retained(target[r], cursor[r]) =>
            /\ DOMAIN buf[r] = target[r] + 1..cursor[r]
            /\ \A x \in DOMAIN buf[r] : buf[r][x] = events[x]

\* Whatever SnapshotAt returns is the revision it names: "API snapshots therefore
\* name a revision with no partially visible change".
SnapshotNamesItsRevision ==
    \A r \in Readers : pc[r] = "snapshot" => work[r] = hist[target[r]]
=============================================================================
