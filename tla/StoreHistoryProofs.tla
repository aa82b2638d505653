------------------------- MODULE StoreHistoryProofs -------------------------
(***************************************************************************)
(* Proofs about StoreHistory.tla: what SnapshotAt and DiffTopology return   *)
(* is exact while the events it is made of are retained, for any number of  *)
(* requests, entities, mutations and any chunk size.                        *)
(***************************************************************************)
EXTENDS StoreHistory, StoreProofs, FiniteSetTheorems

\* The events a request has read undo their revisions, and are still the retained
\* ones where those are retained.
BufOK(f) ==
    /\ DOMAIN f \subseteq 1..dbRev
    /\ \A x \in DOMAIN f :
         /\ f[x] \in Event
         /\ hist[x - 1] = PutEntity(hist[x], f[x].key, f[x].before)
         /\ x \in DOMAIN events => f[x] = events[x]

\* A request that has read from t to c has all events in between, unless some of
\* them are gone by now.
ReadUpTo(t, c, f) ==
    /\ t <= c
    /\ c = t \/ c <= dbRev
    /\ Retained(t, c) => DOMAIN f = t + 1..c

\* The events not yet undone lead from the maps as they are back to the target.
Undone(t, b, f, w) ==
    Retained(t, b) => \E n \in t..b : DOMAIN f = t + 1..n /\ w = hist[n]

\* What holds of a request in each of its places.
Request(r) ==
    /\ BufOK(buf[r])
    /\ pc[r] \in {"idle", "oldest"} => DOMAIN buf[r] = {}
    /\ pc[r] \in {"oldest", "read"} => cursor[r] <= base[r] /\ work[r] = hist[base[r]]
    /\ pc[r] \in {"oldest", "read", "diffRead"} => target[r] < base[r]
    /\ pc[r] \in {"oldest", "read", "diffRead", "diff"} => ReadUpTo(target[r], cursor[r], buf[r])
    /\ pc[r] \in {"oldest", "read", "undo", "snapshot"} => target[r] <= base[r] /\ base[r] <= dbRev
    /\ pc[r] = "undo" => Undone(target[r], base[r], buf[r], work[r])
    /\ pc[r] = "snapshot" =>
         /\ Retained(target[r], base[r]) => work[r] = hist[target[r]]
         /\ when[r] # target[r] => when[r] = 0 /\ target[r] \notin DOMAIN events

\* The inductive invariant.
HInv ==
    /\ IInv
    /\ HistoryTypeOK
    /\ \A r \in Readers : Request(r)

-----------------------------------------------------------------------------
\* A call of Events returns the first retained revisions after the cursor without a
\* hole: if everything up to the last one is retained, it returned all of it.
LEMMA ChunkIsInterval ==
  ASSUME DOMAIN events \subseteq Nat,
         NEW c \in Nat, NEW b \in Nat \ {0}, NEW last \in Events(c, b, EventsLimit),
         \A x \in Events(c, b, EventsLimit) : x <= last,
         c + 1..last \subseteq DOMAIN events
  PROVE  Events(c, b, EventsLimit) = c + 1..last
  <1> DEFINE Upto(x) == {q \in Window(c, b) : q <= x}
  <1>1. last \in Nat /\ last > c /\ last <= b
    BY DEF Events, Window
  <1>2. Events(c, b, EventsLimit) \subseteq c + 1..last
    BY <1>1 DEF Events, Window
  <1>3. ASSUME NEW x \in c + 1..last PROVE x \in Events(c, b, EventsLimit)
    <2>1. x \in Window(c, b)
      BY <1>1, <1>3 DEF Window
    <2>2. Upto(last) \in SUBSET Nat /\ \A q \in Upto(last) : q <= last
      BY DEF Window
    <2>3. IsFiniteSet(Upto(last))
      BY <1>1, <2>2, FS_BoundedSetOfNaturals
    <2>4. Upto(x) \in SUBSET Upto(last)
      BY <1>1, <1>3 DEF Window
    <2>5. /\ Cardinality(Upto(x)) <= Cardinality(Upto(last))
          /\ IsFiniteSet(Upto(x))
      BY <2>3, <2>4, FS_Subset
    <2>6. Cardinality(Upto(x)) \in Nat /\ Cardinality(Upto(last)) \in Nat
      BY <2>3, <2>5, FS_CardinalityType
    <2>7. Cardinality(Upto(last)) <= EventsLimit
      BY DEF Events
    <2>8. Cardinality(Upto(x)) <= EventsLimit
      BY <2>5, <2>6, <2>7, EventsLimitAssumption
    <2> QED
      BY <2>1, <2>8 DEF Events
  <1> QED
    BY <1>2, <1>3

\* A call of Events is not empty when the next event is retained.
LEMMA NextEventIsRead ==
  ASSUME DOMAIN events \subseteq Nat,
         NEW c \in Nat, NEW b \in Nat, c < b, c + 1 \in DOMAIN events
  PROVE  c + 1 \in Events(c, b, EventsLimit)
  <1>1. c + 1 \in Window(c, b)
    BY DEF Window
  <1>2. {q \in Window(c, b) : q <= c + 1} = {c + 1}
    BY <1>1 DEF Window
  <1>3. Cardinality({c + 1}) = 1
    BY FS_Singleton
  <1>4. Cardinality({q \in Window(c, b) : q <= c + 1}) <= EventsLimit
    BY <1>2, <1>3, EventsLimitAssumption
  <1> QED
    BY <1>1, <1>4 DEF Events

-----------------------------------------------------------------------------
\* What the store does meanwhile: revisions are added behind the last one, events
\* disappear, and nothing else changes.
LEMMA StoreGoesOn ==
  ASSUME IInv, [Next]_vars
  PROVE  /\ IInv'
         /\ dbRev \in Nat /\ dbRev' \in Nat /\ dbRev <= dbRev'
         /\ DOMAIN hist = 0..dbRev
         /\ \A x \in 0..dbRev : hist'[x] = hist[x]
         /\ \A x \in DOMAIN events' : x <= dbRev => x \in DOMAIN events /\ events'[x] = events[x]
  <1>1. IInv'
    BY NextIInv
  <1>2. /\ \A r \in DOMAIN hist : r \in DOMAIN hist' /\ hist'[r] = hist[r]
        /\ \A r \in DOMAIN events \cap DOMAIN events' : events'[r] = events[r]
    BY StepIsFinal
  <1>3. DOMAIN hist = 0..dbRev /\ DOMAIN hist' = 0..dbRev' /\ dbRev \in Nat /\ dbRev' \in Nat
    BY <1>1 DEF IInv, TypeOK
  <1>4. dbRev <= dbRev'
    BY <1>2, <1>3
  <1>5. ASSUME NEW x \in DOMAIN events', x <= dbRev PROVE x \in DOMAIN events
    <2>1. DOMAIN events' \subseteq DOMAIN events \cup {dbRev + 1}
      <3>1. ASSUME NEW k \in Keys, NEW d \in Data, ApplyUpsert(k, d)
            PROVE  Committed(k, SetRevision(d, NextRevision))
        BY <3>1, UpsertValue, CommitEffect DEF ApplyUpsert
      <3>2. ASSUME NEW k \in Keys, ApplyDelete(k)
            PROVE  Committed(k, Absent)
        BY <3>2, CommitEffect DEF ApplyDelete, Entity
      <3>3. CASE \E k \in Keys, d \in Data : ApplyUpsert(k, d)
        BY <3>1, <3>3 DEF Committed
      <3>4. CASE \E k \in Keys : ApplyDelete(k)
        BY <3>2, <3>4 DEF Committed
      <3>5. CASE \E deleteTo \in DOMAIN events : CompactHistory(deleteTo)
        BY <3>5 DEF CompactHistory, KeptAfter
      <3>6. CASE ApplyMemory \/ Crash \/ Open \/ UNCHANGED vars
        BY <3>6 DEF ApplyMemory, Crash, Open, vars, dbVars
      <3> QED
        BY <3>3, <3>4, <3>5, <3>6 DEF Next
    <2> QED
      BY <1>3, <1>5, <2>1
  <1> QED
    BY <1>1, <1>2, <1>3, <1>4, <1>5

\* A request that takes no step itself is as right after a step of the store as it
\* was before: what it needs can only disappear.
LEMMA RequestUndisturbed ==
  ASSUME IInv, [Next]_vars, HistoryTypeOK, NEW r \in Readers, Request(r),
         pc'[r] = pc[r], target'[r] = target[r], base'[r] = base[r], cursor'[r] = cursor[r],
         buf'[r] = buf[r], work'[r] = work[r], when'[r] = when[r]
  PROVE  Request(r)'
  <1>1. /\ dbRev \in Nat /\ dbRev' \in Nat /\ dbRev <= dbRev'
        /\ \A x \in 0..dbRev : hist'[x] = hist[x]
        /\ \A x \in DOMAIN events' : x <= dbRev => x \in DOMAIN events /\ events'[x] = events[x]
    BY StoreGoesOn
  <1>t. target[r] \in Nat /\ base[r] \in Nat /\ cursor[r] \in Nat
    BY DEF HistoryTypeOK
  <1>2. BufOK(buf[r])'
    BY <1>1 DEF Request, BufOK, PutEntity
  <1>3. ASSUME NEW from \in Nat, NEW to \in Nat, to = from \/ to <= dbRev,
               from + 1..to \subseteq DOMAIN events'
        PROVE  Retained(from, to)
    BY <1>1, <1>3 DEF Retained
  <1>4. ReadUpTo(target[r], cursor[r], buf[r]) => ReadUpTo(target[r], cursor[r], buf[r])'
    BY <1>1, <1>t, <1>3 DEF ReadUpTo, Retained
  <1>5. Undone(target[r], base[r], buf[r], work[r]) /\ base[r] <= dbRev
          => Undone(target[r], base[r], buf[r], work[r])'
    BY <1>1, <1>t, <1>3 DEF Undone, Retained
  <1>6. pc[r] \in {"oldest", "read"} => work[r] = hist'[base[r]]
    BY <1>1, <1>t DEF Request
  <1>7. pc[r] = "snapshot" =>
          /\ Retained(target[r], base[r])' => work[r] = hist'[target[r]]
          /\ when[r] # target[r] => when[r] = 0 /\ target[r] \notin DOMAIN events'
    BY <1>1, <1>t, <1>3 DEF Request, Retained
  <1> QED
    BY <1>1, <1>t, <1>2, <1>4, <1>5, <1>6, <1>7 DEF Request

\* A turn of the loop over Events keeps what was read complete.
LEMMA ChunkIsRead ==
  ASSUME HInv, NEW r \in Readers, NEW after \in {"undo", "diff"}, ReadChunk(r, after),
         target[r] < base[r], ReadUpTo(target[r], cursor[r], buf[r])
  PROVE  /\ BufOK(buf'[r])
         /\ \/ /\ pc' = pc /\ cursor'[r] \in Nat /\ cursor'[r] <= base[r]
               /\ ReadUpTo(target[r], cursor'[r], buf'[r])
            \/ /\ pc' = [pc EXCEPT ![r] = after] /\ cursor' = cursor /\ buf' = buf
               /\ Retained(target[r], base[r]) => cursor[r] >= base[r]
  <1> DEFINE chunk == Events(cursor[r], base[r], EventsLimit)
             t == target[r]
             c == cursor[r]
  <1>1. /\ t \in Nat /\ base[r] \in Nat /\ base[r] # 0 /\ c \in Nat /\ t <= c
        /\ DOMAIN events \subseteq 1..dbRev /\ dbRev \in Nat /\ DOMAIN events \subseteq Nat
        /\ DOMAIN buf = Readers /\ DOMAIN cursor = Readers
    BY DEF HInv, HistoryTypeOK, IInv, TypeOK, ReadUpTo
  <1>2. BufOK(buf[r])
    BY DEF HInv, Request
  <1>3. ASSUME NEW last \in chunk, \A x \in chunk : x <= last,
               cursor' = [cursor EXCEPT ![r] = last],
               buf' = [buf EXCEPT ![r] = AppendChunk(buf[r], chunk)]
        PROVE  /\ BufOK(buf'[r])
               /\ cursor'[r] \in Nat /\ cursor'[r] <= base[r]
               /\ ReadUpTo(t, cursor'[r], buf'[r])
    <2>1. chunk \subseteq DOMAIN events /\ \A x \in chunk : x > c /\ x <= base[r]
      BY <1>1 DEF Events, Window
    <2>2. cursor'[r] = last /\ last \in Nat /\ last > c /\ last <= dbRev /\ last <= base[r]
      BY <1>1, <1>3, <2>1
    <2>3. buf'[r] = AppendChunk(buf[r], chunk)
      BY <1>1, <1>3
    <2>4. /\ DOMAIN buf'[r] = DOMAIN buf[r] \cup chunk
          /\ \A x \in chunk : buf'[r][x] = events[x]
          /\ \A x \in DOMAIN buf[r] \ chunk : buf'[r][x] = buf[r][x]
      BY <2>3 DEF AppendChunk
    <2>5. \A x \in chunk : events[x] \in Event
                           /\ hist[x - 1] = PutEntity(hist[x], events[x].key, events[x].before)
      BY <2>1 DEF HInv, IInv, TypeOK, EventsUndo
    <2>6. BufOK(buf'[r])
      BY <1>1, <1>2, <2>1, <2>4, <2>5 DEF BufOK
    <2>7. ASSUME Retained(t, last) PROVE DOMAIN buf'[r] = t + 1..last
      <3>1. Retained(t, c) /\ c + 1..last \subseteq DOMAIN events
        BY <1>1, <2>2, <2>7 DEF Retained
      <3>2. chunk = c + 1..last
        BY <1>1, <1>3, <3>1, ChunkIsInterval
      <3>3. DOMAIN buf[r] = t + 1..c
        BY <3>1 DEF ReadUpTo
      <3> QED
        BY <1>1, <2>2, <2>4, <3>2, <3>3
    <2> QED
      BY <1>1, <2>2, <2>6, <2>7 DEF ReadUpTo
  <1>4. ASSUME cursor[r] >= base[r] \/ chunk = {}, Retained(t, base[r])
        PROVE  cursor[r] >= base[r]
    <2>1. SUFFICES ASSUME c < base[r] PROVE FALSE
      BY <1>1
    <2>2. c + 1 \in DOMAIN events
      BY <1>1, <1>4, <2>1 DEF Retained
    <2> QED
      BY <1>1, <1>4, <2>1, <2>2, NextEventIsRead
  <1> QED
    BY <1>2, <1>3, <1>4 DEF ReadChunk

-----------------------------------------------------------------------------
\* Nothing is under way at first.
LEMMA HistoryInitHInv == HistoryInit => HInv
  <1> SUFFICES ASSUME HistoryInit PROVE HInv
    OBVIOUS
  <1>1. IInv
    BY InitIInv DEF HistoryInit
  <1>2. Empty \in [Keys -> Entity]
    BY DEF Empty, Entity
  <1>3. HistoryTypeOK
    BY <1>1, <1>2 DEF HistoryInit, HistoryTypeOK, IInv, States, NoEvents
  <1>4. ASSUME NEW r \in Readers PROVE Request(r)
    BY DEF HistoryInit, Request, BufOK, NoEvents
  <1> QED
    BY <1>1, <1>3, <1>4 DEF HInv

\* A step of one request leaves the store and the other requests alone.
LEMMA OneRequestSteps ==
  ASSUME HInv, NEW r \in Readers, UNCHANGED vars, HistoryTypeOK', Request(r)',
         \A q \in Readers \ {r} :
            /\ pc'[q] = pc[q] /\ target'[q] = target[q] /\ base'[q] = base[q]
            /\ cursor'[q] = cursor[q] /\ buf'[q] = buf[q] /\ work'[q] = work[q]
            /\ when'[q] = when[q]
  PROVE  HInv'
  <1>1. IInv /\ [Next]_vars
    BY DEF HInv
  <1>2. ASSUME NEW q \in Readers \ {r} PROVE Request(q)'
    BY <1>1, RequestUndisturbed DEF HInv
  <1>3. IInv'
    BY <1>1, NextIInv
  <1> QED
    BY <1>2, <1>3 DEF HInv

\* A request that is forgotten holds nothing.
LEMMA ForgottenHInv ==
  ASSUME HInv, NEW r \in Readers, UNCHANGED vars, Forget(r)
  PROVE  HInv'
  <1>1. Empty \in [Keys -> Entity] /\ DOMAIN NoEvents = {}
    BY DEF Empty, Entity, NoEvents
  <1>2. HistoryTypeOK'
    BY <1>1 DEF HInv, HistoryTypeOK, Forget, vars, TypeOK, States
  <1>3. pc'[r] = "idle" /\ buf'[r] = NoEvents
    BY DEF HInv, HistoryTypeOK, Forget
  <1>4. Request(r)'
    BY <1>1, <1>3 DEF Request, BufOK
  <1> QED
    BY <1>2, <1>4, OneRequestSteps DEF HInv, HistoryTypeOK, Forget

\* The answer with the current revision is what memory holds.
LEMMA SnapshotCurrentHInv ==
  ASSUME HInv, NEW r \in Readers, SnapshotCurrent(r)
  PROVE  HInv'
  <1> USE DEF SnapshotCurrent, Snapshot
  <1>1. /\ up /\ revision = dbRev /\ ents = hist[revision] /\ dbRev \in Nat /\ observed \in Nat
        /\ ents \in [Keys -> Entity]
        /\ observed # revision => observed = 0 /\ revision \notin DOMAIN events
    BY DEF HInv, IInv, TypeOK, VisibleIsARevision, Unlocked
  <1>2. HistoryTypeOK'
    BY <1>1 DEF HInv, HistoryTypeOK, vars, TypeOK, States
  <1>3. /\ pc'[r] = "snapshot" /\ target'[r] = dbRev /\ base'[r] = dbRev
        /\ work'[r] = hist[dbRev] /\ when'[r] = observed /\ buf'[r] = buf[r]
    BY <1>1 DEF HInv, HistoryTypeOK
  <1>4. Request(r)'
    BY <1>1, <1>3 DEF Request, BufOK, HInv, vars
  <1> QED
    BY <1>2, <1>4, OneRequestSteps DEF HInv, HistoryTypeOK

\* The copy of memory SnapshotAt starts from is the current revision.
LEMMA SnapshotAtHInv ==
  ASSUME HInv, NEW r \in Readers, NEW asked \in 0..MaxRev, SnapshotAt(r, asked)
  PROVE  HInv'
  <1> USE DEF SnapshotAt, Snapshot
  <1>1. /\ revision = dbRev /\ ents = hist[revision] /\ dbRev \in Nat
        /\ ents \in [Keys -> Entity] /\ asked \in Nat /\ asked < dbRev
    BY MaxRevAssumption DEF HInv, IInv, TypeOK, VisibleIsARevision, Unlocked
  <1>2. HistoryTypeOK'
    BY <1>1 DEF HInv, HistoryTypeOK, vars, TypeOK, States
  <1>3. /\ pc'[r] = "oldest" /\ target'[r] = asked /\ base'[r] = dbRev
        /\ work'[r] = hist[dbRev] /\ cursor'[r] = asked /\ buf'[r] = buf[r] /\ pc[r] = "idle"
    BY <1>1 DEF HInv, HistoryTypeOK
  <1>4. DOMAIN buf[r] = {} /\ asked + 1..asked = {}
    BY <1>1, <1>3 DEF HInv, Request
  <1>5. Request(r)'
    BY <1>1, <1>3, <1>4 DEF Request, BufOK, ReadUpTo, HInv, vars
  <1> QED
    BY <1>2, <1>5, OneRequestSteps DEF HInv, HistoryTypeOK

\* The test for expired revisions changes only the place of the request.
LEMMA SnapOldestHInv ==
  ASSUME HInv, NEW r \in Readers, SnapOldest(r)
  PROVE  HInv'
  <1>1. CASE Forget(r)
    BY <1>1, ForgottenHInv DEF SnapOldest
  <1>2. CASE /\ pc' = [pc EXCEPT ![r] = "read"]
             /\ UNCHANGED <<target, base, cursor, buf, work, when>>
    <2>1. UNCHANGED vars /\ pc[r] = "oldest"
      BY DEF SnapOldest
    <2>2. HistoryTypeOK'
      BY <1>2, <2>1 DEF HInv, HistoryTypeOK, vars, TypeOK, States
    <2>3. pc'[r] = "read"
      BY <1>2 DEF HInv, HistoryTypeOK
    <2>4. Request(r)'
      BY <1>2, <2>1, <2>3 DEF HInv, Request, BufOK, ReadUpTo, Retained, vars
    <2> QED
      BY <1>2, <2>1, <2>2, <2>4, OneRequestSteps DEF HInv, HistoryTypeOK
  <1> QED
    BY <1>1, <1>2 DEF SnapOldest

\* The types after a turn of the loop over Events.
LEMMA ReadChunkTypes ==
  ASSUME HInv, NEW r \in Readers, NEW after \in {"undo", "diff"}, ReadChunk(r, after)
  PROVE  HistoryTypeOK'
  <1> DEFINE chunk == Events(cursor[r], base[r], EventsLimit)
  <1>1. chunk \subseteq DOMAIN events /\ chunk \subseteq Nat /\ \A x \in chunk : events[x] \in Event
    BY DEF Events, Window, HInv, IInv, TypeOK
  <1>2. pc' \in [Readers -> States] /\ cursor' \in [Readers -> Nat] /\ DOMAIN buf' = Readers
    BY <1>1 DEF ReadChunk, HInv, HistoryTypeOK, States
  <1>3. ASSUME NEW q \in Readers
        PROVE  DOMAIN buf'[q] \subseteq Nat /\ \A x \in DOMAIN buf'[q] : buf'[q][x] \in Event
    <2>1. CASE buf' = buf
      BY <2>1 DEF HInv, HistoryTypeOK
    <2>2. CASE buf' = [buf EXCEPT ![r] = AppendChunk(buf[r], chunk)]
      BY <1>1, <2>2 DEF HInv, HistoryTypeOK, AppendChunk
    <2> QED
      BY <2>1, <2>2 DEF ReadChunk
  <1>4. UNCHANGED <<vars, target, base, work, when>>
    BY DEF ReadChunk
  <1> QED
    BY <1>2, <1>3, <1>4 DEF HInv, HistoryTypeOK, vars, TypeOK

\* SnapshotAt and DiffTopology read without a hole.
LEMMA ReadHInv ==
  ASSUME HInv, NEW r \in Readers, SnapRead(r) \/ DiffRead(r)
  PROVE  HInv'
  <1>1. PICK after \in {"undo", "diff"} :
           ReadChunk(r, after) /\ pc[r] = IF after = "undo" THEN "read" ELSE "diffRead"
    BY DEF SnapRead, DiffRead
  <1>2. UNCHANGED <<vars, target, base, work, when>>
    BY <1>1 DEF ReadChunk
  <1>3. HistoryTypeOK'
    BY <1>1, ReadChunkTypes
  <1>4. target[r] < base[r] /\ ReadUpTo(target[r], cursor[r], buf[r])
    BY <1>1 DEF HInv, Request
  <1>5. /\ BufOK(buf'[r])
        /\ \/ /\ pc' = pc /\ cursor'[r] \in Nat /\ cursor'[r] <= base[r]
              /\ ReadUpTo(target[r], cursor'[r], buf'[r])
           \/ /\ pc' = [pc EXCEPT ![r] = after] /\ cursor' = cursor /\ buf' = buf
              /\ Retained(target[r], base[r]) => cursor[r] >= base[r]
    BY <1>1, <1>4, ChunkIsRead
  <1>6. target[r] \in Nat /\ base[r] \in Nat /\ cursor[r] \in Nat /\ dbRev \in Nat /\ pc \in [Readers -> States]
    BY DEF HInv, HistoryTypeOK, TypeOK
  <1>7. BufOK(buf[r])'
    BY <1>2, <1>5 DEF BufOK, vars
  <1>8. CASE /\ pc' = pc /\ cursor'[r] \in Nat /\ cursor'[r] <= base[r]
             /\ ReadUpTo(target[r], cursor'[r], buf'[r])
    <2>1. ReadUpTo(target[r], cursor[r], buf[r])'
      BY <1>2, <1>8 DEF ReadUpTo, Retained, vars
    <2>2. Request(r)
      BY DEF HInv
    <2> QED
      <3>1. Request(r)'
        BY <1>1, <1>2, <1>7, <1>8, <2>1, <2>2 DEF Request, vars
      <3> QED
        BY <1>1, <1>2, <1>3, <3>1, OneRequestSteps DEF ReadChunk, HInv, HistoryTypeOK
  <1>9. CASE /\ pc' = [pc EXCEPT ![r] = after] /\ cursor' = cursor /\ buf' = buf
             /\ Retained(target[r], base[r]) => cursor[r] >= base[r]
    <2>1. pc'[r] = after
      BY <1>6, <1>9
    <2>2. ASSUME after = "undo" PROVE Undone(target[r], base[r], buf[r], work[r])'
      <3>1. cursor[r] <= base[r] /\ work[r] = hist[base[r]]
        BY <1>1, <2>2 DEF HInv, Request
      <3>2. SUFFICES ASSUME Retained(target[r], base[r])
                     PROVE  DOMAIN buf[r] = target[r] + 1..base[r] /\ work[r] = hist[base[r]]
        BY <1>2, <1>4, <1>6, <1>9 DEF Undone, Retained, vars
      <3>3. cursor[r] = base[r]
        BY <1>6, <1>9, <3>1, <3>2
      <3> QED
        BY <1>4, <3>1, <3>2, <3>3 DEF ReadUpTo
    <2>3. ReadUpTo(target[r], cursor[r], buf[r])'
      BY <1>2, <1>4, <1>9 DEF ReadUpTo, Retained, vars
    <2>4. after = "undo" => target[r] <= base[r] /\ base[r] <= dbRev
      BY <1>1 DEF HInv, Request
    <2>5. Request(r)'
      BY <1>1, <1>2, <1>7, <2>1, <2>2, <2>3, <2>4 DEF Request, vars
    <2> QED
      BY <1>2, <1>3, <1>9, <2>5, OneRequestSteps DEF HInv, HistoryTypeOK
  <1> QED
    BY <1>5, <1>8, <1>9

\* Undoing the last event read takes the maps one revision back.
LEMMA UndoEntityHInv ==
  ASSUME HInv, NEW r \in Readers, NEW x \in 1..MaxRev, UndoEntity(r, x)
  PROVE  HInv'
  <1>1. /\ UNCHANGED vars /\ UNCHANGED <<pc, target, base, cursor, when>> /\ pc[r] = "undo"
        /\ x \in DOMAIN buf[r] /\ \A y \in DOMAIN buf[r] : y <= x
    BY DEF UndoEntity
  <1>2. /\ work'[r] = PutEntity(work[r], buf[r][x].key, buf[r][x].before)
        /\ buf'[r] = [y \in DOMAIN buf[r] \ {x} |-> buf[r][y]]
        /\ \A q \in Readers \ {r} : buf'[q] = buf[q] /\ work'[q] = work[q]
        /\ DOMAIN buf' = Readers
    BY DEF UndoEntity, HInv, HistoryTypeOK
  <1>3. /\ BufOK(buf[r]) /\ Undone(target[r], base[r], buf[r], work[r])
        /\ target[r] <= base[r] /\ base[r] <= dbRev
    BY <1>1 DEF HInv, Request
  <1>4. target[r] \in Nat /\ base[r] \in Nat /\ dbRev \in Nat /\ work[r] \in [Keys -> Entity]
    BY DEF HInv, HistoryTypeOK, TypeOK
  <1>5. work'[r] \in [Keys -> Entity]
    <2>1. buf[r][x] \in Event
      BY <1>1, <1>3 DEF BufOK
    <2>2. buf[r][x].key \in Keys /\ buf[r][x].before \in Entity
      BY <2>1 DEF Event
    <2> QED
      BY <1>2, <1>4, <2>2 DEF PutEntity
  <1>6. HistoryTypeOK'
    <2>1. work' \in [Readers -> [Keys -> Entity]]
      BY <1>5 DEF UndoEntity, HInv, HistoryTypeOK
    <2>2. \A q \in Readers :
             DOMAIN buf'[q] \subseteq Nat /\ \A y \in DOMAIN buf'[q] : buf'[q][y] \in Event
      BY <1>2 DEF HInv, HistoryTypeOK
    <2> QED
      BY <1>1, <1>2, <2>1, <2>2 DEF HInv, HistoryTypeOK, vars, TypeOK
  <1>7. BufOK(buf[r])'
    BY <1>1, <1>2, <1>3 DEF BufOK, vars
  <1>8. Undone(target[r], base[r], buf[r], work[r])'
    <2>1. SUFFICES ASSUME Retained(target[r], base[r])
                   PROVE  \E n \in target[r]..base[r] :
                             DOMAIN buf'[r] = target[r] + 1..n /\ work'[r] = hist[n]
      BY <1>1 DEF Undone, Retained, vars
    <2>2. PICK n \in target[r]..base[r] : DOMAIN buf[r] = target[r] + 1..n /\ work[r] = hist[n]
      BY <1>3, <2>1 DEF Undone
    <2>3. x = n /\ n > target[r]
      <3>1. n \in Nat /\ x \in target[r] + 1..n
        BY <1>1, <1>4, <2>2
      <3>2. n \in DOMAIN buf[r]
        BY <1>4, <2>2, <3>1
      <3>3. n <= x
        BY <1>1, <3>2
      <3> QED
        BY <1>4, <3>1, <3>3
    <2>4. work'[r] = hist[n - 1]
      BY <1>1, <1>2, <1>3, <2>2, <2>3 DEF BufOK
    <2>5. DOMAIN buf'[r] = target[r] + 1..n - 1
      BY <1>2, <1>4, <2>2, <2>3
    <2> QED
      BY <1>4, <2>3, <2>4, <2>5
  <1>9. Request(r)'
    BY <1>1, <1>3, <1>7, <1>8 DEF Request, vars
  <1> QED
    BY <1>1, <1>2, <1>6, <1>9, OneRequestSteps

\* When all is undone the maps are the revision asked for.
LEMMA SnapDoneHInv ==
  ASSUME HInv, NEW r \in Readers, SnapDone(r)
  PROVE  HInv'
  <1>1. /\ UNCHANGED vars /\ UNCHANGED <<target, base, cursor, buf, work>> /\ pc[r] = "undo"
        /\ DOMAIN buf[r] = {}
    BY DEF SnapDone
  <1>2. target[r] \in Nat /\ base[r] \in Nat
    BY DEF HInv, HistoryTypeOK
  <1>3. /\ pc'[r] = "snapshot"
        /\ when'[r] = IF target[r] \in DOMAIN events THEN target[r] ELSE 0
        /\ \A q \in Readers \ {r} : pc'[q] = pc[q] /\ when'[q] = when[q]
    BY DEF SnapDone, HInv, HistoryTypeOK
  <1>4. HistoryTypeOK'
    <2>1. pc' \in [Readers -> States] /\ when' \in [Readers -> Nat]
      BY <1>2 DEF SnapDone, HInv, HistoryTypeOK, States
    <2> QED
      BY <1>1, <2>1 DEF HInv, HistoryTypeOK, vars, TypeOK
  <1>5. /\ BufOK(buf[r]) /\ Undone(target[r], base[r], buf[r], work[r])
        /\ target[r] <= base[r] /\ base[r] <= dbRev
    BY <1>1 DEF HInv, Request
  <1>6. ASSUME Retained(target[r], base[r]) PROVE work[r] = hist[target[r]]
    <2>1. PICK n \in target[r]..base[r] : DOMAIN buf[r] = target[r] + 1..n /\ work[r] = hist[n]
      BY <1>5, <1>6 DEF Undone
    <2>2. n = target[r]
      <3>1. n \in Nat /\ n >= target[r]
        BY <1>2, <2>1
      <3>2. n > target[r] => n \in target[r] + 1..n
        BY <1>2, <3>1
      <3> QED
        BY <1>1, <1>2, <2>1, <3>1, <3>2
    <2> QED
      BY <2>1, <2>2
  <1>7. Request(r)'
    BY <1>1, <1>3, <1>5, <1>6 DEF Request, BufOK, Retained, vars
  <1> QED
    BY <1>1, <1>3, <1>4, <1>7, OneRequestSteps

\* A diff starts with nothing read.
LEMMA DiffTopologyHInv ==
  ASSUME HInv, NEW r \in Readers, NEW from \in 0..MaxRev, NEW to \in 0..MaxRev,
         DiffTopology(r, from, to)
  PROVE  HInv'
  <1>1. UNCHANGED vars /\ UNCHANGED <<work, when>> /\ from < to /\ from \in Nat /\ to \in Nat
    BY MaxRevAssumption DEF DiffTopology
  <1>2. DOMAIN NoEvents = {}
    BY DEF NoEvents
  <1>3. /\ pc'[r] = "diffRead" /\ target'[r] = from /\ base'[r] = to /\ cursor'[r] = from
        /\ buf'[r] = NoEvents
    BY DEF DiffTopology, HInv, HistoryTypeOK
  <1>4. HistoryTypeOK'
    BY <1>1, <1>2 DEF DiffTopology, HInv, HistoryTypeOK, vars, TypeOK, States
  <1>5. Request(r)'
    BY <1>1, <1>2, <1>3 DEF Request, BufOK, ReadUpTo, vars
  <1> QED
    BY <1>1, <1>4, <1>5, OneRequestSteps DEF DiffTopology, HInv, HistoryTypeOK

\* The steps of the store are steps of Store, and disturb no request.
LEMMA StoreStepHInv ==
  ASSUME HInv, StoreStep \/ UNCHANGED historyVars
  PROVE  HInv'
  <1>1. [Next]_vars /\ UNCHANGED <<pc, target, base, cursor, buf, work, when>>
    BY DEF StoreStep, Next, historyVars, readerVars, locals
  <1>2. IInv'
    BY <1>1, NextIInv DEF HInv
  <1>3. HistoryTypeOK'
    BY <1>1, <1>2 DEF HInv, HistoryTypeOK, IInv
  <1>4. ASSUME NEW r \in Readers PROVE Request(r)'
    BY <1>1, RequestUndisturbed DEF HInv
  <1> QED
    BY <1>2, <1>3, <1>4 DEF HInv

\* A crash takes every request with it.
LEMMA CrashStepHInv ==
  ASSUME HInv, CrashStep
  PROVE  HInv'
  <1>1. IInv'
    BY NextIInv DEF HInv, CrashStep, Next
  <1>2. Empty \in [Keys -> Entity] /\ DOMAIN NoEvents = {}
    BY DEF Empty, Entity, NoEvents
  <1>3. HistoryTypeOK'
    BY <1>1, <1>2 DEF CrashStep, HistoryTypeOK, IInv, States
  <1>4. ASSUME NEW r \in Readers PROVE Request(r)'
    BY <1>2 DEF CrashStep, Request, BufOK
  <1> QED
    BY <1>1, <1>3, <1>4 DEF HInv

\* Every step preserves the invariant.
LEMMA HistoryNextHInv == HInv /\ [HistoryNext]_historyVars => HInv'
  <1> SUFFICES ASSUME HInv, [HistoryNext]_historyVars PROVE HInv'
    OBVIOUS
  <1>1. ASSUME NEW r \in Readers, ReaderStep(r) PROVE HInv'
    <2>1. CASE SnapshotCurrent(r)
      BY <2>1, SnapshotCurrentHInv
    <2>2. CASE \E asked \in 0..MaxRev : SnapshotAt(r, asked)
      BY <2>2, SnapshotAtHInv
    <2>3. CASE SnapOldest(r)
      BY <2>3, SnapOldestHInv
    <2>4. CASE SnapRead(r) \/ DiffRead(r)
      BY <2>4, ReadHInv
    <2>5. CASE \E x \in 1..MaxRev : UndoEntity(r, x)
      BY <2>5, UndoEntityHInv
    <2>6. CASE SnapDone(r)
      BY <2>6, SnapDoneHInv
    <2>7. CASE \E from, to \in 0..MaxRev : DiffTopology(r, from, to)
      BY <2>7, DiffTopologyHInv
    <2>8. CASE Return(r)
      BY <2>8, ForgottenHInv DEF Return
    <2> QED
      BY <1>1, <2>1, <2>2, <2>3, <2>4, <2>5, <2>6, <2>7, <2>8 DEF ReaderStep
  <1>2. CASE StoreStep \/ UNCHANGED historyVars
    BY <1>2, StoreStepHInv
  <1>3. CASE CrashStep
    BY <1>3, CrashStepHInv
  <1> QED
    BY <1>1, <1>2, <1>3 DEF HistoryNext

LEMMA HistoryInvariant == HistorySpec => []HInv
  <1> QED
    BY HistoryInitHInv, HistoryNextHInv, PTL DEF HistorySpec

-----------------------------------------------------------------------------
\* SnapshotAt returns exactly the revision asked for, with its time, as long as the
\* events after it are retained, whatever else the store does while it is read.
THEOREM SnapshotsAreExact == HistorySpec => []RetainedSnapshotIsExact
  <1>1. HInv => RetainedSnapshotIsExact
    BY DEF HInv, Request, RetainedSnapshotIsExact
  <1> QED
    BY <1>1, HistoryInvariant, PTL

\* DiffTopology returns every event of its interval, as long as they are retained.
THEOREM DiffsAreGapFree == HistorySpec => []RetainedDiffIsGapFree
  <1>1. HInv => RetainedDiffIsGapFree
    <2> SUFFICES ASSUME HInv, NEW r \in Readers, pc[r] = "diff", Retained(target[r], cursor[r])
                 PROVE  /\ DOMAIN buf[r] = target[r] + 1..cursor[r]
                        /\ \A x \in DOMAIN buf[r] : buf[r][x] = events[x]
      BY DEF RetainedDiffIsGapFree
    <2>1. DOMAIN buf[r] = target[r] + 1..cursor[r]
      BY DEF HInv, Request, ReadUpTo
    <2>2. \A x \in DOMAIN buf[r] : buf[r][x] = events[x]
      BY <2>1 DEF HInv, Request, BufOK, Retained
    <2> QED
      BY <2>1, <2>2
  <1> QED
    BY <1>1, HistoryInvariant, PTL
=============================================================================
