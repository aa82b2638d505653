----------------------------- MODULE StoreProofs -----------------------------
(***************************************************************************)
(* Proofs about Store.tla, for every set of entities, every set of data and *)
(* every bound.                                                             *)
(***************************************************************************)
EXTENDS Store, TLAPS

\* The invariant that is inductive: no part of it is preserved without the others.
\* Apply computes the new revision and the event's before from memory, so the
\* journal is right only because memory agrees with the disk, and memory agrees
\* with the disk after a crash only because the disk holds the last revision.
IInv ==
    /\ TypeOK
    /\ VisibleIsARevision
    /\ JournalIsASuffix
    /\ EventsUndo
    /\ StampNamesItsWrite
    /\ DiskIsLastRevision

-----------------------------------------------------------------------------
\* The empty directory satisfies the invariant.
LEMMA InitIInv == Init => IInv
  <1> SUFFICES ASSUME Init PROVE IInv
    OBVIOUS
  <1>1. Empty \in [Keys -> Entity]
    BY DEF Empty, Entity
  <1>2. DOMAIN events = {} /\ DOMAIN hist = {0} /\ hist[0] = Empty
    BY DEF Init, NoEvents
  <1>3. hist \in [0..dbRev -> [Keys -> Entity]]
    BY <1>1 DEF Init
  <1>4. TypeOK
    BY <1>1, <1>2, <1>3 DEF Init, NoEvents, TypeOK
  <1>5. VisibleIsARevision /\ JournalIsASuffix /\ EventsUndo /\ DiskIsLastRevision
    BY <1>2 DEF Init, VisibleIsARevision, JournalIsASuffix, EventsUndo, DiskIsLastRevision
  <1>6. StampNamesItsWrite
    BY <1>2 DEF Init, StampNamesItsWrite, Empty
  <1> QED
    BY <1>4, <1>5, <1>6 DEF IInv

\* What the commit of a mutation leaves, told by what was on disk: every part of
\* the invariant below rests on it.
Committed(k, after) ==
    /\ dbRev = revision /\ ents = hist[dbRev] /\ dbEnts = hist[dbRev]
    /\ dbRev' = dbRev + 1
    /\ dbEnts' = [dbEnts EXCEPT ![k] = after]
    /\ dbEnts' \in [Keys -> Entity]
    /\ DOMAIN hist = 0..dbRev
    /\ DOMAIN hist' = 0..dbRev'
    /\ \A r \in 0..dbRev : hist'[r] = hist[r]
    /\ hist'[dbRev'] = dbEnts'
    /\ hist' \in [0..dbRev' -> [Keys -> Entity]]
    /\ DOMAIN events' = DOMAIN events \cup {dbRev'}
    /\ \A r \in DOMAIN events : r # dbRev' /\ events'[r] = events[r]
    /\ events'[dbRev'] = [key |-> k, before |-> dbEnts[k], after |-> after]

\* Apply reads memory, and commits what it would have committed reading the disk.
LEMMA CommitEffect ==
  ASSUME IInv, NEW k \in Keys, NEW after \in Entity,
         after # Absent => after.revision = NextRevision,
         Apply(k, after, NextRevision)
  PROVE  Committed(k, after)
  <1>1. dbRev = revision /\ ents = hist[dbRev] /\ dbEnts = hist[dbRev] /\ dbRev \in Nat
    BY DEF IInv, TypeOK, VisibleIsARevision, DiskIsLastRevision, Apply, Unlocked
  <1>2. dbRev' = dbRev + 1 /\ dbEnts' = [dbEnts EXCEPT ![k] = after]
    BY <1>1 DEF Apply, Commit, PutEntity, NextRevision
  <1>3. dbEnts' \in [Keys -> Entity]
    BY <1>2 DEF IInv, TypeOK
  <1>4. DOMAIN hist = 0..dbRev
    BY DEF IInv, TypeOK
  <1>5. hist' = [r \in 0..dbRev' |-> IF r = dbRev' THEN dbEnts' ELSE hist[r]]
    <2>1. 0..dbRev' = 0..dbRev \cup {dbRev'}
      BY <1>1, <1>2
    <2> QED
      BY <1>1, <1>2, <1>4, <2>1 DEF Apply, Commit, NextRevision
  <1>6. /\ DOMAIN hist' = 0..dbRev'
        /\ \A r \in 0..dbRev : hist'[r] = hist[r]
        /\ hist'[dbRev'] = dbEnts'
    BY <1>1, <1>2, <1>5
  <1>7. hist' \in [0..dbRev' -> [Keys -> Entity]]
    <2>1. \A r \in 0..dbRev' : r # dbRev' => hist[r] \in [Keys -> Entity]
      BY <1>1, <1>2 DEF IInv, TypeOK
    <2> QED
      BY <1>3, <1>5, <2>1
  <1>8. events' = [r \in DOMAIN events \cup {dbRev'} |->
                     IF r = dbRev' THEN [key |-> k, before |-> dbEnts[k], after |-> after]
                                   ELSE events[r]]
    BY <1>1, <1>2 DEF Apply, Commit, PutEvent, NewEvent, Lookup, NextRevision
  <1>9. \A r \in DOMAIN events : r # dbRev'
    BY <1>1, <1>2 DEF IInv, TypeOK
  <1> QED
    BY <1>1, <1>2, <1>3, <1>4, <1>6, <1>7, <1>8, <1>9 DEF Committed

\* Apply, up to its commit, keeps the invariant.
LEMMA ApplyIInv ==
  ASSUME IInv, NEW k \in Keys, NEW after \in Entity,
         after # Absent => after.revision = NextRevision,
         Apply(k, after, NextRevision)
  PROVE  IInv'
  <1>c. Committed(k, after)
    BY CommitEffect
  <1> USE <1>c DEF Committed
  <1>0. /\ dbRev \in Nat /\ revision \in Nat /\ dbRev' = dbRev + 1 /\ up /\ up'
        /\ revision' = revision /\ observed' = observed /\ ents' = ents
        /\ applying = NoApply
        /\ applying' = [key |-> k, after |-> after, rev |-> dbRev']
    BY DEF IInv, TypeOK, Apply, Unlocked, NextRevision
  <1>1. TypeOK'
    <2>1. DOMAIN events' \subseteq 1..dbRev'
      BY <1>0 DEF IInv, TypeOK
    <2>2. \A r \in DOMAIN events' : events'[r] \in Event
      BY <1>0 DEF IInv, TypeOK, Event
    <2>3. events' = [r \in DOMAIN events' |-> events'[r]]
      BY DEF Apply, Commit, PutEvent
    <2>4. applying' \in Applying
      BY <1>0 DEF Applying
    <2> QED
      BY <1>0, <2>1, <2>2, <2>3, <2>4 DEF IInv, TypeOK
  <1>2. VisibleIsARevision'
    <2>1. applying' # NoApply
      BY <1>0, NoApplyAssumption DEF Applying
    <2>2. observed # revision => observed = 0 /\ revision \notin DOMAIN events
      BY <1>0 DEF IInv, VisibleIsARevision
    <2> QED
      BY <1>0, <2>1, <2>2 DEF VisibleIsARevision
  <1>3. JournalIsASuffix'
    BY <1>0 DEF IInv, TypeOK, JournalIsASuffix
  <1>4. EventsUndo'
    <2> SUFFICES ASSUME NEW r \in DOMAIN events'
                 PROVE  /\ r - 1 \in DOMAIN hist'
                        /\ hist'[r - 1] = [hist'[r] EXCEPT ![events'[r].key] = events'[r].before]
                        /\ hist'[r][events'[r].key] = events'[r].after
      BY DEF EventsUndo, PutEntity
    <2>1. CASE r = dbRev'
      <3>1. dbEnts \in [Keys -> Entity] /\ dbEnts = hist'[r - 1] /\ r - 1 \in 0..dbRev'
        BY <1>0, <2>1 DEF IInv, TypeOK
      <3>2. dbEnts = [dbEnts' EXCEPT ![k] = dbEnts[k]]
        BY <3>1
      <3> QED
        BY <2>1, <3>1, <3>2
    <2>2. CASE r \in DOMAIN events
      <3>1. r \in 1..dbRev /\ r - 1 \in 0..dbRev /\ r \in 0..dbRev /\ r - 1 \in 0..dbRev'
        BY <1>0, <2>2 DEF IInv, TypeOK
      <3>2. hist'[r - 1] = hist[r - 1] /\ hist'[r] = hist[r] /\ events'[r] = events[r]
        BY <2>2, <3>1
      <3> QED
        BY <2>2, <3>1, <3>2 DEF IInv, EventsUndo, PutEntity
    <2> QED
      BY <2>1, <2>2
  <1>5. StampNamesItsWrite'
    <2> SUFFICES ASSUME NEW r \in 0..dbRev', NEW j \in Keys, hist'[r][j] # Absent
                 PROVE  /\ hist'[r][j].revision \in 1..r
                        /\ \A q \in hist'[r][j].revision..r : hist'[q][j] = hist'[r][j]
                        /\ hist'[hist'[r][j].revision - 1][j] # hist'[r][j]
      BY DEF StampNamesItsWrite
    <2>1. ASSUME NEW p \in 0..dbRev, hist[p][j] # Absent
          PROVE  /\ hist[p][j].revision \in 1..p
                 /\ \A q \in hist[p][j].revision..p : hist'[q][j] = hist[p][j]
                 /\ hist'[hist[p][j].revision - 1][j] # hist[p][j]
      <3>1. /\ hist[p][j].revision \in 1..p
            /\ \A q \in hist[p][j].revision..p : hist[q][j] = hist[p][j]
            /\ hist[hist[p][j].revision - 1][j] # hist[p][j]
        <4>1. StampNamesItsWrite /\ p \in DOMAIN hist
          BY DEF IInv
        <4> HIDE <1>c
        <4> QED
          BY <2>1, <4>1, Zenon DEF StampNamesItsWrite
      <3>2. ASSUME NEW q \in hist[p][j].revision..p PROVE hist'[q][j] = hist[p][j]
        BY <1>0, <3>1
      <3>3. hist'[hist[p][j].revision - 1] = hist[hist[p][j].revision - 1]
        BY <1>0, <3>1
      <3> QED
        BY <3>1, <3>2, <3>3
    <2>2. CASE r \in 0..dbRev
      BY <2>1, <2>2
    <2>3. CASE r = dbRev' /\ j # k
      <3>1. hist'[r][j] = hist[dbRev][j] /\ dbRev \in 0..dbRev
        BY <1>0, <2>3 DEF IInv, TypeOK
      <3>2. /\ hist[dbRev][j].revision \in 1..dbRev
            /\ \A q \in hist[dbRev][j].revision..dbRev : hist'[q][j] = hist[dbRev][j]
            /\ hist'[hist[dbRev][j].revision - 1][j] # hist[dbRev][j]
        BY <2>1, <3>1
      <3> QED
        BY <1>0, <2>3, <3>1, <3>2
    <2>4. CASE r = dbRev' /\ j = k
      <3>1. hist'[r][j] = after
        BY <2>4 DEF IInv, TypeOK
      <3>2. after.revision = dbRev' /\ after.revision - 1 = dbRev
        BY <1>0, <3>1 DEF NextRevision
      <3>3. hist'[dbRev][k] # after
        <4>1. hist'[dbRev][k] = hist[dbRev][k] /\ dbRev \in DOMAIN hist
          BY <1>0
        <4>2. StampNamesItsWrite
          BY DEF IInv
        <4>3. dbRev' \notin 1..dbRev
          BY <1>0
        <4> HIDE <1>c
        <4>4. hist[dbRev][k] # Absent => hist[dbRev][k].revision \in 1..dbRev
          BY <4>1, <4>2, Zenon DEF StampNamesItsWrite
        <4>5. after # Absent
          BY <2>4, <3>1
        <4> QED
          BY <3>2, <4>1, <4>3, <4>4, <4>5, Zenon
      <3>4. \A q \in dbRev'..dbRev' : q = dbRev'
        BY <1>0
      <3>5. dbRev' \in 1..dbRev'
        BY <1>0
      <3> QED
        BY <2>4, <3>1, <3>2, <3>3, <3>4, <3>5
    <2> QED
      BY <1>0, <2>2, <2>3, <2>4
  <1>6. DiskIsLastRevision'
    BY <1>0 DEF DiskIsLastRevision, PutEntity, TypeOK, IInv
  <1> QED
    BY <1>1, <1>2, <1>3, <1>4, <1>5, <1>6 DEF IInv

-----------------------------------------------------------------------------
\* The stamp of an upserted value is the revision Apply commits.
LEMMA UpsertValue ==
  ASSUME IInv, NEW d \in Data
  PROVE  /\ SetRevision(d, NextRevision) \in Entity
         /\ SetRevision(d, NextRevision).revision = NextRevision
  BY DEF IInv, TypeOK, SetRevision, NextRevision, Entity, Value

\* Every step of the store keeps the invariant.
LEMMA NextIInv == IInv /\ [Next]_vars => IInv'
  <1> SUFFICES ASSUME IInv, [Next]_vars PROVE IInv'
    OBVIOUS
  <1>1. ASSUME NEW k \in Keys, NEW d \in Data, ApplyUpsert(k, d) PROVE IInv'
    BY <1>1, UpsertValue, ApplyIInv DEF ApplyUpsert
  <1>2. ASSUME NEW k \in Keys, ApplyDelete(k) PROVE IInv'
    BY <1>2, ApplyIInv DEF ApplyDelete, Entity
  <1>3. CASE ApplyMemory
    <2>1. TypeOK'
      BY <1>3 DEF ApplyMemory, IInv, TypeOK, Applying, PutEntity, dbVars
    <2>2. VisibleIsARevision'
      BY <1>3, <2>1 DEF ApplyMemory, IInv, TypeOK, VisibleIsARevision, DiskIsLastRevision, dbVars
    <2>3. (JournalIsASuffix /\ EventsUndo /\ StampNamesItsWrite)'
      BY <1>3 DEF ApplyMemory, IInv, JournalIsASuffix, EventsUndo, StampNamesItsWrite, dbVars, PutEntity
    <2>4. DiskIsLastRevision'
      BY <1>3 DEF ApplyMemory, IInv, DiskIsLastRevision, dbVars
    <2> QED
      BY <2>1, <2>2, <2>3, <2>4 DEF IInv
  <1>4. ASSUME NEW deleteTo \in DOMAIN events, CompactHistory(deleteTo) PROVE IInv'
    <2>1. /\ DOMAIN events' = {r \in DOMAIN events : r > deleteTo}
          /\ \A r \in DOMAIN events' : events'[r] = events[r]
          /\ UNCHANGED <<dbRev, dbEnts, up, revision, observed, ents, applying, hist>>
      BY <1>4 DEF CompactHistory, KeptAfter, memVars
    <2>2. TypeOK'
      BY <1>4, <2>1 DEF CompactHistory, IInv, TypeOK
    <2>3. VisibleIsARevision'
      BY <2>1 DEF IInv, VisibleIsARevision
    <2>4. JournalIsASuffix'
      BY <2>1 DEF IInv, TypeOK, JournalIsASuffix
    <2>5. EventsUndo'
      BY <2>1 DEF IInv, EventsUndo, PutEntity
    <2>6. (StampNamesItsWrite /\ DiskIsLastRevision)'
      BY <2>1 DEF IInv, StampNamesItsWrite, DiskIsLastRevision, PutEntity
    <2> QED
      BY <2>2, <2>3, <2>4, <2>5, <2>6 DEF IInv
  <1>5. CASE Crash
    <2>1. Empty \in [Keys -> Entity]
      BY DEF Empty, Entity
    <2>2. TypeOK'
      BY <1>5, <2>1 DEF Crash, IInv, TypeOK, dbVars
    <2>3. (VisibleIsARevision /\ DiskIsLastRevision)'
      BY <1>5 DEF Crash, IInv, VisibleIsARevision, DiskIsLastRevision, dbVars
    <2>4. (JournalIsASuffix /\ EventsUndo /\ StampNamesItsWrite)'
      BY <1>5 DEF Crash, IInv, JournalIsASuffix, EventsUndo, StampNamesItsWrite, dbVars, PutEntity
    <2> QED
      BY <2>2, <2>3, <2>4 DEF IInv
  <1>6. CASE Open
    <2>1. TypeOK'
      BY <1>6 DEF Open, LoadObserved, IInv, TypeOK, dbVars
    <2>2. VisibleIsARevision'
      BY <1>6 DEF Open, LoadObserved, IInv, TypeOK, VisibleIsARevision, DiskIsLastRevision, dbVars
    <2>3. DiskIsLastRevision'
      BY <1>6 DEF Open, IInv, DiskIsLastRevision, dbVars
    <2>4. (JournalIsASuffix /\ EventsUndo /\ StampNamesItsWrite)'
      BY <1>6 DEF Open, IInv, JournalIsASuffix, EventsUndo, StampNamesItsWrite, dbVars, PutEntity
    <2> QED
      BY <2>1, <2>2, <2>3, <2>4 DEF IInv
  <1>7. CASE UNCHANGED vars
    BY <1>7 DEF vars, IInv, TypeOK, VisibleIsARevision, JournalIsASuffix, EventsUndo,
       StampNamesItsWrite, DiskIsLastRevision, PutEntity
  <1> QED
    BY <1>1, <1>2, <1>3, <1>4, <1>5, <1>6, <1>7 DEF Next

\* The invariant holds of every behaviour of the store.
LEMMA StoreInvariant == Spec => []IInv
  <1> QED
    BY InitIInv, NextIInv, PTL DEF Spec

-----------------------------------------------------------------------------
\* Store.go keeps its types: the journal only holds committed revisions, and the
\* history has one state for each.
THEOREM TypeCorrect == Spec => []TypeOK
  <1>1. IInv => TypeOK
    BY DEF IInv
  <1> QED
    BY <1>1, StoreInvariant, PTL

\* Readers under the mutex see one whole committed revision.
THEOREM ReadersSeeARevision == Spec => []VisibleIsARevision
  <1>1. IInv => VisibleIsARevision
    BY DEF IInv
  <1> QED
    BY <1>1, StoreInvariant, PTL

\* Compaction, which takes no lock, never leaves a hole: the retained journal is
\* consecutive and ends at the last commit.
THEOREM JournalHasNoHole == Spec => []JournalIsASuffix
  <1>1. IInv => JournalIsASuffix
    BY DEF IInv
  <1> QED
    BY <1>1, StoreInvariant, PTL

\* Each retained event undoes its revision.
THEOREM JournalIsExact == Spec => []EventsUndo
  <1>1. IInv => EventsUndo
    BY DEF IInv
  <1> QED
    BY <1>1, StoreInvariant, PTL

\* What load finds after a crash is the last committed revision, and what an Apply
\* that has committed still owes memory is exactly the difference.
THEOREM CrashLosesNothing == Spec => []DiskIsLastRevision
  <1>1. IInv => DiskIsLastRevision
    BY DEF IInv
  <1> QED
    BY <1>1, StoreInvariant, PTL

\* The revision stamped on an entity is the one that wrote it.
THEOREM StampsAreTrue == Spec => []StampNamesItsWrite
  <1>1. IInv => StampNamesItsWrite
    BY DEF IInv
  <1> QED
    BY <1>1, StoreInvariant, PTL

-----------------------------------------------------------------------------
\* One step of the store on disk, told by what was on disk.
LEMMA CommitIsAccept ==
  ASSUME IInv, NEW k \in Keys, NEW after \in Entity,
         after # Absent => after.revision = NextRevision,
         Apply(k, after, NextRevision)
  PROVE  Durable!Accept(k, after)
  <1>1. Committed(k, after)
    BY CommitEffect
  <1>2. events' = PutEvent(NextRevision, NewEvent(k, after))
    BY DEF Apply, Commit
  <1> QED
    BY <1>1, <1>2 DEF Committed, Durable!Accept, PutEvent, NewEvent, Lookup, NextRevision

\* Every step of the store is a step of RevisionedStore on disk, or leaves the disk
\* alone.
LEMMA StepRefines == IInv /\ [Next]_vars => [Durable!Next]_(Durable!absVars)
  <1> SUFFICES ASSUME IInv, [Next]_vars PROVE [Durable!Next]_(Durable!absVars)
    OBVIOUS
  <1>1. ASSUME NEW k \in Keys, NEW d \in Data, ApplyUpsert(k, d) PROVE Durable!Next
    <2>1. Durable!Accept(k, SetRevision(d, NextRevision))
      BY <1>1, UpsertValue, CommitIsAccept DEF ApplyUpsert
    <2>2. NextRevision = dbRev + 1
      BY <1>1 DEF ApplyUpsert, Apply, Unlocked, IInv, VisibleIsARevision, NextRevision
    <2>3. Durable!Upsert(k, d)
      BY <2>1, <2>2 DEF Durable!Upsert, SetRevision
    <2> QED
      BY <2>3 DEF Durable!Next
  <1>2. ASSUME NEW k \in Keys, ApplyDelete(k) PROVE Durable!Next
    <2>1. Durable!Delete(k)
      BY <1>2, CommitIsAccept DEF ApplyDelete, Entity, Durable!Delete
    <2> QED
      BY <2>1 DEF Durable!Next
  <1>3. ASSUME NEW deleteTo \in DOMAIN events, CompactHistory(deleteTo) PROVE Durable!Next
    <2>1. Durable!Prune(deleteTo)
      BY <1>3 DEF CompactHistory, KeptAfter, Durable!Prune
    <2> QED
      BY <2>1 DEF Durable!Next
  <1>4. CASE ApplyMemory \/ Crash \/ Open \/ UNCHANGED vars
    BY <1>4 DEF ApplyMemory, Crash, Open, vars, dbVars, Durable!absVars
  <1> QED
    BY <1>1, <1>2, <1>3, <1>4 DEF Next

\* The store implements RevisionedStore, across crashes and compactions.
THEOREM ImplementsRevisionedStore == Spec => DurableSpec
  <1>1. Init => Durable!Init
    BY DEF Init, NoEvents, Empty, Durable!Init
  <1> QED
    BY <1>1, StepRefines, StoreInvariant, PTL DEF Spec, DurableSpec, Durable!Spec

\* No step changes an earlier revision or a retained event.
LEMMA StepIsFinal ==
  ASSUME IInv, [Next]_vars
  PROVE  /\ \A r \in DOMAIN hist : r \in DOMAIN hist' /\ hist'[r] = hist[r]
         /\ \A r \in DOMAIN events \cap DOMAIN events' : events'[r] = events[r]
  <1>1. ASSUME NEW k \in Keys, NEW after \in Entity, Committed(k, after)
        PROVE  /\ \A r \in DOMAIN hist : r \in DOMAIN hist' /\ hist'[r] = hist[r]
               /\ \A r \in DOMAIN events \cap DOMAIN events' : events'[r] = events[r]
    BY <1>1 DEF IInv, TypeOK, Committed
  <1>2. ASSUME NEW k \in Keys, NEW d \in Data, ApplyUpsert(k, d)
        PROVE  Committed(k, SetRevision(d, NextRevision))
    BY <1>2, UpsertValue, CommitEffect DEF ApplyUpsert
  <1>3. ASSUME NEW k \in Keys, ApplyDelete(k)
        PROVE  Committed(k, Absent)
    BY <1>3, CommitEffect DEF ApplyDelete, Entity
  <1>4. ASSUME NEW deleteTo \in DOMAIN events, CompactHistory(deleteTo)
        PROVE  /\ hist' = hist
               /\ \A r \in DOMAIN events \cap DOMAIN events' : events'[r] = events[r]
    BY <1>4 DEF CompactHistory, KeptAfter
  <1>5. CASE ApplyMemory \/ Crash \/ Open \/ UNCHANGED vars
    BY <1>5 DEF ApplyMemory, Crash, Open, vars, dbVars
  <1>6. CASE \E k \in Keys, d \in Data : ApplyUpsert(k, d)
    BY <1>1, <1>2, <1>6, UpsertValue
  <1>7. CASE \E k \in Keys : ApplyDelete(k)
    BY <1>1, <1>3, <1>7 DEF Entity
  <1>8. CASE \E deleteTo \in DOMAIN events : CompactHistory(deleteTo)
    BY <1>4, <1>8
  <1> QED
    BY <1>5, <1>6, <1>7, <1>8 DEF Next

\* A revision number is used once, whatever crashes and restarts happen.
THEOREM RevisionsStayFinal == Spec => RevisionsAreFinal
  <1>1. IInv /\ [Next]_vars =>
          [/\ \A r \in DOMAIN hist : r \in DOMAIN hist' /\ hist'[r] = hist[r]
           /\ \A r \in DOMAIN events \cap DOMAIN events' : events'[r] = events[r]]_vars
    BY StepIsFinal
  <1> QED
    BY <1>1, StoreInvariant, PTL DEF Spec, RevisionsAreFinal
=============================================================================
