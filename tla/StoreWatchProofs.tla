-------------------------- MODULE StoreWatchProofs --------------------------
(***************************************************************************)
(* Proofs about StoreWatch.tla: for any number of watches, entities,        *)
(* mutations and any capacity of the channels.                              *)
(***************************************************************************)
EXTENDS StoreWatch, StoreProofs, FiniteSetTheorems, SequenceTheorems

Places == {"idle", "checked", "replay", "live", "ended"}

\* The variables of the watches have their types.
WatchTypeOK ==
    /\ holder \in Watchers \cup {NoWatcher}
    /\ subs \subseteq Watchers
    /\ wpc \in [Watchers -> Places]
    /\ replay \in [Watchers -> SUBSET Nat]
    /\ chan \in [Watchers -> Seq(Nat)]
    /\ closes \in [Watchers -> Nat]
    /\ ctxDone \in [Watchers -> BOOLEAN]
    /\ cleaner \in [Watchers -> BOOLEAN]
    /\ last \in [Watchers -> Nat]
    /\ missed \in [Watchers -> BOOLEAN]

\* The mutex and the map exist only while the process runs.
OnlyWhileUp ==
    /\ holder # NoWatcher => up /\ applying = NoApply
    /\ subs # {} => up

\* Where a watch can be registered, have a goroutine or a closed channel.
Lifecycle(w) ==
    /\ wpc[w] = "replay" <=> holder = w
    /\ closes[w] <= 1
    /\ w \in subs => closes[w] = 0 /\ cleaner[w]
    /\ wpc[w] = "live" /\ w \notin subs => closes[w] = 1
    /\ wpc[w] \in {"idle", "checked", "replay"} => w \notin subs /\ ~cleaner[w]
    /\ wpc[w] \in {"checked", "replay"} => closes[w] = 0
    /\ wpc[w] = "checked" => chan[w] = <<>>

\* What is in the channel follows what the client has, without a hole.
Follows(c, a) == \A i \in 1..Len(c) : c[i] = a + i

Consecutive(w) == Follows(chan[w], last[w])

\* Subscribe has put the first events into the channel and still has those up to n.
\* Either these are all there are, or so many that the channel will be full first.
ReplayReaches(w, n) ==
    /\ n \in Nat
    /\ last[w] + Len(chan[w]) <= n
    /\ replay[w] = last[w] + Len(chan[w]) + 1..n
    /\ n = dbRev \/ n > last[w] + ChanCap

\* The stream of a client that missed nothing, in each of its places.
Stream(w) ==
    /\ last[w] <= dbRev
    /\ wpc[w] = "replay" =>
         /\ Consecutive(w)
         /\ Len(chan[w]) <= ChanCap
         /\ \E n \in Nat : ReplayReaches(w, n)
    /\ wpc[w] = "live" /\ ~ctxDone[w] =>
         /\ Consecutive(w)
         /\ last[w] + Len(chan[w]) <= dbRev
    /\ w \in subs /\ ~ctxDone[w] =>
         /\ Consecutive(w)
         /\ last[w] + Len(chan[w]) = revision

\* The inductive invariant.
WInv ==
    /\ IInv
    /\ WatchTypeOK
    /\ OnlyWhileUp
    /\ \A w \in Watchers : Lifecycle(w)
    /\ \A w \in Watchers : ~missed[w] => Stream(w)

-----------------------------------------------------------------------------
\* The store and what the watches add to it start in the invariant.
LEMMA WatchInitInv == WatchInit => WInv
  <1> SUFFICES ASSUME WatchInit PROVE WInv
    OBVIOUS
  <1>1. IInv
    BY InitIInv DEF WatchInit
  <1>2. <<>> \in Seq(Nat) /\ Len(<<>>) = 0
    BY EmptySeq
  <1>3. WatchTypeOK
    BY <1>2 DEF WatchInit, WatchTypeOK, Places
  <1>4. OnlyWhileUp
    BY DEF WatchInit, OnlyWhileUp
  <1>5. ASSUME NEW w \in Watchers PROVE Lifecycle(w)
    BY <1>5, NoWatcherAssumption DEF WatchInit, Lifecycle
  <1>6. ASSUME NEW w \in Watchers PROVE Stream(w)
    BY <1>6 DEF WatchInit, Stream, Init
  <1> QED
    BY <1>1, <1>3, <1>4, <1>5, <1>6 DEF WInv

\* The call of Events in Subscribe returns what is retained without a hole from the
\* first event on, cut at the limit.
LEMMA ReplayIsInterval ==
  ASSUME NEW a \in Nat, NEW b \in Nat, a <= b, Window(a, 0) = a + 1..b
  PROVE  \E n \in Nat : /\ a <= n
                        /\ Events(a, 0, EventsLimit) = a + 1..n
                        /\ n = b \/ n > a + ChanCap
  <1> DEFINE n == IF a + EventsLimit < b THEN a + EventsLimit ELSE b
  <1>1. n \in Nat /\ a <= n /\ n <= b /\ (n = b \/ n > a + ChanCap)
    BY ChanCapAssumption, EventsLimitAssumption
  <1>2. ASSUME NEW r \in a + 1..b
        PROVE  Cardinality({q \in a + 1..b : q <= r}) = r - a
    <2>1. {q \in a + 1..b : q <= r} = a + 1..r
      OBVIOUS
    <2>2. Cardinality(a + 1..r) = r - a
      BY FS_Interval
    <2> QED
      BY <2>1, <2>2
  <1>3. Events(a, 0, EventsLimit)
          = {r \in a + 1..b : Cardinality({q \in a + 1..b : q <= r}) <= EventsLimit}
    BY DEF Events
  <1>4. Events(a, 0, EventsLimit) = {r \in a + 1..b : r - a <= EventsLimit}
    BY <1>2, <1>3
  <1>5. {r \in a + 1..b : r - a <= EventsLimit} = a + 1..n
    BY ChanCapAssumption
  <1> QED
    BY <1>1, <1>4, <1>5

\* The first event of an interval, and what remains of it.
LEMMA FirstOfInterval ==
  ASSUME NEW m \in Nat, NEW n \in Nat, NEW x \in m + 1..n, \A y \in m + 1..n : x <= y
  PROVE  x = m + 1 /\ (m + 1..n) \ {x} = m + 1 + 1..n
  <1>1. x = m + 1
    <2>1. m + 1 \in m + 1..n
      OBVIOUS
    <2> QED
      BY <2>1
  <1> QED
    BY <1>1

\* An event put into the channel behind the ones before it.
LEMMA PutLast ==
  ASSUME NEW c \in Seq(Nat), NEW a \in Nat, NEW x \in Nat
  PROVE  /\ Append(c, x) \in Seq(Nat)
         /\ Len(c) \in Nat /\ Len(Append(c, x)) = Len(c) + 1
         /\ Follows(c, a) /\ x = a + Len(c) + 1 => Follows(Append(c, x), a)
  <1>1. /\ Append(c, x) \in Seq(Nat)
        /\ Len(c) \in Nat /\ Len(Append(c, x)) = Len(c) + 1
        /\ \A i \in 1..Len(c) : Append(c, x)[i] = c[i]
        /\ Append(c, x)[Len(c) + 1] = x
    OBVIOUS
  <1>2. ASSUME Follows(c, a), x = a + Len(c) + 1 PROVE Follows(Append(c, x), a)
    <2> SUFFICES ASSUME NEW i \in 1..Len(c) + 1 PROVE Append(c, x)[i] = a + i
      BY <1>1 DEF Follows
    <2>1. CASE i \in 1..Len(c)
      BY <1>1, <1>2, <2>1 DEF Follows
    <2>2. CASE i = Len(c) + 1
      BY <1>1, <1>2, <2>2
    <2> QED
      BY <1>1, <2>1, <2>2
  <1> QED
    BY <1>1, <1>2

\* What is left of a channel after its first event was taken.
LEMMA TakeFirst ==
  ASSUME NEW c \in Seq(Nat), c # <<>>, NEW a \in Nat
  PROVE  /\ Head(c) \in Nat /\ Len(c) \in Nat \ {0}
         /\ Tail(c) \in Seq(Nat) /\ Len(Tail(c)) = Len(c) - 1
         /\ Follows(c, a) => Head(c) = a + 1 /\ Follows(Tail(c), a + 1)
  <1>1. /\ Head(c) \in Nat /\ Head(c) = c[1] /\ Len(c) \in Nat \ {0}
        /\ Tail(c) \in Seq(Nat) /\ Len(Tail(c)) = Len(c) - 1
        /\ \A i \in 1..Len(c) - 1 : Tail(c)[i] = c[i + 1]
    OBVIOUS
  <1>2. ASSUME Follows(c, a) PROVE Head(c) = a + 1
    <2>1. 1 \in 1..Len(c)
      BY <1>1
    <2> QED
      BY <1>1, <1>2, <2>1 DEF Follows
  <1>3. ASSUME Follows(c, a) PROVE Follows(Tail(c), a + 1)
    <2> SUFFICES ASSUME NEW i \in 1..Len(c) - 1 PROVE Tail(c)[i] = a + 1 + i
      BY <1>1 DEF Follows
    <2>1. i + 1 \in 1..Len(c) /\ c[i + 1] = a + (i + 1)
      BY <1>1, <1>3 DEF Follows
    <2> QED
      BY <1>1, <2>1
  <1> QED
    BY <1>1, <1>2, <1>3

-----------------------------------------------------------------------------
\* A step that leaves watch v and the store alone.
Same(v) ==
    /\ dbRev' = dbRev /\ revision' = revision
    /\ holder' = v <=> holder = v
    /\ v \in subs' <=> v \in subs
    /\ wpc'[v] = wpc[v]
    /\ replay'[v] = replay[v]
    /\ chan'[v] = chan[v]
    /\ closes'[v] = closes[v]
    /\ ctxDone'[v] = ctxDone[v]
    /\ cleaner'[v] = cleaner[v]
    /\ last'[v] = last[v]
    /\ missed'[v] = missed[v]

\* What holds of watch v goes on to hold.
LEMMA SameKeeps ==
  ASSUME NEW v \in Watchers, Same(v), Lifecycle(v), ~missed[v] => Stream(v)
  PROVE  Lifecycle(v)' /\ (~missed'[v] => Stream(v)')
  <1>1. Lifecycle(v)'
    BY DEF Same, Lifecycle
  <1>2. ASSUME ~missed'[v] PROVE Stream(v)'
    BY <1>2 DEF Same, Stream, Consecutive, ReplayReaches
  <1> QED
    BY <1>1, <1>2

\* A step of watch w leaves the store and the other watches alone.
LEMMA OthersKeep ==
  ASSUME WInv, NEW w \in Watchers, UNCHANGED vars, WatchTypeOK', OnlyWhileUp',
         \A v \in Watchers \ {w} : Same(v),
         Lifecycle(w)', ~missed'[w] => Stream(w)'
  PROVE  WInv'
  <1>1. IInv'
    BY NextIInv DEF WInv
  <1>2. ASSUME NEW v \in Watchers PROVE Lifecycle(v)' /\ (~missed'[v] => Stream(v)')
    <2>1. CASE v = w
      BY <2>1
    <2>2. CASE v # w
      BY <2>2, SameKeeps DEF WInv
    <2> QED
      BY <2>1, <2>2
  <1> QED
    BY <1>1, <1>2 DEF WInv

\* The client reads a snapshot.
LEMMA ClientReadsInv ==
  ASSUME WInv, NEW w \in Watchers, ClientReads(w)
  PROVE  WInv'
  <1> USE DEF WInv
  <1>0. UNCHANGED vars /\ revision \in Nat /\ dbRev = revision
    BY DEF ClientReads, MutexFree, Unlocked, IInv, TypeOK, VisibleIsARevision
  <1>1. WatchTypeOK'
    BY <1>0 DEF ClientReads, WatchTypeOK
  <1>2. OnlyWhileUp'
    BY <1>0 DEF ClientReads, OnlyWhileUp, vars
  <1>3. \A v \in Watchers \ {w} : Same(v)
    BY <1>0 DEF ClientReads, Same, WatchTypeOK, vars
  <1>4. Lifecycle(w)'
    BY DEF ClientReads, Lifecycle
  <1>5. Stream(w)'
    <2>1. last'[w] = revision /\ wpc'[w] = "idle" /\ w \notin subs' /\ dbRev' = dbRev
      BY <1>0 DEF ClientReads, WatchTypeOK, Lifecycle, vars
    <2> QED
      BY <1>0, <2>1 DEF Stream
  <1> QED
    BY <1>0, <1>1, <1>2, <1>3, <1>4, <1>5, OthersKeep

\* The handler of the watch has made its test.
LEMMA WatchTopologyInv ==
  ASSUME WInv, NEW w \in Watchers, WatchTopology(w)
  PROVE  WInv'
  <1> USE DEF WInv
  <1>0. UNCHANGED vars /\ <<>> \in Seq(Nat) /\ Len(<<>>) = 0
    BY EmptySeq DEF WatchTopology
  <1>1. WatchTypeOK'
    BY <1>0 DEF WatchTopology, WatchTypeOK, Places
  <1>2. OnlyWhileUp'
    BY <1>0 DEF WatchTopology, OnlyWhileUp, vars
  <1>3. \A v \in Watchers \ {w} : Same(v)
    BY <1>0 DEF WatchTopology, Same, WatchTypeOK, vars
  <1>4. /\ wpc'[w] = "checked" /\ chan'[w] = <<>> /\ closes'[w] = 0
        /\ w \notin subs' /\ ~cleaner'[w]
    <2>1. w \notin subs /\ ~cleaner[w]
      BY DEF WatchTopology, Lifecycle
    <2> QED
      BY <2>1 DEF WatchTopology, WatchTypeOK
  <1>5. Lifecycle(w)'
    <2>1. holder' # w
      BY DEF WatchTopology, Lifecycle
    <2> QED
      BY <1>4, <2>1 DEF Lifecycle
  <1>6. ~missed'[w] => Stream(w)'
    BY <1>0, <1>4 DEF WatchTopology, Stream, vars
  <1> QED
    BY <1>0, <1>1, <1>2, <1>3, <1>5, <1>6, OthersKeep

\* Subscribe has locked and read the events to replay.
LEMMA SubscribeInv ==
  ASSUME WInv, NEW w \in Watchers, Subscribe(w)
  PROVE  WInv'
  <1> USE DEF WInv
  <1>0. /\ UNCHANGED vars /\ dbRev \in Nat /\ dbRev = revision /\ up /\ applying = NoApply
        /\ holder = NoWatcher /\ DOMAIN events \subseteq Nat
    BY DEF Subscribe, MutexFree, Unlocked, IInv, TypeOK, VisibleIsARevision
  <1>1. WatchTypeOK'
    <2>1. Events(last[w], 0, EventsLimit) \in SUBSET Nat
      BY <1>0 DEF Events, Window
    <2>2. missed' \in [Watchers -> BOOLEAN]
      BY DEF Subscribe, WatchTypeOK
    <2> QED
      BY <2>1, <2>2 DEF Subscribe, WatchTypeOK, Places
  <1>2. OnlyWhileUp'
    BY <1>0 DEF Subscribe, OnlyWhileUp, vars
  <1>3. ASSUME NEW v \in Watchers \ {w} PROVE Same(v)
    <2>1. holder # v /\ holder' # v
      BY <1>0, NoWatcherAssumption DEF Subscribe
    <2> QED
      BY <1>0, <2>1 DEF Subscribe, Same, WatchTypeOK, vars
  <1>4. /\ wpc'[w] = "replay" /\ holder' = w /\ w \notin subs' /\ ~cleaner'[w]
        /\ closes'[w] = 0 /\ chan'[w] = <<>> /\ last'[w] = last[w] /\ last[w] \in Nat
        /\ replay'[w] = Events(last[w], 0, EventsLimit)
    BY DEF Subscribe, Lifecycle, WatchTypeOK
  <1>5. Lifecycle(w)'
    BY <1>4 DEF Lifecycle
  <1>6. ASSUME ~missed'[w] PROVE Stream(w)'
    <2>1. ~missed[w] /\ Window(last[w], 0) = last[w] + 1..dbRev
      BY <1>6 DEF Subscribe, WatchTypeOK
    <2>2. last[w] <= dbRev
      BY <2>1 DEF Stream
    <2>3. PICK n \in Nat : /\ last[w] <= n
                           /\ Events(last[w], 0, EventsLimit) = last[w] + 1..n
                           /\ n = dbRev \/ n > last[w] + ChanCap
      BY <1>0, <1>4, <2>1, <2>2, ReplayIsInterval
    <2>4. Len(chan'[w]) = 0 /\ Len(chan'[w]) <= ChanCap
      BY <1>4, EmptySeq, ChanCapAssumption
    <2>5. ReplayReaches(w, n)'
      BY <1>0, <1>4, <2>3, <2>4 DEF ReplayReaches, vars
    <2>6. Consecutive(w)'
      BY <2>4 DEF Consecutive, Follows
    <2> QED
      BY <1>0, <1>4, <2>2, <2>4, <2>5, <2>6 DEF Stream, vars
  <1> QED
    BY <1>0, <1>1, <1>2, <1>3, <1>5, <1>6, OthersKeep

\* Subscribe has put one event into the channel.
LEMMA ReplayEventInv ==
  ASSUME WInv, NEW w \in Watchers, ReplayEvent(w)
  PROVE  WInv'
  <1> USE DEF WInv
  <1>0. UNCHANGED vars /\ dbRev \in Nat
    BY DEF ReplayEvent, IInv, TypeOK
  <1>1. PICK x \in replay[w] :
          /\ \A y \in replay[w] : x <= y
          /\ chan' = [chan EXCEPT ![w] = Append(@, x)]
          /\ replay' = [replay EXCEPT ![w] = @ \ {x}]
    BY DEF ReplayEvent
  <1>2. /\ x \in Nat /\ chan[w] \in Seq(Nat) /\ last[w] \in Nat
        /\ replay[w] \in SUBSET Nat
    BY DEF WatchTypeOK
  <1>3. /\ Append(chan[w], x) \in Seq(Nat)
        /\ Len(chan[w]) \in Nat /\ Len(Append(chan[w], x)) = Len(chan[w]) + 1
    BY <1>2, PutLast
  <1>4. WatchTypeOK'
    BY <1>1, <1>2, <1>3 DEF ReplayEvent, WatchTypeOK
  <1>5. OnlyWhileUp'
    BY <1>0 DEF ReplayEvent, OnlyWhileUp, vars
  <1>6. \A v \in Watchers \ {w} : Same(v)
    BY <1>0, <1>1 DEF ReplayEvent, Same, WatchTypeOK, vars
  <1>7. /\ wpc[w] = "replay" /\ wpc'[w] = "replay"
        /\ chan'[w] = Append(chan[w], x) /\ replay'[w] = replay[w] \ {x}
        /\ last'[w] = last[w] /\ missed'[w] = missed[w]
    BY <1>1 DEF ReplayEvent, WatchTypeOK
  <1>8. Lifecycle(w)'
    BY <1>7 DEF ReplayEvent, Lifecycle
  <1>9. ASSUME ~missed'[w] PROVE Stream(w)'
    <2>1. Stream(w)
      BY <1>7, <1>9
    <2>2. PICK n \in Nat : ReplayReaches(w, n)
      BY <1>7, <2>1 DEF Stream
    <2>a. last[w] + Len(chan[w]) \in Nat /\ replay[w] = last[w] + Len(chan[w]) + 1..n
      BY <1>2, <1>3, <2>2 DEF ReplayReaches
    <2>3. /\ x = last[w] + Len(chan[w]) + 1 /\ x <= n
          /\ replay'[w] = last[w] + Len(chan[w]) + 1 + 1..n
      <3> DEFINE m == last[w] + Len(chan[w])
      <3>1. m \in Nat /\ x \in m + 1..n /\ \A y \in m + 1..n : x <= y
        BY <1>1, <2>a
      <3> HIDE DEF m
      <3>2. x = m + 1 /\ (m + 1..n) \ {x} = m + 1 + 1..n
        BY <3>1, FirstOfInterval
      <3>3. x <= n
        BY <3>1
      <3> QED
        BY <1>7, <2>a, <3>2, <3>3 DEF m
    <2>4. Consecutive(w)'
      <3>1. Follows(chan[w], last[w])
        BY <1>7, <2>1 DEF Stream, Consecutive
      <3>2. Follows(Append(chan[w], x), last[w])
        BY <1>2, <2>3, <3>1, PutLast
      <3> QED
        BY <1>7, <3>2 DEF Consecutive
    <2>5. ReplayReaches(w, n)'
      BY <1>0, <1>2, <1>3, <1>7, <2>2, <2>3 DEF ReplayReaches, vars
    <2>6. Len(chan'[w]) <= ChanCap
      BY <1>3, <1>7, ChanCapAssumption DEF ReplayEvent, HasRoom
    <2>7. w \notin subs'
      BY <1>7, <1>8 DEF Lifecycle
    <2> QED
      BY <1>0, <1>7, <2>1, <2>4, <2>5, <2>6, <2>7 DEF Stream, vars
  <1> QED
    BY <1>0, <1>4, <1>5, <1>6, <1>8, <1>9, OthersKeep

\* Subscribe has registered the watch: what it replayed reaches the current revision,
\* for a replay the limit cut short would have filled the channel before.
LEMMA RegisterInv ==
  ASSUME WInv, NEW w \in Watchers, Register(w)
  PROVE  WInv'
  <1> USE DEF WInv
  <1>0. UNCHANGED vars /\ dbRev \in Nat /\ holder = w
    BY DEF Register, IInv, TypeOK, Lifecycle
  <1>1. up /\ dbRev = revision
    BY <1>0, NoWatcherAssumption DEF OnlyWhileUp, IInv, VisibleIsARevision
  <1>2. WatchTypeOK'
    BY DEF Register, WatchTypeOK, Places
  <1>3. OnlyWhileUp'
    BY <1>0, <1>1 DEF Register, OnlyWhileUp, vars
  <1>4. ASSUME NEW v \in Watchers \ {w} PROVE Same(v)
    <2>1. holder # v /\ holder' # v
      BY <1>0, NoWatcherAssumption DEF Register
    <2> QED
      BY <1>0, <2>1 DEF Register, Same, WatchTypeOK, vars
  <1>5. /\ wpc[w] = "replay" /\ wpc'[w] = "live" /\ holder' # w /\ w \in subs' /\ cleaner'[w]
        /\ closes'[w] = 0 /\ chan'[w] = chan[w] /\ last'[w] = last[w]
        /\ last[w] \in Nat /\ chan[w] \in Seq(Nat) /\ missed'[w] = missed[w]
        /\ replay[w] = {}
    BY NoWatcherAssumption DEF Register, Lifecycle, WatchTypeOK
  <1>6. Lifecycle(w)'
    BY <1>5 DEF Lifecycle
  <1>7. ASSUME ~missed'[w] PROVE Stream(w)'
    <2>1. Stream(w)
      BY <1>5, <1>7
    <2>2. PICK n \in Nat : ReplayReaches(w, n)
      BY <1>5, <2>1 DEF Stream
    <2>3. Len(chan[w]) \in Nat /\ Len(chan[w]) <= ChanCap
      BY <1>5, <2>1 DEF Stream
    <2>4. n = last[w] + Len(chan[w])
      <3>1. last[w] + Len(chan[w]) + 1..n = {}
        BY <1>5, <2>2 DEF ReplayReaches
      <3> QED
        <4>1. last[w] + Len(chan[w]) \in Nat /\ last[w] + Len(chan[w]) <= n
          BY <1>5, <2>2, <2>3 DEF ReplayReaches
        <4>2. ASSUME NEW m \in Nat, m <= n, m + 1..n = {} PROVE n = m
          <5>1. n \notin m + 1..n
            BY <4>2
          <5> QED
            BY <4>2, <5>1
        <4> QED
          BY <3>1, <4>1, <4>2
    <2>5. n = dbRev
      BY <1>5, <2>2, <2>3, <2>4, ChanCapAssumption DEF ReplayReaches
    <2>6. Consecutive(w)'
      BY <1>5, <2>1 DEF Stream, Consecutive
    <2> QED
      BY <1>0, <1>1, <1>5, <2>1, <2>3, <2>4, <2>5, <2>6 DEF Stream, vars
  <1> QED
    BY <1>0, <1>2, <1>3, <1>4, <1>6, <1>7, OthersKeep

\* The handler has sent an event to the client.
LEMMA SendInv ==
  ASSUME WInv, NEW w \in Watchers, Send(w)
  PROVE  WInv'
  <1> USE DEF WInv
  <1>0. UNCHANGED vars /\ dbRev \in Nat /\ revision \in Nat
    BY DEF Send, IInv, TypeOK
  <1>1. /\ chan[w] \in Seq(Nat) /\ chan[w] # <<>> /\ last[w] \in Nat
        /\ wpc[w] = "live" /\ ~ctxDone[w]
    BY DEF Send, WatchTypeOK
  <1>2. WatchTypeOK'
    BY <1>1, TakeFirst DEF Send, WatchTypeOK
  <1>3. OnlyWhileUp'
    BY <1>0 DEF Send, OnlyWhileUp, vars
  <1>4. \A v \in Watchers \ {w} : Same(v)
    BY <1>0 DEF Send, Same, WatchTypeOK, vars
  <1>5. Lifecycle(w)'
    BY <1>1 DEF Send, Lifecycle
  <1>6. ASSUME ~missed'[w] PROVE Stream(w)'
    <2>1. Stream(w)
      BY <1>6 DEF Send
    <2>2. last'[w] = Head(chan[w]) /\ chan'[w] = Tail(chan[w]) /\ wpc'[w] = "live"
      BY DEF Send, WatchTypeOK
    <2>3. Consecutive(w) /\ last[w] + Len(chan[w]) <= dbRev
      BY <1>1, <2>1 DEF Stream
    <2>4. last'[w] = last[w] + 1
      BY <1>1, <2>2, <2>3, TakeFirst DEF Consecutive
    <2>5. Consecutive(w)'
      BY <1>1, <2>2, <2>3, <2>4, TakeFirst DEF Consecutive
    <2>l. Len(chan'[w]) = Len(chan[w]) - 1 /\ Len(chan[w]) \in Nat \ {0}
      BY <1>1, <2>2, TakeFirst
    <2>6. last'[w] + Len(chan'[w]) = last[w] + Len(chan[w])
      <3>1. \A a, n \in Nat : (a + 1) + (n - 1) = a + n
        OBVIOUS
      <3> QED
        BY <1>1, <2>4, <2>l, <3>1
    <2>7. Len(chan'[w]) \in Nat /\ last'[w] \in Nat
      BY <1>1, <2>4, <2>l
    <2>8. last'[w] <= dbRev'
      BY <1>0, <2>3, <2>6, <2>7 DEF vars
    <2>9. w \in subs' => last'[w] + Len(chan'[w]) = revision'
      BY <1>0, <1>1, <2>1, <2>6 DEF Stream, Send, vars
    <2> QED
      BY <1>0, <2>2, <2>3, <2>5, <2>6, <2>8, <2>9 DEF Stream, vars
  <1> QED
    BY <1>0, <1>2, <1>3, <1>4, <1>5, <1>6, OthersKeep

\* The handler has sent an event to a client that is gone.
LEMMA SendLostInv ==
  ASSUME WInv, NEW w \in Watchers, SendLost(w)
  PROVE  WInv'
  <1> USE DEF WInv
  <1>0. UNCHANGED vars
    BY DEF SendLost
  <1>1. chan[w] \in Seq(Nat) /\ chan[w] # <<>> /\ wpc[w] = "live" /\ ctxDone[w]
    BY DEF SendLost, WatchTypeOK
  <1>2. PICK next \in {"live", "ended"} : wpc' = [wpc EXCEPT ![w] = next]
    BY DEF SendLost
  <1>3. WatchTypeOK'
    <2>1. Tail(chan[w]) \in Seq(Nat)
      BY <1>1, HeadTailProperties
    <2> QED
      BY <1>2, <2>1 DEF SendLost, WatchTypeOK, Places
  <1>4. OnlyWhileUp'
    BY <1>0 DEF SendLost, OnlyWhileUp, vars
  <1>5. \A v \in Watchers \ {w} : Same(v)
    BY <1>0, <1>2 DEF SendLost, Same, WatchTypeOK, vars
  <1>6. wpc'[w] \in {"live", "ended"}
    BY <1>2 DEF WatchTypeOK
  <1>7. Lifecycle(w)'
    BY <1>1, <1>6 DEF SendLost, Lifecycle
  <1>8. ~missed'[w] => Stream(w)'
    BY <1>0, <1>1, <1>6 DEF SendLost, Stream, vars
  <1> QED
    BY <1>0, <1>3, <1>4, <1>5, <1>7, <1>8, OthersKeep

\* The handler has found its channel empty and closed.
LEMMA EndOfStreamInv ==
  ASSUME WInv, NEW w \in Watchers, EndOfStream(w)
  PROVE  WInv'
  <1> USE DEF WInv
  <1>0. UNCHANGED vars
    BY DEF EndOfStream
  <1>1. WatchTypeOK'
    BY DEF EndOfStream, WatchTypeOK, Places
  <1>2. OnlyWhileUp'
    BY <1>0 DEF EndOfStream, OnlyWhileUp, vars
  <1>3. \A v \in Watchers \ {w} : Same(v)
    BY <1>0 DEF EndOfStream, Same, WatchTypeOK, vars
  <1>4. wpc[w] = "live" /\ wpc'[w] = "ended" /\ ctxDone'[w]
    BY DEF EndOfStream, WatchTypeOK
  <1>5. Lifecycle(w)'
    BY <1>4 DEF EndOfStream, Lifecycle
  <1>6. ~missed'[w] => Stream(w)'
    BY <1>0, <1>4 DEF EndOfStream, Stream, vars
  <1> QED
    BY <1>0, <1>1, <1>2, <1>3, <1>5, <1>6, OthersKeep

\* The client has gone away.
LEMMA CancelInv ==
  ASSUME WInv, NEW w \in Watchers, Cancel(w)
  PROVE  WInv'
  <1> USE DEF WInv
  <1>0. UNCHANGED vars
    BY DEF Cancel
  <1>1. WatchTypeOK'
    BY DEF Cancel, WatchTypeOK
  <1>2. OnlyWhileUp'
    BY <1>0 DEF Cancel, OnlyWhileUp, vars
  <1>3. \A v \in Watchers \ {w} : Same(v)
    BY <1>0 DEF Cancel, Same, WatchTypeOK, vars
  <1>4. ctxDone'[w]
    BY DEF Cancel, WatchTypeOK
  <1>5. Lifecycle(w)'
    BY DEF Cancel, Lifecycle
  <1>6. ~missed'[w] => Stream(w)'
    BY <1>0, <1>4 DEF Cancel, Stream, Consecutive, ReplayReaches, vars
  <1> QED
    BY <1>0, <1>1, <1>2, <1>3, <1>5, <1>6, OthersKeep

\* The goroutine has removed the subscription of a client that is gone, unless Apply
\* had done so before.
LEMMA CleanupInv ==
  ASSUME WInv, NEW w \in Watchers, Cleanup(w)
  PROVE  WInv'
  <1> USE DEF WInv
  <1>0. UNCHANGED vars /\ cleaner[w] /\ ctxDone[w]
    BY DEF Cleanup
  <1>1. WatchTypeOK'
    BY DEF Cleanup, WatchTypeOK
  <1>2. OnlyWhileUp'
    BY <1>0 DEF Cleanup, OnlyWhileUp, vars
  <1>3. \A v \in Watchers \ {w} : Same(v)
    BY <1>0 DEF Cleanup, Same, ToClose, WatchTypeOK, vars
  <1>4. /\ closes'[w] = IF w \in subs THEN closes[w] + 1 ELSE closes[w]
        /\ w \notin subs' /\ ~cleaner'[w]
    BY DEF Cleanup, ToClose, WatchTypeOK
  <1>5. Lifecycle(w)'
    <2>1. closes'[w] <= 1
      BY <1>4 DEF Lifecycle, WatchTypeOK
    <2>2. wpc[w] = "live" => closes'[w] = 1
      BY <1>4 DEF Lifecycle
    <2>3. wpc[w] \notin {"idle", "checked", "replay"} /\ wpc' = wpc /\ holder' = holder
      BY <1>0 DEF Cleanup, Lifecycle
    <2> QED
      BY <1>4, <2>1, <2>2, <2>3 DEF Lifecycle
  <1>6. ~missed'[w] => Stream(w)'
    <2>1. wpc[w] # "replay"
      BY <1>0 DEF Lifecycle
    <2> QED
      BY <1>0, <2>1 DEF Cleanup, Stream, vars
  <1> QED
    BY <1>0, <1>1, <1>2, <1>3, <1>5, <1>6, OthersKeep

-----------------------------------------------------------------------------
\* The store may add a revision on disk while nobody holds the mutex, lose events and
\* open while no watch exists: the watches do not notice.
LEMMA StoreStepInv ==
  ASSUME WInv, StoreStep
  PROVE  WInv'
  <1> USE DEF WInv
  <1>1. Next /\ UNCHANGED watchVars
    BY DEF StoreStep, Next
  <1>2. IInv'
    BY <1>1, NextIInv
  <1>3. dbRev \in Nat /\ dbRev' \in Nat /\ revision \in Nat
    BY <1>2 DEF IInv, TypeOK
  <1>4. /\ dbRev <= dbRev'
        /\ holder # NoWatcher => dbRev' = dbRev /\ up' /\ applying' = NoApply
        /\ subs # {} => revision' = revision /\ up'
    <2>1. ASSUME NEW k, NEW after, Apply(k, after, NextRevision), holder = NoWatcher
          PROVE  dbRev <= dbRev' /\ revision' = revision /\ up'
      BY <1>3, <2>1 DEF Apply, Commit, Unlocked, NextRevision, IInv, VisibleIsARevision
    <2>2. CASE /\ holder = NoWatcher
               /\ \/ \E k \in Keys, d \in Data : ApplyUpsert(k, d)
                  \/ \E k \in Keys : ApplyDelete(k)
      BY <2>1, <2>2 DEF ApplyUpsert, ApplyDelete
    <2>3. CASE \E deleteTo \in DOMAIN events : CompactHistory(deleteTo)
      BY <1>3, <2>3 DEF CompactHistory, memVars, OnlyWhileUp
    <2>4. CASE Open
      BY <1>3, <2>4 DEF Open, dbVars, OnlyWhileUp
    <2> QED
      BY <2>2, <2>3, <2>4 DEF StoreStep
  <1>5. WatchTypeOK'
    BY <1>1 DEF WatchTypeOK, watchVars
  <1>6. OnlyWhileUp'
    BY <1>1, <1>4 DEF OnlyWhileUp, watchVars
  <1>7. ASSUME NEW w \in Watchers PROVE Lifecycle(w)'
    BY <1>1 DEF Lifecycle, watchVars
  <1>8. ASSUME NEW w \in Watchers, ~missed'[w] PROVE Stream(w)'
    <2>1. Stream(w)
      BY <1>1, <1>8 DEF watchVars
    <2>2. last[w] \in Nat /\ Len(chan[w]) \in Nat
      BY DEF WatchTypeOK
    <2>3. last'[w] <= dbRev'
      BY <1>1, <1>3, <1>4, <2>1, <2>2 DEF Stream, watchVars
    <2>4. wpc[w] = "replay" => dbRev' = dbRev
      BY <1>4, NoWatcherAssumption DEF Lifecycle
    <2>5. w \in subs => revision' = revision
      BY <1>4
    <2>6. last[w] + Len(chan[w]) <= dbRev => last[w] + Len(chan[w]) <= dbRev'
      BY <1>3, <1>4, <2>2
    <2> QED
      BY <1>1, <2>1, <2>3, <2>4, <2>5, <2>6
      DEF Stream, Consecutive, ReplayReaches, watchVars
  <1> QED
    BY <1>2, <1>5, <1>6, <1>7, <1>8

\* Apply has published its revision: each subscription has it, or is gone.
LEMMA NotifyInv ==
  ASSUME WInv, Notify
  PROVE  WInv'
  <1> USE DEF WInv
  <1>1. /\ IInv' /\ up /\ up' /\ applying # NoApply /\ dbRev' = dbRev /\ dbRev \in Nat
        /\ revision \in Nat /\ dbRev = revision + 1 /\ revision' = dbRev
        /\ applying.rev = dbRev
    <2>1. Next
      BY DEF Notify, Next
    <2> QED
      BY <2>1, NextIInv DEF Notify, ApplyMemory, dbVars, IInv, TypeOK,
                            VisibleIsARevision, DiskIsLastRevision
  <1>2. holder = NoWatcher /\ holder' = NoWatcher
    BY <1>1 DEF Notify, OnlyWhileUp
  <1>3. WatchTypeOK'
    <2>1. \A w \in Watchers : Append(chan[w], applying.rev) \in Seq(Nat)
      BY <1>1, PutLast DEF WatchTypeOK
    <2>2. chan' \in [Watchers -> Seq(Nat)]
      BY <2>1 DEF Notify, WatchTypeOK
    <2>3. subs' \subseteq Watchers /\ closes' \in [Watchers -> Nat]
      BY DEF Notify, WatchTypeOK
    <2> QED
      BY <2>2, <2>3 DEF Notify, WatchTypeOK
  <1>4. OnlyWhileUp'
    BY <1>1, <1>2 DEF OnlyWhileUp
  <1>5. ASSUME NEW w \in Watchers PROVE Lifecycle(w)'
    <2>1. closes'[w] = IF w \in Full THEN closes[w] + 1 ELSE closes[w]
      BY DEF Notify
    <2>2. w \in subs' <=> w \in subs /\ w \notin Full
      BY DEF Notify
    <2>3. w \in Full => w \in subs /\ closes[w] = 0
      BY DEF Full, Lifecycle
    <2>4. w \notin subs => chan'[w] = chan[w]
      BY DEF Notify
    <2> QED
      BY <2>1, <2>2, <2>3, <2>4 DEF Lifecycle, Notify
  <1>6. ASSUME NEW w \in Watchers, ~missed'[w] PROVE Stream(w)'
    <2>1. Stream(w) /\ last'[w] = last[w] /\ wpc' = wpc /\ ctxDone' = ctxDone
      BY <1>6 DEF Notify
    <2>2. last[w] \in Nat /\ chan[w] \in Seq(Nat) /\ Len(chan[w]) \in Nat
      BY DEF WatchTypeOK
    <2>3. wpc[w] # "replay"
      BY <1>2, NoWatcherAssumption DEF Lifecycle
    <2>4. CASE w \in subs /\ w \notin Full
      <3>1. chan'[w] = Append(chan[w], dbRev)
        BY <1>1, <2>4 DEF Notify
      <3>2. ASSUME ~ctxDone[w]
            PROVE  Consecutive(w)' /\ last'[w] + Len(chan'[w]) = dbRev
        <4>1. Follows(chan[w], last[w]) /\ last[w] + Len(chan[w]) = revision
          BY <2>1, <2>4, <3>2 DEF Stream, Consecutive
        <4>2. dbRev = last[w] + Len(chan[w]) + 1
          BY <1>1, <4>1
        <4>3. /\ Follows(Append(chan[w], dbRev), last[w])
              /\ Len(Append(chan[w], dbRev)) = Len(chan[w]) + 1
          BY <1>1, <2>2, <4>1, <4>2, PutLast
        <4> QED
          BY <1>1, <2>1, <2>2, <3>1, <4>2, <4>3 DEF Consecutive
      <3> QED
        BY <1>1, <2>1, <2>3, <3>2 DEF Stream
    <2>5. CASE w \notin subs \/ w \in Full
      <3>1. chan'[w] = chan[w] /\ w \notin subs'
        BY <2>5 DEF Notify
      <3> QED
        BY <1>1, <2>1, <2>3, <3>1 DEF Stream, Consecutive
    <2> QED
      BY <2>4, <2>5
  <1> QED
    BY <1>1, <1>3, <1>4, <1>5, <1>6

\* The process has ended and every stream with it.
LEMMA CrashStepInv ==
  ASSUME WInv, CrashStep
  PROVE  WInv'
  <1> USE DEF WInv
  <1>1. IInv' /\ dbRev' = dbRev
    BY NextIInv DEF CrashStep, Crash, dbVars, Next
  <1>2. <<>> \in Seq(Nat)
    BY EmptySeq
  <1>3. WatchTypeOK'
    BY <1>2 DEF CrashStep, WatchTypeOK, Places
  <1>4. OnlyWhileUp'
    BY DEF CrashStep, OnlyWhileUp
  <1>5. ASSUME NEW w \in Watchers PROVE Lifecycle(w)'
    BY NoWatcherAssumption DEF CrashStep, Lifecycle
  <1>6. ASSUME NEW w \in Watchers, ~missed'[w] PROVE Stream(w)'
    BY <1>1, <1>6 DEF CrashStep, Stream
  <1> QED
    BY <1>1, <1>3, <1>4, <1>5, <1>6

\* Every step keeps the invariant.
LEMMA WatchNextInv == WInv /\ [WatchNext]_allVars => WInv'
  <1> SUFFICES ASSUME WInv, [WatchNext]_allVars PROVE WInv'
    OBVIOUS
  <1>1. CASE StoreStep
    BY <1>1, StoreStepInv
  <1>2. CASE Notify
    BY <1>2, NotifyInv
  <1>3. CASE CrashStep
    BY <1>3, CrashStepInv
  <1>4. ASSUME NEW w \in Watchers, WatchStep(w) PROVE WInv'
    BY <1>4, ClientReadsInv, WatchTopologyInv, SubscribeInv, ReplayEventInv, RegisterInv,
       SendInv, SendLostInv, EndOfStreamInv, CancelInv, CleanupInv DEF WatchStep
  <1>5. CASE UNCHANGED allVars
    <2>1. UNCHANGED vars /\ UNCHANGED watchVars
      BY <1>5 DEF allVars
    <2>2. IInv'
      BY <2>1, NextIInv DEF WInv
    <2>3. WatchTypeOK' /\ OnlyWhileUp'
      BY <2>1 DEF WInv, WatchTypeOK, OnlyWhileUp, vars, watchVars
    <2>4. \A w \in Watchers : Same(w)
      BY <2>1 DEF Same, vars, watchVars
    <2> QED
      BY <2>2, <2>3, <2>4, SameKeeps DEF WInv
  <1> QED
    BY <1>1, <1>2, <1>3, <1>4, <1>5 DEF WatchNext

\* The invariant holds of every behaviour of the store and its watches.
LEMMA WatchInvariant == WatchSpec => []WInv
  <1> QED
    BY WatchInitInv, WatchNextInv, PTL DEF WatchSpec

-----------------------------------------------------------------------------
\* Whoever of Apply and the goroutine removes a subscription closes its channel, once,
\* and nothing is sent on a closed one.
THEOREM ChannelsCloseOnce == WatchSpec => []ChannelClosedOnce
  <1>1. WInv => ChannelClosedOnce
    BY DEF WInv, Lifecycle, ChannelClosedOnce
  <1> QED
    BY <1>1, WatchInvariant, PTL

\* Between the replay and the first notification nothing is lost or doubled.
THEOREM StreamsReachTheRevision == WatchSpec => []StreamReachesRevision
  <1>1. WInv => StreamReachesRevision
    BY DEF WInv, Stream, Consecutive, Follows, StreamReachesRevision
  <1> QED
    BY <1>1, WatchInvariant, PTL

\* Subscribe and Apply exclude each other, and two Subscribes do.
THEOREM MutexHasOneHolder == WatchSpec => []OneHolder
  <1>1. WInv => OneHolder
    BY DEF WInv, OnlyWhileUp, Lifecycle, IInv, VisibleIsARevision, OneHolder
  <1> QED
    BY <1>1, WatchInvariant, PTL

\* A client that resumes from its last event gets every revision once and in order.
THEOREM ClientsMissNothing == WatchSpec => ClientMissesNothing
  <1>1. ASSUME WInv, NEW w \in Watchers, Send(w), ~missed[w]
        PROVE  last'[w] = last[w] + 1
    <2>1. Stream(w) /\ wpc[w] = "live" /\ ~ctxDone[w] /\ chan[w] # <<>>
      BY <1>1 DEF WInv, Send
    <2>2. chan[w] \in Seq(Nat) /\ last[w] \in Nat /\ last'[w] = Head(chan[w])
      BY <1>1 DEF WInv, WatchTypeOK, Send
    <2> QED
      BY <2>1, <2>2, TakeFirst DEF Stream, Consecutive
  <1>2. WInv => [\A w \in Watchers :
                   Send(w) /\ ~missed[w] => last'[w] = last[w] + 1]_allVars
    BY <1>1
  <1> QED
    BY <1>2, WatchInvariant, PTL DEF ClientMissesNothing

\* The watches only restrict the store, by the mutex they hold: everything proved about
\* Store holds of it among its watches.
THEOREM WatchesKeepTheStore == WatchSpec => Spec
  <1>1. WatchInit => Init
    BY DEF WatchInit
  <1>2. ASSUME [WatchNext]_allVars PROVE [Next]_vars
    <2>1. CASE StoreStep \/ Notify \/ CrashStep
      BY <2>1 DEF StoreStep, Notify, CrashStep, Next
    <2>2. ASSUME NEW w \in Watchers, WatchStep(w) PROVE UNCHANGED vars
      BY <2>2 DEF WatchStep, ClientReads, WatchTopology, Subscribe, ReplayEvent, Register,
         Send, SendLost, EndOfStream, Cancel, Cleanup
    <2>3. CASE UNCHANGED allVars
      BY <2>3 DEF allVars
    <2> QED
      BY <1>2, <2>1, <2>2, <2>3 DEF WatchNext
  <1>3. [WatchNext]_allVars => [Next]_vars
    BY <1>2
  <1> QED
    BY <1>1, <1>3, PTL DEF WatchSpec, Spec
=============================================================================
