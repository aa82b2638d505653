----------------------------- MODULE StoreWatch -----------------------------
(***************************************************************************)
(* Watches: TopologyService.WatchTopology (internal/api/topology.go) over   *)
(* Store.Subscribe and the notifications of Store.Apply                     *)
(* (internal/store/store.go), and a client that resumes from the last event *)
(* it received.                                                             *)
(*                                                                         *)
(* Subscribe holds the mutex while it puts the retained events into a       *)
(* channel nobody reads yet.  An event is represented by its revision.  The *)
(* filter of a watch drops events after they are taken from the channel and *)
(* is left out: the client here asks for every domain.                      *)
(***************************************************************************)
EXTENDS Store, Sequences

CONSTANTS
    Watchers,     \* clients
    NoWatcher,
    ChanCap,      \* capacity of a subscription's channel (256)
    EventsLimit   \* how many events Subscribe replays at most (10000)

ASSUME ChanCapAssumption == ChanCap \in Nat \ {0} /\ EventsLimit \in Nat \ {0}

\* A replay that the limit cuts short does not fit into the channel: 256 and 10000.
ASSUME EventsLimitAssumption == EventsLimit > ChanCap

ASSUME NoWatcherAssumption == NoWatcher \notin Watchers

VARIABLES
    holder,   \* the watch whose Subscribe holds the mutex, NoWatcher if none does
    subs,     \* s.subs
    wpc,      \* where the handler of the watch is
    replay,   \* events: the ones Subscribe has still to put into the channel
    chan,     \* what is in the channel
    closes,   \* how often the channel was closed
    ctxDone,  \* the context of the request is done
    cleaner,  \* the goroutine that waits for ctx.Done() exists
    last,     \* client: the last revision it knows
    missed    \* history: a Subscribe of this client found its next event compacted away

watchVars == <<holder, subs, wpc, replay, chan, closes, ctxDone, cleaner, last, missed>>

allVars == <<vars, watchVars>>

\* Mutant: Subscribe and the goroutine do not wait for another Subscribe.
MutexFreeShared == Unlocked

\* Nobody holds the mutex.
MutexFree == Unlocked /\ holder = NoWatcher

-----------------------------------------------------------------------------
\* The client learns the current revision from a snapshot.
ClientReads(w) ==
    /\ MutexFree
    /\ wpc[w] = "idle"
    /\ last' = [last EXCEPT ![w] = revision]
    /\ missed' = [missed EXCEPT ![w] = FALSE]
    /\ UNCHANGED <<vars, holder, subs, wpc, replay, chan, closes, ctxDone, cleaner>>

\* The test WatchTopology refuses a watch with.
WatchExpired(after) == OldestRevision > 0 /\ after + 1 < OldestRevision

\* WatchTopology, its test.
WatchTopology(w) ==
    /\ up
    /\ wpc[w] = "idle" \/ (wpc[w] = "ended" /\ ~cleaner[w])
    /\ ~WatchExpired(last[w])
    /\ wpc' = [wpc EXCEPT ![w] = "checked"]
    /\ chan' = [chan EXCEPT ![w] = <<>>]
    /\ closes' = [closes EXCEPT ![w] = 0]
    /\ ctxDone' = [ctxDone EXCEPT ![w] = FALSE]
    /\ UNCHANGED <<vars, holder, subs, replay, cleaner, last, missed>>

\* Subscribe locks and reads the events to replay.
Subscribe(w) ==
    /\ MutexFree
    /\ wpc[w] = "checked"
    /\ holder' = w
    /\ replay' = [replay EXCEPT ![w] = Events(last[w], 0, EventsLimit)]
    /\ missed' = [missed EXCEPT ![w] = @ \/ Window(last[w], 0) # last[w] + 1..dbRev]
    /\ wpc' = [wpc EXCEPT ![w] = "replay"]
    /\ UNCHANGED <<vars, subs, chan, closes, ctxDone, cleaner, last>>

HasRoom(w) == Len(chan[w]) < ChanCap

\* Mutant: the replay has no order.
ReplayAnyEvent(w) ==
    /\ wpc[w] = "replay"
    /\ HasRoom(w)
    /\ \E x \in replay[w] :
          /\ chan' = [chan EXCEPT ![w] = Append(@, x)]
          /\ replay' = [replay EXCEPT ![w] = @ \ {x}]
    /\ UNCHANGED <<vars, holder, subs, wpc, closes, ctxDone, cleaner, last, missed>>

\* ch <- event: waits for room, with the mutex.
ReplayEvent(w) ==
    /\ wpc[w] = "replay"
    /\ HasRoom(w)
    /\ \E x \in replay[w] :
          /\ \A y \in replay[w] : x <= y
          /\ chan' = [chan EXCEPT ![w] = Append(@, x)]
          /\ replay' = [replay EXCEPT ![w] = @ \ {x}]
    /\ UNCHANGED <<vars, holder, subs, wpc, closes, ctxDone, cleaner, last, missed>>

\* The subscription is registered, the mutex given up and the goroutine started.
Register(w) ==
    /\ wpc[w] = "replay"
    /\ replay[w] = {}
    /\ subs' = subs \cup {w}
    /\ holder' = NoWatcher
    /\ cleaner' = [cleaner EXCEPT ![w] = TRUE]
    /\ wpc' = [wpc EXCEPT ![w] = "live"]
    /\ UNCHANGED <<vars, replay, chan, closes, ctxDone, last, missed>>

\* The subscriptions the select statement of Apply cannot send to.
Full == {w \in subs : ~HasRoom(w)}

\* Mutant: an event that finds the channel full is dropped, the subscription kept.
NotifyDropsEvent ==
    /\ ApplyMemory
    /\ chan' = [w \in Watchers |->
                  IF w \in subs \ Full THEN Append(chan[w], applying.rev) ELSE chan[w]]
    /\ UNCHANGED <<holder, subs, wpc, replay, closes, ctxDone, cleaner, last, missed>>

\* Mutant: a full subscription is removed and its channel left open.
NotifyLeavesOpen ==
    /\ ApplyMemory
    /\ chan' = [w \in Watchers |->
                  IF w \in subs \ Full THEN Append(chan[w], applying.rev) ELSE chan[w]]
    /\ subs' = subs \ Full
    /\ UNCHANGED <<holder, wpc, replay, closes, ctxDone, cleaner, last, missed>>

\* The end of Apply: memory, then each subscription gets the event or, when its
\* channel is full, is dropped and closed.
Notify ==
    /\ ApplyMemory
    /\ chan' = [w \in Watchers |->
                  IF w \in subs \ Full THEN Append(chan[w], applying.rev) ELSE chan[w]]
    /\ subs' = subs \ Full
    /\ closes' = [w \in Watchers |-> IF w \in Full THEN closes[w] + 1 ELSE closes[w]]
    /\ UNCHANGED <<holder, wpc, replay, ctxDone, cleaner, last, missed>>

\* The handler takes an event and sends it to the client.
Send(w) ==
    /\ wpc[w] = "live"
    /\ ~ctxDone[w]
    /\ chan[w] # <<>>
    /\ last' = [last EXCEPT ![w] = Head(chan[w])]
    /\ chan' = [chan EXCEPT ![w] = Tail(@)]
    /\ UNCHANGED <<vars, holder, subs, wpc, replay, closes, ctxDone, cleaner, missed>>

\* The client is gone: what is sent is lost, and Send may report it.
SendLost(w) ==
    /\ wpc[w] = "live"
    /\ ctxDone[w]
    /\ chan[w] # <<>>
    /\ chan' = [chan EXCEPT ![w] = Tail(@)]
    /\ \E next \in {"live", "ended"} : wpc' = [wpc EXCEPT ![w] = next]
    /\ UNCHANGED <<vars, holder, subs, replay, closes, ctxDone, cleaner, last, missed>>

\* The channel is empty and closed: the handler returns, which ends its context.
EndOfStream(w) ==
    /\ wpc[w] = "live"
    /\ chan[w] = <<>>
    /\ closes[w] > 0
    /\ wpc' = [wpc EXCEPT ![w] = "ended"]
    /\ ctxDone' = [ctxDone EXCEPT ![w] = TRUE]
    /\ UNCHANGED <<vars, holder, subs, replay, chan, closes, cleaner, last, missed>>

\* The client goes away.
Cancel(w) ==
    /\ wpc[w] \in {"checked", "replay", "live"}
    /\ ~ctxDone[w]
    /\ ctxDone' = [ctxDone EXCEPT ![w] = TRUE]
    /\ UNCHANGED <<vars, holder, subs, wpc, replay, chan, closes, cleaner, last, missed>>

\* Mutant: the goroutine closes without looking into the map.
ToCloseUnchecked(w) == {w}

\* The channels the goroutine of w closes: its own, if it is still registered.
ToClose(w) == {w} \cap subs

\* Mutant: the goroutine waits for the handler, which waits for the channel.
CleanupAfterHandler(w) ==
    /\ MutexFree
    /\ cleaner[w]
    /\ wpc[w] = "ended"
    /\ closes' = [v \in Watchers |-> IF v \in ToClose(w) THEN closes[v] + 1 ELSE closes[v]]
    /\ subs' = subs \ {w}
    /\ cleaner' = [cleaner EXCEPT ![w] = FALSE]
    /\ UNCHANGED <<vars, holder, wpc, replay, chan, ctxDone, last, missed>>

\* The goroutine of Subscribe.
Cleanup(w) ==
    /\ MutexFree
    /\ cleaner[w]
    /\ ctxDone[w]
    /\ closes' = [v \in Watchers |-> IF v \in ToClose(w) THEN closes[v] + 1 ELSE closes[v]]
    /\ subs' = subs \ {w}
    /\ cleaner' = [cleaner EXCEPT ![w] = FALSE]
    /\ UNCHANGED <<vars, holder, wpc, replay, chan, ctxDone, last, missed>>

\* What the watches and the mutex leave the store free to do.
StoreStep ==
    /\ \/ /\ holder = NoWatcher
          /\ \/ \E k \in Keys, d \in Data : ApplyUpsert(k, d)
             \/ \E k \in Keys : ApplyDelete(k)
       \/ \E deleteTo \in DOMAIN events : CompactHistory(deleteTo)
       \/ Open
    /\ UNCHANGED watchVars

\* The process ends and the streams with it; the clients remember.
CrashStep ==
    /\ Crash
    /\ holder' = NoWatcher
    /\ subs' = {}
    /\ wpc' = [w \in Watchers |-> "idle"]
    /\ replay' = [w \in Watchers |-> {}]
    /\ chan' = [w \in Watchers |-> <<>>]
    /\ closes' = [w \in Watchers |-> 0]
    /\ ctxDone' = [w \in Watchers |-> FALSE]
    /\ cleaner' = [w \in Watchers |-> FALSE]
    /\ UNCHANGED <<last, missed>>

WatchInit ==
    /\ Init
    /\ holder = NoWatcher
    /\ subs = {}
    /\ wpc = [w \in Watchers |-> "idle"]
    /\ replay = [w \in Watchers |-> {}]
    /\ chan = [w \in Watchers |-> <<>>]
    /\ closes = [w \in Watchers |-> 0]
    /\ ctxDone = [w \in Watchers |-> FALSE]
    /\ cleaner = [w \in Watchers |-> FALSE]
    /\ last = [w \in Watchers |-> 0]
    /\ missed = [w \in Watchers |-> FALSE]

WatchStep(w) ==
    \/ ClientReads(w)
    \/ WatchTopology(w)
    \/ Subscribe(w)
    \/ ReplayEvent(w)
    \/ Register(w)
    \/ Send(w)
    \/ SendLost(w)
    \/ EndOfStream(w)
    \/ Cancel(w)
    \/ Cleanup(w)

WatchNext ==
    \/ StoreStep
    \/ Notify
    \/ CrashStep
    \/ \E w \in Watchers : WatchStep(w)

WatchSpec == WatchInit /\ [][WatchNext]_allVars

\* A goroutine that can go on does; a mutex that is asked for again and again while
\* it is free is granted, as sync.RWMutex promises; a client that has not gone away
\* takes what it is sent.
Fairness ==
    /\ WF_allVars(Notify)
    /\ \A w \in Watchers :
         /\ SF_allVars(Subscribe(w))
         /\ WF_allVars(ReplayEvent(w))
         /\ WF_allVars(Register(w))
         /\ WF_allVars(Send(w))
         /\ WF_allVars(SendLost(w))
         /\ WF_allVars(EndOfStream(w))
         /\ SF_allVars(Cleanup(w))

FairWatchSpec == WatchSpec /\ Fairness

-----------------------------------------------------------------------------
(* Properties.                                                              *)

\* A channel is closed once, by whichever of Apply and the goroutine takes the
\* subscription out of the map, and no registered channel is closed: the two
\* panics of a Go channel do not happen.  A handler whose subscription is gone
\* finds its channel closed.
ChannelClosedOnce ==
    \A w \in Watchers :
        /\ closes[w] <= 1
        /\ w \in subs => closes[w] = 0 /\ cleaner[w]
        /\ wpc[w] = "live" /\ w \notin subs => closes[w] = 1

\* What a subscriber has been sent and what is in its channel is, revision by
\* revision, all there is up to the current one: nothing is lost or doubled between
\* the replay and the first notification.
StreamReachesRevision ==
    \A w \in Watchers :
        w \in subs /\ ~ctxDone[w] /\ ~missed[w] =>
            /\ last[w] + Len(chan[w]) = revision
            /\ \A i \in 1..Len(chan[w]) : chan[w][i] = last[w] + i

\* The mutex is held by the Apply that has committed or by one Subscribe, never by
\* both: a watch that replays sees no commit it does not know of.
OneHolder ==
    /\ holder # NoWatcher => applying = NoApply /\ dbRev = revision
    /\ \A w \in Watchers : wpc[w] = "replay" <=> holder = w

\* A client that resumes from the last event it got receives every revision once and
\* in order, through dropped subscriptions, cancelled requests and crashes, unless an
\* event it still needed had been compacted away when it subscribed.
ClientMissesNothing ==
    [][\A w \in Watchers :
         Send(w) /\ ~missed[w] => last'[w] = last[w] + 1]_allVars

\* Some Subscribe waits for room in a channel nobody reads.
Stuck == \E w \in Watchers : wpc[w] = "replay" /\ replay[w] # {} /\ ~HasRoom(w)

\* The subscription of a client that went away is removed, however busy the other
\* watches and the writers keep the mutex, unless a Subscribe is stuck with it.
CancelledIsRemoved ==
    [](~Stuck) => \A w \in Watchers : (w \in subs /\ ctxDone[w]) ~> (w \notin subs)

\* Unless a Subscribe is stuck, a client whose stream lasts and missed nothing gets
\* every revision that is published; the stream of one that was dropped ends.
LiveClientCatchesUp ==
    [](~Stuck) =>
        \A w \in Watchers :
            /\ \A n \in 1..MaxRev :
                 (wpc[w] = "live" /\ revision >= n /\ ~missed[w]) ~> (last[w] >= n \/ wpc[w] # "live")
            /\ (wpc[w] = "live" /\ w \notin subs) ~> (wpc[w] # "live")

\* "Watches first replay retained events and then subscribe to live revisions": the
\* replay ends, and with it the hold of Subscribe on the mutex.
ReplayEnds ==
    \A w \in Watchers : (wpc[w] = "replay") ~> (wpc[w] # "replay")
=============================================================================
