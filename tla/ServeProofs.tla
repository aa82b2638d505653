----------------------------- MODULE ServeProofs -----------------------------
(***************************************************************************)
(* Proofs about Serve.tla: for any configuration files, certificates,       *)
(* clients and commands, and any number of edits, signals and restarts.     *)
(***************************************************************************)
EXTENDS Serve, SequenceTheorems, TLAPS

Calls == {"store", "cancel", "collector", "metrics", "ui", "hup"}

Early == {"down", "opened", "collecting", "metering", "listening"}

\* The channel of SIGHUP is empty only when the file was read after the last signal.
SignalsOK ==
    /\ edits \in Nat /\ hupAt \in Nat /\ loadedAt \in Nat
    /\ hupAt <= edits /\ loadedAt <= edits
    /\ hup \in {0, 1}
    /\ pc # "down" /\ hup = 0 => loadedAt >= hupAt

\* The process runs with a file that loads, and does not receive SIGHUP before it
\* serves.
BootOK ==
    /\ file \in Files
    /\ pc # "down" => boot \in Files /\ Loads(boot)
    /\ pc \in Early => hup = 0 /\ reload.at = "wait" /\ ~Deferred("hup")
    /\ pc \in {"metering", "listening"} => auth = [mappings |-> boot.rbac, anonymous |-> boot.anonymous]

\* What is in force, wherever the reload is: all of one file between reloads, and what
\* the reload has done already during one.
ReloadOK ==
    /\ reload = [at |-> reload.at, cfg |-> reload.cfg]
    /\ reload.at \in {"wait", "tls", "mappings", "anonymous"}
    /\ auth = [mappings |-> auth.mappings, anonymous |-> auth.anonymous]
    /\ reload.at # "wait" => reload.cfg \in Files /\ UsableFile(reload.cfg)
    /\ reload.at \in {"mappings", "anonymous"} => active = TLSConfig(reload.cfg)
    /\ reload.at = "anonymous" => auth.mappings = reload.cfg.rbac
    /\ QuietReloadIsWhole

\* The deferred calls: what runs has one, and the store's is the first.
DefersOK ==
    /\ defers \in Seq(Calls)
    /\ \A i \in DOMAIN defers : defers[i] = "store" <=> i = 1
    /\ "store" \in up <=> defers # <<>>
    /\ "collector" \in up => Deferred("collector")
    /\ "ui" \in up \/ Busy("ui") => Deferred("ui")
    /\ pc \in {"opened", "collecting", "metering", "listening"} => "store" \in up
    /\ pc = "down" => up = {}

\* A connection that exists, and a request that runs.
ConnOK(k) ==
    conns[k] # None =>
        /\ pc # "down"
        /\ conns[k] = [via |-> conns[k].via, cert |-> conns[k].cert,
                       path |-> conns[k].path, role |-> conns[k].role]
        /\ conns[k].via \in {"api", "ui", "metrics"}
        /\ conns[k].via = "ui" => conns[k].cert = NoCert

ConnsOK ==
    /\ conns = [k \in Clients |-> conns[k]]
    /\ \A k \in Clients : ConnOK(k)
    /\ RunningIsAuthorized

\* The inductive invariant.
SInv == SignalsOK /\ BootOK /\ ReloadOK /\ DefersOK /\ ConnsOK

-----------------------------------------------------------------------------
\* A command needs the role that is documented for it, whatever its path.
LEMMA RolesAreDocumented ==
  ASSUME NEW cmd \in CommandNames
  PROVE  RequiredRole(PathOf(cmd)) = DocumentedRole(cmd)
  <1> USE DEF PathOf, RequiredRole, DocumentedRole, AdminMethods
  <1>1. CASE cmd \in {"topology"} \X {"summary", "nodes", "links", "prefixes"}
    BY <1>1 DEF TopologyCommand, TopologyServiceClient
  <1>2. CASE cmd \in {"path"} \X {"compute"}
    BY <1>2 DEF PathCommand, PathServiceClient
  <1>3. CASE cmd \in {"history"} \X {"changes", "diff"}
    BY <1>3 DEF HistoryCommand, HistoryServiceClient
  <1>4. CASE cmd \in {"peers"} \X {"list", "get", "enable", "disable", "reset", "delete",
                                   "add", "update", "export", "import"}
    BY <1>4 DEF PeersCommand, CollectorServiceClient
  <1>5. CASE cmd \in {"health", "watch"} \X {""}
    BY <1>5 DEF TopologyServiceClient
  <1> QED
    BY <1>1, <1>2, <1>3, <1>4, <1>5 DEF CommandNames

\* A file that loads and asks for no TLS listens on a loopback address.
LEMMA InsecureIsLoopback ==
  ASSUME NEW c, Loads(c), c.insecure
  PROVE  c.listen = "loopback"
  BY DEF Loads, Validate

\* What a further defer statement makes of the deferred calls.
LEMMA DeferAdds ==
  ASSUME defers \in Seq(Calls), NEW c \in Calls, defers' = Defer(c)
  PROVE  /\ defers' \in Seq(Calls) /\ defers' # <<>>
         /\ DOMAIN defers' = 1..Len(defers) + 1 /\ DOMAIN defers = 1..Len(defers)
         /\ Len(defers) \in Nat
         /\ \A i \in DOMAIN defers : defers'[i] = defers[i]
         /\ defers'[Len(defers) + 1] = c
         /\ \A x : Deferred(x)' <=> Deferred(x) \/ x = c
  <1>1. /\ defers' \in Seq(Calls) /\ defers' # <<>>
        /\ DOMAIN defers' = 1..Len(defers) + 1 /\ DOMAIN defers = 1..Len(defers)
        /\ Len(defers) \in Nat
        /\ \A i \in DOMAIN defers : defers'[i] = defers[i]
        /\ defers'[Len(defers) + 1] = c
    BY DEF Defer
  <1>2. ASSUME NEW x PROVE Deferred(x)' <=> Deferred(x) \/ x = c
    BY <1>1 DEF Deferred
  <1> QED
    BY <1>1, <1>2

-----------------------------------------------------------------------------
\* The first state.
LEMMA ServeInitInv == ServeInit => SInv
  <1> SUFFICES ASSUME ServeInit PROVE SInv
    OBVIOUS
  <1>1. SignalsOK
    BY DEF ServeInit, SignalsOK
  <1>2. BootOK
    BY DEF ServeInit, BootOK, Early, Deferred
  <1>3. ReloadOK
    BY DEF ServeInit, ReloadOK, QuietReloadIsWhole
  <1>4. DefersOK
    BY DEF ServeInit, DefersOK, Busy, Deferred
  <1>5. ConnsOK
    BY DEF ServeInit, ConnsOK, ConnOK, RunningIsAuthorized
  <1> QED
    BY <1>1, <1>2, <1>3, <1>4, <1>5 DEF SInv

\* Signals are counted right by every step.
LEMMA SignalsKept ==
  ASSUME SInv, ServeNext
  PROVE  SignalsOK'
  <1> USE DEF SInv, SignalsOK
  <1>1. CASE Gone
    BY <1>1 DEF Gone, config
  <1>2. CASE Start
    BY <1>2 DEF Start, config, BootOK, Early
  <1>3. ASSUME NEW f \in Files, Edit(f) PROVE SignalsOK'
    BY <1>3 DEF Edit, process, access
  <1>4. CASE Hangup /\ ~Gone
    BY <1>4 DEF Hangup, Notify, process, config
  <1>5. CASE ReloadLoad
    BY <1>5 DEF ReloadLoad, process, config
  <1>6. CASE /\ UNCHANGED <<edits, hupAt, loadedAt, hup>>
             /\ pc = "down" => pc' = "down"
    BY <1>6
  <1>7. CASE StartCollector \/ StartMetrics \/ StartUI \/ StartAPI \/ BeginShutdown \/ EndShutdown
             \/ RunDeferred \/ CloseListener \/ ListenerFails
    BY <1>6, <1>7 DEF StartCollector, StartMetrics, StartUI, StartAPI, BeginShutdown, EndShutdown,
       RunDeferred, CloseListener, ListenerFails, Fail, config, access
  <1>8. CASE ReloadTLS \/ ReloadMappings \/ ReloadAnonymous \/ Age \/ CompactHistory \/ (DeleteRange /\ ~Gone)
    BY <1>6, <1>8 DEF ReloadTLS, ReloadMappings, ReloadAnonymous, Age, CompactHistory, DeleteRange,
       process, config, access
  <1>9. ASSUME NEW k \in Clients, NEW via, NEW cert, NEW cmd,
               Connect(k, via, cert) \/ Request(k, cmd) \/ Scrape(k) \/ Handle(k) \/ Disconnect(k)
        PROVE  SignalsOK'
    BY <1>6, <1>9 DEF Connect, Request, Scrape, Handle, Disconnect, process, config, access
  <1>10. CASE Terminate /\ ~Gone
    BY <1>6, <1>10 DEF Terminate, config, access
  <1> QED
    BY <1>1, <1>2, <1>3, <1>4, <1>5, <1>7, <1>8, <1>9, <1>10
    DEF ServeNext, MainStep, ReloadStep, Crash, Exit

\* The configuration the process runs with, and that no reload runs before it serves,
\* are kept by every step.
LEMMA BootKept ==
  ASSUME SInv, ServeNext
  PROVE  BootOK'
  <1> USE DEF SInv, BootOK, Early
  <1>1. CASE Gone
    BY <1>1 DEF Gone, config, Deferred
  <1>2. CASE Start
    BY <1>2 DEF Start, config, Deferred
  <1>3. CASE StartCollector
    <2>1. CASE Fail
      BY <1>3, <2>1 DEF StartCollector, Fail, config
    <2>2. CASE pc' = "collecting" /\ defers' = Defer("collector")
               /\ UNCHANGED <<boot, config, access>>
      <3>1. ~Deferred("hup")'
        BY <1>3, <2>2, DeferAdds DEF StartCollector, DefersOK, Calls
      <3> QED
        BY <1>3, <2>2, <3>1 DEF StartCollector, config, access
    <2> QED
      BY <1>3, <2>1, <2>2 DEF StartCollector
  <1>4. CASE StartMetrics \/ StartUI
    <2>1. ~Deferred("hup")'
      BY <1>4, DeferAdds DEF StartMetrics, StartUI, DefersOK, Calls, Deferred
    <2>2. CASE StartMetrics
      BY <2>1, <2>2 DEF StartMetrics, config
    <2>3. CASE StartUI
      BY <2>1, <2>3 DEF StartUI, config, access
    <2> QED
      BY <1>4, <2>2, <2>3
  <1>5. CASE StartAPI
    BY <1>5 DEF StartAPI, Fail, config
  <1>6. ASSUME NEW f \in Files, Edit(f) PROVE BootOK'
    BY <1>6 DEF Edit, process, access, Deferred
  <1>7. CASE Hangup /\ ~Gone
    BY <1>7 DEF Hangup, process, config
  <1>8. CASE ReloadLoad \/ ReloadTLS \/ ReloadMappings \/ ReloadAnonymous
    <2>1. pc \notin Early /\ UNCHANGED <<pc, boot, file>>
      BY <1>8 DEF ReloadLoad, ReloadTLS, ReloadMappings, ReloadAnonymous, process, config
    <2> QED
      BY <2>1
  <1>9. CASE BeginShutdown \/ EndShutdown \/ RunDeferred \/ CloseListener \/ ListenerFails
    <2>1. pc \notin Early /\ pc' \notin Early /\ UNCHANGED <<boot, file>>
      BY <1>9 DEF BeginShutdown, EndShutdown, RunDeferred, CloseListener, ListenerFails, Fail, config
    <2> QED
      BY <2>1
  <1>10. CASE UNCHANGED <<pc, boot, defers, file, auth, hup, reload>>
    BY <1>10 DEF Deferred
  <1>11. ASSUME NEW k \in Clients, NEW via, NEW cert, NEW cmd,
                Connect(k, via, cert) \/ Request(k, cmd) \/ Scrape(k) \/ Handle(k) \/ Disconnect(k)
         PROVE  BootOK'
    BY <1>10, <1>11 DEF Connect, Request, Scrape, Handle, Disconnect, process, config, access
  <1>12. CASE Age \/ CompactHistory \/ (DeleteRange /\ ~Gone) \/ (Terminate /\ ~Gone)
    BY <1>10, <1>12 DEF Age, CompactHistory, DeleteRange, Terminate, process, config, access
  <1> QED
    BY <1>1, <1>2, <1>3, <1>4, <1>5, <1>6, <1>7, <1>8, <1>9, <1>11, <1>12
    DEF ServeNext, MainStep, ReloadStep, Crash, Exit

\* Between reloads one file is in force, and a reload takes the process from one to the
\* next: kept by every step.
LEMMA ReloadKept ==
  ASSUME SInv, ServeNext
  PROVE  ReloadOK'
  <1> USE DEF SInv
  <1>1. CASE Gone
    BY <1>1 DEF Gone, ReloadOK, QuietReloadIsWhole
  <1>2. CASE StartMetrics
    BY <1>2 DEF StartMetrics, ReloadOK, BootOK, Early, QuietReloadIsWhole
  <1>3. CASE StartAPI
    <2>1. reload.at = "wait" /\ reload' = reload /\ auth' = auth
      BY <1>3 DEF StartAPI, Fail, BootOK, Early, access
    <2>2. CASE pc' = "exit"
      BY <2>1, <2>2 DEF ReloadOK, QuietReloadIsWhole
    <2>3. CASE /\ boot.insecure \/ TLSLoads(boot)
               /\ active' = TLSConfig(boot)
               /\ boot' = boot
      <3>1. /\ boot \in Files /\ Loads(boot)
            /\ auth = [mappings |-> boot.rbac, anonymous |-> boot.anonymous]
        BY <1>3 DEF StartAPI, BootOK
      <3>2. QuietReloadIsWhole'
        BY <2>1, <2>3, <3>1 DEF QuietReloadIsWhole
      <3> QED
        BY <2>1, <3>2 DEF ReloadOK
    <2> QED
      BY <1>3, <2>2, <2>3 DEF StartAPI, Fail
  <1>4. CASE ReloadLoad
    <2>1. /\ reload' = IF UsableFile(file) THEN [at |-> "tls", cfg |-> file] ELSE reload
          /\ UNCHANGED <<pc, boot, auth, active>> /\ file \in Files /\ reload.at = "wait"
      BY <1>4 DEF ReloadLoad, BootOK, process
    <2> QED
      BY <2>1 DEF ReloadOK, QuietReloadIsWhole
  <1>5. CASE ReloadTLS
    <2>1. /\ reload' = [at |-> "mappings", cfg |-> reload.cfg]
          /\ active' = TLSConfig(reload.cfg) /\ auth' = auth
          /\ reload.cfg \in Files /\ UsableFile(reload.cfg)
      BY <1>5 DEF ReloadTLS, ReloadOK
    <2> QED
      BY <2>1 DEF ReloadOK, QuietReloadIsWhole
  <1>6. CASE ReloadMappings
    <2>1. /\ reload' = [at |-> "anonymous", cfg |-> reload.cfg]
          /\ auth' = [mappings |-> reload.cfg.rbac, anonymous |-> auth.anonymous]
          /\ active' = active /\ active = TLSConfig(reload.cfg)
          /\ reload.cfg \in Files /\ UsableFile(reload.cfg)
      BY <1>6 DEF ReloadMappings, ReloadOK
    <2> QED
      BY <2>1 DEF ReloadOK, QuietReloadIsWhole
  <1>7. CASE ReloadAnonymous
    <2>1. /\ reload' = [at |-> "wait", cfg |-> None]
          /\ auth' = [mappings |-> reload.cfg.rbac, anonymous |-> reload.cfg.anonymous]
          /\ active' = active /\ active = TLSConfig(reload.cfg) /\ boot' = boot
          /\ reload.cfg \in Files /\ UsableFile(reload.cfg)
      BY <1>7 DEF ReloadAnonymous, ReloadOK, process
    <2>2. QuietReloadIsWhole'
      BY <2>1 DEF QuietReloadIsWhole, UsableFile
    <2> QED
      BY <2>1, <2>2 DEF ReloadOK
  <1>8. CASE /\ UNCHANGED <<auth, active, reload>>
             /\ pc' = "serving" => pc = "serving" /\ boot' = boot
    BY <1>8 DEF ReloadOK, QuietReloadIsWhole
  <1>9. CASE Start \/ StartCollector \/ StartUI \/ BeginShutdown \/ EndShutdown \/ RunDeferred \/ CloseListener
             \/ ListenerFails \/ (Hangup /\ ~Gone) \/ (Terminate /\ ~Gone)
    BY <1>8, <1>9 DEF Start, StartCollector, StartUI, BeginShutdown, EndShutdown, RunDeferred, CloseListener,
       ListenerFails, Hangup, Terminate, Fail, process, access
  <1>10. ASSUME NEW k \in Clients, NEW via, NEW cert, NEW cmd,
                Connect(k, via, cert) \/ Request(k, cmd) \/ Scrape(k) \/ Handle(k) \/ Disconnect(k)
         PROVE  ReloadOK'
    BY <1>8, <1>10 DEF Connect, Request, Scrape, Handle, Disconnect, process, access
  <1>11. ASSUME NEW f \in Files, Edit(f) \/ Age \/ CompactHistory \/ (DeleteRange /\ ~Gone) PROVE ReloadOK'
    BY <1>8, <1>11 DEF Edit, Age, CompactHistory, DeleteRange, process, access
  <1>12. \E f : f \in Files
    BY DEF BootOK
  <1> QED
    BY <1>1, <1>2, <1>3, <1>4, <1>5, <1>6, <1>7, <1>9, <1>10, <1>11, <1>12
    DEF ServeNext, MainStep, ReloadStep, Crash, Exit

\* A listener that is closed has no idle connections left.
LEMMA IdleAreClosed ==
  ASSUME NEW via, NEW other, conns' = CloseIdle(via)
  PROVE  Busy(other)' => Busy(other)
  BY DEF CloseIdle, Busy

\* What runs has its deferred call, and the store's runs last: kept by every step.
LEMMA DefersKept ==
  ASSUME SInv, ServeNext
  PROVE  DefersOK'
  <1> USE DEF SInv
  <1>1. CASE Gone
    BY <1>1 DEF Gone, DefersOK, Busy
  <1>2. CASE Start
    <2>1. ~Busy("ui")
      BY <1>2 DEF Start, ConnsOK, ConnOK, Busy
    <2>2. defers' \in Seq(Calls) /\ defers' # <<>>
          /\ \A i \in DOMAIN defers' : defers'[i] = "store" <=> i = 1
      BY <1>2 DEF Start, Calls
    <2>3. up' = {"store"} /\ pc' = "opened" /\ ~Busy("ui")'
      BY <1>2, <2>1 DEF Start, Busy
    <2> QED
      BY <2>2, <2>3 DEF DefersOK
  <1>3. ASSUME NEW c \in Calls \ {"store"}, defers' = Defer(c), "store" \in up,
               up' \subseteq up \cup {c, "api"}, up \subseteq up',
               c = "hup" => ("ui" \in up' => "ui" \in up),
               conns' = conns, pc' # "down"
        PROVE  DefersOK'
    <2>1. /\ defers' \in Seq(Calls) /\ defers' # <<>> /\ defers # <<>>
          /\ DOMAIN defers' = 1..Len(defers) + 1 /\ DOMAIN defers = 1..Len(defers)
          /\ Len(defers) \in Nat
          /\ \A i \in DOMAIN defers : defers'[i] = defers[i]
          /\ defers'[Len(defers) + 1] = c
      BY <1>3, DeferAdds DEF DefersOK
    <2>2. \A x : Deferred(x)' <=> Deferred(x) \/ x = c
      BY <1>3, DeferAdds DEF DefersOK
    <2>3. Len(defers) # 0
      BY <2>1, <1>3 DEF DefersOK
    <2>4. \A i \in DOMAIN defers' : defers'[i] = "store" <=> i = 1
      BY <1>3, <2>1, <2>3 DEF DefersOK
    <2>5. Busy("ui")' => Busy("ui")
      BY <1>3 DEF Busy
    <2> QED
      BY <1>3, <2>1, <2>2, <2>4, <2>5 DEF DefersOK
  <1>4. ASSUME defers' = defers, up' \ {"ui", "api", "metrics"} = up \ {"ui", "api", "metrics"},
               "ui" \in up' => "ui" \in up,
               Busy("ui")' => "ui" \in up \/ Busy("ui"),
               pc' = pc \/ pc' \notin {"down", "opened"}, pc = "down" => pc' = "down" /\ up' = up,
               pc' \in {"collecting", "metering", "listening"} =>
                 pc \in {"opened", "collecting", "metering", "listening"}
        PROVE  DefersOK'
    BY <1>4 DEF DefersOK, Deferred
  <1>5. CASE Fail /\ pc # "down"
    BY <1>4, <1>5 DEF Fail, Busy
  <1>6. CASE StartCollector \/ EndShutdown \/ ListenerFails
    <2>1. CASE Fail
      BY <1>5, <1>6, <2>1 DEF StartCollector, EndShutdown, ListenerFails
    <2>2. CASE StartCollector /\ ~Fail
      BY <1>3, <2>2 DEF StartCollector, DefersOK, Calls
    <2> QED
      BY <1>6, <2>1, <2>2 DEF EndShutdown, ListenerFails
  <1>7. CASE StartMetrics
    <2>1. CASE boot.metrics = "none"
      BY <1>4, <1>7, <2>1 DEF StartMetrics, Busy
    <2>2. CASE boot.metrics # "none"
      BY <1>3, <1>7, <2>2 DEF StartMetrics, DefersOK, Calls
    <2> QED
      BY <2>1, <2>2
  <1>8. CASE StartUI
    <2>1. CASE boot.ui = "none"
      BY <1>4, <1>8, <2>1 DEF StartUI, Busy
    <2>2. CASE boot.ui # "none"
      BY <1>3, <1>8, <2>2 DEF StartUI, DefersOK, Calls
    <2> QED
      BY <2>1, <2>2
  <1>9. CASE StartAPI
    <2>1. CASE Fail
      BY <1>5, <1>9, <2>1 DEF StartAPI
    <2>2. CASE ~Fail /\ boot.insecure
      BY <1>4, <1>9, <2>2 DEF StartAPI, Busy
    <2>3. CASE ~Fail /\ ~boot.insecure
      BY <1>3, <1>9, <2>3 DEF StartAPI, DefersOK, Calls
    <2> QED
      BY <2>1, <2>2, <2>3
  <1>10. CASE RunDeferred
    <2> DEFINE n == Len(defers)
               call == defers[n]
    <2>1. /\ n \in Nat \ {0} /\ DOMAIN defers = 1..n /\ call \in Calls
          /\ defers' = SubSeq(defers, 1, n - 1) /\ up' = up \ {call} /\ pc' = "exit"
          /\ call = "ui" => ~Busy("ui")
          /\ conns' = conns \/ conns' = CloseIdle(call)
      BY <1>10 DEF RunDeferred, ShutdownReturns, Patient, DefersOK
    <2>2. /\ defers' \in Seq(Calls) /\ DOMAIN defers' = 1..n - 1
          /\ \A i \in 1..n - 1 : defers'[i] = defers[i]
          /\ defers' = <<>> <=> n = 1
      <3>1. /\ SubSeq(defers, 1, n - 1) \in Seq(Calls)
            /\ Len(SubSeq(defers, 1, n - 1)) = n - 1
            /\ \A i \in 1..n - 1 : SubSeq(defers, 1, n - 1)[i] = defers[i]
        <4>1. defers \in Seq(Calls) /\ 1 \in Int /\ n - 1 \in Int
          BY <2>1 DEF DefersOK
        <4>2. \A i \in 1..n - 1 : defers[i] \in Calls
          BY <2>1, <4>1
        <4>3. n - 1 - 1 + 1 = n - 1 /\ \A i \in 1..n - 1 : 1 + i - 1 = i
          BY <2>1
        <4> HIDE DEF n
        <4> QED
          BY <2>1, <4>1, <4>2, <4>3, SubSeqProperties
      <3>2. ASSUME NEW s \in Seq(Calls)
            PROVE  DOMAIN s = 1..Len(s) /\ (s = <<>> <=> Len(s) = 0)
        OBVIOUS
      <3>3. n - 1 = 0 <=> n = 1
        BY <2>1
      <3> HIDE DEF n
      <3> QED
        BY <2>1, <3>1, <3>2, <3>3
    <2>3. call = "store" <=> n = 1
      BY <2>1 DEF DefersOK
    <2> HIDE DEF n, call
    <2>4. "store" \in up' <=> defers' # <<>>
      BY <1>10, <2>1, <2>2, <2>3 DEF DefersOK, RunDeferred
    <2>5. ASSUME NEW x, Deferred(x), x # call PROVE Deferred(x)'
      <3>1. PICK i \in 1..n : defers[i] = x
        BY <2>1, <2>5 DEF Deferred
      <3>2. i \in 1..n - 1
        BY <2>1, <2>5, <3>1 DEF n, call
      <3> QED
        BY <2>2, <3>1, <3>2 DEF Deferred
    <2>6. Busy("ui")' => Busy("ui")
      BY <2>1, IdleAreClosed DEF Busy
    <2>7. \A i \in DOMAIN defers' : defers'[i] = "store" <=> i = 1
      BY <2>1, <2>2 DEF DefersOK
    <2> QED
      BY <2>1, <2>2, <2>4, <2>5, <2>6, <2>7 DEF DefersOK
  <1>11. CASE BeginShutdown \/ CloseListener
    <2>1. Busy("ui")' => Busy("ui")
      BY <1>11, IdleAreClosed DEF BeginShutdown, CloseListener
    <2> QED
      BY <1>4, <1>11, <2>1 DEF BeginShutdown, CloseListener, Patient
  <1>12. ASSUME NEW k \in Clients, NEW cmd, Request(k, cmd) PROVE DefersOK'
    <2>1. Busy("ui")' => "ui" \in up \/ Busy("ui")
      BY <1>12 DEF Request, Busy, ConnsOK
    <2> QED
      BY <1>4, <1>12, <2>1 DEF Request, process
  <1>13. ASSUME NEW k \in Clients, Scrape(k) PROVE DefersOK'
    <2>1. Busy("ui")' => Busy("ui")
      <3>1. \A j \in Clients \ {k} : conns'[j] = conns[j]
        BY <1>13 DEF Scrape, ConnsOK
      <3>2. /\ conns'[k] = [conns[k] EXCEPT !.path = <<"metrics", "">>]
            /\ conns[k] # None /\ conns[k].via = "metrics"
        BY <1>13 DEF Scrape, Idle, ConnsOK
      <3>3. conns[k] = [via |-> conns[k].via, cert |-> conns[k].cert,
                        path |-> conns[k].path, role |-> conns[k].role]
        BY <3>2 DEF ConnsOK, ConnOK
      <3>4. conns'[k].via = "metrics"
        BY <3>2, <3>3
      <3> QED
        BY <3>1, <3>4 DEF Busy
    <2> QED
      BY <1>4, <1>13, <2>1 DEF Scrape, process
  <1>14. ASSUME NEW k \in Clients, NEW via, NEW cert,
                Connect(k, via, cert) \/ Handle(k) \/ Disconnect(k)
         PROVE  DefersOK'
    <2>1. Busy("ui")' => Busy("ui")
      <3>1. \A j \in Clients \ {k} : conns'[j] = conns[j]
        BY <1>14 DEF Connect, Handle, Disconnect, ConnsOK
      <3>2. conns'[k] = None \/ conns'[k].path = None
        <4>1. CASE Connect(k, via, cert) \/ Disconnect(k)
          BY <4>1 DEF Connect, Disconnect, ConnsOK
        <4>2. CASE Handle(k)
          BY <4>2 DEF Handle, ConnsOK, ConnOK
        <4> QED
          BY <1>14, <4>1, <4>2
      <3> QED
        BY <3>1, <3>2 DEF Busy
    <2> QED
      BY <1>4, <1>14, <2>1 DEF Connect, Handle, Disconnect, process
  <1>15. CASE (Hangup /\ ~Gone) \/ (Terminate /\ ~Gone) \/ ReloadStep \/ Age \/ CompactHistory \/ (DeleteRange /\ ~Gone)
              \/ \E f \in Files : Edit(f)
    <2>1. UNCHANGED <<pc, defers, up, conns>>
      BY <1>15 DEF Hangup, Terminate, ReloadStep, ReloadLoad, ReloadTLS, ReloadMappings,
         ReloadAnonymous, Age, CompactHistory, DeleteRange, Edit, process
    <2>2. Busy("ui")' => Busy("ui")
      BY <2>1 DEF Busy
    <2> QED
      BY <1>4, <2>1, <2>2
  <1> QED
    BY <1>1, <1>2, <1>6, <1>7, <1>8, <1>9, <1>10, <1>11, <1>12, <1>13, <1>14, <1>15
    DEF ServeNext, MainStep, Crash, Exit

\* A request that Middleware has let through runs.
Runs(k) == conns[k] # None /\ conns[k].path # None /\ conns[k].via # "metrics"

\* What is claimed of it.
Authorized(k) ==
    /\ \E cmd \in Commands : conns[k].path = PathOf(cmd) /\ conns[k].role >= DocumentedRole(cmd)
    /\ conns[k].via = "ui" => conns[k].role = RoleReader
    /\ conns[k].cert = NoCert /\ conns[k].role > RoleReader =>
         boot.insecure /\ boot.listen = "loopback"

\* Middleware lets a request through only with the documented role.
LEMMA RequestIsAuthorized ==
  ASSUME SInv, NEW k \in Clients, NEW cmd \in Commands, Request(k, cmd)
  PROVE  ConnOK(k)' /\ Authorized(k)'
  <1> USE DEF SInv
  <1> DEFINE c == conns[k]
  <1>1. /\ c # None /\ pc # "down" /\ c.via \in {"api", "ui", "metrics"}
        /\ c = [via |-> c.via, cert |-> c.cert, path |-> c.path, role |-> c.role]
        /\ c.via = "ui" => c.cert = NoCert
    BY DEF Request, Idle, ConnsOK, ConnOK
  <1>2. conns'[k] = [via |-> c.via, cert |-> c.cert, path |-> PathOf(cmd), role |-> Role(c)]
    BY <1>1 DEF Request, ConnsOK
  <1>3. UNCHANGED <<pc, boot>>
    BY DEF Request, process
  <1>4. Role(c) >= DocumentedRole(cmd)
    BY RolesAreDocumented, CommandsAssumption DEF Request
  <1>5. c.via = "ui" => Role(c) = RoleReader
    BY <1>1 DEF Role, Authorizer
  <1>6. c.cert = NoCert /\ Role(c) > RoleReader => boot.insecure
    BY <1>1 DEF Role, Authorizer, RoleReader, RoleNone
  <1>7. boot.insecure => boot.listen = "loopback"
    BY <1>1, InsecureIsLoopback DEF BootOK
  <1> HIDE DEF c
  <1>8. ConnOK(k)'
    BY <1>1, <1>2, <1>3 DEF ConnOK
  <1>9. Authorized(k)'
    BY <1>2, <1>3, <1>4, <1>5, <1>6, <1>7 DEF Authorized
  <1> QED
    BY <1>8, <1>9

\* Connections, and the requests on them, are kept by every step.
LEMMA ConnsKept ==
  ASSUME SInv, ServeNext
  PROVE  ConnsOK'
  <1> USE DEF SInv
  <1>0. \A k \in Clients : Runs(k) => Authorized(k)
    BY DEF ConnsOK, RunningIsAuthorized, Authorized, Runs
  <1>1. ASSUME conns' = [k \in Clients |-> conns'[k]],
               \A k \in Clients : ConnOK(k)',
               \A k \in Clients : Runs(k)' => Authorized(k)'
        PROVE  ConnsOK'
    BY <1>1 DEF ConnsOK, RunningIsAuthorized, Authorized, Runs
  <1>2. ASSUME NEW k \in Clients, conns'[k] \in {conns[k], None}, boot' = boot,
               pc' = "down" => pc = "down"
        PROVE  ConnOK(k)' /\ (Runs(k)' => Authorized(k)')
    BY <1>0, <1>2 DEF ConnsOK, ConnOK, Authorized, Runs
  <1>3. CASE Gone
    BY <1>1, <1>3 DEF Gone, ConnOK, Runs
  <1>4. CASE Start
    <2>1. \A k \in Clients : conns[k] = None
      BY <1>4 DEF Start, ConnsOK, ConnOK
    <2> QED
      BY <1>1, <1>4, <2>1 DEF Start, ConnOK, ConnsOK, Runs
  <1>5. CASE /\ UNCHANGED <<boot, conns>>
             /\ pc' = "down" => pc = "down"
    BY <1>1, <1>2, <1>5 DEF ConnsOK
  <1>6. CASE StartCollector \/ StartMetrics \/ StartUI \/ StartAPI \/ EndShutdown \/ ListenerFails
    BY <1>5, <1>6 DEF StartCollector, StartMetrics, StartUI, StartAPI, EndShutdown, ListenerFails, Fail
  <1>7. CASE BeginShutdown \/ RunDeferred \/ CloseListener
    <2>1. conns' = conns \/ \E via : conns' = CloseIdle(via)
      BY <1>7 DEF BeginShutdown, RunDeferred, CloseListener
    <2>2. \A k \in Clients : conns'[k] \in {conns[k], None}
      BY <2>1 DEF CloseIdle
    <2>3. conns' = [k \in Clients |-> conns'[k]]
      BY <2>1 DEF CloseIdle, ConnsOK
    <2>4. boot' = boot /\ pc' # "down"
      BY <1>7 DEF BeginShutdown, RunDeferred, CloseListener
    <2> QED
      BY <1>1, <1>2, <2>2, <2>3, <2>4
  <1>8. CASE (Hangup /\ ~Gone) \/ (Terminate /\ ~Gone) \/ ReloadStep \/ Age \/ CompactHistory \/ (DeleteRange /\ ~Gone)
             \/ \E f \in Files : Edit(f)
    BY <1>5, <1>8 DEF Hangup, Terminate, ReloadStep, ReloadLoad, ReloadTLS, ReloadMappings,
       ReloadAnonymous, Age, CompactHistory, DeleteRange, Edit, process
  <1>9. ASSUME NEW k \in Clients, boot' = boot, pc' = pc,
               \E c : conns' = [conns EXCEPT ![k] = c],
               ConnOK(k)', Runs(k)' => Authorized(k)'
        PROVE  ConnsOK'
    <2>1. PICK c : conns' = [conns EXCEPT ![k] = c]
      BY <1>9
    <2>2. conns' = [j \in Clients |-> conns'[j]]
      BY <2>1 DEF ConnsOK
    <2>3. \A j \in Clients \ {k} : conns'[j] = conns[j]
      BY <2>1 DEF ConnsOK
    <2> QED
      BY <1>1, <1>2, <1>9, <2>2, <2>3
  <1>10. ASSUME NEW k \in Clients, NEW via \in {"api", "ui", "metrics"}, NEW cert, Connect(k, via, cert)
         PROVE  ConnsOK'
    <2>1. conns'[k] = [via |-> via, cert |-> cert, path |-> None, role |-> RoleNone]
      BY <1>10 DEF Connect, ConnsOK
    <2>2. pc # "down" /\ (via = "ui" => cert = NoCert)
      BY <1>10 DEF Connect, DefersOK
    <2>3. ConnOK(k)' /\ conns'[k].path = None
      BY <1>10, <2>1, <2>2 DEF ConnOK, Connect, process
    <2> QED
      BY <1>9, <1>10, <2>3 DEF Connect, process, Runs
  <1>11. ASSUME NEW k \in Clients, NEW cmd \in Commands, Request(k, cmd) PROVE ConnsOK'
    <2>1. \E c : conns' = [conns EXCEPT ![k] = c]
      <3>1. conns' = [conns EXCEPT ![k] = [[conns[k] EXCEPT !.path = PathOf(cmd)]
                                             EXCEPT !.role = Role(conns[k])]]
        BY <1>11 DEF Request, ConnsOK
      <3> QED
        BY <3>1
    <2> QED
      BY <1>9, <1>11, <2>1, RequestIsAuthorized DEF Request, process
  <1>12. ASSUME NEW k \in Clients, Handle(k) PROVE ConnsOK'
    <2>1. /\ conns' = [conns EXCEPT ![k] = [conns[k] EXCEPT !.path = None]]
          /\ conns[k] # None
      BY <1>12 DEF Handle
    <2>2. ConnOK(k)' /\ conns'[k].path = None
      BY <1>12, <2>1 DEF Handle, ConnsOK, ConnOK, process
    <2> QED
      BY <1>9, <1>12, <2>1, <2>2 DEF Handle, process, Runs
  <1>13. ASSUME NEW k \in Clients, Disconnect(k) PROVE ConnsOK'
    BY <1>9, <1>13 DEF Disconnect, ConnsOK, ConnOK, process, Runs
  <1>14. ASSUME NEW k \in Clients, Scrape(k) PROVE ConnsOK'
    <2>1. /\ conns' = [conns EXCEPT ![k] = [conns[k] EXCEPT !.path = <<"metrics", "">>]]
          /\ conns[k] # None /\ conns[k].via = "metrics"
      BY <1>14 DEF Scrape, Idle
    <2>2. ConnOK(k)' /\ conns'[k].via = "metrics"
      BY <1>14, <2>1 DEF Scrape, ConnsOK, ConnOK, process
    <2> QED
      BY <1>9, <1>14, <2>1, <2>2 DEF Scrape, process, Runs
  <1> QED
    BY <1>3, <1>4, <1>6, <1>7, <1>8, <1>10, <1>11, <1>12, <1>13, <1>14
    DEF ServeNext, MainStep, Crash, Exit

-----------------------------------------------------------------------------
\* Every step keeps the invariant.
LEMMA ServeNextInv == SInv /\ [ServeNext]_serveVars => SInv'
  <1> SUFFICES ASSUME SInv, [ServeNext]_serveVars PROVE SInv'
    OBVIOUS
  <1>1. CASE ServeNext
    BY <1>1, SignalsKept, BootKept, ReloadKept, DefersKept, ConnsKept DEF SInv
  <1>2. CASE UNCHANGED serveVars
    BY <1>2 DEF serveVars, process, config, access, SInv, SignalsOK, BootOK, ReloadOK,
       DefersOK, ConnsOK, ConnOK, RunningIsAuthorized, QuietReloadIsWhole, Deferred, Busy
  <1> QED
    BY <1>1, <1>2

\* The invariant holds of every behaviour of the process; its fairness is not needed.
LEMMA ServeInvariant == ServeSpec => []SInv
  <1> QED
    BY ServeInitInv, ServeNextInv, PTL DEF ServeSpec

\* A request runs only with the documented role, whatever was edited and reloaded since
\* its connection was made.
THEOREM RequestsAreAuthorized == ServeSpec => []RunningIsAuthorized
  <1>1. SInv => RunningIsAuthorized
    BY DEF SInv, ConnsOK
  <1> QED
    BY <1>1, ServeInvariant, PTL

\* Between reloads what is in force is all of one file.
THEOREM ReloadsAreWhole == ServeSpec => []QuietReloadIsWhole
  <1>1. SInv => QuietReloadIsWhole
    BY DEF SInv, ReloadOK
  <1> QED
    BY <1>1, ServeInvariant, PTL

\* The last signal is obeyed, the one the channel had no room for too.
THEOREM NoSignalIsLost == ServeSpec => []SignalsAreNotLost
  <1>1. SInv => SignalsAreNotLost
    BY DEF SInv, SignalsOK, SignalsAreNotLost
  <1> QED
    BY <1>1, ServeInvariant, PTL

\* However serve ends, the store is closed after the collector and after every request of
\* the UI listener.  Nothing is said of requests of the API and of the retention loop.
THEOREM StoreIsClosedLast == ServeSpec => []StoreClosesLast
  <1>1. SInv => StoreClosesLast
    <2> SUFFICES ASSUME SInv, "store" \notin up PROVE "collector" \notin up /\ ~Busy("ui")
      BY DEF StoreClosesLast
    <2>1. \A x : ~Deferred(x)
      BY DEF SInv, DefersOK, Deferred
    <2> QED
      BY <2>1 DEF SInv, DefersOK
  <1> QED
    BY <1>1, ServeInvariant, PTL

=============================================================================
