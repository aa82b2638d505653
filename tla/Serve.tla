-------------------------------- MODULE Serve --------------------------------
(***************************************************************************)
(* The process (serve in cmd/bgpls/main.go), its configuration              *)
(* (internal/config), who may call what (internal/api/auth.go), the routes  *)
(* (internal/api/server.go and the generated handlers), the reload on       *)
(* SIGHUP, the retention loop and the way down.                             *)
(*                                                                         *)
(* A path is <<service, method>>.  Patterns and certificates are abstracted *)
(* to sets of names that match; what a handler does to the store is one     *)
(* event here, and is modelled in Store, PeerAdmin and Listing.             *)
(***************************************************************************)
EXTENDS Integers, Sequences, FiniteSets

CONSTANTS
    Files,       \* the contents the configuration file may have
    Certs,       \* client certificates: [ca, names]
    NoCert,      \* none was given
    None,        \* no connection, no request
    Clients,     \* the connections there may be at a time
    Commands,    \* the commands clients run
    MaxEdits,    \* bound on the edits of the configuration file
    MaxEvents,   \* bound on the journal
    EventBytes,  \* size of an event
    Overhead,    \* what disk usage may have on top of the events: current state, the log, old tables
    Word         \* sizes are counted modulo this, 2^64 in the code

ASSUME BytesAssumption == EventBytes \in Nat /\ Overhead \subseteq Int /\ Word \in Nat \ {0}

VARIABLES
    file,       \* the configuration file
    edits,      \* how often it was edited
    pc,         \* where serve is
    boot,       \* the configuration serve was started with
    defers,     \* its deferred calls, the last one first to run
    cancelled,  \* ctx: SIGINT or SIGTERM was received
    up,         \* what is open or running: "store", "collector", "metrics", "ui", "api"
    auth,       \* the authorizer: [mappings, anonymous]
    active,     \* the TLS configuration of new connections
    hup,        \* the signals in the channel of SIGHUP, of capacity 1
    reload,     \* the reloading goroutine: [at, cfg]
    conns,      \* client -> [via, cert, path, role] or None
    journal,    \* the events: [old, size]
    retention,  \* the retention loop: [at, n], about to delete the first n events
    hupAt,      \* history: edits before the last SIGHUP
    loadedAt    \* history: edits before the last load

process == <<pc, boot, defers, cancelled, up>>
config == <<file, edits>>
access == <<auth, active, hup, reload, hupAt, loadedAt>>
history == <<journal, retention>>
serveVars == <<process, config, access, conns, history>>

-----------------------------------------------------------------------------
(* Configuration.                                                           *)

Unique(s, Id(_)) == \A i, j \in DOMAIN s : Id(s[i]) = Id(s[j]) => i = j

\* Nothing is said of addresses that several peers share.
Validate(c) ==
    /\ c.dataDir
    /\ c.listen # "bad" /\ c.ui # "bad"
    /\ IF c.insecure THEN c.listen = "loopback" ELSE c.certificate # "none" /\ c.cas # {}
    /\ c.duration > 0 /\ c.maxBytes > 0
    /\ \A d \in {c.domains[i] : i \in DOMAIN c.domains} : d # ""
    /\ Unique(c.domains, LAMBDA d : d)
    /\ Unique(c.peers, LAMBDA p : p.id)
    /\ \A i \in DOMAIN c.peers : /\ c.peers[i].id # "" /\ c.peers[i].address # "bad" /\ c.peers[i].as
                                 /\ \E j \in DOMAIN c.domains : c.domains[j] = c.peers[i].domain

\* Load: the file can be read and parsed, and is valid.
Loads(c) == c.parses /\ Validate(c)

\* TLSConfig fails on a certificate or a CA file that cannot be loaded.
TLSLoads(c) == c.certificate = "ok" /\ "bad" \notin c.cas

TLSConfig(c) == [cas |-> c.cas, required |-> ~c.anonymous]

-----------------------------------------------------------------------------
(* Authorization.                                                           *)

RoleNone == 0
RoleReader == 1
RoleOperator == 2
RoleAdmin == 3

RoleValue(r) ==
    CASE r = "reader" -> RoleReader
      [] r = "operator" -> RoleOperator
      [] r = "admin" -> RoleAdmin
      [] OTHER -> RoleNone

\* role: the highest of the mappings that match a name of the certificate.
RoleOf(mappings, cert) ==
    LET roles == {RoleNone} \cup {RoleValue(m.role) : m \in {n \in mappings : n.names \cap cert.names # {}}}
    IN CHOOSE r \in roles : \A q \in roles : q <= r

AdminMethods == {"CreatePeer", "UpdatePeer", "DeletePeer", "ImportPeerConfig", "ExportPeerConfig"}

RequiredRole(path) ==
    IF path[2] \in AdminMethods THEN RoleAdmin
    ELSE IF path[2] \in {"SetPeerAdminState", "ResetPeer"} THEN RoleOperator
    ELSE RoleReader

\* Mutant: the authorizer of the UI listener is as insecure as the other one.
AuthorizerOfBoth(via) == [insecure |-> boot.insecure, anonymous |-> via = "ui" \/ auth.anonymous]

\* The UI listener has an authorizer of its own, with which anyone is a reader; it is
\* not reloaded.  Its listener has no TLS, so that its mappings are never looked at.
Authorizer(via) ==
    IF via = "ui" THEN [insecure |-> FALSE, anonymous |-> TRUE]
    ELSE [insecure |-> boot.insecure, anonymous |-> auth.anonymous]

\* Middleware: without TLS there is no certificate.
Role(c) ==
    LET a == Authorizer(c.via)
        tls == c.via = "api" /\ ~boot.insecure
    IN IF a.insecure /\ ~tls THEN RoleAdmin
       ELSE IF c.cert # NoCert THEN RoleOf(auth.mappings, c.cert)
       ELSE IF a.anonymous THEN RoleReader ELSE RoleNone

-----------------------------------------------------------------------------
(* Routes, from the generated handlers and clients.                         *)

TopologyProcedures ==
    {"GetSummary", "ListDomains", "GetNode", "ListNodes", "GetNeighbors", "GetLink", "ListLinks",
     "GetPrefix", "ListPrefixes", "Resolve", "StreamSnapshot", "WatchTopology"}

PathProcedures == {"ComputePaths", "AnalyzeImpact"}

HistoryProcedures == {"ListChanges", "DiffTopology"}

CollectorProcedures ==
    {"GetStatus", "GetPeer", "ListPeers", "CreatePeer", "UpdatePeer", "DeletePeer",
     "SetPeerAdminState", "ResetPeer", "ValidatePeerConfig", "ExportPeerConfig", "ImportPeerConfig"}

TopologyServiceHandler(path) == IF path[2] \in TopologyProcedures THEN path[2] ELSE "NotFound"

PathServiceHandler(path) == IF path[2] \in PathProcedures THEN path[2] ELSE "NotFound"

HistoryServiceHandler(path) == IF path[2] \in HistoryProcedures THEN path[2] ELSE "NotFound"

CollectorServiceHandler(path) == IF path[2] \in CollectorProcedures THEN path[2] ELSE "NotFound"

\* NewHandler: the handler of a path.
Handler(path) ==
    CASE path[1] = "TopologyService" -> TopologyServiceHandler(path)
      [] path[1] = "PathService" -> PathServiceHandler(path)
      [] path[1] = "HistoryService" -> HistoryServiceHandler(path)
      [] path[1] = "CollectorService" -> CollectorServiceHandler(path)
      [] path = <<"", "healthz">> -> "Health"
      [] path[1] = "ui" -> "Files"
      [] path = <<"", "">> -> "Redirect"
      [] OTHER -> "NotFound"

TopologyServiceClient(method) == <<"TopologyService", method>>

PathServiceClient(method) == <<"PathService", method>>

HistoryServiceClient(method) == <<"HistoryService", method>>

CollectorServiceClient(method) == <<"CollectorService", method>>

TopologyCommand(arg) ==
    CASE arg = "summary" -> TopologyServiceClient("GetSummary")
      [] arg = "nodes" -> TopologyServiceClient("ListNodes")
      [] arg = "links" -> TopologyServiceClient("ListLinks")
      [] arg = "prefixes" -> TopologyServiceClient("ListPrefixes")

PathCommand(arg) == PathServiceClient("ComputePaths")

HistoryCommand(arg) == HistoryServiceClient(IF arg = "changes" THEN "ListChanges" ELSE "DiffTopology")

PeersCommand(arg) ==
    CASE arg = "list" -> CollectorServiceClient("ListPeers")
      [] arg = "get" -> CollectorServiceClient("GetPeer")
      [] arg \in {"enable", "disable"} -> CollectorServiceClient("SetPeerAdminState")
      [] arg = "reset" -> CollectorServiceClient("ResetPeer")
      [] arg = "delete" -> CollectorServiceClient("DeletePeer")
      [] arg = "add" -> CollectorServiceClient("CreatePeer")
      [] arg = "update" -> CollectorServiceClient("UpdatePeer")
      [] arg = "export" -> CollectorServiceClient("ExportPeerConfig")
      [] arg = "import" -> CollectorServiceClient("ImportPeerConfig")

\* The commands of the CLI that ask the server; watch is another client of the API.
CommandNames ==
    ({"topology"} \X {"summary", "nodes", "links", "prefixes"})
    \cup ({"path"} \X {"compute"})
    \cup ({"history"} \X {"changes", "diff"})
    \cup ({"peers"} \X {"list", "get", "enable", "disable", "reset", "delete", "add",
                        "update", "export", "import"})
    \cup ({"health", "watch"} \X {""})

ASSUME CommandsAssumption == Commands \subseteq CommandNames

\* The path a command asks for.
PathOf(cmd) ==
    CASE cmd[1] = "topology" -> TopologyCommand(cmd[2])
      [] cmd[1] = "path" -> PathCommand(cmd[2])
      [] cmd[1] = "history" -> HistoryCommand(cmd[2])
      [] cmd[1] = "peers" -> PeersCommand(cmd[2])
      [] cmd[1] = "health" -> <<"", "healthz">>
      [] cmd[1] = "watch" -> TopologyServiceClient("WatchTopology")

\* The handlers that change the store, and the one that runs until its client leaves.
Changing == {"CreatePeer", "UpdatePeer", "DeletePeer", "ImportPeerConfig", "SetPeerAdminState"}

Streaming == {"WatchTopology"}

-----------------------------------------------------------------------------
(* Retention.                                                               *)

Bytes(j, n) ==
    LET Sum[i \in 0..n] == IF i = 0 THEN 0 ELSE Sum[i - 1] + j[i].size IN Sum[n]

\* What DiskUsage may answer: Pebble's files, which it adds, merges and drops by itself.
DiskUsage(j) == {Bytes(j, Len(j)) + x : x \in Overhead}

\* CompactHistory deletes the events 1..DeleteTo: those before the first one that is
\* young; when too much space is used, instead of that, as many as have the size of the
\* excess and a tenth of the limit.  Disk usage is read twice, to compare it (first) and
\* to subtract from it (second), and the difference wraps.
DeleteTo(j, max, first, second) ==
    LET target == (second - max + max \div 10) % Word
        enough == {n \in DOMAIN j : Bytes(j, n) >= target}
        expired == {n \in 0..Len(j) : \A i \in 1..n : j[i].old}
    IN IF max = 0 \/ first <= max THEN CHOOSE n \in expired : \A m \in expired : m <= n
       ELSE IF enough = {} THEN Len(j)
       ELSE CHOOSE n \in enough : \A m \in enough : n <= m

-----------------------------------------------------------------------------
(* The process starts.                                                      *)

\* Everything ends with the process, in order or not.
Gone ==
    /\ pc' = "down" /\ defers' = <<>> /\ up' = {} /\ cancelled' = FALSE
    /\ conns' = [k \in Clients |-> None]
    /\ hup' = 0 /\ reload' = [at |-> "wait", cfg |-> None]
    /\ retention' = [at |-> "off", n |-> 0]
    /\ UNCHANGED <<boot, config, auth, active, hupAt, loadedAt, journal>>

\* Load, and Open, which fails when another process has the directory.  From here on
\* signals are received.
Start ==
    /\ pc = "down"
    /\ Loads(file)
    /\ pc' = "opened" /\ boot' = file /\ loadedAt' = edits /\ hupAt' = edits
    /\ up' = {"store"} /\ defers' = <<"store", "cancel">>
    /\ UNCHANGED <<cancelled, config, auth, active, hup, reload, conns, history>>

\* Mutant: deferred calls run in the order they were made.
DeferFirst(call) == <<call>> \o defers

Defer(call) == Append(defers, call)

Fail == pc' = "exit" /\ UNCHANGED <<boot, defers, cancelled, up, config, access, conns, history>>

\* Bootstrap and collector.Start; Close is deferred only when it has started.
StartCollector ==
    /\ pc = "opened"
    /\ \/ Fail
       \/ /\ pc' = "collecting"
          /\ up' = up \cup {"collector"} /\ defers' = Defer("collector")
          /\ UNCHANGED <<boot, cancelled, config, access, conns, history>>

\* The authorizer of the API, and the listener of the metrics if there is one; Validate
\* says nothing of its address.
StartMetrics ==
    /\ pc = "collecting"
    /\ pc' = "metering"
    /\ auth' = [mappings |-> boot.rbac, anonymous |-> boot.anonymous]
    /\ IF boot.metrics = "none" THEN UNCHANGED <<up, defers>>
       ELSE up' = up \cup {"metrics"} /\ defers' = Defer("metrics")
    /\ UNCHANGED <<boot, cancelled, config, active, hup, reload, hupAt, loadedAt, conns, history>>

\* The UI listener, if there is one.
StartUI ==
    /\ pc = "metering"
    /\ pc' = "listening"
    /\ IF boot.ui = "none" THEN UNCHANGED <<up, defers>>
       ELSE up' = up \cup {"ui"} /\ defers' = Defer("ui")
    /\ UNCHANGED <<boot, cancelled, config, access, conns, history>>

\* SIGHUP is received in TLS mode only.  The TLS files, or the listener, may fail.
StartAPI ==
    /\ pc = "listening"
    /\ \/ Fail
       \/ /\ boot.insecure \/ TLSLoads(boot)
          /\ pc' = "serving"
          /\ up' = up \cup {"api"}
          /\ defers' = IF boot.insecure THEN defers ELSE Defer("hup")
          /\ active' = TLSConfig(boot)
          /\ retention' = [at |-> "wait", n |-> 0]
          /\ UNCHANGED <<boot, cancelled, config, auth, hup, reload, hupAt, loadedAt, conns, journal>>

-----------------------------------------------------------------------------
(* Signals and the reload.                                                  *)

Deferred(call) == \E i \in DOMAIN defers : defers[i] = call

Edit(f) ==
    /\ edits < MaxEdits
    /\ file' = f /\ edits' = edits + 1
    /\ UNCHANGED <<process, access, conns, history>>

\* A second signal has no effect as long as the first one is being obeyed.
Terminate ==
    /\ pc # "down"
    /\ IF Deferred("cancel")
       THEN cancelled' = TRUE /\ UNCHANGED <<pc, boot, defers, up, config, access, conns, history>>
       ELSE Gone

\* Mutant: the channel has no room, so that only a waiting goroutine gets the signal.
NotifyUnbuffered == IF hup = 0 /\ reload.at = "wait" THEN 1 ELSE hup

\* signal.Notify drops a signal that the channel has no room for.
Notify == IF hup < 1 THEN hup + 1 ELSE hup

\* SIGHUP ends a process that does not receive it.
Hangup ==
    /\ pc # "down"
    /\ IF Deferred("hup")
       THEN /\ hup' = Notify /\ hupAt' = edits
            /\ UNCHANGED <<process, config, auth, active, reload, loadedAt, conns, history>>
       ELSE Gone

Crash == pc # "down" /\ Gone

\* Mutant: the TLS files are not tried before anything is changed.
UsableAnyway(f) == Loads(f)

\* A file that does not load, or whose TLS files do not, changes nothing.
UsableFile(f) == Loads(f) /\ TLSLoads(f)

ReloadLoad ==
    /\ hup > 0 /\ reload.at = "wait"
    /\ hup' = hup - 1 /\ loadedAt' = edits
    /\ reload' = IF UsableFile(file) THEN [at |-> "tls", cfg |-> file] ELSE reload
    /\ UNCHANGED <<process, config, auth, active, hupAt, conns, history>>

\* active.Store, then Reload: mappings.Store and anonymousReader.Store.
ReloadTLS ==
    /\ reload.at = "tls"
    /\ active' = TLSConfig(reload.cfg)
    /\ reload' = [reload EXCEPT !.at = "mappings"]
    /\ UNCHANGED <<process, config, auth, hup, hupAt, loadedAt, conns, history>>

ReloadMappings ==
    /\ reload.at = "mappings"
    /\ auth' = [auth EXCEPT !.mappings = reload.cfg.rbac]
    /\ reload' = [reload EXCEPT !.at = "anonymous"]
    /\ UNCHANGED <<process, config, active, hup, hupAt, loadedAt, conns, history>>

ReloadAnonymous ==
    /\ reload.at = "anonymous"
    /\ auth' = [auth EXCEPT !.anonymous = reload.cfg.anonymous]
    /\ reload' = [at |-> "wait", cfg |-> None]
    /\ UNCHANGED <<process, config, active, hup, hupAt, loadedAt, conns, history>>

-----------------------------------------------------------------------------
(* Clients.  A connection keeps what its handshake has verified.            *)

\* A TLS handshake takes the configuration of the moment.
Handshake(cert) ==
    IF boot.insecure THEN cert = NoCert
    ELSE IF cert = NoCert THEN ~active.required ELSE cert.ca \in active.cas

Connect(k, via, cert) ==
    /\ via \in up
    /\ conns[k] = None
    /\ IF via = "api" THEN Handshake(cert) ELSE cert = NoCert
    /\ conns' = [conns EXCEPT ![k] = [via |-> via, cert |-> cert, path |-> None, role |-> RoleNone]]
    /\ UNCHANGED <<process, config, access, history>>

Idle(k) == conns[k] # None /\ conns[k].path = None

Busy(via) == \E k \in Clients : conns[k] # None /\ conns[k].via = via /\ conns[k].path # None

\* A request that Middleware lets through; it answers others itself.
Request(k, cmd) ==
    /\ Idle(k)
    /\ conns[k].via \in up \ {"metrics"}
    /\ Role(conns[k]) >= RequiredRole(PathOf(cmd))
    /\ conns' = [conns EXCEPT ![k].path = PathOf(cmd), ![k].role = Role(conns[k])]
    /\ UNCHANGED <<process, config, access, history>>

\* The listener of the metrics has no Middleware and one handler.
Scrape(k) ==
    /\ Idle(k)
    /\ conns[k].via = "metrics" /\ "metrics" \in up
    /\ conns' = [conns EXCEPT ![k].path = <<"metrics", "">>]
    /\ UNCHANGED <<process, config, access, history>>

\* The handler runs and answers, if it is not stuck.  With a store that is closed it can only fail.
Handle(k) ==
    /\ conns[k] # None /\ conns[k].path # None
    /\ Handler(conns[k].path) \notin Streaming
    /\ conns' = [conns EXCEPT ![k].path = None]
    /\ IF Handler(conns[k].path) \in Changing /\ "store" \in up /\ Len(journal) < MaxEvents
       THEN journal' = Append(journal, [old |-> FALSE, size |-> EventBytes])
       ELSE UNCHANGED journal
    /\ UNCHANGED <<process, config, access, retention>>

\* The client goes, which ends what it watches.
Disconnect(k) ==
    /\ conns[k] # None
    /\ conns[k].path # None => Handler(conns[k].path) \in Streaming
    /\ conns' = [conns EXCEPT ![k] = None]
    /\ UNCHANGED <<process, config, access, history>>

-----------------------------------------------------------------------------
(* Retention, with the limits of the configuration at the start.            *)

Age ==
    /\ \E i \in DOMAIN journal : ~journal[i].old
    /\ LET young == {i \in DOMAIN journal : ~journal[i].old} IN
       journal' = [journal EXCEPT ![CHOOSE i \in young : \A j \in young : i <= j].old = TRUE]
    /\ UNCHANGED <<process, config, access, conns, retention>>

\* ctx is done from the signal on, or when cancel runs: on the way down.
CtxDone == cancelled \/ ~Deferred("cancel")

\* The ticker of the retention loop, and CompactHistory up to what it will delete.
CompactHistory ==
    /\ retention.at = "wait" /\ ~CtxDone
    /\ \E first, second \in DiskUsage(journal) :
         LET n == DeleteTo(journal, boot.maxBytes, first, second)
         IN n > 0 /\ retention' = [at |-> "delete", n |-> n]
    /\ UNCHANGED <<process, config, access, conns, journal>>

\* The deletion, which looks at no context and which nobody waits for: it may come when
\* the store is closed, and then fails or ends the process.
DeleteRange ==
    /\ retention.at = "delete"
    /\ \/ /\ retention' = [at |-> "wait", n |-> 0]
          /\ journal' = IF "store" \in up THEN SubSeq(journal, retention.n + 1, Len(journal)) ELSE journal
          /\ UNCHANGED <<process, config, access, conns>>
       \/ "store" \notin up /\ Gone

-----------------------------------------------------------------------------
(* The way down.                                                            *)

CloseIdle(via) == [k \in Clients |-> IF Idle(k) /\ conns[k].via = via THEN None ELSE conns[k]]

\* ctx.Done: server.Shutdown closes the listener and what is idle.
BeginShutdown ==
    /\ pc = "serving" /\ cancelled
    /\ pc' = "shutdown" /\ up' = up \ {"api"}
    /\ conns' = CloseIdle("api")
    /\ UNCHANGED <<boot, defers, cancelled, config, access, history>>

\* errCh: a listener failed; its error ends serve.
ListenerFails ==
    /\ pc = "serving"
    /\ Fail

\* Mutant: the time that Shutdown is given has no effect.
ShutdownReturnsIdle(via, limited) == ~Busy(via)

\* http.Server.Shutdown returns when no request runs, or when its time is over.
ShutdownReturns(via, limited) == limited \/ ~Busy(via)

\* Of the API: not later than after 15 seconds.
EndShutdown ==
    /\ pc = "shutdown"
    /\ ShutdownReturns("api", TRUE)
    /\ Fail

\* The listeners whose Shutdown has no limit of time.
Patient == {"ui", "metrics"}

\* The deferred calls run, the last one first.
RunDeferred ==
    /\ pc = "exit" /\ defers # <<>>
    /\ LET call == defers[Len(defers)] IN
       /\ call \in Patient => ShutdownReturns(call, FALSE)
       /\ up' = up \ {call}
       /\ defers' = SubSeq(defers, 1, Len(defers) - 1)
       /\ conns' = IF call \in Patient THEN CloseIdle(call) ELSE conns
    /\ UNCHANGED <<pc, boot, cancelled, config, access, history>>

\* Shutdown closes the listener before it waits.
CloseListener ==
    /\ pc = "exit" /\ defers # <<>>
    /\ LET call == defers[Len(defers)] IN
       /\ call \in Patient \cap up /\ Busy(call)
       /\ up' = up \ {call}
       /\ conns' = CloseIdle(call)
    /\ UNCHANGED <<pc, boot, defers, cancelled, config, access, history>>

Exit == pc = "exit" /\ defers = <<>> /\ Gone

-----------------------------------------------------------------------------
ServeInit ==
    /\ file \in Files /\ edits = 0
    /\ pc = "down" /\ boot = file /\ defers = <<>> /\ cancelled = FALSE /\ up = {}
    /\ auth = [mappings |-> {}, anonymous |-> FALSE]
    /\ active = TLSConfig(file)
    /\ hup = 0 /\ reload = [at |-> "wait", cfg |-> None]
    /\ conns = [k \in Clients |-> None]
    /\ journal = <<>> /\ retention = [at |-> "off", n |-> 0]
    /\ hupAt = 0 /\ loadedAt = 0

MainStep ==
    \/ Start \/ StartCollector \/ StartMetrics \/ StartUI \/ StartAPI
    \/ BeginShutdown \/ EndShutdown \/ RunDeferred \/ CloseListener \/ Exit

ReloadStep == ReloadLoad \/ ReloadTLS \/ ReloadMappings \/ ReloadAnonymous

ServeNext ==
    \/ MainStep \/ ReloadStep
    \/ \E f \in Files : Edit(f)
    \/ Terminate \/ Hangup \/ Crash \/ ListenerFails
    \/ \E k \in Clients, via \in {"api", "ui", "metrics"}, cert \in Certs \cup {NoCert} : Connect(k, via, cert)
    \/ \E k \in Clients, cmd \in Commands : Request(k, cmd)
    \/ \E k \in Clients : Scrape(k) \/ Handle(k) \/ Disconnect(k)
    \/ Age \/ CompactHistory \/ DeleteRange

\* serve goes on as long as it can.  Nothing is assumed of handlers, which may be stuck
\* (see StoreWatch.tla), of clients, of signals, of the reload or of the retention loop.
ServeSpec == ServeInit /\ [][ServeNext]_serveVars /\ WF_serveVars(MainStep)

-----------------------------------------------------------------------------
(* Properties.                                                              *)

\* What is documented of the roles: reading needs a reader, sessions an operator, the
\* configuration of peers an administrator.
DocumentedRole(cmd) ==
    IF cmd[1] = "peers" /\ cmd[2] \in {"add", "update", "delete", "import", "export"} THEN RoleAdmin
    ELSE IF cmd[1] = "peers" /\ cmd[2] \in {"enable", "disable", "reset"} THEN RoleOperator
    ELSE RoleReader

\* A request runs only with the documented role; from the UI listener it never has more
\* than a reader's; and without a certificate it has more only on a process that was
\* started without TLS, whose listener is on a loopback address: no reload, edit or
\* restart leads to another.
RunningIsAuthorized ==
    \A k \in Clients : conns[k] # None /\ conns[k].path # None /\ conns[k].via # "metrics" =>
        /\ \E cmd \in Commands : conns[k].path = PathOf(cmd) /\ conns[k].role >= DocumentedRole(cmd)
        /\ conns[k].via = "ui" => conns[k].role = RoleReader
        /\ conns[k].cert = NoCert /\ conns[k].role > RoleReader =>
             boot.insecure /\ boot.listen = "loopback"

\* Between reloads the certificates required, the mappings and the anonymous reader are
\* of one file that loads, however many edits and signals there were and failed.
QuietReloadIsWhole ==
    pc = "serving" /\ reload.at = "wait" =>
        \E f \in Files : /\ Loads(f)
                         /\ boot.insecure \/ TLSLoads(f)
                         /\ active = TLSConfig(f)
                         /\ auth = [mappings |-> f.rbac, anonymous |-> f.anonymous]

\* A SIGHUP that the channel has no room for is not lost: when no reload is pending or
\* running, the file was last read after the last signal.
SignalsAreNotLost ==
    pc = "serving" /\ hup = 0 /\ reload.at = "wait" => loadedAt >= hupAt

\* However serve ends, the store is closed after the collector, and after every request
\* of the UI listener.  (Requests of the API that are still running after 15 seconds, or
\* after a listener has failed, and the retention loop may come later.)
StoreClosesLast ==
    pc # "down" /\ "store" \notin up => "collector" \notin up /\ ~Busy("ui")

\* History that is within max_bytes loses no young event: the limit of README.md is one of
\* the event history, and current state is separate from it.
HistoryWithinLimitStays ==
    [][\A n \in 1..Len(journal) :
         Len(journal') = Len(journal) - n /\ ~journal[n].old => Bytes(journal, Len(journal)) > boot.maxBytes]_serveVars

\* serve is in a Shutdown that waits for a request.
WaitsFor(via) == pc = "exit" /\ defers # <<>> /\ defers[Len(defers)] = via /\ Busy(via)

\* A process that was told to stop does, whatever the clients of its API do and however
\* its handlers are stuck, wherever it was in its start, and in spite of reloads and
\* further signals; unless one request of the UI or of the metrics never ends.
ShutdownEnds == cancelled ~> (pc = "down" \/ []WaitsFor("ui") \/ []WaitsFor("metrics"))
=============================================================================
