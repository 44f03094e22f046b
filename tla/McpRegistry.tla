---------------------------- MODULE McpRegistry ----------------------------
(***************************************************************************)
(* One MCP server in pkg/mcp: its entry in the registry (registry.go,      *)
(* death_recovery.go), the client manager's single flight and cache        *)
(* (client.go), the tool calls that use it (engine/mcp_tool.go), reloads   *)
(* of the configuration, and Close.  Servers share nothing but the locks.  *)
(*                                                                         *)
(* A dial is one attempt to connect: its cache entry, its result and, when *)
(* it succeeds, the server process of that connection, or the session with *)
(* a remote server.  Every section under r.mu or cm.mu is one action.      *)
(* Calls of tools and the reload (one at a time, reloadMu) connect by the  *)
(* same steps.  Init is the state that ConnectAll leaves.  What a server's *)
(* tools are is not followed.                                              *)
(***************************************************************************)
EXTENDS Naturals, FiniteSets

CONSTANTS
  Caller,    \* goroutines that call a tool of the server
  Reloader,  \* the holder of reloadMu
  Config,    \* configurations of the server
  Dial,      \* bound: dials, numbered in their order
  MaxCalls,  \* bound: tool calls
  MaxReloads,\* bound: reloads
  None

ASSUME NameAssumption == None \notin Dial \cup Config /\ Reloader \notin Caller
ASSUME DialAssumption == Dial \subseteq Nat /\ 1 \in Dial
ASSUME BoundAssumption == MaxCalls \in Nat /\ MaxReloads \in Nat

Actor == Caller \cup {Reloader}

VARIABLES
  configs,    \* r.configs: the server's configuration, None when it is not configured
  connection, \* r.connections: a dial that has ended, None when there is no entry
  closed,     \* r.closed
  cache,      \* the client manager's cache: a dial for each configuration, or None
  dial,       \* each dial: none, dialing, connected or failed
  server,     \* the process of its connection: none, live or dead
  configOf,   \* the configuration it was made with
  closing,    \* connections whose Close is under way
  pc,         \* where each call and the reload are
  config,     \* the configuration it connects with; the reload's, None to remove the server
  entry,      \* the dial it makes or waits for
  held,       \* the connection it uses
  sent,       \* how often a call has sent its request
  first,      \* the connection it was first sent to
  inflight,   \* the calls in the server's in-flight counter
  entered,    \* the calls that entered since the drain's last look at the counter
  late,       \* that look timed out with calls in flight
  calls, reloads

registry == <<configs, connection, closed>>
dials == <<cache, dial, server, configOf>>
call == <<held, sent, first, inflight>>
reload == <<entered, late>>
bounds == <<calls, reloads>>
vars == <<registry, dials, closing, pc, config, entry, call, reload, bounds>>

Goto(a, place) == pc' = [pc EXCEPT ![a] = place]

Live(d) == d # None /\ server[d] = "live"
Connected(d) == d # None /\ dial[d] = "connected"

Init ==
  /\ configs \in Config /\ closed = FALSE
  /\ dial \in {[d \in Dial |-> IF d = 1 THEN s ELSE "none"] : s \in {"connected", "failed"}}
  /\ connection = 1
  /\ server = [d \in Dial |-> IF dial[d] = "connected" THEN "live" ELSE "none"]
  /\ cache = [c \in Config |-> IF c = configs THEN 1 ELSE None]
  /\ configOf = [d \in Dial |-> IF d = 1 THEN configs ELSE None]
  /\ closing = {}
  /\ pc = [a \in Actor |-> "idle"]
  /\ config = [a \in Actor |-> None]
  /\ entry = [a \in Actor |-> None]
  /\ held = [a \in Actor |-> None]
  /\ sent = [a \in Caller |-> 0] /\ first = [a \in Caller |-> None]
  /\ inflight = {} /\ entered = {} /\ late = FALSE
  /\ calls = 0 /\ reloads = 0

-----------------------------------------------------------------------------
(* MCPTool.Call *)

\* The deferred callDone, and the end of the goroutine's frame.
Return(a) ==
  /\ Goto(a, "idle")
  /\ inflight' = inflight \ {a}
  /\ held' = [held EXCEPT ![a] = None]
  /\ sent' = [sent EXCEPT ![a] = 0]
  /\ first' = [first EXCEPT ![a] = None]
  /\ config' = [config EXCEPT ![a] = None]

EnterCall(a) ==
  /\ pc[a] = "idle" /\ calls < MaxCalls
  /\ calls' = calls + 1
  /\ inflight' = inflight \cup {a}
  /\ entered' = entered \cup {a}
  /\ Goto(a, "lookup")
  /\ UNCHANGED <<registry, dials, closing, config, entry, held, sent, first, late, reloads>>

GetConnection(a) ==
  /\ pc[a] = "lookup"
  /\ \/ Connected(connection) /\ held' = [held EXCEPT ![a] = connection] /\ Goto(a, "send")
     \/ ~Connected(connection) /\ held' = held /\ Goto(a, "reconnect")
  /\ UNCHANGED <<registry, dials, closing, config, entry, sent, first, inflight, reload, bounds>>

Send(a) ==
  /\ pc[a] = "send"
  /\ sent' = [sent EXCEPT ![a] = @ + 1]
  /\ first' = [first EXCEPT ![a] = IF @ = None THEN held[a] ELSE @]
  /\ Goto(a, "await")
  /\ UNCHANGED <<registry, dials, closing, config, entry, held, inflight, reload, bounds>>

\* A result, an error of the tool, a timeout or the end of the caller's context.
Answered(a) ==
  /\ pc[a] = "await"
  /\ Return(a)
  /\ UNCHANGED <<registry, dials, closing, entry, reload, bounds>>

\* An error that IsConnectionDeadError takes for the connection's death.  A broken pipe, an
\* end of stream or a refused connection says nothing of whether the server lives.
ConnectionDead(a) ==
  /\ pc[a] = "await"
  /\ Goto(a, "evict")
  /\ UNCHANGED <<registry, dials, closing, config, entry, call, reload, bounds>>

\* EvictIfSame, then one more attempt or none.
Evict(a) ==
  /\ pc[a] = "evict"
  /\ \/ /\ connection = held[a]
        /\ connection' = None
        /\ closing' = closing \cup {held[a]}
     \/ connection # held[a] /\ UNCHANGED <<connection, closing>>
  /\ \/ sent[a] = 1 /\ Goto(a, "reconnect") /\ UNCHANGED <<call, config>>
     \/ sent[a] # 1 /\ Return(a)
  /\ UNCHANGED <<configs, closed, dials, entry, reload, bounds>>

-----------------------------------------------------------------------------
(* Reconnect, and ConnectToServer with its single flight *)

Reconnect(a) ==
  /\ pc[a] = "reconnect"
  /\ \/ /\ configs # None /\ ~closed
        /\ config' = [config EXCEPT ![a] = configs]
        /\ Goto(a, "invalidate") /\ UNCHANGED call
     \/ /\ configs = None \/ closed
        /\ Return(a)
  /\ UNCHANGED <<registry, dials, closing, entry, reload, bounds>>

\* Mutant: an entry in flight is dropped as well.
InvalidatedAll(c) == [cache EXCEPT ![c] = None]

\* An entry in flight is left alone.
Invalidated(c) ==
  [cache EXCEPT ![c] = IF @ # None /\ dial[@] # "dialing" THEN None ELSE @]

InvalidateCache(a) ==
  /\ pc[a] = "invalidate"
  /\ cache' = Invalidated(config[a])
  /\ Goto(a, "connect")
  /\ UNCHANGED <<registry, dial, server, configOf, closing, config, entry, call, reload, bounds>>

JoinDial(a) ==
  /\ pc[a] = "connect" /\ cache[config[a]] # None
  /\ entry' = [entry EXCEPT ![a] = cache[config[a]]]
  /\ Goto(a, "join")
  /\ UNCHANGED <<registry, dials, closing, config, call, reload, bounds>>

OpenDial(a) ==
  /\ pc[a] = "connect" /\ cache[config[a]] = None
  /\ \E d \in Dial :
       /\ \A e \in Dial : e < d <=> dial[e] # "none"
       /\ dial' = [dial EXCEPT ![d] = "dialing"]
       /\ configOf' = [configOf EXCEPT ![d] = config[a]]
       /\ cache' = [cache EXCEPT ![config[a]] = d]
       /\ entry' = [entry EXCEPT ![a] = d]
  /\ Goto(a, "dial")
  /\ UNCHANGED <<registry, server, closing, config, call, reload, bounds>>

\* connectInner: a failure is a result too, and stays in the cache.
DialEnds(a) ==
  /\ pc[a] = "dial"
  /\ \E s \in {"connected", "failed"} :
       /\ dial' = [dial EXCEPT ![entry[a]] = s]
       /\ server' = [server EXCEPT ![entry[a]] = IF s = "connected" THEN "live" ELSE "none"]
  /\ Goto(a, "adopt")
  /\ UNCHANGED <<registry, cache, configOf, closing, config, entry, call, reload, bounds>>

Joined(a) ==
  /\ pc[a] = "join" /\ dial[entry[a]] # "dialing"
  /\ Goto(a, "adopt")
  /\ UNCHANGED <<registry, dials, closing, config, entry, call, reload, bounds>>

\* adoptConnection on a closed registry closes what it was given.
Reject(a) ==
  /\ pc[a] = "adopt" /\ closed
  /\ closing' = IF Connected(entry[a]) THEN closing \cup {entry[a]} ELSE closing
  /\ entry' = [entry EXCEPT ![a] = None]
  /\ \/ a = Reloader /\ Goto(a, "finish") /\ UNCHANGED <<call, config>>
     \/ a # Reloader /\ Return(a)
  /\ UNCHANGED <<registry, dials, reload, bounds>>

\* Mutant: no look at closed.
AdoptAnyway(a) ==
  /\ pc[a] = "adopt"
  /\ connection' = entry[a]
  /\ configs' = IF a = Reloader THEN config[a] ELSE configs
  /\ entry' = [entry EXCEPT ![a] = None]
  /\ \/ /\ Connected(entry[a])
        /\ Goto(a, IF a = Reloader THEN "finish" ELSE "send")
        /\ held' = [held EXCEPT ![a] = entry[a]]
        /\ UNCHANGED <<sent, first, inflight, config>>
     \/ ~Connected(entry[a]) /\ a = Reloader /\ Goto(a, "finish") /\ UNCHANGED <<call, config>>
     \/ ~Connected(entry[a]) /\ a # Reloader /\ Return(a)
  /\ UNCHANGED <<closed, dials, closing, reload, bounds>>

\* A reload records the configuration too.  A call whose dial failed returns.
Adopt(a) ==
  /\ pc[a] = "adopt" /\ ~closed
  /\ connection' = entry[a]
  /\ configs' = IF a = Reloader THEN config[a] ELSE configs
  /\ entry' = [entry EXCEPT ![a] = None]
  /\ \/ /\ Connected(entry[a])
        /\ Goto(a, IF a = Reloader THEN "finish" ELSE "send")
        /\ held' = [held EXCEPT ![a] = entry[a]]
        /\ UNCHANGED <<sent, first, inflight, config>>
     \/ ~Connected(entry[a]) /\ a = Reloader /\ Goto(a, "finish") /\ UNCHANGED <<call, config>>
     \/ ~Connected(entry[a]) /\ a # Reloader /\ Return(a)
  /\ UNCHANGED <<closed, dials, closing, reload, bounds>>

-----------------------------------------------------------------------------
(* Reconcile, and handleConfigReload, which does not drain *)

StartReload ==
  /\ pc[Reloader] = "idle" /\ reloads < MaxReloads
  /\ \E c \in Config \cup {None}, drains \in BOOLEAN :
       /\ c # configs
       /\ config' = [config EXCEPT ![Reloader] = c]
       /\ Goto(Reloader, IF configs = None THEN "connect"
                         ELSE IF drains THEN "drain" ELSE "disconnect")
       /\ late' = ~drains
  /\ reloads' = reloads + 1
  /\ UNCHANGED <<registry, dials, closing, entry, call, entered, calls>>

\* Mutant: the calls in flight are not waited for, and not reported.
DrainNothing ==
  /\ pc[Reloader] = "drain"
  /\ late' = FALSE
  /\ entered' = {}
  /\ Goto(Reloader, "disconnect")
  /\ UNCHANGED <<registry, dials, closing, config, entry, call, bounds>>

\* DrainServer finds no call in flight, or its time is over.
DrainServer ==
  /\ pc[Reloader] = "drain"
  /\ late' = (inflight # {})
  /\ entered' = {}
  /\ Goto(Reloader, "disconnect")
  /\ UNCHANGED <<registry, dials, closing, config, entry, call, bounds>>

AfterDisconnect == IF config[Reloader] = None THEN "finish" ELSE "connect"

Disconnect ==
  /\ pc[Reloader] = "disconnect"
  /\ \/ connection = None
        /\ Goto(Reloader, AfterDisconnect)
        /\ UNCHANGED <<connection, held>>
     \/ /\ connection # None
        /\ connection' = None
        /\ held' = [held EXCEPT ![Reloader] = connection]
        /\ Goto(Reloader, IF Connected(connection) THEN "uncache" ELSE AfterDisconnect)
  /\ UNCHANGED <<configs, closed, dials, closing, config, entry, sent, first, inflight, reload, bounds>>

Uncache ==
  /\ pc[Reloader] = "uncache"
  /\ cache' = Invalidated(configOf[held[Reloader]])
  /\ Goto(Reloader, "close")
  /\ UNCHANGED <<registry, dial, server, configOf, closing, config, entry, call, reload, bounds>>

CloseOld ==
  /\ pc[Reloader] = "close"
  /\ server' = [server EXCEPT ![held[Reloader]] = "dead"]
  /\ Goto(Reloader, AfterDisconnect)
  /\ UNCHANGED <<registry, cache, dial, configOf, closing, config, entry, call, reload, bounds>>

FinishReload ==
  /\ pc[Reloader] = "finish"
  /\ configs' = config[Reloader]
  /\ config' = [config EXCEPT ![Reloader] = None]
  /\ held' = [held EXCEPT ![Reloader] = None]
  /\ entered' = {} /\ late' = FALSE
  /\ Goto(Reloader, "idle")
  /\ UNCHANGED <<connection, closed, dials, closing, entry, sent, first, inflight, bounds>>

-----------------------------------------------------------------------------
\* Mutant: the connection is dropped and not closed.
CloseRegistryOnly ==
  /\ ~closed
  /\ closed' = TRUE /\ connection' = None
  /\ UNCHANGED <<configs, dials, closing, pc, config, entry, call, reload, bounds>>

Close ==
  /\ ~closed
  /\ closed' = TRUE /\ connection' = None
  /\ closing' = IF Connected(connection) THEN closing \cup {connection} ELSE closing
  /\ UNCHANGED <<configs, dials, pc, config, entry, call, reload, bounds>>

\* ConnectedServer.Close, in a goroutine of its own.
CloseServer(d) ==
  /\ d \in closing
  /\ closing' = closing \ {d}
  /\ server' = [server EXCEPT ![d] = "dead"]
  /\ UNCHANGED <<registry, cache, dial, configOf, pc, config, entry, call, reload, bounds>>

ServerDies(d) ==
  /\ server[d] = "live"
  /\ server' = [server EXCEPT ![d] = "dead"]
  /\ UNCHANGED <<registry, cache, dial, configOf, closing, pc, config, entry, call, reload, bounds>>

-----------------------------------------------------------------------------
Connect(a) ==
  \/ JoinDial(a) \/ OpenDial(a) \/ DialEnds(a) \/ Joined(a)
  \/ Reject(a) \/ Adopt(a)

CallStep(a) ==
  \/ GetConnection(a) \/ Send(a) \/ Answered(a) \/ ConnectionDead(a) \/ Evict(a)
  \/ Reconnect(a) \/ InvalidateCache(a) \/ Connect(a)

ReloadStep ==
  DrainServer \/ Disconnect \/ Uncache \/ CloseOld \/ Connect(Reloader) \/ FinishReload

Next ==
  \/ \E a \in Caller : EnterCall(a) \/ CallStep(a)
  \/ StartReload \/ ReloadStep \/ Close
  \/ \E d \in Dial : CloseServer(d) \/ ServerDies(d)

Spec == Init /\ [][Next]_vars

-----------------------------------------------------------------------------
Place ==
  {"idle", "lookup", "send", "await", "evict", "reconnect", "invalidate", "connect", "join",
   "dial", "adopt", "drain", "disconnect", "uncache", "close", "finish"}

TypeOK ==
  /\ configs \in Config \cup {None} /\ connection \in Dial \cup {None} /\ closed \in BOOLEAN
  /\ cache \in [Config -> Dial \cup {None}]
  /\ dial \in [Dial -> {"none", "dialing", "connected", "failed"}]
  /\ server \in [Dial -> {"none", "live", "dead"}]
  /\ configOf \in [Dial -> Config \cup {None}]
  /\ closing \subseteq Dial
  /\ pc \in [Actor -> Place]
  /\ config \in [Actor -> Config \cup {None}]
  /\ entry \in [Actor -> Dial \cup {None}] /\ held \in [Actor -> Dial \cup {None}]
  /\ sent \in [Caller -> 0..2] /\ first \in [Caller -> Dial \cup {None}]
  /\ inflight \subseteq Caller
  /\ entered \subseteq Caller /\ late \in BOOLEAN
  /\ calls \in Nat /\ reloads \in Nat

\* Two dials of one configuration are never under way at once, whichever calls and reloads
\* meet, and whoever waits for a dial waits for one that somebody is making: a dial in flight
\* keeps its place in the cache (ConnectToServer, InvalidateCache).
SingleDial ==
  /\ \A d, e \in Dial :
       dial[d] = "dialing" /\ dial[e] = "dialing" /\ configOf[d] = configOf[e] => d = e
  /\ \A a \in Actor :
       pc[a] = "join" /\ dial[entry[a]] = "dialing" =>
         \E b \in Actor : pc[b] = "dial" /\ entry[b] = entry[a]

\* A retry never goes to the connection that has just failed, although the cache may still hold
\* it, another call may be dialling, and a reload may put its configuration back: what Reconnect
\* joins or opens is another dial (MCPTool.Call, InvalidateCache, ConnectToServer).
RetryElsewhere == \A a \in Caller : sent[a] = 2 => held[a] # first[a]

\* A closed registry holds no connection, however late a dial ends (adoptConnection, Reconnect).
NothingAfterClose == closed => connection = None

\* A live server that nobody will close any more: not in the registry, not about to be adopted,
\* closed by no one.
Orphaned(d) ==
  /\ Live(d) /\ d # connection /\ d \notin closing
  /\ \A a \in Actor : entry[a] # d
  /\ ~(pc[Reloader] \in {"uncache", "close"} /\ held[Reloader] = d)

\* A server is orphaned only by the adoption of another connection: evictions, reloads and Close
\* close what they take out of the registry.
LostOnlyByAdoption ==
  [][\A d \in Dial : ~Orphaned(d) /\ Orphaned(d)' => connection' \notin {connection, None}]_vars

\* A reload that drained closes the old server only under calls that entered after its look at
\* the counter, or after a timeout it reports (DrainServer, Reconcile's comment).
DrainedFirst ==
  pc[Reloader] = "close" /\ ~late =>
    \A a \in Caller : pc[a] = "await" /\ held[a] = held[Reloader] => a \in entered

\* What mcp_tool.go:162 and client.go:338 say: reconnects are single-flight protected and leave
\* no second process behind.
NoOrphan == \A d \in Dial : ~Orphaned(d)

\* What mcp_tool.go:162-163 says: the request is sent again when the server process died.
RetryAfterDeath == \A a \in Caller : sent[a] = 2 => server[first[a]] = "dead"

=============================================================================
