---------------------------- MODULE LspRegistry ----------------------------
(***************************************************************************)
(* The pool of language servers, pkg/lsp/registry.go: calls that ask for   *)
(* the server of a (spec, root) pair and start it when there is none, the  *)
(* goroutine that watches each server, reload's KillAndEvict, and          *)
(* Shutdown.  A server is one process, used once; client.go appears as     *)
(* what it does to the process.                                            *)
(*                                                                         *)
(* Which servers a file can find (Scan, Start) narrows only which calls    *)
(* are made; any of Wanted is.                                             *)
(*                                                                         *)
(* Every section under r.mu is one action.  close(sess.done) is no such    *)
(* section: it frees the waiting calls while the session is still in the   *)
(* map.                                                                    *)
(*                                                                         *)
(* The process and the client's word on it are two things.  teardown       *)
(* closes c.dead, which is what the registry looks at, when cmd.Wait       *)
(* returns, and also when the reader meets the end of stdout or a short    *)
(* body, with the process still there: nobody kills it then.               *)
(***************************************************************************)
EXTENDS Naturals, Sequences, FiniteSets, Functions

CONSTANTS
  Caller,        \* goroutines that call ForFile, ForSpec and their variants
  Server,        \* names of the configured servers
  Root,          \* project roots
  DefaultRoot,   \* r.rootDir
  Wanted,        \* the (spec, root) pairs that calls ask for
  Client,        \* server processes, numbered in the order they are started
  MaxRestarts,   \* maxRestarts
  MaxExtraRoots, \* maxExtraRoots
  MaxCalls,      \* bound: calls of clientFor
  None

Key == Server \X Root

ASSUME NameAssumption == None \notin Caller \cup Client \cup Key
ASSUME WantedAssumption == Wanted \subseteq Key
ASSUME ClientAssumption == Client \subseteq Nat
ASSUME BoundAssumption == MaxRestarts \in Nat /\ MaxExtraRoots \in Nat /\ MaxCalls \in Nat
ASSUME RootAssumption == DefaultRoot \in Root

VARIABLES
  live,       \* r.live, None where a key is missing
  restarts,   \* r.restarts
  sessions,   \* r.sessions: the call that spawns for a key
  extraRoots, \* r.extraRoots
  closed,     \* r.closed, and r.done
  process,    \* each client's process
  dead,       \* the clients whose c.dead is closed
  keyOf,      \* the key a client was started for
  watcher,    \* clientFor's goroutine for each client
  pc,         \* where each call is
  want,       \* the key it asks for
  gate,       \* the call whose session it waits for, None when that is over
  hand,       \* the client it has started and not yet installed
  victims,    \* the clients it must kill
  evicted,    \* clients KillAndEvict has taken out and not yet killed
  closing,    \* clients that Shutdown has taken out and not yet shut down
  calls       \* calls made

pool == <<live, restarts, sessions, extraRoots, closed>>
procs == <<process, dead, keyOf>>
caller == <<pc, want, gate, hand, victims>>
vars == <<pool, procs, watcher, caller, evicted, closing, calls>>

Roots == {DefaultRoot} \cup Range(extraRoots)
RootOf(k) == k[2]

\* live[k] exists and its Dead channel is open.
Alive(c) == c # None /\ c \notin dead

Spawning == {"budget", "start", "init", "abandon", "install", "failed"}

Init ==
  /\ live = [k \in Key |-> None]
  /\ restarts = [k \in Key |-> 0]
  /\ sessions = [k \in Key |-> None]
  /\ extraRoots = <<>> /\ closed = FALSE
  /\ process = [c \in Client |-> "none"] /\ dead = {}
  /\ keyOf = [c \in Client |-> None]
  /\ watcher = [c \in Client |-> "none"]
  /\ pc = [a \in Caller |-> "idle"]
  /\ want = [a \in Caller |-> None]
  /\ gate = [a \in Caller |-> None]
  /\ hand = [a \in Caller |-> None]
  /\ victims = [a \in Caller |-> {}]
  /\ evicted = {} /\ closing = {} /\ calls = 0

-----------------------------------------------------------------------------
(* clientFor *)

Return(a) ==
  /\ pc' = [pc EXCEPT ![a] = "idle"]
  /\ want' = [want EXCEPT ![a] = None]
  /\ gate' = [gate EXCEPT ![a] = None]

\* A call that finds a live client on the fast path returns it and changes nothing.
Call(a) ==
  /\ pc[a] = "idle" /\ calls < MaxCalls
  /\ \E k \in Wanted :
       /\ ~Alive(live[k])
       /\ want' = [want EXCEPT ![a] = k]
  /\ pc' = [pc EXCEPT ![a] = "lock"]
  /\ calls' = calls + 1
  /\ UNCHANGED <<pool, procs, watcher, gate, hand, victims, evicted, closing>>

\* The loop's locked half, where the call turns back: the registry is closed, or
\* another call has installed the client meanwhile.
TurnBack(a) ==
  /\ pc[a] = "lock"
  /\ closed \/ Alive(live[want[a]])
  /\ Return(a)
  /\ UNCHANGED <<pool, procs, watcher, hand, victims, evicted, closing, calls>>

\* Another call spawns: wait for sess.done, which may be closed already.
JoinSession(a) ==
  LET owner == sessions[want[a]]
  IN /\ pc[a] = "lock" /\ ~closed /\ ~Alive(live[want[a]])
     /\ owner # None
     /\ gate' = [gate EXCEPT ![a] = IF pc[owner] \in {"install", "failed"} THEN None ELSE owner]
     /\ pc' = [pc EXCEPT ![a] = "wait"]
     /\ UNCHANGED <<pool, procs, watcher, want, hand, victims, evicted, closing, calls>>

\* Mutant: a call that finds no live client spawns whether or not another does.
OpenSessionAnyway(a) ==
  /\ pc[a] = "lock" /\ ~closed /\ ~Alive(live[want[a]])
  /\ sessions' = [sessions EXCEPT ![want[a]] = a]
  /\ pc' = [pc EXCEPT ![a] = "budget"]
  /\ UNCHANGED <<live, restarts, extraRoots, closed, procs, watcher, want, gate,
                 hand, victims, evicted, closing, calls>>

\* This call spawns.
OpenSession(a) ==
  /\ pc[a] = "lock" /\ ~closed /\ ~Alive(live[want[a]])
  /\ sessions[want[a]] = None
  /\ sessions' = [sessions EXCEPT ![want[a]] = a]
  /\ pc' = [pc EXCEPT ![a] = "budget"]
  /\ UNCHANGED <<live, restarts, extraRoots, closed, procs, watcher, want, gate,
                 hand, victims, evicted, closing, calls>>

\* sess.done is closed: look again.  Or the caller's context ends.
Wake(a) ==
  /\ pc[a] = "wait" /\ gate[a] = None
  /\ pc' = [pc EXCEPT ![a] = "lock"]
  /\ UNCHANGED <<pool, procs, watcher, want, gate, hand, victims, evicted, closing, calls>>

GiveUp(a) ==
  /\ pc[a] = "wait"
  /\ Return(a)
  /\ UNCHANGED <<pool, procs, watcher, hand, victims, evicted, closing, calls>>

\* close(sess.done): whoever waits for a's session may go on.
OpenGate(a) == gate' = [b \in Caller |-> IF gate[b] = a THEN None ELSE gate[b]]

-----------------------------------------------------------------------------
(* spawnWithBudget and spawnClient, outside the lock *)

\* Mutant: one restart too many.
WithinLargerBudget(a) ==
  /\ pc[a] = "budget" /\ restarts[want[a]] <= MaxRestarts + 1
  /\ pc' = [pc EXCEPT ![a] = "start"]
  /\ UNCHANGED <<pool, procs, watcher, want, gate, hand, victims, evicted, closing, calls>>

WithinBudget(a) ==
  /\ pc[a] = "budget" /\ restarts[want[a]] <= MaxRestarts
  /\ pc' = [pc EXCEPT ![a] = "start"]
  /\ UNCHANGED <<pool, procs, watcher, want, gate, hand, victims, evicted, closing, calls>>

OverBudget(a) ==
  /\ pc[a] = "budget" /\ restarts[want[a]] > MaxRestarts
  /\ pc' = [pc EXCEPT ![a] = "failed"] /\ OpenGate(a)
  /\ UNCHANGED <<pool, procs, watcher, want, hand, victims, evicted, closing, calls>>

StartClient(a) ==
  /\ pc[a] = "start"
  /\ \E c \in Client :
       /\ \A d \in Client : d < c <=> process[d] # "none"
       /\ process' = [process EXCEPT ![c] = "running"]
       /\ keyOf' = [keyOf EXCEPT ![c] = want[a]]
       /\ hand' = [hand EXCEPT ![a] = c]
  /\ pc' = [pc EXCEPT ![a] = "init"]
  /\ UNCHANGED <<pool, dead, watcher, want, gate, victims, evicted, closing, calls>>

\* Mutant: this error path does not close sess.done.
StartFailsSilently(a) ==
  /\ pc[a] = "start"
  /\ pc' = [pc EXCEPT ![a] = "failed"]
  /\ UNCHANGED <<pool, procs, watcher, want, gate, hand, victims, evicted, closing, calls>>

\* No binary, a cancelled context, or cmd.Start fails.
StartFails(a) ==
  /\ pc[a] = "start"
  /\ pc' = [pc EXCEPT ![a] = "failed"] /\ OpenGate(a)
  /\ UNCHANGED <<pool, procs, watcher, want, hand, victims, evicted, closing, calls>>

\* The handshake succeeds; the process may have died since.
Initialized(a) ==
  /\ pc[a] = "init"
  /\ pc' = [pc EXCEPT ![a] = "install"] /\ OpenGate(a)
  /\ UNCHANGED <<pool, procs, watcher, want, hand, victims, evicted, closing, calls>>

\* Process.Kill.
Slain(c) == [process EXCEPT ![c] = IF @ = "running" THEN "gone" ELSE @]

\* Client.Shutdown asks the server to exit and kills it, unless c.dead is closed before it
\* comes to that: then it returns and the process is as it was.
ShutDown(c) == IF c \in dead THEN process ELSE Slain(c)

\* It fails or the ten seconds are over: c.Shutdown.
InitializeFails(a) ==
  /\ pc[a] = "init"
  /\ process' = ShutDown(hand[a])
  /\ pc' = [pc EXCEPT ![a] = "abandon"]
  /\ UNCHANGED <<pool, dead, keyOf, watcher, want, gate, hand, victims, evicted, closing, calls>>

\* c.Shutdown waits for c.dead without a deadline.
Abandoned(a) ==
  /\ pc[a] = "abandon" /\ hand[a] \in dead
  /\ pc' = [pc EXCEPT ![a] = "failed"] /\ OpenGate(a)
  /\ hand' = [hand EXCEPT ![a] = None]
  /\ UNCHANGED <<pool, procs, watcher, want, victims, evicted, closing, calls>>

-----------------------------------------------------------------------------
(* The second locked section of clientFor *)

SpawnFailed(a) ==
  /\ pc[a] = "failed"
  /\ sessions' = [sessions EXCEPT ![want[a]] = None]
  /\ Return(a)
  /\ UNCHANGED <<live, restarts, extraRoots, closed, procs, watcher, hand,
                 victims, evicted, closing, calls>>

RegisterRoot(root) ==
  IF root = DefaultRoot \/ root \in Range(extraRoots) THEN extraRoots ELSE Append(extraRoots, root)

\* Mutant: the root is dropped from the list one earlier than its clients.
EvictedKeysLate(added, roots) ==
  IF added = roots \/ Len(added) <= MaxExtraRoots + 1 THEN {}
  ELSE {k \in Key : RootOf(k) = added[1]}

\* The keys of the oldest extra root, when a new root has made the pool too large.
EvictedKeys(added, roots) ==
  IF added = roots \/ Len(added) <= MaxExtraRoots THEN {}
  ELSE {k \in Key : RootOf(k) = added[1]}

\* Mutant: the evicted clients are dropped and not killed.
InstallAndForget(a) ==
  LET k == want[a]
      added == RegisterRoot(RootOf(k))
      out == EvictedKeys(added, extraRoots)
      installed == [live EXCEPT ![k] = hand[a]]
  IN /\ pc[a] = "install"
     /\ sessions' = [sessions EXCEPT ![k] = None]
     /\ extraRoots' = IF added # extraRoots /\ Len(added) > MaxExtraRoots THEN Tail(added) ELSE added
     /\ live' = [j \in Key |-> IF j \in out THEN None ELSE installed[j]]
     /\ restarts' = [j \in Key |-> IF j \in out /\ installed[j] # None THEN 0 ELSE restarts[j]]
     /\ pc' = [pc EXCEPT ![a] = "kill"]
     /\ UNCHANGED <<closed, procs, watcher, want, gate, hand, victims, evicted, closing, calls>>

Install(a) ==
  LET k == want[a]
      added == RegisterRoot(RootOf(k))
      out == EvictedKeys(added, extraRoots)
      installed == [live EXCEPT ![k] = hand[a]]
  IN /\ pc[a] = "install"
     /\ sessions' = [sessions EXCEPT ![k] = None]
     /\ extraRoots' = IF added # extraRoots /\ Len(added) > MaxExtraRoots THEN Tail(added) ELSE added
     /\ live' = [j \in Key |-> IF j \in out THEN None ELSE installed[j]]
     /\ restarts' = [j \in Key |-> IF j \in out /\ installed[j] # None THEN 0 ELSE restarts[j]]
     /\ victims' = [victims EXCEPT ![a] = {installed[j] : j \in out} \ {None}]
     /\ pc' = [pc EXCEPT ![a] = "kill"]
     /\ UNCHANGED <<closed, procs, watcher, want, gate, hand, evicted, closing, calls>>

KillVictim(a) ==
  /\ pc[a] = "kill"
  /\ \E c \in victims[a] :
       /\ process' = Slain(c)
       /\ victims' = [victims EXCEPT ![a] = @ \ {c}]
  /\ UNCHANGED <<pool, dead, keyOf, watcher, pc, want, gate, hand, evicted, closing, calls>>

\* The watcher starts and the call returns its client.
Watch(a) ==
  /\ pc[a] = "kill" /\ victims[a] = {}
  /\ watcher' = [watcher EXCEPT ![hand[a]] = "watch"]
  /\ hand' = [hand EXCEPT ![a] = None]
  /\ Return(a)
  /\ UNCHANGED <<pool, procs, victims, evicted, closing, calls>>

-----------------------------------------------------------------------------
(* The watcher, and what else happens to a client *)

WatcherSeesDeath(c) ==
  LET k == keyOf[c]
  IN /\ watcher[c] = "watch" /\ c \in dead
     /\ watcher' = [watcher EXCEPT ![c] = "gone"]
     /\ \/ /\ live[k] = c
           /\ live' = [live EXCEPT ![k] = None]
           /\ restarts' = [restarts EXCEPT ![k] = @ + 1]
        \/ live[k] # c /\ UNCHANGED <<live, restarts>>
     /\ UNCHANGED <<sessions, extraRoots, closed, procs, caller, evicted, closing, calls>>

WatcherLeaves(c) ==
  /\ watcher[c] = "watch" /\ closed
  /\ watcher' = [watcher EXCEPT ![c] = "gone"]
  /\ UNCHANGED <<pool, procs, caller, evicted, closing, calls>>

Crash(c) ==
  /\ process[c] = "running"
  /\ process' = [process EXCEPT ![c] = "gone"]
  /\ UNCHANGED <<pool, dead, keyOf, watcher, caller, evicted, closing, calls>>

\* teardown: cmd.Wait has reaped the process, or the reader has come to the end of what it
\* can read, whether the process is gone or not.
TearDown(c) ==
  /\ process[c] # "none" /\ c \notin dead
  /\ dead' = dead \cup {c}
  /\ UNCHANGED <<pool, process, keyOf, watcher, caller, evicted, closing, calls>>

KillAndEvict(k) ==
  /\ live[k] # None
  /\ evicted' = evicted \cup {live[k]}
  /\ live' = [live EXCEPT ![k] = None]
  /\ UNCHANGED <<restarts, sessions, extraRoots, closed, procs, watcher, caller,
                 closing, calls>>

KillEvicted(c) ==
  /\ c \in evicted
  /\ process' = Slain(c)
  /\ evicted' = evicted \ {c}
  /\ UNCHANGED <<pool, dead, keyOf, watcher, caller, closing, calls>>

Shutdown ==
  /\ ~closed
  /\ closed' = TRUE
  /\ closing' = Range(live) \ {None}
  /\ live' = [k \in Key |-> None]
  /\ UNCHANGED <<restarts, sessions, extraRoots, procs, watcher, caller, evicted, calls>>

ShutdownClient(c) ==
  /\ c \in closing
  /\ process' = ShutDown(c)
  /\ closing' = closing \ {c}
  /\ UNCHANGED <<pool, dead, keyOf, watcher, caller, evicted, calls>>

-----------------------------------------------------------------------------
Step(a) ==
  \/ TurnBack(a) \/ JoinSession(a) \/ OpenSession(a) \/ Wake(a)
  \/ WithinBudget(a) \/ OverBudget(a) \/ StartClient(a) \/ StartFails(a)
  \/ Initialized(a) \/ InitializeFails(a) \/ Abandoned(a)
  \/ SpawnFailed(a) \/ Install(a) \/ KillVictim(a) \/ Watch(a)

ClientStep(c) ==
  WatcherSeesDeath(c) \/ WatcherLeaves(c) \/ TearDown(c) \/ KillEvicted(c) \/ ShutdownClient(c)

Next ==
  \/ Shutdown
  \/ \E a \in Caller : Call(a) \/ GiveUp(a) \/ Step(a)
  \/ \E c \in Client : Crash(c) \/ ClientStep(c)
  \/ \E k \in Key : KillAndEvict(k)

Spec == Init /\ [][Next]_vars

-----------------------------------------------------------------------------
TypeOK ==
  /\ live \in [Key -> Client \cup {None}]
  /\ restarts \in [Key -> Nat]
  /\ sessions \in [Key -> Caller \cup {None}]
  /\ extraRoots \in Seq(Root) /\ closed \in BOOLEAN
  /\ process \in [Client -> {"none", "running", "gone"}] /\ dead \subseteq Client
  /\ keyOf \in [Client -> Key \cup {None}]
  /\ watcher \in [Client -> {"none", "watch", "gone"}]
  /\ pc \in [Caller -> Spawning \cup {"idle", "lock", "wait", "kill"}]
  /\ want \in [Caller -> Key \cup {None}]
  /\ gate \in [Caller -> Caller \cup {None}]
  /\ hand \in [Caller -> Client \cup {None}]
  /\ victims \in [Caller -> SUBSET Client]
  /\ evicted \subseteq Client /\ closing \subseteq Client /\ calls \in Nat

Doomed == (UNION {victims[a] : a \in Caller}) \cup evicted \cup closing

\* A server that runs and whose client has not been torn down.
Up(c) == process[c] = "running" /\ c \notin dead

\* Two servers of one (spec, root) are never up side by side, unless one of them is already on
\* somebody's list to be killed: single flight, over crashes, torn down clients, evictions of
\* the root in the middle of a spawn, reloads, and Shutdown (clientFor).  A process that
\* outlives its client may run beside the next server.
OneUpPerKey ==
  \A c, d \in Client :
    /\ Up(c) /\ Up(d) /\ keyOf[c] = keyOf[d]
    /\ {c, d} \cap Doomed = {}
    => c = d

\* A server that is up is never lost: it is in the pool, or in the hands of the call that
\* started it, or on a list of clients to kill, so whoever is not is one whose own client has
\* declared it dead (clientFor, evictOldestRootLocked, Shutdown).
NoneLost ==
  \A c \in Client : Up(c) => c \in Range(live) \cup Range(hand) \cup Doomed

\* What LiveServers reports: the live clients of the default root and of the extra roots.
LiveServers == {k \in Key : Alive(live[k]) /\ RootOf(k) \in Roots}

\* The pool never keeps more extra roots than it may, and LiveServers leaves no live server out:
\* a spawn that ends after its root has been evicted brings the root back (registerRootLocked).
PoolReported ==
  /\ Len(extraRoots) <= MaxExtraRoots
  /\ \A k \in Key : Alive(live[k]) => k \in LiveServers

\* The budget of restarts is read apart from the count, so it can be overdrawn: by one crash that
\* is counted between the reading and the spawn, and never by more (spawnWithBudget).
BudgetHolds == \A k \in Key : restarts[k] <= MaxRestarts + 2

\* Whoever waits, waits for a call that is spawning and whose session can still be closed; and a
\* session belongs to a call that spawns for its key (close(sess.done) before the lock).
WaitersHaveSpawner ==
  /\ \A a \in Caller : gate[a] # None => pc[gate[a]] \in Spawning \ {"install", "failed"}
  /\ \A k \in Key : sessions[k] # None => pc[sessions[k]] \in Spawning /\ want[sessions[k]] = k

\* What registry.go:23 and client.go:109-110 say: a key identifies one language-server process,
\* and the client owns its process.
OneProcessPerKey ==
  \A c, d \in Client :
    /\ process[c] = "running" /\ process[d] = "running" /\ keyOf[c] = keyOf[d]
    /\ {c, d} \cap Doomed = {}
    => c = d
NoStray ==
  \A c \in Client :
    process[c] = "running" => c \in Range(live) \cup Range(hand) \cup Doomed

=============================================================================
