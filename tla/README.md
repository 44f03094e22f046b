# gbot: verification project

TLA+ modules of the parts of gbot whose correctness depends on the order in which several
goroutines, users, requests and crashes meet; TLC configurations that check them on small
instances; and TLAPS proofs of their main properties for every value of the constants.
Paths like `engine/engine.go:921` are below `src/pkg/`.

gbot is a coding agent: an **engine** holds one conversation with an LLM, runs the tools the
LLM asks for, and serves several clients (terminal, browser, WeChat, a phone) at once.  Its
hard part is concurrency without a single owner: messages, notices of background work,
aborts, rewinds, compactions and shutdown come from different goroutines and are reconciled
with a few flags under small locks.

Contents: 1 Inventory, 2 Plan, 3 Modules, 4 Runs, 5 Proofs, 6 Disagreements,
7 What is not modelled.

## 1. Inventory

### 1.1 Engine: ownership, attachment queue, turn loop (`engine/engine.go`, `engine/attachment/queue.go`, gate in `wui/server.go`)

*State.* Under `activeCancelMu`: `activeGen` (ownership token), `activeCancel`,
`queryActive`, `compacting`, `closing`.  The attachment queue (its own mutex), `messages`,
`turnCount`, `queuedMsgSeq`/`queuedMsgSeen`.

*Operations.* `Query` (beginLocked, goRun, runTurns, endQuery), `EnqueueAttachment` and
`startProcessAttachmentsIfIdle` (the "kick"), `ProcessAttachments`, `Abort`, `Close`,
`ManualCompact` (beginCompact, endCompact), `RemoveQueuedMessage`, `IsBusy`.

*Interactions.* Clients call Query or EnqueueAttachment, the latter after reading IsBusy;
jobs, sub-agents and peers call EnqueueAttachment; runTurns calls the LLM, the tool executor,
the hooks, the compaction, and persistence.

*Hard.* A newer query takes the engine over while the older one still runs; the end of a run
races the arrival of an item; the length of the queue and the lock are read apart; Close
races a spawn; a compaction works on a copy of the history.

*Correct when* the busy flag and the cancel handle belong to the newest run; one turn loop
runs at a time as far as the clients keep to the queue; no item is stranded in the queue or
handled twice; no message is lost in a compaction; nothing runs after Close has joined.

### 1.2 Engine: history and persistence; the transcript store (`engine/persistence.go`, `engine/autocompact.go`, `engine/compact_grouping.go`, `utils/rewind.go`, `memory/short/{message,chain,compact,fork}.go`)

*State.* `e.messages`, `lastPersistedIdx`, `forkParentUUID`; the table `messages` with
`seq`, `uuid`, `parent_uuid`, `created_at` and a boundary's `preservedSegment`.

*Operations.* PersistNewMessages at three points of a run, the compactions with
RecordCompact, RewindToScoped, ForkSession, LoadChainMessages at SwitchSession or start.

*Hard.* The table is never cut: rewinds and compactions leave dead branches in it, and the
reader has to find the living chain from parents, seconds and positions.  Memory and table
are brought together at persist points only, each of which may fail, and the process may
die anywhere.

*Correct when* the swept part of `messages` is the chain a reload finds; a restart shows the
conversation as it was at some persist point and never a mixture; rewound messages stay away.

### 1.3 Streaming tool executor (`engine/runTools.go`, `engine/messages.go`, callLLM and runTurns)

*State.* Per response: the list of tracked tools with status, result and `done`; sibling and
root contexts; `hasErrored`, `discarded`; `askMu` and `sessionAllowed`.

*Operations.* AddTool while the response streams, processQueue, executeTool (abort check,
permission, dialog, PreToolUse, t.Call, abort check, result), Discard, ExecuteAll.

*Hard.* Safe calls run together and unsafe ones alone, in the order asked for, although
any call may end first; a failed Bash, a broken stream and the user each call others off at
any place; a dialog and a call may never return.

*Correct when* conflicting calls keep their order, every call of a complete response is
answered, no queued call is forgotten, one dialog is open at a time, and an abort gets through.

### 1.4 Background jobs (`tool/bash/background.go`, `stall.go`, `bash.go`)

*State.* Registry map; per job `mu`, Status, PID, Notified, cancelStall, done; the stall
watchdog's goroutine.

*Operations.* Spawn, startStallWatchdog, Complete, Kill, Wait, CleanupCompleted, and the
notifications to the engine and the panels.

*Hard.* Kill, a second Kill, Complete and the watchdog meet on one job; `mu` is kept while
the watchdog is waited for; the job is visible before it has a process.

*Correct when* a job ends once, is reported once, in the right order, and can be waited for.

### 1.5 LSP registry (`lsp/registry.go`, with what `lsp/client.go` does to the process)

*State.* Under `r.mu`: `live`, `restarts`, `sessions` (the call that spawns for a key),
`extraRoots`, `closed`; per client its process, `dead`, which its two goroutines close
(waitLoop, readLoop), and the goroutine of the registry that watches it.

*Operations.* clientFor with its single flight (spawnWithBudget, spawnClient,
registerRootLocked, evictOldestRootLocked), the watcher, KillAndEvict, LiveServers, Shutdown.

*Hard.* A spawn runs outside the lock for up to ten seconds; meanwhile the same key is asked
for again, its root is evicted, the new server crashes, a reload evicts, Shutdown comes.  A
client may be torn down while its process runs on, because the reader has met the end of what
it can read.

*Correct when* one server runs per (spec, root) pair, every server started is in the pool or
will be killed (both hold only of servers that are still read, section 6), the budget of
restarts means something, and no caller waits for nothing.

### 1.6 MCP client and registry (`mcp/registry.go`, `client.go`, `death_recovery.go`, `engine/mcp_tool.go`)

*State.* Under `r.mu`: `configs`, `connections`, `closed`; under `cm.mu` the client manager's
cache of dials; the in-flight counter of a server; per call its attempt.

*Operations.* MCPTool.Call (lookup, request, eviction of a dead connection, one retry),
Reconnect, ConnectToServer, InvalidateCache, adoptConnection, DrainServer, Disconnect,
Reconcile and handleConfigReload, Close.

*Hard.* A dial takes seconds and ends into a registry that may have been reloaded or closed;
several calls meet the same dead connection; a drain looks at a counter and acts later.

*Correct when* one dial is made at a time, a retry goes to another connection than the one
that failed, a reload that drained does not cut calls off, and no server process is left behind.

### 1.7 WeChat connector (`connector/wechat/`: `poll.go`, `queue.go`, `connector.go`, `dedup.go`, `state.go`)

*State.* The cursor `SyncBuf` in memory and in the state file, the duplicate filter, the
merged attachments, `inboundCh`, the turn (`queryDone`, `activeUserID`), the text buffer.

*Operations.* pollLoop and processBatch, enqueue, processLoop and handleInbound, Handle and
flushBuffer, restart from the state file.

*Hard.* Three goroutines; the connector hears the events of every turn of a shared engine;
a message is covered by a cursor before it has been handed on; the process may stop anywhere.

*Correct when* no message is lost but on purpose or to a crash, none is answered twice,
answers stay in order, text survives a failed send, and processLoop never waits for an end
that is past.

### 1.8 Event hub and clients' streams (`wui/connector.go`, `wui/server.go`, `web/ui/src/chat.ts`)

*State.* The slot: `active`, `activeWS`, the outbound queue, `ssMu`, the counter
`wuiMonotonic`, the accumulated effects; per browser the nonce it waits for, the page it
shows with its number, the events applied to it and those it buffers.

*Operations.* onEngineEvent, serveChatWS (dial, takeover, leave), switchEngine, sendMetadata,
serveHistoryPage, wsWriter; the browser's reset, live event and applyPage0.

*Hard.* The page and the events are two streams of one state, merged in the browser by
numbers; a new client takes over from the old one while frames are queued, taken and written.

*Correct when* a client shows every effect once, whichever stream brought it; no frame of an
earlier client reaches it; and a client that waits for its page gets it.

### 1.9 File history (`filehistory/tracker.go`, `cleanup.go`, with RewindToScoped and the rewind dialog)

*State.* The list of snapshots (message id, one entry per file), the tracked files, the backup
directory, the copy of list and files in the database, `currentTurnMsgID`.

*Operations.* TrackEdit before an Edit or a Write, MakeSnapshot when a query's turns start,
Rewind, RewindFilesOnly, TruncateSnapshotsFrom, LoadState, CleanupOldBackups.

*Hard.* A backup is named by file and version and shared by snapshots; snapshots are evicted,
truncated and reloaded while versions are counted from the latest one only; a file known only
later is restored through the first version found.

*Correct when* an entry's backup is what the file was, and a rewind that reports no error has
undone what the agent did.

### 1.10 The other components

| component | state and operations | what is hard | correct when |
|---|---|---|---|
| LLM call, retry, coalescing (`engine/engine.go` callLLM..., `budget.go`, `microcompact.go`) | request, back-off, coalescing buffers of text events | buffered text against other events; handlers run with `coalesceMu` held (`engine.go:1741`) | a client sees a response's events in order and no lock is held across a handler that needs it |
| engine manager, bootstrap (`engine/manager.go`, `app/`) | map of engines by session | create, switch and destroy against clients in use | one engine per session, destroyed after its last use |
| web UI server (`wui/`) | subscriptions, uploads, panels, settings | job panel rows from racing events | panels agree with the engine |
| terminal UI (`tui/`) | one event loop | little: sequential | its rewind agrees with the engine's |
| sub-agents, messages (`tool/agent/`, `tool/job/`, `tool/message/`) | registry of agents, mailboxes | completion against kill and messages | an agent's end is told once |
| dream (`memory/dream/`) | idle timer, watermark | IsBusy read long before Query (`timer.go:69`); watermark of the end, not the beginning (`timer.go:134`) | each message is dreamed of once |
| task list (`tool/task/`) | a file per task, high-water mark | two lists in one directory; ids after deletion | ids never reused, dependencies acyclic |
| reload (`reload/`) | diff of configuration | swapping tools and servers under running calls | running calls keep what they started with |
| permission rules (`permission/`) | pure decision | precedence of deny, ask and allow | deny wins |
| hooks, plugins (`hooks/`, `plugins/`) | external programs | time-outs | a failed hook does not block |
| short-term memory: sessions, search, records | SQL | one writer | queries match rows |
| session and long-term memory, recall | Markdown files | text | - |
| LLM providers (`llm/`) | HTTP streams | broken streams | - |
| Bash in the foreground, PTY | processes | the operating system's | - |
| file, search, web, REPL, computer, skill tools | functions of files, network, a process | - | - |
| LSP client, MCP protocol details | JSON-RPC, OAuth, conversion | - | - |
| application lifecycle (`app/`) | pid file, supervision, upgrade | restart during an upgrade | one instance |
| conversion, media, configuration, quota, utilities | pure functions | - | - |
| Android app, browser UI beyond the stream | front ends of the same server | - | - |

`PROJECT.json` lists the same components with their state of modelling, and the hazards line
by line.

## 2. Plan

The order follows what the rest of the program relies on.

1. `EngineLoop` with the abstract `OwnerLock` and `Mailbox` (done, proved).
2. `Transcript`, `History` with the abstract `Journal` (done, proved).
3. `ToolExecutor` (done, proved).
4. `BackgroundJobs` (done, proved).
5. `LspRegistry` and `McpRegistry` (done, proved).
6. `WeChat` over the part of the engine it sees (done, proved).
7. `ClientStream`: the takeover of a client and the merge of page and events (done, proved);
   next, the coalescing buffers in front of it and the order of the locks `coalesceMu`, `ssMu`
   and the engine's.
8. `FileHistory` (done, proved).
9. Dream timer and watermark; task store; sub-agent registry; engine manager and reload;
   permission rules as pure operators against a reference definition.

Every invariant a passing run checks, and the safety part of each of the three refinements, is a
theorem too (section 5); what is left to prove is what a later component brings.

## 3. Modules

| module | models |
|---|---|
| `EngineLoop` | 1.1; refines `OwnerLock` and `Mailbox` |
| `OwnerLock` | abstract: a lock that can be taken over, whose present owner alone can be interrupted |
| `Mailbox` | abstract: each message is put in once and then attached or taken back, once |
| `Transcript` | the message table: operators for each write and read |
| `History` | 1.2; extends `Transcript`, refines `Journal` |
| `Journal` | abstract: a live and a durable conversation that part only by speaking and rewinding |
| `ToolExecutor` | 1.3 |
| `BackgroundJobs` | 1.4 |
| `LspRegistry` | 1.5 |
| `McpRegistry` | 1.6, one server |
| `WeChat` | 1.7, with what it sees of the engine |
| `ClientStream` | 1.8, server and browser |
| `FileHistory` | 1.9, with the engine's turns and rewinds as it sees them |
| `...Proofs` | the theorems about the module of that name; `ToolProofs` those about `ToolExecutor` and `BackgroundJobs` |
| `MC...` | values of the constants for TLC |

The components meet in these places.  A job's notification and a sub-agent's message are
`Notice` items of `EngineLoop`.  One step of `EngineLoop` from a response to the end of its
tools is the whole of `ToolExecutor`; a call of an MCP tool is one `t.Call` there, and
`McpRegistry` what happens inside.  The persist points, compactions and rewinds of `History`
happen at the places of the same loop, of which `History` keeps a `phase`.  `WeChat` composes
the connector with a small engine (busy flag, queue, kicks, takeover, query_end, closing)
whose steps are those of `EngineLoop`.  The events whose frames `ClientStream` follows are
those that loop emits.
Definitions that begin with a comment "Mutant" are variants of the definition behind them
with a plausible mistake; each property is shown to fail with one of them (`PROJECT.json`,
"mutants").

### EngineLoop

A run is its ownership token; `pc[g]` is the place of run g in goRun, runTurns and the
deferred endQuery.  Everything under `activeCancelMu` is one action, as is a drain under the
queue's lock; reads outside a lock are apart from what they lead to: `KickLen`/`KickTry`
(length, then beginQueryIfIdle), `readIdle`/`readBusy` of a client (IsBusy, then Query or
EnqueueAttachment), `ReadHistory`/`FinishSummary` of a compaction.  `history` is the set of
items attached to `e.messages`, `sent` those some request has carried, `unaddressed` the
comparison of queuedMsgSeq and queuedMsgSeen.  Order inside the queue is abstracted.  The
terminal path drains user prompts only, other drains everything that is due (`Later` items
wait for an idle engine).  `Close` is idempotent and modelled once; the public
ProcessAttachments with token 0 has no caller; a panic leaves by the exit path; QuerySync,
RunSkill and RunForkedQuery follow Query's pattern.

### Transcript and History

The table is a sequence of rows in `seq` order, a row is id, parent, kind and segment.  Ids
are handed out in creation order, and `created_at`, compared by findLeafMessage in whole
seconds, is `id \div PerSecond`.  Writes and reads are operators that follow the code:
AppendMessages (a known uuid is skipped but becomes the next parent), RecordCompact (INSERT
OR REPLACE moves kept rows to the end), CopyToFork, LoadMessages (relinks of the newest
boundary), LeafIndex, PathTo.  Of a fork's renaming only what it breaks is kept: the segment
of the copied boundary names rows of the parent session (`Stale`).

`History` runs them from the loop's phases: entry, head, llm, recover, boundary, exit.  An
assistant message and its tool results are one unit, because the results join before the next
persist point.  `injected` is a user row that was not typed as a prompt.  A boundary has no
uuid in memory.  `Restart` is a kill at any point followed by SwitchSession.  Rewinds happen
when idle or inside query_end (`AutoRewind`), and reach the table with the next persist.
Sizes in tokens are abstracted: a compaction may happen wherever the code may call one, and
keep any group.  Five steps of the code make memory and table part, and the first of them to
happen sets the history variable `strayed`: a rewind to the first stored message and a compaction
with nothing to compact (section 6), a RecordCompact that fails and is logged
(`engine.go:3658`), a compaction between a rewind and the next persist that does not keep the
message the fork point names (`ForkPointKept`), and a fork that copies dead branches
(`fork.go:70`) or rows of a boundary that kept nothing (`fork.go:105`).  What the run says of
chain and journal it says up to that step; Acyclic is checked beyond it.

### ToolExecutor

Executors are numbered, one per response; a call remembers its own.  `pc` is a goroutine's
place in executeTool.  Discard's flag and cancel are one step, as are the end of PreToolUse
and the second look at `discarded`, and the result and the closing of `done`.  `Startable`
is what one run of processQueue starts, in closed form; `PassIsStartable` compares it, in
every reachable state, with the loop of the code written as a recursive function (`Pass`).
The kinds TLC uses are one per branch of the code: a Bash (unsafe, cancels siblings), an edit
(safe for others, conflicting on the same file, asked about), an Agent (safe, not interrupted),
and an unknown name.  Files are compared as the code compares them, by the given path.  Edit's
Execute never looks at its context, so an aborted call may have written (`wrote`).  The
dialogs about a tool and about its content are one dialog.  `Overlap` says whether a response may start while calls of an earlier one
still run: it always may in the code, and the run of three calls leaves it out because the
executors share nothing.

### BackgroundJobs

One job.  A step under `job.mu` is one action; Kill and Complete alone keep the lock across a
wait (place "stop", `holder`).  `Init` covers both ways to a job: spawned in the background
(no process yet) and moved there after a foreground timeout (live, PID known).  What is
dispatched is kept in order in `sent`; recipients are not told apart.  The functions without
a caller in production (Background, RegisterForeground, UnregisterForeground,
HasForegroundTasks, BackgroundAll, MarkNotified) are left out, as is the output.

### LspRegistry

A client has one server process and is used once; a key is a (spec, root) pair.  Every section under
`r.mu` is one action: the look at the top of clientFor's loop (TurnBack, JoinSession,
OpenSession), the budget (WithinBudget, OverBudget), the installation with the eviction of
the oldest extra root (Install), the failure (SpawnFailed).  `close(sess.done)` comes before
the second section, so a waiter may wake while the session is still in the map: `gate`
holds the session a call waits for and is opened by the steps that close the channel.  The
process is started and initialised outside the lock.  The process and `c.dead` are two
things: Crash ends the process; TearDown closes `c.dead`, some time after the process is gone
(waitLoop) or while it runs on (readLoop, at the end of stdout or a short body).  ShutDown is
c.Shutdown: it kills, but not a client that is torn down already; a client that failed to
initialise goes through it and waits for `c.dead`.  The clients that an eviction, KillAndEvict and Shutdown
take out are killed later, one by one (`victims`, `evicted`, `closing`).  Which files find which
server (Scan, Start) only narrows the keys that are asked for.

### McpRegistry

A dial is one attempt to connect, with its cache entry, its result and the server process of
the connection.  A tool call looks up, sends, awaits, evicts a connection whose error it takes
for death (ConnectionDead), and reconnects once; such an error may come while the server
lives, since IsConnectionDeadError knows only what the transport said.  Reconnect is the code's three sections: the configuration under
`r.mu`, the cache under `cm.mu`, and the dial, joined when there is one (JoinDial, OpenDial).
Adoption looks at `closed` under `r.mu`.  A reload is a change of the one server's
configuration: drained (Reconcile) or not (handleConfigReload), with Disconnect in three
steps: out of the registry, out of the cache, closed.  `entered` and `late` record what
happened since the drain's look at the counter.  A failed dial is a result and stays in the
cache, as in the code.

### WeChat

Messages are numbered in the server's order and a cursor is the number of the last message
it covers.  pollLoop saves the cursor before it looks at the first message, goes through the
response one message a step, and merges attachments of one user; enqueue reads the busy flag
in one step and attaches or sends in the next.  Handle's flush and the closing of `queryDone`
are one step with the event.  The engine has the steps of `EngineLoop` that a client can tell
apart: Begin (taking over), Drain, the two ways a run ends, EndQuery with its kick, Close.
`told` records which text went to whom; `routed`, `again`, `forgotten` and `uncovered` record
the history of a message that AtMostOnce and InOrder speak of.  A crash keeps the state file only.

### ClientStream

An effect is numbered when it enters the slot's state; a page carries how many effects it
was frozen with.  An outbound queue is known by the order of its creation, so that eras
compare as numbers.  onEngineEvent is Apply and Capture under `ssMu` and Push outside it;
a dial is six steps, a page three, all of the page under `ssMu`, which a parked push keeps.
wsWriter takes what the queue holds, then for each frame loads the connection, compares the era, and
writes.  A browser handles a frame when it is written to its connection; what it asks for
arrives later.  Only the events of one turn are followed: what a query_end moves from the
accumulated effects into the history is not.

### FileHistory

A text of a file is the number of the write that made it, so that texts differ when they may.
A backup is a pair of file and version, as its name is (`tracker.go:730`).  TrackEdit and the
write of the tool are two steps, MakeSnapshot with the save of its state is one.  Times and
permissions of files, by which checkOriginFileChanged saves itself a comparison, are not
modelled; nor is SnapshotSequence, which nothing reads.  A copy that fails leaves no backup, a
deletion at a rewind succeeds.  A sub-agent of an Agent call works within the turns and under
the parent's tracker (`engine.go:5353`), so its edits are edits like others; that of a forked
skill works before them (place "skill").  `adrift` records the files that the agent has
worked on, or that are tracked, without an entry in the latest snapshot: the places where the
code has lost a file, all listed in section 6.  `late` records the messages with a second
snapshot or one made late.  `was` is what a rewind is measured by.

## 4. Runs

CHECK_DEADLOCK is FALSE everywhere, because each system may really stop: an idle engine
nobody writes to, a call that never returns, a job whose end has been reported, an account
without messages, a browser without events.  What section 5 proves for all parameters is not
always repeated by a run.

| run | instance | shows |
|---|---|---|
| `takeover` | 1 message of a client that asks IsBusy first, 1 notice, turn limit 1, 1 response that goes round again, 1 manual compaction; Abort and Close at any time; about 147,000 states | no item is stranded (NoStranded), nothing runs after Close has joined (JoinedIsQuiet), the ownership state implements `OwnerLock`, and the engine keeps coming back to rest (ComesToRest) |
| `serial` | 1 prompt and 2 notices, one of low priority, all through EnqueueAttachment, 1 extra response, 1 compaction; about 207,000 states | with no takeover the engine is held by one run or one compaction (Exclusive), a compaction loses nothing (NothingLost), a run that ends by answering has answered all (EndsAnswered), and every item is delivered once (`Mailbox`, with its liveness) |
| `history` | 6 ids, 2 rewinds, 1 each of compaction, fork, crash and failed persist, 4 of these in any order, and up to 4 ids after straying; about 976,000 states | SweptIsChain, DeadBranchesSkipped and `Journal` until memory and table part, Acyclic also after that |
| `tools` | 3 calls of any kind in 1 response; about 395,000 states | ConflictsInOrder, PassIsStartable, AllAnswered, SiblingsCalledOff, AbortEndsWait |
| `responses` | 2 calls in 2 responses that may overlap, unknown names included; about 171,000 states | every call ends unless one does not return or its dialog is open (ComesToEnd) |
| `jobEnd` | 2 calls of Kill and the job's own goroutine; about 5,400 states | EndsOnce, NoStallAfterEnd, EndsUnlessStalling |
| `lsp` | 3 calls from 2 goroutines for 3 keys (1 server, 3 roots), 3 processes, 1 extra root allowed, no restart allowed; about 2.3 million states | one server that is up per key (OneUpPerKey), none of them left to itself (NoneLost), the pool and its report within the limits, the budget overdrawn by one crash at most, no waiter without a spawner |
| `mcp` | 2 calls, 1 reload between 2 configurations or to none, 3 dials, Close, deaths and errors taken for death at any time; about 3.7 million states | one dial at a time, nothing after Close, a drained server closed under late calls only, a server lost only by adoption |
| `wechat` | an attachment of one user and a text of another, `inboundCh` of 1, 2 runs of the engine, 1 item or event of another source, 2 faults (crash, failed save, failed send, expiry, Close) in any order; about 1.35 million states | Accounted, AtMostOnce, TurnHasEnd, InOrder |
| `wechatOverlap` | the same without faults | the disagreement of section 6 |
| `stream` | 2 connections, 1 emitter with 2 events, a queue of 1 frame, 1 upset (switch, leave or failed write); about 3.0 million states | ViewOnce, NothingMissed, NoOldEraFrame, PageComing |
| `files` | 2 files with copies that may fail, 3 messages, 2 writes, lists of at most 3 snapshots, and 2 of: failed copy, rewind in any scope, write by hand, skill, notice, restart, clean-up; about 1.76 million states | BackupsHold, RewindUndoes |

*Bounds.* `MaxExtra`, `MaxCompacts`, `MaxId`, `Budget`, `MaxTools`, `MaxExecutors`, `MaxCalls`,
`MaxReloads`, `Dial`, `Client`, `MaxRuns`, `MaxOthers`, `MaxFaults`, `MaxEvents`, `MaxMessage`,
`MaxWrites`, `MaxUpsets` and `StrayId` cap what is unbounded.
Takeover needs one owner and one successor, a message and a notice; a
third run repeats the second.  Two notices and a prompt are the least that tells apart the three
drains and their priorities.  In `history` every pair of rare events, and every four of them
within six messages, meets in both orders; a second rewind is there because the fork point
of the first may still be waiting; three messages fall into one second, so that the leaf
choice has ties and non-ties.  Three calls are the least in which a call may overtake a
blocked one; a longer queue adds pairs, and the theorems of section 5 cover every
length.  Jobs share nothing but the map, so one is enough, and a third call of Kill finds
what the second does.  In `lsp` two roots compete for the one extra place while the third
call may bring an evicted root back, and the default root never leaves; a second kind of server
would share nothing with the first but the roots, which it touches in the same ways; the
theorems cover every number of callers, servers and roots.  In `mcp` the third dial is the one that overwrites a live
connection; servers share nothing but the locks.  `wechat` has one message of each path, one
more than `inboundCh` holds; two faults are the least that AtMostOnce needs to be non-trivial
(a cursor not saved and an entry lost).  In `stream` a queue of one frame makes every push
wait behind another, a second connection is a takeover, and a third would take over from
the second as it does from the first.  In `files` the third message's snapshot is the one
that evicts the tracker's first, the list's bound (100 in the code) being 3; two files are one that
is tracked before the message rewound to and one after; two writes and two events are the least
that make a version come back (edit, truncate or restart, edit again).  BackupsHold and
RewindUndoes are proved for every bound, as are the invariants of the other runs (section 5).

*Fairness.*
`EngineLoop`: goroutines are scheduled (one condition for the runs together, one each for the
two halves of a kick), requests, tools and summaries end - by the provider's time-outs, the
context and the turn bound - and no condition on users, notices, Abort or Close.
`ToolExecutor`: a goroutine's own steps, the pass after AddTool, and the collection in
ExecuteAll, which the code's 100 ms grace period guarantees after an abort; none for t.Call
to return or the user to answer.
`BackgroundJobs`: the spawner, the goroutine, the watchdog, Wait and the ends of Kill and
Complete; none for the process to exit, a Kill to come or output to stop.
The other modules have safety properties only.  WaitersHaveSpawner, SingleDial, TurnHasEnd and
PageComing say in a state what a liveness property would need: that whoever waits, waits for
somebody who is still there.

## 5. Proofs

TLAPS checks every module whose name ends in `Proofs`, from the named assumptions of the
modules and nothing else: messages, prompts and notices are disjoint and bounds are natural
numbers; a second holds at least one message; Bash is not concurrency-safe and SameFile is
symmetric and transitive (canExecuteTool compares file paths, `runTools.go:623`); Runner, Nobody
and the calls of Kill have different names; clients and dials are numbers, the first dial
exists, the default root is a root, the wanted keys are keys, and None and the reloader are none
of these; the account's messages are a sequence of records of a user and a kind, None is no user
and Notice no number.

*EngineLoopProofs*, for any messages and bounds.  `TurnFrame` says that a step of the turn loop
moves its own goroutine, takes items out of the queue and touches nothing of the ownership
state; so each ownership invariant is shown over the handful of actions that do.
TypeCorrect, BusyIffOwned, OwnerAbortable, NoStranded, JoinedIsQuiet and ImplementsLock hold
for every client; Exclusive, NothingLost and EndsAnswered under the assumption that no
client calls Query directly (`Direct = {}`), the case `serial` checks; without it two turn
loops run at once (section 6).  `SerialInv` says that only the owner is alive and
that a compaction excludes it; `ConversationInv` that every summary in the making is of the
whole history, and that from a request on everything attached has been sent but for what the
watermark announces.  QueueIsAMailbox says that the queue with its drains, and the queries that
bypass it, implements the safety part of `Mailbox` for every client; `MailInv` is what a step
needs for that: an item is queued or in the conversation and not both, one not submitted is in
neither, and a summary is of items the conversation has.

*ToolProofs* holds the theorems about `ToolExecutor` and about `BackgroundJobs`.  The executor, for
any kinds of tools, any number of calls and responses: `CallStep`
and `QueueStep` say what a goroutine's step and a pass over the queue do to the calls.  The
inductive invariant adds to the checked properties: completed calls have a result; every call
belongs to an executor already made, and unknown tools are over; and after a failed Bash no call
of its response is past the abort check (`CalledOff`).  The last one rests on
ConflictsInOrder: a Bash conflicts with everything, so when it fails, earlier calls have
completed and later ones are queued.  NothingForgotten needs the least queued call: a pass
starts it unless something is executing.  PassIsStartable compares the loop of processQueue,
a recursive function, with the closed form: a recursive function is the CHOOSE of its equation,
so the proof exhibits a solution (`PassTo`, what a pass over the first i calls starts and
whether it has stopped) and goes up the queue by the least call for which it would fail.
Proved: TypeOK, ConflictsInOrder, AskedOnce, AllAnswered, NothingForgotten, SiblingsCalledOff,
PassIsStartable.

Background jobs, in the same module, for any number of calls of Kill.  The invariant says who holds `mu`
across the wait (`Holding`), who reports the end and how far (`Story`), and what the watchdog
may still do (`Watched`).  Proved: JobTypeOK, EndsOnce, EventFirst,
NoStallAfterEnd.

*LspRegistryProofs*, for any callers, servers, roots, processes and limits.  The invariant says
what a call's place tells of what it holds (`CallerInv`), that the sessions are exactly those
of the calls that spawn (`SessionInv`), that a client belongs to the key it was started for
(`ClientInv`), that nobody else installs a live client while a call spawns for the key
(`SpawnInv`), that a client given up at initialisation is not up any more (`KilledInv`), where
a server that is up is listed (`HeldInv`), how the count of restarts and the
live client of a key hang together (`BudgetInv`), and that a live client's root is known
(`PoolInv`).  OneUpPerKey follows from SessionInv, ClientInv and HeldInv together: a
second server would need a second session or a second place in the pool.  BudgetInv is why the
budget is overdrawn by one crash and not more: a crash is counted only for the client in the
pool, and a call that has passed the look at the budget finds that place empty when it installs.
Proved: TypeOK, NoneLost, OneUpPerKey, WaitersHaveSpawner, BudgetHolds, PoolReported.

*McpRegistryProofs*, for any callers, configurations and dials.  `PlaceInv` says what the
places of calls and of the reload hold; `CacheInv` that a dial under way keeps its cache
entry and its one maker; `ServerInv` that only dials that succeeded are used; `SentInv` how
often a call has sent and that the connection that failed is out of its way, place by place:
out of the cache, not what it joins, not what it holds; `DrainInv` who may be in flight after
a drain.  Proved: TypeOK, SingleDial, RetryElsewhere, NothingAfterClose, DrainedFirst,
LostOnlyByAdoption; RetryElsewhere is repeated by no run.

*WeChatProofs*, for any account, users and bounds.  What pollLoop holds is looked at as three sets
of message numbers: those being enqueued, the attachments merged, the rest of the response.
`OrderInv` says that each is earlier than the next and that nothing is held between two
responses; `AgainInv` where a message can come a second time: not before the saved cursor, and
not with its entry in the duplicate filter; `RoutedInv` that a message still to be handed on, or
past the saved cursor, is later than every one that was, and that none was passed over;
`AccountInv` that cursor and filter only cover messages that are somewhere; `TurnInv` that a
run the connector began has a question, so it ends with a query_end and not silently.
`Kept` is the lemma behind NothingLost: no step but a crash makes a message vanish.
Proved: TypeOK, Accounted, AtMostOnce, TextKept, TurnHasEnd, InOrder.

*ClientStreamProofs*, for any connections, emitters, capacity and bounds.  `StreamInv` comes in
layers, each shown with the help of those before it.  `QueueInv` and `LockInv`: what a
goroutine's place says of its queue, its frame and `ssMu`.  `EraInv`: a queue somebody is about
to push to is the current one or closed, and a handshake that was overtaken leaves another
handshake or no client; NoOldEraFrame is part of it.  `NumberInv`: for every event somewhere
and every page somewhere, the event's number is above the page's exactly when the page does not
hold it; only the event in the hand that holds the lock has no number yet.  `OnceInv`: an event
is at one place of one hand, queue, batch, screen or buffer.  `ComingInv`: what a settled client
has not got is in `Way`, the frames that will reach it, and the page it waits for is there or
its request is.  ViewOnce follows from NumberInv and OnceInv; NothingMissed and PageComing from
ComingInv.  What a browser replays from its buffer is a recursive function, unfolded by
ReplayedIs.  Proved: TypeOK, NoOldEraFrame, ViewOnce, NothingMissed, PageComing.

*FileHistoryProofs*, for any files, limits and failing copies.  `Grows` says that a file stays in
the list of snapshots once it is there, with versions that never fall; so the next version of
a file is above all that are named (`GrowsToLatest`), and no snapshot overwrites a backup that
memory still names.  For what the database names, `Linked` is needed: a file of the saved list is
still in the latest snapshot in memory or adrift, so that TrackEdit, which writes version 1
only for a file that is not there, does not touch its backups.  RewindUndoes needs `UndoInv`, which
speaks of every message somebody may still rewind to, in both lists: an entry of the message's own
snapshot undoes what came after (`Own`); so does version 1 of a file that the snapshot does
not have (`First`), and that version is in the list, behind it, if a later one is (`Begins`); a
file of the agent's that the latest snapshot does not have is adrift (`Backed`); and a file that
is not the agent's may be left as it is (`Pristine`).  TLC checked the invariant on the
instance `files` before it was proved.  Proved: TypeOK, BackupsHold, RewindUndoes.

*HistoryProofs*, for any number of ids, any budget of rare events and any number of messages per
second.  The first part is about sequences and recursive functions: a recursive function is the
CHOOSE of its equation, so each (PathTo, AppendMessages, Without) is shown to be the one
solution, by the least number at which it would not be, and gets a lemma that says what
it yields.  The second part is about the table.  `HistoryInv` has the facts that hold whatever
goes wrong: no uuid twice (`Table`), ids are handed out in order (`Numbered`, `Fresh`), no
message is in memory twice (`MessagesOK`), a segment names rows of its own compaction or of
another session (`SegOK`), and `Rooted`: any rows that are not none have one whose parent is not
among them.  Rooted is what makes Acyclic inductive, straying included: a write or a copy
may move rows and give them other parents, so no fixed ranking survives, but each of them
leaves every set of rows with a row that points out of it.

The third part is about a history that has not strayed.  `Settled` says that there is a line of
rows, from the first one a reload may see (`LoadBase`) to the last row written, each the parent of
the next, such that the stored messages are its first rows, and what is above them has been
rewound and a fork point waits (`Matched`); that nothing but the first kept message hangs on
the summary of the newest boundary (`Sealed`); that the last row is nobody's parent and no other
such row is newer, so that findLeafMessage, which compares whole seconds, takes it
(`LastIsTip`); and that a row a reload sees beside the line has been rewound, unless the newest
boundary kept nothing (`Accounted`).  It needs all of this: a compaction that moves kept rows
behind the new boundary preserves SweptIsChain because these rows were a tail of the line, the
relink of a later load because nothing else hangs on the anchor, and a continued rewind
because rewound rows are older than what follows them.  TLC checked this invariant on the
instance `history` before it was proved.  SweptIsChain and DeadBranchesSkipped are read off it, and so
is the step of `Journal` that each action is: a sweep is a Sync because the line it makes is all of
memory, a compaction a Compact because its segment relinks to the messages kept, a
restart a Crash because LoadMessages gives back the line.  Proved: TypeOK, Acyclic, SweptIsChain,
DeadBranchesSkipped, ImplementsJournal.

*Only model-checked.*  Liveness (ComesToRest, AbortEndsWait, ComesToEnd, EndsUnlessStalling,
the delivery of `Mailbox`), which the prover does not reach, and what section 6 shows by a
violation.  The theorems about `History` say of chain and journal what the run says, up to the
first step that makes memory and table part; past it only TypeOK and Acyclic hold.

## 6. Disagreements

Where the code and what it says of itself part.  A run of its own shows the first.

- `wechatOverlap`: the connector ends its turn on any query_end of the shared engine
  (`connector/wechat/connector.go:245`), also that of a sub-agent or of another client's run,
  and then takes its next message while the query it began still runs;
  `connector/wechat/queue.go:19` says "ensuring serial execution order for the engine".

For these there is a formula that TLC refutes when it is added to a cfg of its module:

- `SingleLoop` (`EngineLoop`, with two messages in `Direct`): IsBusy is read twice, but Query
  registers the run only later (`wui/server.go:519`): two messages both find the engine idle
  and two turn loops run at once; `wui/server.go:464` says "Reading busy up-front on the
  readLoop closes the race".
- `SweptIsChain` (`History`, without its `~strayed`): a compaction with nothing to compact marks all
  messages as persisted (`engine/engine.go:3672`), those since the last persist point included,
  which are never written; `engine/engine.go:364` says "messages[:lastPersistedIdx] already
  persisted to store".
- `DeadBranchesSkipped` (`History`, without its `~strayed`): a rewind to the first message sets
  `forkParentUUID` to "" (`engine/engine.go:4950`), which persistence reads as no fork point
  (`engine/persistence.go:75`): the next message continues the branch cut off;
  `memory/short/message.go:722` says "skipping dead branches from rewinds".
- The same two formulas: a compaction between a rewind and the next persist replaces the history
  and leaves `forkParentUUID` naming a row it has summarised (`engine/engine.go:3670`), so the
  next message is written behind that row and a reload shows the old conversation without the
  summary; and a fork copies every row behind the one before it (`memory/short/fork.go:70`),
  dead branches included, which the copy then shows.  Either refutes its formula when it alone
  does not count as straying.
- `RejectedWroteNothing` (`ToolExecutor`): the abort check after t.Call replaces the result of an
  edit that has succeeded (`engine/runTools.go:1085`); `engine/runTools.go:32` says "the
  new_string was NOT written to the file".
- `WaitEnds` (`BackgroundJobs`): Complete and Kill wait for the watchdog with `job.mu` held
  (`tool/bash/background.go:499`), and the watchdog's callback takes `job.mu`
  (`stall.go:221`); `background.go:727` says "Wait blocks until the job completes, is killed, or
  fails."
- `KilledIsDead` (`BackgroundJobs`): Kill before the PID is recorded kills nothing
  (`background.go:456`), and the process starts or goes on; `background.go:430` says "Kill
  terminates a background job by sending SIGKILL to its process tree."
- `NoOrphan` (`McpRegistry`): a call that met a dead connection reconnects whether or not
  EvictIfSame found it in the registry (`engine/mcp_tool.go:165`), so it dials again over the
  connection another call has just made, and the adoption overwrites that one without closing it;
  `mcp_tool.go:163` says "single-flight protected", and `mcp/client.go:340` warns of "double
  spawn / orphan".
- `RetryAfterDeath` (`McpRegistry`): an io.EOF, a broken pipe or a refused connection counts as
  death (`mcp/death_recovery.go:20`), also when an HTTP server lives and has run the request,
  and the call is sent again (`engine/mcp_tool.go:166`); `mcp_tool.go:162` says "The server
  process died between (re)connect and call".
- `OneProcessPerKey` and `NoStray` (`LspRegistry`): readLoop tears a client down at the end of
  stdout or at a short body (`lsp/client.go:178`, `:199`) without a kill, and the process may run
  on.  The watcher evicts the client, the next call starts a second process for the key, and
  the first is in no pool, no hand and no list; c.Shutdown of a client that is torn down, or is
  while it is asked to shut down, returns before its Kill (`:520`, `:535`).  `lsp/registry.go:23`
  says "clientKey identifies one language-server process", `lsp/client.go:109` that the client
  owns the life of its process "via Shutdown".
- `RewindUndoes` (`FileHistory`, without its `late`): queued notices start turns under the id of the
  latest message (`engine/engine.go:1984`), and their snapshot is the one a rewind to that message
  finds, so the edits of its query stay; likewise those of a forked skill, whose snapshot is made
  after its sub-agent has worked (`:1378`).  `:1982` says "Rewind can then restore files to
  before edits".
- `RewindUndoes` (without its `adrift`): the state is saved at snapshots only (`tui/app.go:533`),
  so that a restart forgets the files backed up since, and the next edit of one overwrites its
  version 1 with text already edited; and a rewind of the conversation alone drops a
  file's entries but keeps it tracked (`filehistory/tracker.go:390`), with the same effect,
  and, when it goes back to the oldest snapshot retained, drops them all: from then on every TrackEdit
  fails and every MakeSnapshot does nothing, after a reload too if that was saved.
- `Hears` (`ClientStream`): a read loop that ends late may find its own era, or have
  loaded the new client's (`wui/server.go:119`), and then silences the client that took over
  (`:135`); the comment above says that it must not.

These were met while modelling and have no formula:

- Engine: an abort after a drain (`engine/engine.go:2436`, `:2545`) and before the next request
  (`:2006`) leaves an attached prompt unanswered; `:2514` says an aborted query leaves queued
  user messages in the queue.  Allow-always lasts for one response, because `sessionAllowed`
  belongs to the executor (`engine/engine.go:3306`, `runTools.go:319`); `runTools.go:160` says
  "for the current session".  canExec (`runTools.go:434`) asks about one executor, so a
  discarded response's call may run beside the retry's first exclusive call.  The
  terminal path drains user prompts only; `types/attachment.go:31` says DrainAll.  Events are
  dispatched with `coalesceMu` held (`engine.go:1741`).
- Jobs: a stall uses up the one notification of a job (`tool/bash/background.go:667`, `:521`);
  `tool/bash/prompt.go:48` says "you will be notified when it completes".  A Kill between a job's
  entry in the map and job_started (`:222`) is told first.
- Dream: IsBusy is read before three queries of the store, and Query takes the dream engine over
  later (`memory/dream/timer.go:69`); the watermark is the time the dream ends (`:134`), so
  messages of other sessions that arrived meanwhile are not dreamed of.
- LSP: a spawn that ends after Shutdown puts its client into `live` (`lsp/registry.go:319`)
  without a look at `closed`, and nobody shuts it down; NoneLost counts it as in the pool.
  `:369` says that a key in `live` never has a session, which a crash and the next call refute.
  A crash that a caller sees before the watcher does is not counted.
- MCP: Reconnect removes the tool cache before a fetch that may fail, although `mcp/registry.go:949`
  says that a failed server keeps its last-known tools.  A call that connects during a Reconcile
  may do so with the old configuration, and brings a removed server back.  `r.configs` is
  iterated outside `r.mu` (`:1118`, `:1290`).
- WeChat: an attachment that cannot be fetched is dropped with its caption (`poll.go:149`), while
  `connector.go:499` logs "falling back to text-only".  Answers to a message that was attached
  to another user's turn go to `activeUserID`, as does text kept after a failed send.  Handle runs
  on the goroutines of several engines without a lock over `queryDone` and `activeUserID`; the
  model takes each of its events as one step.  A message that finds the engine busy is answered
  before an earlier one in `inboundCh`; InOrder is about handing on, not about answers.
- File history: a deletion that fails at a rewind is logged and not returned
  (`filehistory/tracker.go:489`), although `:447` says that the first failure is.  A copy that
  fails at a snapshot leaves the file with its earlier entry, under the new message's id.
  `tui/app.go:509` says "older than 30 days"; DefaultCleanupAge is a day.
- Streams: a failed write forgets the connection without closing it (`wui/connector.go:770`):
  the client stays connected and hears nothing until it asks again.  A page that the browser
  kept of an idle engine and shows again without asking (`web/ui/src/chat.ts:2608`) leaves the
  nonce of an earlier request in force, although `:660` says that every reset sends one; after
  two switches of engine in a row, the answer to the first may then be shown in addition to it.
  Such a page also brings back its number; a restarted server counts from the start
  (`wui/connector.go:365`), and what it sends below that number is dropped.

Smaller remarks: Close gives up after closeJoinTimeout (`engine/engine.go:4461`; CloseJoin has
the outcome "timedOut", of which JoinedIsQuiet says nothing); `runTools.go:623` compares
file paths as strings, so two spellings of one file are two files; an interrupt marker
(`engine/engine.go:4651`) is text inside a message and never persisted; the leaf is chosen by
whole seconds (`memory/short/chain.go:225`); the era flip of sendMetadata is not needed by any
checked property of `stream`.

## 7. What is not modelled

Of the modelled components: emission and coalescing of events, progress and output,
budgets and context modifiers of tool results, token sizes and microcompact, snip removals,
sidechain and progress rows and the recovery of orphaned parallel results
(`chain.go:53`), NewSession and Reset, ephemeral reminders, panics (they leave by the exit
path), the wording of messages; detection of roots, the protocol with a language server, and
a request's own hang on a server that does not read; the MCP tool cache and its notifications,
ToggleServer and ScheduleReconnect (no caller in production); WeChat's login, media, typing and
rate clocks, and Stop (no caller in production); of the streams the other frames a slot sends,
resume, CloseForUpgrade, paging beyond the first page, the pages a browser keeps of an idle
engine (`chat.ts:2608`): every metadata frame of the model asks for its page.  An engine of
the model has its system prompt; one without is never kicked (`engine/engine.go:1428`), and
`app/start.go:454` and `app/wechat.go:168` set it before an engine serves.  A sub-agent's engine is an engine of its
own and shares no state with its parent's.

Of the others: those of section 1.10 that keep state under concurrency come next (section 2,
points 7 and 8).  Providers, the PTY, the web, conversions, configuration, front ends and
SQL search are I/O and text, where an abstraction would only restate the code.
