----------------------------- MODULE EngineLoop -----------------------------
(***************************************************************************)
(* The agent engine of pkg/engine/engine.go seen from its concurrency: who *)
(* owns the engine (activeGen, activeCancel, queryActive, compacting,      *)
(* closing, all under activeCancelMu), the attachment queue, and the turn  *)
(* loop that every query and every attachment run executes.                *)
(*                                                                         *)
(* A run is identified by the ownership token beginLocked hands out, so    *)
(* pc, ask and snap are functions on 1..activeGen.  Messages are the       *)
(* queued items themselves: history holds the items that were attached to  *)
(* the conversation, sent those that some LLM request has carried.         *)
(***************************************************************************)
EXTENDS Naturals, FiniteSets

CONSTANTS
  Direct,      \* user messages of a client that asks IsBusy before it submits
  Prompt,      \* user messages handed straight to EnqueueAttachment
  Notice,      \* job, message and notification items
  Later,       \* the notices enqueued with PriorityLater
  MaxTurns,    \* Engine.maxTurns, 0 for no limit
  MaxExtra,    \* bound: responses that make a run go round again
  MaxCompacts  \* bound: manual compactions

Item == Direct \cup Prompt \cup Notice
UserItem == Direct \cup Prompt

ASSUME ItemAssumption ==
  /\ Direct \cap Prompt = {}
  /\ UserItem \cap Notice = {}
  /\ Later \subseteq Notice

ASSUME BoundAssumption ==
  MaxTurns \in Nat /\ MaxExtra \in Nat /\ MaxCompacts \in Nat

VARIABLES
  closing,       \* Close has run its critical section
  activeGen,     \* the newest ownership token, 0 before the first
  activeCancel,  \* the token whose cancel function Abort would call, 0 for nil
  queryActive,   \* the busy flag
  compacting,    \* a manual compaction holds the engine
  attachments,   \* items in the attachment queue
  unaddressed,   \* queuedMsgSeq # queuedMsgSeen
  turnCount,
  history,       \* items attached to e.messages
  sent,          \* items some LLM request has carried
  lost,          \* items a compaction swapped out without summarising them
  pc,            \* where each run is
  ask,           \* the message a query was started with, {} for an attachment run
  snap,          \* the history a run's own compaction is summarising
  cancelled,     \* tokens whose context is cancelled
  kickLen,       \* goroutines entering startProcessAttachmentsIfIdle
  kickTry,       \* of them, past the length check and before beginQueryIfIdle
  client,        \* progress of each item's submission
  compactor,     \* progress of ManualCompact
  compactSnap,   \* the history it is summarising
  extra, compacts,
  closed         \* outcome of Close's join

own == <<closing, activeGen, activeCancel, queryActive, compacting>>
conversation == <<unaddressed, turnCount, history, sent, lost>>
runs == <<pc, ask, snap, cancelled>>
kicks == <<kickLen, kickTry>>
manual == <<compactor, compactSnap, compacts>>
vars == <<own, attachments, conversation, runs, kicks, client, manual, extra, closed>>

PC == {"begun", "start", "top", "autosum", "call", "llm", "resum",
       "final", "check", "tools", "boundary", "exit", "done", "dropped"}
ClientState == {"new", "readIdle", "readBusy", "query", "enqueue", "sent", "removed",
                "refused"}

Gen == 1..activeGen

\* The goroutine behind the token exists or is about to be spawned.
Live(g) == pc[g] \notin {"done", "dropped"}

\* The goroutine is counted by queryWg.
Spawned(g) == Live(g) /\ pc[g] # "begun"

IsBusy == queryActive \/ compacting

Init ==
  /\ closing = FALSE /\ queryActive = FALSE /\ compacting = FALSE
  /\ activeGen = 0 /\ activeCancel = 0
  /\ attachments = {} /\ history = {} /\ sent = {} /\ lost = {}
  /\ unaddressed = FALSE /\ turnCount = 0
  /\ pc = [g \in 1..0 |-> "done"]
  /\ ask = [g \in 1..0 |-> {}]
  /\ snap = [g \in 1..0 |-> {}]
  /\ cancelled = {}
  /\ kickLen = 0 /\ kickTry = 0
  /\ client = [i \in Item |-> "new"]
  /\ compactor = "idle" /\ compactSnap = {} /\ compacts = 0
  /\ extra = 0
  /\ closed = "open"

-----------------------------------------------------------------------------
(* Ownership.                                                              *)

\* beginLocked: a fresh token, its cancel registered, the engine busy.
BeginLocked(question) ==
  /\ ~closing
  /\ activeGen' = activeGen + 1
  /\ activeCancel' = activeGen + 1
  /\ queryActive' = TRUE
  /\ pc' = [g \in 1..activeGen + 1 |-> IF g \in Gen THEN pc[g] ELSE "begun"]
  /\ ask' = [g \in 1..activeGen + 1 |-> IF g \in Gen THEN ask[g] ELSE question]
  /\ snap' = [g \in 1..activeGen + 1 |-> IF g \in Gen THEN snap[g] ELSE {}]
  /\ UNCHANGED <<closing, compacting, cancelled>>

\* Mutant: the spawn does not look at closing.
GoRunWhileClosing(g) ==
  /\ pc[g] = "begun"
  /\ pc' = [pc EXCEPT ![g] = "start"]
  /\ UNCHANGED <<own, attachments, conversation, ask, snap, cancelled, kicks,
                 client, manual, extra, closed>>

\* goRun: the spawn is refused once the engine is closing.
GoRun(g) ==
  /\ pc[g] = "begun"
  /\ pc' = [pc EXCEPT ![g] = IF closing THEN "dropped" ELSE "start"]
  /\ UNCHANGED <<own, attachments, conversation, ask, snap, cancelled, kicks,
                 client, manual, extra, closed>>

\* A mutant: endQuery without the kick.
EndQueryEffect(g, owner, cancel, kick) ==
  /\ pc[g] = "exit"
  /\ pc' = [pc EXCEPT ![g] = "done"]
  /\ IF owner
       THEN activeCancel' = cancel /\ queryActive' = FALSE /\ kickLen' = kickLen + kick
       ELSE UNCHANGED <<activeCancel, queryActive, kickLen>>
  /\ cancelled' = cancelled \cup {g}
  /\ UNCHANGED <<closing, activeGen, compacting, attachments, conversation, ask,
                 snap, kickTry, client, manual, extra, closed>>

EndQueryNoKick(g) == EndQueryEffect(g, g = activeGen, 0, 0)

\* The run's deferred calls: its context is cancelled, then endQuery, where
\* only the current owner releases the engine, and then kicks.
EndQuery(g) ==
  /\ pc[g] = "exit"
  /\ pc' = [pc EXCEPT ![g] = "done"]
  /\ IF g = activeGen
       THEN activeCancel' = 0 /\ queryActive' = FALSE /\ kickLen' = kickLen + 1
       ELSE UNCHANGED <<activeCancel, queryActive, kickLen>>
  /\ cancelled' = cancelled \cup {g}
  /\ UNCHANGED <<closing, activeGen, compacting, attachments, conversation, ask,
                 snap, kickTry, client, manual, extra, closed>>

Abort ==
  /\ activeCancel # 0
  /\ cancelled' = cancelled \cup {activeCancel}
  /\ activeCancel' = 0
  /\ UNCHANGED <<closing, activeGen, queryActive, compacting, attachments,
                 conversation, pc, ask, snap, kicks, client, manual, extra, closed>>

\* Mutant: closing is set without cancelling the run in flight.
CloseKeepsRunning ==
  /\ ~closing
  /\ closing' = TRUE
  /\ closed' = "joining"
  /\ UNCHANGED <<activeGen, activeCancel, queryActive, compacting, attachments,
                 conversation, runs, kicks, client, manual, extra>>

\* Close up to the join: closing and the cancel are one critical section.
Close ==
  /\ ~closing
  /\ closing' = TRUE
  /\ cancelled' = IF activeCancel # 0 THEN cancelled \cup {activeCancel} ELSE cancelled
  /\ activeCancel' = 0
  /\ closed' = "joining"
  /\ UNCHANGED <<activeGen, queryActive, compacting, attachments, conversation,
                 pc, ask, snap, kicks, client, manual, extra>>

\* The join: queryWg has drained, or closeJoinTimeout has passed.
CloseJoin ==
  /\ closed = "joining"
  /\ \/ closed' = "joined" /\ \A g \in Gen : ~Spawned(g)
     \/ closed' = "timedOut" /\ \E g \in Gen : Spawned(g)
  /\ UNCHANGED <<own, attachments, conversation, runs, kicks, client, manual, extra>>

-----------------------------------------------------------------------------
(* Kicks: startProcessAttachmentsIfIdle, on the goroutine of its caller.   *)

\* The system prompt is taken to be set: every engine is given its own before it serves,
\* and without one nothing is kicked at all.
KickLen ==
  /\ kickLen > 0
  /\ kickLen' = kickLen - 1
  /\ kickTry' = IF attachments = {} THEN kickTry ELSE kickTry + 1
  /\ UNCHANGED <<own, attachments, conversation, runs, client, manual, extra, closed>>

\* Mutant: a compaction does not count as busy.
KickTryDuringCompact ==
  /\ kickTry > 0
  /\ kickTry' = kickTry - 1
  /\ IF queryActive \/ closing THEN UNCHANGED <<own, runs>> ELSE BeginLocked({})
  /\ UNCHANGED <<attachments, conversation, kickLen, client, manual, extra, closed>>

\* beginQueryIfIdle: refused while anything holds the engine or it is closing.
KickTry ==
  /\ kickTry > 0
  /\ kickTry' = kickTry - 1
  /\ IF IsBusy \/ closing THEN UNCHANGED <<own, runs>> ELSE BeginLocked({})
  /\ UNCHANGED <<attachments, conversation, kickLen, client, manual, extra, closed>>

-----------------------------------------------------------------------------
(* The turn loop: queryLoop or processAttachments, then runTurns.          *)

Goto(g, label) == pc' = [pc EXCEPT ![g] = label]
Frame == UNCHANGED <<own, ask, cancelled, kicks, client, manual, closed>>

\* A query appends its own message; an attachment run drains the whole queue
\* and ends at once when somebody else has emptied it.
StartRun(g) ==
  /\ pc[g] = "start"
  /\ IF ask[g] # {}
       THEN history' = history \cup ask[g] /\ UNCHANGED attachments
       ELSE history' = history \cup attachments /\ attachments' = {}
  /\ Goto(g, IF ask[g] = {} /\ attachments = {} THEN "exit" ELSE "top")
  /\ UNCHANGED <<unaddressed, turnCount, sent, lost, snap, extra>>
  /\ Frame

WithinMaxTurns == MaxTurns = 0 \/ turnCount < MaxTurns

\* e.turnCount is read against maxTurns only, so it is not counted without one.
CountTurn ==
  turnCount' = IF MaxTurns # 0 /\ WithinMaxTurns THEN turnCount + 1 ELSE turnCount

\* The loop head: turn limit, abort check, then the pre-turn auto-compaction
\* (whose summary is a request of its own), or straight on to the watermark
\* that says everything attached so far is in the request to come.
LoopHead(g) ==
  /\ pc[g] = "top"
  /\ IF ~WithinMaxTurns \/ g \in cancelled
       THEN Goto(g, "exit") /\ UNCHANGED <<unaddressed, snap>>
       ELSE \/ Goto(g, "call") /\ unaddressed' = FALSE /\ UNCHANGED snap
            \/ Goto(g, "autosum") /\ snap' = [snap EXCEPT ![g] = history]
               /\ UNCHANGED unaddressed
  /\ UNCHANGED <<attachments, turnCount, history, sent, lost, extra>>
  /\ Frame

\* applyCompactResult: what was read is replaced by its summary, anything
\* appended since is gone.
Swap(summarised) ==
  /\ lost' = lost \cup (history \ summarised)
  /\ history' = summarised

AutoCompact(g) ==
  /\ pc[g] = "autosum"
  /\ Goto(g, "call")
  /\ Swap(snap[g]) \/ UNCHANGED <<history, lost>>
  /\ unaddressed' = FALSE
  /\ snap' = [snap EXCEPT ![g] = {}]
  /\ UNCHANGED <<attachments, turnCount, sent, extra>>
  /\ Frame

SendRequest(g) ==
  /\ pc[g] = "call" /\ g \notin cancelled
  /\ sent' = sent \cup history
  /\ Goto(g, "llm")
  /\ UNCHANGED <<attachments, unaddressed, turnCount, history, lost,
                 snap, extra>>
  /\ Frame

\* The context is done before or during the request, or the request fails for
\* good (retries are inside callLLMWithRetry).
CallFails(g) ==
  /\ pc[g] = "llm" \/ (pc[g] = "call" /\ g \in cancelled)
  /\ Goto(g, "exit")
  /\ UNCHANGED <<attachments, conversation, snap, extra>>
  /\ Frame

\* Context overflow, or a response cut off by the context window: compact and
\* go round, at most once each per run.
StartRecovery(g) ==
  /\ pc[g] = "llm" /\ extra < MaxExtra
  /\ extra' = extra + 1
  /\ snap' = [snap EXCEPT ![g] = history]
  /\ Goto(g, "resum")
  /\ UNCHANGED <<attachments, conversation>>
  /\ Frame

\* A failed recovery is an error exit after an overflow, and the ordinary end
\* of turn after a cut-off response.
Recover(g) ==
  /\ pc[g] = "resum"
  /\ \/ Swap(snap[g]) /\ Goto(g, "top")
     \/ \E label \in {"exit", "final"} : Goto(g, label) /\ UNCHANGED <<history, lost>>
  /\ snap' = [snap EXCEPT ![g] = {}]
  /\ UNCHANGED <<attachments, unaddressed, turnCount, sent, extra>>
  /\ Frame

\* max_tokens: a continuation message is appended, no turn is counted.
ContinueTruncated(g) ==
  /\ pc[g] = "llm" /\ extra < MaxExtra
  /\ extra' = extra + 1
  /\ Goto(g, "top")
  /\ UNCHANGED <<attachments, conversation, snap>>
  /\ Frame

RespondFinal(g) ==
  /\ pc[g] = "llm"
  /\ Goto(g, "final")
  /\ UNCHANGED <<attachments, conversation, snap, extra>>
  /\ Frame

\* A response with tool calls; the post-streaming abort check is here.
RespondTools(g) ==
  /\ pc[g] = "llm" /\ extra < MaxExtra
  /\ extra' = extra + 1
  /\ Goto(g, IF g \in cancelled THEN "exit" ELSE "tools")
  /\ UNCHANGED <<attachments, conversation, snap>>
  /\ Frame

StopHookBlocks(g) ==
  /\ pc[g] = "final" /\ extra < MaxExtra
  /\ extra' = extra + 1
  /\ CountTurn
  /\ Goto(g, "top")
  /\ UNCHANGED <<attachments, unaddressed, history, sent, lost, snap>>
  /\ Frame

\* Mutant: the drained items are dropped instead of attached.
DrainUserDrops ==
  /\ attachments' = attachments \ UserItem
  /\ UNCHANGED <<unaddressed, turnCount, history, sent, lost>>

\* drainQueuedUserAttachments: every queued user message is attached, and any
\* at all moves the sequence number past the watermark.
DrainUser ==
  /\ attachments' = attachments \ UserItem
  /\ history' = history \cup (attachments \cap UserItem)
  /\ unaddressed' = (unaddressed \/ attachments \cap UserItem # {})
  /\ UNCHANGED <<turnCount, sent, lost>>

TerminalDrain(g) ==
  /\ pc[g] = "final"
  /\ DrainUser
  /\ Goto(g, "check")
  /\ UNCHANGED <<snap, extra>>
  /\ Frame

\* Mutant: no unaddressed check.
TerminalAtOnce(g) ==
  /\ pc[g] = "check"
  /\ CountTurn
  /\ Goto(g, "exit")
  /\ UNCHANGED <<attachments, unaddressed, history, sent, lost, snap, extra>>
  /\ Frame

\* The unaddressed check: one more turn when a message arrived after the last
\* watermark.
Terminal(g) ==
  /\ pc[g] = "check"
  /\ CountTurn
  /\ Goto(g, IF unaddressed THEN "top" ELSE "exit")
  /\ UNCHANGED <<attachments, unaddressed, history, sent, lost, snap, extra>>
  /\ Frame

\* Tool results are in: an aborted run leaves before it drains anything.
ToolsDone(g) ==
  /\ pc[g] = "tools"
  /\ IF g \in cancelled
       THEN Goto(g, "exit") /\ UNCHANGED <<attachments, conversation>>
       ELSE Goto(g, "boundary") /\ DrainUser
  /\ UNCHANGED <<snap, extra>>
  /\ Frame

\* DrainByPriority(next), then the turn is counted.
Boundary(g) ==
  /\ pc[g] = "boundary"
  /\ attachments' = attachments \cap Later
  /\ history' = history \cup (attachments \ Later)
  /\ CountTurn
  /\ Goto(g, "top")
  /\ UNCHANGED <<unaddressed, sent, lost, snap, extra>>
  /\ Frame

Turn(g) ==
  \/ StartRun(g) \/ LoopHead(g) \/ AutoCompact(g)
  \/ SendRequest(g) \/ CallFails(g) \/ StartRecovery(g) \/ Recover(g)
  \/ ContinueTruncated(g) \/ RespondFinal(g) \/ RespondTools(g)
  \/ StopHookBlocks(g) \/ TerminalDrain(g) \/ Terminal(g)
  \/ ToolsDone(g) \/ Boundary(g)

-----------------------------------------------------------------------------
(* Submission.                                                             *)

\* handleMessageInbound on the read loop: the busy flag is read ...
ReadBusy(m) ==
  /\ m \in Direct /\ client[m] = "new"
  /\ client' = [client EXCEPT ![m] = IF IsBusy THEN "readBusy" ELSE "readIdle"]
  /\ UNCHANGED <<own, attachments, conversation, runs, kicks, manual, extra, closed>>

\* ... and read again by the message's goroutine once its blocks are assembled.  A message with
\* nothing left in it goes no further, nor does one cancelled meanwhile, which is given back.
DispatchGate(m) ==
  /\ client[m] \in {"readIdle", "readBusy"}
  /\ \E state \in {"refused", IF client[m] = "readBusy" \/ IsBusy THEN "enqueue" ELSE "query"} :
       client' = [client EXCEPT ![m] = state]
  /\ UNCHANGED <<own, attachments, conversation, runs, kicks, manual, extra, closed>>

\* Query: takes over unconditionally; an error event when the engine is closing.
Query(m) ==
  /\ client[m] = "query"
  /\ client' = [client EXCEPT ![m] = "sent"]
  /\ IF closing THEN UNCHANGED <<own, runs>> ELSE BeginLocked({m})
  /\ UNCHANGED <<attachments, conversation, kicks, manual, extra, closed>>

EnqueueAttachment(i) ==
  /\ client[i] = "enqueue" \/ (i \notin Direct /\ client[i] = "new")
  /\ client' = [client EXCEPT ![i] = "sent"]
  /\ attachments' = attachments \cup {i}
  /\ kickLen' = kickLen + 1
  /\ UNCHANGED <<own, conversation, runs, kickTry, manual, extra, closed>>

RemoveAttachment(i) ==
  /\ i \in attachments \cap UserItem
  /\ attachments' = attachments \ {i}
  /\ client' = [client EXCEPT ![i] = "removed"]
  /\ UNCHANGED <<own, conversation, runs, kicks, manual, extra, closed>>

Submit(i) ==
  \/ ReadBusy(i) \/ DispatchGate(i) \/ Query(i)
  \/ EnqueueAttachment(i) \/ RemoveAttachment(i)

-----------------------------------------------------------------------------
(* ManualCompact.                                                          *)

\* Mutants: a compaction that does not ask for idleness, and one that does not
\* kick when it is over.
BeginCompactUnderQuery ==
  /\ compactor = "idle" /\ compacts < MaxCompacts
  /\ ~compacting
  /\ compacting' = TRUE
  /\ compactor' = "held"
  /\ compacts' = compacts + 1
  /\ UNCHANGED <<closing, activeGen, activeCancel, queryActive, attachments,
                 conversation, runs, kicks, client, compactSnap, extra, closed>>

EndCompactNoKick ==
  /\ compactor = "finished"
  /\ compacting' = FALSE
  /\ compactor' = "idle"
  /\ UNCHANGED <<closing, activeGen, activeCancel, queryActive, attachments,
                 conversation, runs, kicks, client, compactSnap, compacts, extra, closed>>

BeginCompact ==
  /\ compactor = "idle" /\ compacts < MaxCompacts
  /\ ~IsBusy
  /\ compacting' = TRUE
  /\ compactor' = "held"
  /\ compacts' = compacts + 1
  /\ UNCHANGED <<closing, activeGen, activeCancel, queryActive, attachments,
                 conversation, runs, kicks, client, compactSnap, extra, closed>>

ReadHistory ==
  /\ compactor = "held"
  /\ compactSnap' = history
  /\ compactor' = "summarising"
  /\ UNCHANGED <<own, attachments, conversation, runs, kicks, client, compacts, extra, closed>>

FinishSummary ==
  /\ compactor = "summarising"
  /\ Swap(compactSnap) \/ UNCHANGED <<history, lost>>
  /\ compactor' = "finished" /\ compactSnap' = {}
  /\ UNCHANGED <<own, attachments, unaddressed, turnCount, sent, runs, kicks, client,
                 compacts, extra, closed>>

EndCompact ==
  /\ compactor = "finished"
  /\ compacting' = FALSE
  /\ kickLen' = kickLen + 1
  /\ compactor' = "idle"
  /\ UNCHANGED <<closing, activeGen, activeCancel, queryActive, attachments,
                 conversation, runs, kickTry, client, compactSnap, compacts, extra, closed>>

Compact == BeginCompact \/ ReadHistory \/ FinishSummary \/ EndCompact

-----------------------------------------------------------------------------
Run(g) == GoRun(g) \/ Turn(g) \/ EndQuery(g)

Next ==
  \/ \E g \in Gen : Run(g)
  \/ KickLen \/ KickTry
  \/ \E i \in Item : Submit(i)
  \/ Compact
  \/ Abort \/ Close \/ CloseJoin

Spec == Init /\ [][Next]_vars

\* Goroutines are scheduled, requests and tools end (the provider's timeouts
\* and the turn bound see to that), summaries too.  Users and agents are free
\* to do nothing.
Fairness ==
  /\ WF_vars(\E g \in Gen : Run(g))
  /\ WF_vars(KickLen) /\ WF_vars(KickTry)
  /\ WF_vars(ReadHistory \/ FinishSummary \/ EndCompact)

FairSpec == Spec /\ Fairness

-----------------------------------------------------------------------------
(* Properties.                                                             *)

TypeOK ==
  /\ closing \in BOOLEAN /\ queryActive \in BOOLEAN /\ compacting \in BOOLEAN
  /\ activeGen \in Nat /\ activeCancel \in 0..activeGen
  /\ attachments \subseteq Item /\ history \subseteq Item
  /\ sent \subseteq Item /\ lost \subseteq Item
  /\ unaddressed \in BOOLEAN /\ turnCount \in Nat
  /\ pc \in [Gen -> PC] /\ ask \in [Gen -> SUBSET Item]
  /\ snap \in [Gen -> SUBSET Item] /\ cancelled \subseteq Gen
  /\ kickLen \in Nat /\ kickTry \in Nat
  /\ client \in [Item -> ClientState]
  /\ compactor \in {"idle", "held", "summarising", "finished"}
  /\ compactSnap \subseteq Item
  /\ extra \in Nat /\ compacts \in Nat
  /\ closed \in {"open", "joining", "joined", "timedOut"}

\* The busy flag says exactly that the newest run has not ended: a superseded
\* run's endQuery neither clears its successor's flag nor leaves one set
\* (endQuery's comment).
BusyIffOwned == queryActive <=> (activeGen > 0 /\ pc[activeGen] # "done")

\* The newest run can always be stopped: until it ends, its context is
\* cancelled or Abort and Close would cancel it; and what Abort would cancel
\* is never a superseded or finished run.
OwnerAbortable ==
  /\ activeCancel # 0 => activeCancel = activeGen /\ queryActive
  /\ queryActive => activeCancel = activeGen \/ activeGen \in cancelled

\* A queued item never waits for nothing: whenever the queue is not empty
\* somebody holds the engine and will kick, or a kick is on its way, or the
\* engine is closing (the comments of EnqueueAttachment and endCompact).
NoStranded ==
  attachments # {} => IsBusy \/ kickLen > 0 \/ kickTry > 0 \/ closing

\* Once Close has joined, no goroutine of the engine runs, and none starts
\* (the comments of goRun and Close).
JoinedIsQuiet == closed = "joined" => \A g \in Gen : ~Spawned(g)

\* One turn loop at a time.
SingleLoop == \A g, h \in Gen : Live(g) /\ Live(h) => g = h

\* The engine is held by one run or one compaction at a time, as long as all
\* messages come through EnqueueAttachment (comments of beginQueryIfIdle and
\* beginCompact: no double spawn, no compaction slipping past a kick).
Exclusive == SingleLoop /\ (compacting => \A g \in Gen : ~Live(g))

\* A compaction never swaps out a message it has not summarised.
NothingLost == lost = {}

\* A run that ends by answering has put everything attached to the
\* conversation before the model (the unaddressed check in runTurns).
EndsAnswered ==
  [][\A g \in Gen : pc[g] = "check" /\ pc'[g] = "exit" => history \subseteq sent]_vars

\* As long as nobody closes the engine it keeps coming back to rest, idle and
\* with nothing queued.
ComesToRest == []<>(closing \/ (~IsBusy /\ attachments = {}))

\* The ownership state implements the lock with takeover ...
Lock == INSTANCE OwnerLock WITH
  turnstile <- activeGen,
  holder <- IF queryActive THEN activeGen ELSE 0,
  interrupt <- activeCancel,
  sealed <- closing

ImplementsLock == Lock!LockSpec

\* ... and the queue with its drains the mailbox.
Box == INSTANCE Mailbox WITH
  status <- [i \in Item |->
               IF i \in attachments THEN "queued"
               ELSE IF i \in history \cup lost THEN "attached"
               ELSE IF client[i] = "removed" THEN "takenBack"
               ELSE "absent"],
  shut <- closing

ImplementsBox == Box!BoxSpec
=============================================================================
