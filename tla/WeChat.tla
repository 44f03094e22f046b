------------------------------- MODULE WeChat -------------------------------
(***************************************************************************)
(* The WeChat connector, pkg/connector/wechat: pollLoop, which fetches     *)
(* messages after a cursor, saves the cursor and routes the messages one   *)
(* by one; processLoop, which asks the engine one queued message at a time *)
(* and waits for the end of its turn; and Handle, which collects the text  *)
(* of every turn of the shared engine and sends it to the active user.     *)
(*                                                                         *)
(* Messages are numbered in the order the server holds them, and a cursor  *)
(* is the number of the last message it covers.  Of the engine (module     *)
(* EngineLoop) there is what the connector sees: its busy flag, its runs,  *)
(* and its attachment queue.  A crash takes everything but the state file. *)
(***************************************************************************)
EXTENDS Naturals, Sequences, FiniteSets, Functions

CONSTANTS
  User,
  Inbox,      \* the messages of the account: who sent each, and of what kind
  Notice,     \* an item of another source (a job) in the engine's queue
  Capacity,   \* capacity of inboundCh
  MaxRuns,    \* bound: runs of the engine
  MaxOthers,  \* bound: items of other sources, and ends of sub-agents
  MaxFaults,  \* bound: things that go wrong
  None

Message == 1..Len(Inbox)
Kind == {"own", "blank", "text", "media"}

ASSUME InboxAssumption == Inbox \in Seq([from : User, kind : Kind])
ASSUME NameAssumption == None \notin User /\ Notice \notin Nat
ASSUME BoundAssumption ==
  {Capacity, MaxRuns, MaxOthers, MaxFaults} \subseteq Nat

VARIABLES
  disk,        \* SyncBuf in the state file
  syncBuf,     \* SyncBuf in memory
  dedup,       \* messages seen within the TTL
  poll,        \* where pollLoop is
  batch,       \* messages of the response still to be looked at
  media,       \* attachments merged so far
  item,        \* the messages being enqueued
  inboundCh,
  handler,     \* where processLoop is
  asking,      \* the messages it has taken from inboundCh
  queryDone,   \* the channel exists and is open
  activeUserID,
  buffer,      \* runs whose text has not been sent
  closing,     \* the engine is closed
  queryActive, \* the engine's busy flag
  attachments, \* the engine's queue
  run,         \* each run: live, ended (query_end is out) or done
  asks,        \* the messages in its conversation
  mine,        \* runs that handleInbound began
  kicks,       \* calls of startProcessAttachmentsIfIdle under way
  emitted,     \* runs that have produced text
  told,        \* text delivered: to whom, of which run
  dropped,     \* messages left aside on purpose
  lost,        \* messages a crash took
  routed,      \* messages that were handed to the engine or to inboundCh
  again,       \* messages that were routed twice
  forgotten,   \* messages whose dedup entry was lost
  uncovered,   \* messages delivered without a cursor, or whose cursor was not saved
  others, faults

cursor == <<disk, syncBuf, dedup, uncovered>>
polling == <<poll, batch, media, item>>
turn == <<handler, asking, queryDone, activeUserID>>
text == <<buffer, emitted, told>>
engine == <<closing, queryActive, attachments, run, asks, kicks>>
fate == <<dropped, lost, routed, again, forgotten>>
bounds == <<others, faults>>
vars == <<cursor, polling, inboundCh, turn, text, engine, mine, fate, bounds>>

Runs == DOMAIN run
Live(g) == run[g] = "live"
From(m) == Inbox[m].from
IsBusy == queryActive

Init ==
  /\ disk = 0 /\ syncBuf = 0 /\ dedup = {}
  /\ poll = "poll" /\ batch = <<>> /\ media = <<>> /\ item = <<>>
  /\ inboundCh = <<>>
  /\ handler = "idle" /\ asking = <<>> /\ queryDone = FALSE /\ activeUserID = None
  /\ buffer = {} /\ emitted = {} /\ told = {}
  /\ closing = FALSE /\ queryActive = FALSE /\ attachments = {}
  /\ run = <<>> /\ asks = <<>> /\ mine = {} /\ kicks = 0
  /\ dropped = {} /\ lost = {} /\ routed = {} /\ again = {} /\ forgotten = {} /\ uncovered = {}
  /\ others = 0 /\ faults = 0

Fault == faults < MaxFaults /\ faults' = faults + 1
Other == others < MaxOthers /\ others' = others + 1

-----------------------------------------------------------------------------
(* pollLoop.                                                               *)

\* A response: the messages after the cursor, up to some later one, and a new
\* cursor or none.  The cursor is in the state file, unless the write fails,
\* before the first message is looked at.  Errors only delay the next request.
GetUpdates ==
  /\ poll = "poll"
  /\ \E last \in syncBuf..Len(Inbox) :
       /\ batch' = [i \in 1..(last - syncBuf) |-> syncBuf + i]
       /\ \/ syncBuf' = last /\ disk' = last /\ UNCHANGED <<uncovered, faults>>
          \/ /\ syncBuf' = last /\ UNCHANGED disk /\ Fault
             /\ uncovered' = uncovered \cup (syncBuf + 1)..last
          \/ /\ UNCHANGED <<syncBuf, disk>> /\ Fault
             /\ uncovered' = uncovered \cup (syncBuf + 1)..last
  /\ poll' = "batch"
  /\ UNCHANGED <<dedup, media, item, inboundCh, turn, text, engine, mine, fate, others>>

AtHead(m) == batch # <<>> /\ m = Head(batch) /\ poll = "batch"
Duplicate(m) == m \in dedup

\* The connector's own message, or one seen before.
Skip(m) ==
  /\ AtHead(m)
  /\ Inbox[m].kind = "own" \/ Duplicate(m)
  /\ batch' = Tail(batch)
  /\ dropped' = IF Inbox[m].kind = "own" THEN dropped \cup {m} ELSE dropped
  /\ UNCHANGED <<cursor, poll, media, item, inboundCh, turn, text, engine, mine,
                 lost, routed, again, forgotten, bounds>>

\* Mutant: the message is not looked up.
SeenNever(m) ==
  /\ AtHead(m)
  /\ Inbox[m].kind # "own"
  /\ dedup' = dedup \cup {m}
  /\ batch' = Tail(batch)
  /\ UNCHANGED <<disk, syncBuf, uncovered, inboundCh, turn, text, engine, mine, lost, routed,
                 again, forgotten, bounds>>

\* dedup.Add answers that the message is new.
Seen(m) ==
  /\ AtHead(m)
  /\ Inbox[m].kind # "own" /\ ~Duplicate(m)
  /\ dedup' = dedup \cup {m}
  /\ batch' = Tail(batch)
  /\ UNCHANGED <<disk, syncBuf, uncovered, inboundCh, turn, text, engine, mine, lost, routed,
                 again, forgotten, bounds>>

\* A message with nothing in it, or an attachment that could not be fetched;
\* its caption goes with it.
Drop(m) ==
  /\ Seen(m)
  /\ Inbox[m].kind = "media" \/ (Inbox[m].kind = "blank" /\ media = <<>>)
  /\ dropped' = dropped \cup {m}
  /\ UNCHANGED <<poll, media, item>>

\* An attachment joins those of the same user, or pushes those of another out.
Merge(m) ==
  /\ Seen(m)
  /\ Inbox[m].kind = "media"
  /\ IF media = <<>> \/ From(Head(media)) = From(m)
       THEN media' = Append(media, m) /\ UNCHANGED <<poll, item>>
       ELSE media' = <<m>> /\ item' = media /\ poll' = "enqueue"
  /\ UNCHANGED dropped

\* Mutant: a text does not wait for the attachments before it.
TextAtOnce(m) ==
  /\ Seen(m)
  /\ Inbox[m].kind = "text"
  /\ item' = <<m>> /\ poll' = "enqueue"
  /\ UNCHANGED <<media, dropped>>

Text(m) ==
  /\ Seen(m)
  /\ Inbox[m].kind = "text" /\ media = <<>>
  /\ item' = <<m>> /\ poll' = "enqueue"
  /\ UNCHANGED <<media, dropped>>

\* Mutant: what is left at the end of the response is forgotten.
FlushForgets ==
  /\ poll = "batch" /\ media # <<>>
  /\ media' = <<>>
  /\ IF batch = <<>>
       THEN poll' = "poll" /\ UNCHANGED item
       ELSE /\ Inbox[Head(batch)].kind \in {"text", "blank"} /\ ~Duplicate(Head(batch))
            /\ item' = media /\ poll' = "enqueue"
  /\ UNCHANGED <<cursor, batch, inboundCh, turn, text, engine, mine, fate, bounds>>

\* The attachments go out before a text, and at the end of the response.
Flush ==
  /\ poll = "batch" /\ media # <<>>
  /\ \/ batch = <<>>
     \/ batch # <<>> /\ Inbox[Head(batch)].kind \in {"text", "blank"} /\ ~Duplicate(Head(batch))
  /\ item' = media /\ media' = <<>> /\ poll' = "enqueue"
  /\ UNCHANGED <<cursor, batch, inboundCh, turn, text, engine, mine, fate, bounds>>

EndBatch ==
  /\ poll = "batch" /\ batch = <<>> /\ media = <<>>
  /\ poll' = "poll"
  /\ UNCHANGED <<cursor, batch, media, item, inboundCh, turn, text, engine, mine,
                 fate, bounds>>

\* enqueue reads the busy flag first.
ReadBusy ==
  /\ poll = "enqueue"
  /\ poll' = IF IsBusy THEN "attach" ELSE "send"
  /\ UNCHANGED <<cursor, batch, media, item, inboundCh, turn, text, engine, mine,
                 fate, bounds>>

Routed ==
  /\ routed' = routed \cup Range(item)
  /\ again' = again \cup (routed \cap Range(item))
  /\ item' = <<>>
  /\ poll' = "batch"
  /\ UNCHANGED <<lost, forgotten>>

Attach ==
  /\ poll = "attach"
  /\ attachments' = attachments \cup Range(item)
  /\ kicks' = kicks + 1
  /\ Routed
  /\ UNCHANGED <<cursor, batch, media, inboundCh, turn, text, closing, queryActive,
                 run, asks, mine, dropped, bounds>>

\* The send never waits: into a full channel the messages are dropped.
Send ==
  /\ poll = "send"
  /\ IF Len(inboundCh) < Capacity
       THEN /\ inboundCh' = Append(inboundCh, item)
            /\ Routed /\ UNCHANGED dropped
       ELSE /\ dropped' = dropped \cup Range(item)
            /\ item' = <<>> /\ poll' = "batch"
            /\ UNCHANGED <<inboundCh, lost, routed, again, forgotten>>
  /\ UNCHANGED <<cursor, batch, media, turn, text, engine, mine, bounds>>

\* The entry of a message is older than the TTL.
Expire(m) ==
  /\ Fault
  /\ m \in dedup /\ poll = "poll"
  /\ dedup' = dedup \ {m}
  /\ forgotten' = forgotten \cup {m}
  /\ UNCHANGED <<disk, syncBuf, uncovered, polling, inboundCh, turn, text, engine, mine,
                 dropped, lost, routed, again, others>>

Poll ==
  \/ GetUpdates \/ Flush \/ EndBatch \/ ReadBusy \/ Attach \/ Send
  \/ \E m \in Message : Skip(m) \/ Drop(m) \/ Merge(m) \/ Text(m) \/ Expire(m)

-----------------------------------------------------------------------------
(* Handle.                                                                 *)

\* flushBuffer: nobody to send to, a message sent, or a send that failed and
\* leaves the text for the next flush.
FlushBuffer ==
  \/ /\ activeUserID = None
     /\ emitted' = emitted \ buffer
     /\ buffer' = {} /\ UNCHANGED <<told, faults>>
  \/ /\ activeUserID # None
     /\ told' = told \cup ({activeUserID} \X buffer)
     /\ buffer' = {} /\ UNCHANGED <<emitted, faults>>
  \/ /\ activeUserID # None /\ buffer # {} /\ Fault
     /\ UNCHANGED text

\* Mutant: a failed query leaves the turn open.
QueryEndOnSuccess(failed) ==
  /\ FlushBuffer
  /\ queryDone' = (queryDone /\ failed)
  /\ UNCHANGED <<handler, asking, activeUserID>>

\* A query_end, whosever it is: flush, and close the channel of the turn.
QueryEnd(failed) ==
  /\ FlushBuffer
  /\ queryDone' = FALSE
  /\ UNCHANGED <<handler, asking, activeUserID>>

\* A text block of a run ends; after five seconds without a flush it is sent.
EmitText(g) ==
  /\ Live(g) /\ asks[g] # {} /\ g \notin emitted
  /\ \/ emitted' = emitted \cup {g} /\ buffer' = buffer \cup {g} /\ UNCHANGED told
     \/ /\ activeUserID # None
        /\ emitted' = emitted \cup {g} /\ buffer' = {}
        /\ told' = told \cup ({activeUserID} \X (buffer \cup {g}))
  /\ UNCHANGED <<cursor, polling, inboundCh, turn, engine, mine, fate, bounds>>

\* A sub-agent's query_end reaches the hub like any other.
AgentEnd(g) ==
  /\ Live(g) /\ asks[g] # {} /\ Other
  /\ QueryEnd(FALSE)
  /\ UNCHANGED <<cursor, polling, inboundCh, engine, mine, fate>>

-----------------------------------------------------------------------------
(* The engine.                                                             *)

Begin(question) ==
  /\ run' = Append(run, "live")
  /\ asks' = Append(asks, question)
  /\ queryActive' = TRUE

\* Another source puts an item into the queue.
EnqueueNotice ==
  /\ Other
  /\ attachments' = attachments \cup {Notice}
  /\ kicks' = kicks + 1
  /\ UNCHANGED <<cursor, polling, inboundCh, turn, text, closing, queryActive, run,
                 asks, mine, fate, faults>>

Kick ==
  /\ kicks > 0 /\ kicks' = kicks - 1
  /\ IF attachments = {} \/ IsBusy \/ closing
       THEN UNCHANGED <<queryActive, run, asks>>
       ELSE Len(run) < MaxRuns /\ Begin({})
  /\ UNCHANGED <<cursor, polling, inboundCh, turn, text, closing, attachments, mine,
                 fate, bounds>>

\* A run attaches what is queued, at its start or at a turn boundary.
Drain(g) ==
  /\ Live(g) /\ attachments # {}
  /\ asks' = [asks EXCEPT ![g] = @ \cup attachments]
  /\ attachments' = {}
  /\ UNCHANGED <<cursor, polling, inboundCh, turn, text, closing, queryActive, run,
                 mine, kicks, fate, bounds>>

\* An attachment run that finds the queue emptied leaves without an event.
FindNothing(g) ==
  /\ Live(g) /\ asks[g] = {} /\ attachments = {}
  /\ run' = [run EXCEPT ![g] = "ended"]
  /\ UNCHANGED <<cursor, polling, inboundCh, turn, text, closing, queryActive,
                 attachments, asks, mine, kicks, fate, bounds>>

\* The run's last event, of an answer or of a failure.
RunEnds(g) ==
  /\ Live(g) /\ asks[g] # {}
  /\ run' = [run EXCEPT ![g] = "ended"]
  /\ \E failed \in BOOLEAN : QueryEnd(failed)
  /\ UNCHANGED <<cursor, polling, inboundCh, closing, queryActive, attachments, asks,
                 mine, kicks, fate, others>>

\* endQuery: the newest run releases the engine and kicks.
EndQuery(g) ==
  /\ run[g] = "ended"
  /\ run' = [run EXCEPT ![g] = "done"]
  /\ IF g = Len(run)
       THEN queryActive' = FALSE /\ kicks' = kicks + 1
       ELSE UNCHANGED <<queryActive, kicks>>
  /\ UNCHANGED <<cursor, polling, inboundCh, turn, text, closing, attachments, asks,
                 mine, fate, bounds>>

Close ==
  /\ ~closing /\ closing' = TRUE /\ Fault
  /\ UNCHANGED <<cursor, polling, inboundCh, turn, text, queryActive, attachments,
                 run, asks, mine, kicks, fate, others>>

Engine ==
  \/ EnqueueNotice \/ Kick \/ Close
  \/ \E g \in Runs : \/ EmitText(g) \/ AgentEnd(g) \/ Drain(g)
                     \/ FindNothing(g) \/ RunEnds(g) \/ EndQuery(g)

-----------------------------------------------------------------------------
(* processLoop.                                                            *)

\* handleInbound up to the query.
Receive ==
  /\ handler = "idle" /\ inboundCh # <<>>
  /\ handler' = "ask"
  /\ asking' = Head(inboundCh) /\ inboundCh' = Tail(inboundCh)
  /\ activeUserID' = From(Head(Head(inboundCh)))
  /\ queryDone' = TRUE
  /\ UNCHANGED <<cursor, polling, text, engine, mine, fate, bounds>>

\* The query: it takes the engine over, or, on a closed engine, is answered
\* with a query_end before it returns.
Ask ==
  /\ handler = "ask" /\ handler' = "wait"
  /\ IF closing
       THEN /\ FlushBuffer /\ queryDone' = FALSE
            /\ dropped' = dropped \cup Range(asking)
            /\ UNCHANGED <<queryActive, run, asks, mine>>
       ELSE /\ Len(run) < MaxRuns
            /\ Begin(Range(asking))
            /\ mine' = mine \cup {Len(run) + 1}
            /\ UNCHANGED <<queryDone, text, dropped, faults>>
  /\ asking' = <<>>
  /\ UNCHANGED <<cursor, polling, inboundCh, activeUserID, closing, attachments, kicks,
                 lost, routed, again, forgotten, others>>

Return ==
  /\ handler = "wait" /\ ~queryDone
  /\ handler' = "idle"
  /\ UNCHANGED <<cursor, polling, inboundCh, asking, queryDone, activeUserID, text,
                 engine, mine, fate, bounds>>

Process == Receive \/ Ask \/ Return

-----------------------------------------------------------------------------
(* The process.                                                            *)

\* The process stops at any point and starts again from the state file.
Crash ==
  /\ Fault
  /\ forgotten' = forgotten \cup dedup
  /\ lost' = lost \cup ((1..disk) \ dropped)
  /\ syncBuf' = disk /\ dedup' = {}
  /\ poll' = "poll" /\ batch' = <<>> /\ media' = <<>> /\ item' = <<>>
  /\ inboundCh' = <<>>
  /\ handler' = "idle" /\ asking' = <<>> /\ queryDone' = FALSE /\ activeUserID' = None
  /\ buffer' = {} /\ emitted' = {}
  /\ closing' = FALSE /\ queryActive' = FALSE /\ attachments' = {} /\ kicks' = 0
  /\ run' = [g \in Runs |-> "done"]
  /\ UNCHANGED <<disk, uncovered, told, asks, mine, dropped, routed, again, others>>

Next == Poll \/ Engine \/ Process \/ Crash

Spec == Init /\ [][Next]_vars

-----------------------------------------------------------------------------
(* Properties.                                                             *)

PollType ==
  /\ disk \in 0..Len(Inbox) /\ syncBuf \in 0..Len(Inbox) /\ disk <= syncBuf
  /\ dedup \subseteq Message /\ dropped \subseteq Message /\ lost \subseteq Message
  /\ routed \subseteq Message /\ again \subseteq Message /\ forgotten \subseteq Message
  /\ uncovered \subseteq Message
  /\ poll \in {"poll", "batch", "enqueue", "attach", "send"}
  /\ batch \in Seq(Message) /\ media \in Seq(Message) /\ item \in Seq(Message)
  /\ (poll \in {"enqueue", "attach", "send"}) = (item # <<>>)

TurnType ==
  /\ inboundCh \in Seq(Seq(Message) \ {<<>>}) /\ Len(inboundCh) <= Capacity
  /\ handler \in {"idle", "ask", "wait"}
  /\ asking \in Seq(Message) /\ (handler = "ask") = (asking # <<>>)
  /\ activeUserID \in User \cup {None} /\ queryDone \in BOOLEAN

EngineType ==
  /\ closing \in BOOLEAN /\ queryActive \in BOOLEAN
  /\ attachments \subseteq Message \cup {Notice}
  /\ run \in Seq({"live", "ended", "done"}) /\ Len(run) <= MaxRuns
  /\ asks \in Seq(SUBSET (Message \cup {Notice})) /\ Len(asks) = Len(run)
  /\ mine \subseteq Runs /\ buffer \subseteq Runs /\ emitted \subseteq Runs
  /\ told \subseteq User \X Runs
  /\ kicks \in Nat /\ others \in Nat /\ faults \in Nat

\* Every variable has its type, and what is held goes with the place that holds it.
TypeOK == PollType /\ TurnType /\ EngineType

\* No message is lost on the way: one the cursor has passed is in pollLoop's
\* hands, in inboundCh, in the engine's queue or in a conversation, unless it
\* was left aside on purpose or a crash took it (processBatch, enqueue,
\* processLoop).
Accounted ==
  \A m \in 1..syncBuf :
    m \in Range(batch) \cup Range(media) \cup Range(item) \cup Range(asking)
          \cup (UNION {Range(queued) : queued \in Range(inboundCh)})
          \cup attachments \cup (UNION Range(asks)) \cup dropped \cup lost

\* A message is answered at most once, over crashes too, unless the server
\* delivered it without a cursor that reached the state file and its dedup
\* entry was lost as well (pollLoop saves before processBatch routes; dedup).
AtMostOnce == again \subseteq uncovered \cap forgotten

\* Text of a turn is in the buffer until it was sent: a failed send keeps it
\* for the next flush (flushBuffer).
TextKept == \A g \in emitted : g \in buffer \/ \E u \in User : <<u, g>> \in told

\* handleInbound waits only while a query it began is still to end: no order of
\* making the channel, asking, other turns' ends and Close leaves processLoop
\* waiting for a query_end that is past.
TurnHasEnd == (handler = "wait" /\ queryDone) => \E g \in mine : Live(g)

\* Messages are handed on in the order the server holds them, the attachments
\* of a user before the text that follows them (processBatch).
InOrder ==
  [][\A m \in routed' \ routed : m \in dropped \/ \A n \in routed : n < m]_vars

\* One query at a time: processLoop takes its next message only after the query
\* of the last one has ended (handleInbound).  The query_end of a sub-agent or
\* of another source's turn breaks it.
OneAtATime == Cardinality({g \in mine : Live(g)}) <= 1
=============================================================================
