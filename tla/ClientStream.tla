---------------------------- MODULE ClientStream ----------------------------
(***************************************************************************)
(* The stream of engine events to the browser: onEngineEvent, sendMetadata,*)
(* serveHistoryPage, the outbound queues and wsWriter of pkg/wui           *)
(* (connector.go), serveChatWS (server.go), and the browser's side of it   *)
(* (web/ui/src/chat.ts).  One engine slot, one client at a time: a new     *)
(* connection takes over from the old one.                                 *)
(*                                                                         *)
(* Events are numbered in the order their effects enter the slot's state;  *)
(* a page carries the number of effects it was frozen with.  A queue is    *)
(* known by the order of its creation.  A browser handles a frame when it  *)
(* is written to its connection; what it asks for takes time to arrive.    *)
(* Followed are the events of one turn: what a query_end moves from the    *)
(* stream into the history is not.                                         *)
(***************************************************************************)
EXTENDS Naturals, Sequences, FiniteSets, Functions

CONSTANTS
  Conn,       \* connections
  Emitter,    \* goroutines that dispatch events: the engine's and its sub-agents'
  Capacity,   \* outQueueCapacity
  MaxEvents,
  MaxUpsets,  \* bound: engine switches, clients that leave and writes that fail on a live one
  None

ASSUME NameAssumption == Conn \cap Emitter = {} /\ None \notin Conn \cup Emitter
ASSUME BoundAssumption ==
  Capacity \in Nat \ {0} /\ MaxEvents \in Nat /\ MaxUpsets \in Nat

VARIABLES
  active,    \* slot.active
  activeWS,
  outQ,      \* the current queue
  queues,    \* every queue: its frames, whether it is closed, whether it was ever pushed to
  ssMu,      \* the holder of slot.ssMu
  clock,     \* wuiMonotonic
  applied,   \* effects in the slot's state
  pc,        \* where each connection's handler and each emitter is
  target,    \* the queue it has loaded
  frame,     \* the frame it is about to push
  again,     \* a handler in sendMetadata returns to its read loop
  myEra,     \* the queue a handler takes for its own
  installed, \* the queue its dial installed
  up,        \* the connection is open on both sides
  writer,    \* where wsWriter is
  batch,     \* the frames it has taken
  writerQ,   \* the queue it took them from
  writerWS,  \* the connection it has loaded
  asks,      \* the nonces of a connection's requests on their way
  nonce,     \* the browser's expectedHistoryNonce, 0 before its first metadata
  pending,   \* its pendingPageZero
  pageSeq,   \* its appliedPageSeq
  has,       \* the effects in the page it shows
  live,      \* the events it has applied to it, in order
  buffer,    \* its pendingEvents
  upsets

slot == <<active, activeWS, applied>>
outbound == <<outQ, queues>>
actor == <<target, frame, again, myEra, installed>>
writing == <<writer, batch, writerQ, writerWS>>
browser == <<nonce, pending, pageSeq, has, live, buffer>>
vars == <<slot, outbound, ssMu, clock, pc, actor, up, writing, asks, browser, upsets>>

Pristine == [frames |-> <<>>, closed |-> FALSE, pushed |-> FALSE]
Metadata == [kind |-> "metadata"]

Goto(a, place) == pc' = [pc EXCEPT ![a] = place]

\* A pusher keeps neither frame nor queue.
Done(a) ==
  /\ target' = [target EXCEPT ![a] = 0]
  /\ frame' = [frame EXCEPT ![a] = Metadata]

\* switchEngine returns to the dial or to the read loop.
Return(c) ==
  /\ again' = [again EXCEPT ![c] = FALSE]
  /\ Goto(c, IF again[c] THEN "read" ELSE "era")

\* The view of a client that is gone is not followed; what it asked for may still
\* be read.
HangUp(c) ==
  /\ up' = [up EXCEPT ![c] = FALSE]
  /\ nonce' = [nonce EXCEPT ![c] = 0] /\ pending' = [pending EXCEPT ![c] = FALSE]
  /\ pageSeq' = [pageSeq EXCEPT ![c] = 0] /\ has' = [has EXCEPT ![c] = 0]
  /\ live' = [live EXCEPT ![c] = <<>>] /\ buffer' = [buffer EXCEPT ![c] = <<>>]

\* What buildHistory freezes.
Page(c, n) == [kind |-> "page", nonce |-> <<c, n>>, has |-> applied, seq |-> clock + 1]

Init ==
  /\ active = FALSE /\ activeWS = None /\ applied = 0
  /\ queues = <<Pristine>> /\ outQ = 1
  /\ ssMu = None /\ clock = 0
  /\ pc = [a \in Conn \cup Emitter |-> IF a \in Conn THEN "new" ELSE "idle"]
  /\ target = [a \in Conn \cup Emitter |-> 0]
  /\ frame = [a \in Conn \cup Emitter |-> Metadata]
  /\ again = [c \in Conn |-> FALSE]
  /\ myEra = [c \in Conn |-> 0] /\ installed = [c \in Conn |-> 0]
  /\ up = [c \in Conn |-> FALSE]
  /\ writer = "take" /\ batch = <<>> /\ writerQ = 0 /\ writerWS = None
  /\ asks = [c \in Conn |-> <<>>]
  /\ nonce = [c \in Conn |-> 0] /\ pending = [c \in Conn |-> FALSE]
  /\ pageSeq = [c \in Conn |-> 0] /\ has = [c \in Conn |-> 0]
  /\ live = [c \in Conn |-> <<>>] /\ buffer = [c \in Conn |-> <<>>]
  /\ upsets = 0

-----------------------------------------------------------------------------
(* The outbound queue.                                                     *)

\* push: it waits while the queue is full, and drops the frame once it closed.
Pushed(q, f) ==
  \/ queues[q].closed /\ UNCHANGED queues
  \/ /\ ~queues[q].closed /\ Len(queues[q].frames) < Capacity
     /\ queues' = [queues EXCEPT ![q].frames = Append(@, f), ![q].pushed = TRUE]

Closed(q) == [queues EXCEPT ![q] = [frames |-> <<>>, closed |-> TRUE, pushed |-> TRUE]]

-----------------------------------------------------------------------------
(* onEngineEvent.                                                          *)

\* Under ssMu the effect enters the state.  When nobody listens that is all;
Apply(e) ==
  /\ pc[e] = "idle" /\ ssMu = None /\ applied < MaxEvents
  /\ applied' = applied + 1
  /\ IF active /\ activeWS # None
       THEN /\ ssMu' = e
            /\ frame' = [frame EXCEPT ![e] =
                 [kind |-> "event", id |-> applied + 1, by |-> e, seq |-> 0]]
            /\ Goto(e, "capture")
       ELSE UNCHANGED <<ssMu, frame, pc>>
  /\ UNCHANGED <<active, activeWS, outbound, clock, target, again, myEra, installed, up,
                 writing, asks, browser, upsets>>

\* Mutant: the counter is read and not advanced.
CaptureLastNumber(e) ==
  /\ pc[e] = "capture"
  /\ target' = [target EXCEPT ![e] = outQ]
  /\ frame' = [frame EXCEPT ![e].seq = clock]
  /\ ssMu' = None
  /\ Goto(e, "push")
  /\ UNCHANGED <<slot, outbound, clock, again, myEra, installed, up, writing, asks, browser,
                 upsets>>

\* else, still under ssMu, the queue of the moment and the frame's number.
Capture(e) ==
  /\ pc[e] = "capture"
  /\ target' = [target EXCEPT ![e] = outQ]
  /\ clock' = clock + 1
  /\ frame' = [frame EXCEPT ![e].seq = clock + 1]
  /\ ssMu' = None
  /\ Goto(e, "push")
  /\ UNCHANGED <<slot, outbound, again, myEra, installed, up, writing, asks, browser,
                 upsets>>

\* Outside ssMu: a parked emitter holds no lock.
Push(e) ==
  /\ pc[e] = "push"
  /\ Pushed(target[e], frame[e])
  /\ Done(e)
  /\ Goto(e, "idle")
  /\ UNCHANGED <<slot, outQ, ssMu, clock, again, myEra, installed, up, writing, asks,
                 browser, upsets>>

Emit(e) == Apply(e) \/ Capture(e) \/ Push(e)

-----------------------------------------------------------------------------
(* serveChatWS: the takeover.                                              *)

Dial(c) ==
  /\ pc[c] = "new"
  /\ up' = [up EXCEPT ![c] = TRUE]
  /\ active' = FALSE
  /\ Goto(c, "swapQ")
  /\ UNCHANGED <<activeWS, applied, outbound, ssMu, clock, actor, writing, asks,
                 browser, upsets>>

\* A new queue; the old one is closed, whoever waits on it goes on.
SwapQueue(c) ==
  /\ pc[c] = "swapQ"
  /\ queues' = Append(Closed(outQ), Pristine)
  /\ outQ' = Len(queues) + 1
  /\ installed' = [installed EXCEPT ![c] = Len(queues) + 1]
  /\ Goto(c, "swapWS")
  /\ UNCHANGED <<slot, ssMu, clock, target, frame, again, myEra, up, writing, asks,
                 browser, upsets>>

\* Then the connection; the old one is closed.
SwapConn(c) ==
  /\ pc[c] = "swapWS"
  /\ activeWS' = c
  /\ IF activeWS = None THEN UNCHANGED <<up, browser>> ELSE HangUp(activeWS)
  /\ Goto(c, "switch")
  /\ UNCHANGED <<active, applied, outbound, ssMu, clock, actor, writing, asks, upsets>>

\* switchEngine: no event reaches a client before its metadata,
Handshake(c) ==
  /\ active' = FALSE
  /\ again' = [again EXCEPT ![c] = (pc[c] = "read")]
  /\ Goto(c, "greet")
  /\ UNCHANGED <<activeWS, applied, outbound, ssMu, clock, target, frame, myEra, installed,
                 up, writing, asks, browser>>

SwitchEngine(c) == pc[c] = "switch" /\ Handshake(c) /\ UNCHANGED upsets

\* which goes to whoever is connected by now.
Greet(c) ==
  /\ pc[c] = "greet"
  /\ IF activeWS = None
       THEN active' = TRUE /\ Return(c)
       ELSE Goto(c, "meta") /\ UNCHANGED <<active, again>>
  /\ UNCHANGED <<activeWS, applied, outbound, ssMu, clock, target, frame, myEra, installed,
                 up, writing, asks, browser, upsets>>

LoadEra(c) ==
  /\ pc[c] = "era"
  /\ myEra' = [myEra EXCEPT ![c] = outQ]
  /\ Goto(c, "read")
  /\ UNCHANGED <<slot, outbound, ssMu, clock, target, frame, again, installed, up, writing,
                 asks, browser, upsets>>

-----------------------------------------------------------------------------
(* sendMetadata, all of it under ssMu.                                     *)

\* isPristine is asked of the queue loaded here.
LoadQueue(c) ==
  /\ pc[c] = "meta" /\ ssMu = None
  /\ ssMu' = c
  /\ target' = [target EXCEPT ![c] = outQ]
  /\ Goto(c, IF queues[outQ].pushed THEN "flip" ELSE "metadata")
  /\ UNCHANGED <<slot, outbound, clock, frame, again, myEra, installed, up, writing,
                 asks, browser, upsets>>

\* Metadata is in the queue, and the slot active, before ssMu is free.
Activate(c) ==
  /\ active' = TRUE
  /\ ssMu' = None
  /\ Done(c)
  /\ Return(c)
  /\ UNCHANGED <<activeWS, applied, clock, myEra, installed, up, writing, asks, browser,
                 upsets>>

\* A queue that was used makes room for one that starts with metadata.
Flip(c) ==
  /\ pc[c] = "flip"
  /\ queues' = Append(Closed(target[c]), [Pristine EXCEPT !.frames = <<Metadata>>, !.pushed = TRUE])
  /\ outQ' = Len(queues) + 1
  /\ Activate(c)

PushMetadata(c) ==
  /\ pc[c] = "metadata"
  /\ Pushed(target[c], Metadata) /\ UNCHANGED outQ
  /\ Activate(c)

-----------------------------------------------------------------------------
(* The read loop of a connection, and its end.                             *)

\* serveHistoryPage, all of it under ssMu: the freeze and the number,
FreezePage(c) ==
  /\ pc[c] = "read" /\ asks[c] # <<>> /\ ssMu = None
  /\ ssMu' = c
  /\ clock' = clock + 1
  /\ frame' = [frame EXCEPT ![c] = Page(c, Head(asks[c]))]
  /\ asks' = [asks EXCEPT ![c] = Tail(@)]
  /\ Goto(c, "loadQ")
  /\ UNCHANGED <<slot, outbound, target, again, myEra, installed, up, writing, browser,
                 upsets>>

\* the queue of sendWS,
LoadPageQueue(c) ==
  /\ pc[c] = "loadQ"
  /\ target' = [target EXCEPT ![c] = outQ]
  /\ Goto(c, "page")
  /\ UNCHANGED <<slot, outbound, ssMu, clock, frame, again, myEra, installed, up, writing,
                 asks, browser, upsets>>

\* and the push, which may wait.
PushPage(c) ==
  /\ pc[c] = "page"
  /\ Pushed(target[c], frame[c])
  /\ ssMu' = None
  /\ Done(c)
  /\ Goto(c, "read")
  /\ UNCHANGED <<slot, outQ, clock, again, myEra, installed, up, writing, asks, browser,
                 upsets>>

\* An engine_switch frame, read before its connection was closed if that is closed
\* by now; a session_switch, refused during a turn, ends the same.
EngineSwitch(c) ==
  /\ pc[c] = "read" /\ upsets < MaxUpsets
  /\ upsets' = upsets + 1
  /\ Handshake(c)

\* The browser leaves, or the network does.
Disconnect(c) ==
  /\ up[c] /\ pc[c] = "read" /\ upsets < MaxUpsets
  /\ upsets' = upsets + 1
  /\ HangUp(c)
  /\ UNCHANGED <<slot, outbound, ssMu, clock, pc, actor, writing, asks>>

Leave(c) ==
  /\ pc[c] = "read" /\ ~up[c]
  /\ myEra' = [myEra EXCEPT ![c] = 0]
  /\ Goto(c, IF myEra[c] = outQ THEN "deactivate" ELSE "forget")
  /\ UNCHANGED <<slot, outbound, ssMu, clock, target, frame, again, installed, up, writing,
                 asks, browser, upsets>>

Deactivate(c) ==
  /\ pc[c] = "deactivate"
  /\ active' = FALSE
  /\ Goto(c, "forget")
  /\ UNCHANGED <<activeWS, applied, outbound, ssMu, clock, actor, up, writing, asks,
                 browser, upsets>>

Forget(c) ==
  /\ pc[c] = "forget"
  /\ activeWS' = IF activeWS = c THEN None ELSE activeWS
  /\ installed' = [installed EXCEPT ![c] = 0]
  /\ asks' = [asks EXCEPT ![c] = <<>>]
  /\ Goto(c, "gone")
  /\ UNCHANGED <<active, applied, outbound, ssMu, clock, target, frame, again, myEra, up,
                 writing, browser, upsets>>

Serve(c) ==
  \/ Dial(c) \/ SwapQueue(c) \/ SwapConn(c) \/ SwitchEngine(c) \/ Greet(c) \/ LoadEra(c)
  \/ LoadQueue(c) \/ Flip(c) \/ PushMetadata(c)
  \/ FreezePage(c) \/ LoadPageQueue(c) \/ PushPage(c) \/ EngineSwitch(c)
  \/ Disconnect(c) \/ Leave(c) \/ Deactivate(c) \/ Forget(c)

-----------------------------------------------------------------------------
(* The browser, at the frame it receives.                                  *)

\* resetAllState and the request for page 0.  The page that chat.ts keeps of an idle
\* engine, and shows without asking, is left out: every metadata frame asks.

\* Mutant: who waits for a page does not ask again.
ResetAskOnce(c) ==
  /\ nonce' = [nonce EXCEPT ![c] = @ + 1]
  /\ asks' = [asks EXCEPT ![c] = IF pending[c] THEN @ ELSE Append(@, nonce[c] + 1)]
  /\ pending' = [pending EXCEPT ![c] = TRUE]
  /\ buffer' = [buffer EXCEPT ![c] = <<>>] /\ live' = [live EXCEPT ![c] = <<>>]
  /\ has' = [has EXCEPT ![c] = 0]
  /\ UNCHANGED pageSeq

Reset(c) ==
  /\ nonce' = [nonce EXCEPT ![c] = @ + 1]
  /\ asks' = [asks EXCEPT ![c] = Append(@, nonce[c] + 1)]
  /\ pending' = [pending EXCEPT ![c] = TRUE]
  /\ buffer' = [buffer EXCEPT ![c] = <<>>]
  /\ live' = [live EXCEPT ![c] = <<>>]
  /\ has' = [has EXCEPT ![c] = 0]
  /\ UNCHANGED pageSeq

\* Mutant: a live event is not compared with the page.
ShowAlways(c, f) ==
  /\ IF pending[c]
       THEN buffer' = [buffer EXCEPT ![c] = Append(@, f)] /\ UNCHANGED live
       ELSE live' = [live EXCEPT ![c] = Append(@, f)] /\ UNCHANGED buffer
  /\ UNCHANGED <<asks, nonce, pending, pageSeq, has>>

Show(c, f) ==
  /\ CASE pending[c] -> buffer' = [buffer EXCEPT ![c] = Append(@, f)] /\ UNCHANGED live
       [] ~pending[c] /\ pageSeq[c] # 0 /\ f.seq <= pageSeq[c] -> UNCHANGED <<buffer, live>>
       [] OTHER -> live' = [live EXCEPT ![c] = Append(@, f)] /\ UNCHANGED buffer
  /\ UNCHANGED <<asks, nonce, pending, pageSeq, has>>

\* The buffered events that are later than the page, in their order.
Replayed(s, n) ==
  LET kept[i \in 0..Len(s)] ==
        IF i = 0 THEN <<>>
        ELSE IF s[i].seq > n THEN Append(kept[i - 1], s[i]) ELSE kept[i - 1]
  IN  kept[Len(s)]

\* applyPage0; another nonce's page is dropped.
ApplyPage(c, f) ==
  /\ IF f.nonce = <<c, nonce[c]>> /\ pending[c]
       THEN /\ pending' = [pending EXCEPT ![c] = FALSE]
            /\ pageSeq' = [pageSeq EXCEPT ![c] = f.seq]
            /\ has' = [has EXCEPT ![c] = f.has]
            /\ live' = [live EXCEPT ![c] = @ \o Replayed(buffer[c], f.seq)]
            /\ buffer' = [buffer EXCEPT ![c] = <<>>]
       ELSE UNCHANGED <<pending, pageSeq, has, live, buffer>>
  /\ UNCHANGED <<asks, nonce>>

Receive(c, f) ==
  CASE f.kind = "metadata" -> Reset(c)
    [] f.kind = "event" -> Show(c, f)
    [] f.kind = "page" -> ApplyPage(c, f)

-----------------------------------------------------------------------------
(* wsWriter.                                                               *)

Take ==
  /\ writer = "take" /\ queues[outQ].frames # <<>>
  /\ batch' = queues[outQ].frames
  /\ queues' = [queues EXCEPT ![outQ].frames = <<>>]
  /\ writerQ' = outQ
  /\ writer' = "conn"
  /\ UNCHANGED <<slot, outQ, ssMu, clock, pc, actor, up, writerWS, asks, browser, upsets>>

\* Between two frames: the batch goes on, or the next one is awaited.
Proceed(rest) ==
  /\ batch' = rest
  /\ writer' = IF rest = <<>> THEN "take" ELSE "conn"
  /\ writerQ' = IF rest = <<>> THEN 0 ELSE writerQ
  /\ writerWS' = None

LoadConn ==
  /\ writer = "conn"
  /\ writerWS' = activeWS
  /\ writer' = "era"
  /\ UNCHANGED <<slot, outbound, ssMu, clock, pc, actor, up, batch, writerQ, asks, browser,
                 upsets>>

\* Mutant: the batch goes on whatever became of its queue.
CheckConnOnly ==
  /\ writer = "era"
  /\ IF writerWS = None THEN Proceed(Tail(batch))
       ELSE writer' = "write" /\ UNCHANGED <<batch, writerQ, writerWS>>
  /\ UNCHANGED <<slot, outbound, ssMu, clock, pc, actor, up, asks, browser, upsets>>

CheckEra ==
  /\ writer = "era"
  /\ CASE outQ # writerQ -> Proceed(<<>>)
       [] outQ = writerQ /\ writerWS = None -> Proceed(Tail(batch))
       [] OTHER -> writer' = "write" /\ UNCHANGED <<batch, writerQ, writerWS>>
  /\ UNCHANGED <<slot, outbound, ssMu, clock, pc, actor, up, asks, browser, upsets>>

Write ==
  /\ writer = "write" /\ up[writerWS]
  /\ Receive(writerWS, Head(batch))
  /\ Proceed(Tail(batch))
  /\ UNCHANGED <<slot, outbound, ssMu, clock, pc, actor, up, upsets>>

\* The deadline passes or the connection is gone: it is given up, not closed.
WriteFails ==
  /\ writer = "write"
  /\ IF up[writerWS] THEN upsets < MaxUpsets /\ upsets' = upsets + 1 ELSE UNCHANGED upsets
  /\ activeWS' = IF activeWS = writerWS THEN None ELSE activeWS
  /\ Proceed(Tail(batch))
  /\ UNCHANGED <<active, applied, outbound, ssMu, clock, pc, actor, up, asks, browser>>

\* The kernel takes a frame nobody will read.
WriteLost ==
  /\ writer = "write" /\ ~up[writerWS]
  /\ Proceed(Tail(batch))
  /\ UNCHANGED <<slot, outbound, ssMu, clock, pc, actor, up, asks, browser, upsets>>

wsWriter == Take \/ LoadConn \/ CheckEra \/ Write \/ WriteFails \/ WriteLost

-----------------------------------------------------------------------------
Next == (\E e \in Emitter : Emit(e)) \/ (\E c \in Conn : Serve(c)) \/ wsWriter

Spec == Init /\ [][Next]_vars

-----------------------------------------------------------------------------
Ids(s) == {s[i].id : i \in 1..Len(s)}

Dialling == {"swapQ", "swapWS", "switch", "greet", "meta", "flip", "metadata"}

\* Where a frame for the current connection can be: a queue the writer still
\* asks, the batch it has taken from it, the hand of a pusher.
OnItsWay(f) ==
  \/ f \in Range(queues[outQ].frames)
  \/ writerQ = outQ /\ f \in Range(batch)
  \/ \E a \in Conn \cup Emitter : pc[a] \in {"push", "page"} /\ target[a] = outQ /\ frame[a] = f

\* c is the client, its handshake is over and no other is under way.
Settled(c) ==
  /\ active /\ activeWS = c /\ up[c] /\ pc[c] \in {"read", "loadQ", "page"}
  /\ \A d \in Conn : pc[d] \notin Dialling
  /\ ~OnItsWay(Metadata)

Shown(c) == Settled(c) /\ nonce[c] # 0 /\ ~pending[c]

\* Every variable has its type; the frames of a queue stay within its capacity.
TypeOK ==
  /\ active \in BOOLEAN /\ activeWS \in Conn \cup {None} /\ applied \in 0..MaxEvents
  /\ outQ \in 1..Len(queues)
  /\ \A q \in 1..Len(queues) : Len(queues[q].frames) <= Capacity
  /\ ssMu \in Conn \cup Emitter \cup {None} /\ clock \in Nat
  /\ pc \in [Conn \cup Emitter ->
       {"new", "era", "read", "loadQ", "page", "deactivate", "forget", "gone",
        "idle", "capture", "push"} \cup Dialling]
  /\ target \in [Conn \cup Emitter -> 0..Len(queues)]
  /\ up \in [Conn -> BOOLEAN] /\ writer \in {"take", "conn", "era", "write"}
  /\ writerWS \in Conn \cup {None} /\ writerQ \in 0..Len(queues)
  /\ Len(batch) <= Capacity /\ upsets \in 0..MaxUpsets
  /\ \A c \in Conn : Len(live[c]) <= MaxEvents /\ has[c] \in 0..MaxEvents

\* What a browser shows on top of its page it shows once, and the page does not
\* hold it already (onEngineEvent's and serveHistoryPage's numbers under ssMu,
\* chat.ts's comparison with appliedPageSeq).
ViewOnce ==
  \A c \in Conn : nonce[c] # 0 /\ ~pending[c] =>
    /\ \A i, j \in 1..Len(live[c]) : live[c][i].id = live[c][j].id => i = j
    /\ \A i \in 1..Len(live[c]) : live[c][i].id > has[c]

\* The current client misses nothing: an effect that is not in its page is on
\* its screen or on its way (the capture under ssMu, sendMetadata's activation
\* in the section that resets the client).
NothingMissed ==
  \A c \in Conn : Shown(c) =>
    \A i \in (has[c] + 1)..applied :
      \/ i \in Ids(live[c])
      \/ \E e \in Emitter : frame[e].kind = "event" /\ frame[e].id = i /\ pc[e] = "capture"
      \/ \E f \in UNION {Range(queues[outQ].frames), Range(batch), Range(frame)} :
           f.kind = "event" /\ f.id = i /\ OnItsWay(f)

\* A frame of an era before a connection's own is never written to it
\* (serveChatWS swaps the queue first, wsWriter loads the connection first).
NoOldEraFrame ==
  writer = "write" => writerQ >= installed[writerWS]

\* A client that waits for its page gets it: the request, the page or new
\* metadata is on its way (chat.ts buffers every event until then).
PageComing ==
  \A c \in Conn : Settled(c) /\ pending[c] =>
    \/ nonce[c] \in Range(asks[c])
    \/ pc[c] = "loadQ" /\ frame[c].nonce = <<c, nonce[c]>>
    \/ \E f \in UNION {Range(queues[outQ].frames), Range(batch), Range(frame)} :
         f.kind = "page" /\ f.nonce = <<c, nonce[c]>> /\ OnItsWay(f)

\* server.go:136 says that a read loop that ends late does not silence the
\* client that took over.  It does: a handshake may run between the comparison
\* of the eras and the store, and myEra may be the new client's from the start.
Hears ==
  \A c \in Conn :
    /\ activeWS = c /\ up[c] /\ pc[c] = "read"
    /\ \A d \in Conn : pc[d] \notin Dialling \cup {"deactivate"}
    => active
=============================================================================
