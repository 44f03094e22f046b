---------------------------- MODULE WeChatProofs ----------------------------
(***************************************************************************)
(* What WeChat.tla keeps true for any account, users and bounds, from one  *)
(* inductive invariant, WeChatInv.  What pollLoop holds is looked at as    *)
(* three sets of messages, in the order the server numbers them: those     *)
(* being enqueued, the attachments merged, the rest of the response.       *)
(***************************************************************************)
EXTENDS WeChat, SequenceTheorems, TLAPS

Increasing(s) == \A i, j \in 1..Len(s) : i < j => s[i] < s[j]

Rest == Range(batch)
Merged == Range(media)
Item == Range(item)
Held == Rest \cup Merged \cup Item

\* What pollLoop holds is in the server's order, and between two responses it holds nothing.
OrderInv ==
  /\ poll = "poll" => batch = <<>> /\ media = <<>>
  /\ Increasing(batch)
  /\ \A m \in Merged, n \in Rest : m < n
  /\ \A m \in Item, n \in Merged \cup Rest : m < n

\* A message comes a second time only without a saved cursor, and is handed on a second time
\* only without its dedup entry.
AgainInv ==
  /\ Held \cup routed \subseteq (1..disk) \cup uncovered
  /\ Merged \cup Item \cup routed \subseteq dedup \cup forgotten
  /\ Rest \cap routed \subseteq uncovered
  /\ (Merged \cup Item) \cap routed \subseteq uncovered \cap forgotten
  /\ AtMostOnce

\* A message that is still to be handed on is later than all that were; no message is passed
\* over before the cursor that covers it is saved.
RoutedInv ==
  /\ dedup \subseteq Merged \cup Item \cup routed \cup dropped
  /\ \A m \in Message :
       m > disk /\ (m <= syncBuf \/ \E n \in Held : m <= n) => m \in Held \cup routed \cup dropped
  /\ \A m \in Message \ (routed \cup dropped) :
       m > disk \/ m \in Held => \A n \in routed : n < m

Queued == UNION {Range(queued) : queued \in Range(inboundCh)}
Asked == UNION Range(asks)

\* Where a message is that is no longer in the response.
Elsewhere ==
  Merged \cup Item \cup Range(asking) \cup Queued \cup attachments \cup Asked
  \cup dropped \cup lost

AccountInv ==
  /\ 1..syncBuf \subseteq Rest \cup Elsewhere
  /\ dedup \subseteq Elsewhere

TurnInv ==
  /\ TurnHasEnd
  /\ \A g \in mine : asks[g] # {}

WeChatInv ==
  TypeOK /\ OrderInv /\ AgainInv /\ RoutedInv /\ AccountInv /\ TurnInv /\ TextKept

-----------------------------------------------------------------------------
(* Sequences and their ranges.                                             *)

LEMMA Ranges ==
  ASSUME NEW S, NEW s \in Seq(S)
  PROVE  /\ Range(s) = {s[i] : i \in 1..Len(s)}
         /\ Range(s) \subseteq S
         /\ Range(s) = {} <=> s = <<>>
<1>1. DOMAIN s = 1..Len(s) /\ Len(s) \in Nat /\ \A i \in 1..Len(s) : s[i] \in S
  BY LenProperties, ElementOfSeq
<1>2. s = <<>> <=> Len(s) = 0
  BY EmptySeq
<1>3. Range(s) = {s[i] : i \in 1..Len(s)}
  BY <1>1 DEF Range
<1>4. Range(s) = {} <=> 1..Len(s) = {}
  BY <1>3
<1>5. 1..Len(s) = {} <=> Len(s) = 0
  BY <1>1
<1> QED
  BY <1>1, <1>2, <1>3, <1>4, <1>5

LEMMA RangeEmpty == Range(<<>>) = {}
  BY Ranges, EmptySeq

LEMMA RangeOne == ASSUME NEW x PROVE Range(<<x>>) = {x} /\ <<x>> \in Seq({x})
  BY DEF Range

LEMMA RangeAppend ==
  ASSUME NEW S, NEW s \in Seq(S), NEW x \in S
  PROVE  Append(s, x) \in Seq(S) /\ Range(Append(s, x)) = Range(s) \cup {x}
<1> DEFINE t == Append(s, x)
<1>1. /\ t \in Seq(S) /\ Len(t) = Len(s) + 1 /\ t[Len(s) + 1] = x
      /\ \A i \in 1..Len(s) : t[i] = s[i]
  BY AppendProperties
<1>2. Range(t) = {t[i] : i \in 1..Len(t)} /\ Range(s) = {s[i] : i \in 1..Len(s)}
  BY <1>1, Ranges
<1>3. 1..Len(t) = 1..Len(s) \cup {Len(s) + 1}
  BY <1>1
<1> HIDE DEF t
<1>4. Range(t) = Range(s) \cup {x}
  BY <1>1, <1>2, <1>3
<1> QED
  BY <1>1, <1>4 DEF t

LEMMA RangeTail ==
  ASSUME NEW S, NEW s \in Seq(S), s # <<>>
  PROVE  /\ Head(s) \in S /\ Tail(s) \in Seq(S)
         /\ Len(Tail(s)) = Len(s) - 1 /\ Head(s) = s[1]
         /\ \A i \in 1..Len(Tail(s)) : i + 1 \in 1..Len(s) /\ Tail(s)[i] = s[i + 1]
         /\ Range(s) = {Head(s)} \cup Range(Tail(s))
<1> DEFINE t == Tail(s)
<1>1. /\ t \in Seq(S) /\ Len(s) \in Nat \ {0} /\ Len(t) = Len(s) - 1
      /\ Head(s) = s[1] /\ s[1] \in S
      /\ \A i \in 1..Len(t) : i + 1 \in 1..Len(s) /\ t[i] = s[i + 1]
  BY EmptySeq, HeadTailProperties
<1>2. Range(t) = {t[i] : i \in 1..Len(t)} /\ Range(s) = {s[i] : i \in 1..Len(s)}
  BY <1>1, Ranges
<1>3. \A i \in 1..Len(s) : i = 1 \/ (i - 1 \in 1..Len(t) /\ t[i - 1] = s[i])
  BY <1>1
<1> HIDE DEF t
<1>4. Range(s) = {s[1]} \cup Range(t)
  <2>1. \A i \in 1..Len(s) : s[i] \in {s[1]} \cup Range(t)
    BY <1>2, <1>3
  <2>2. \A i \in 1..Len(t) : t[i] \in Range(s)
    BY <1>1, <1>2
  <2>3. s[1] \in Range(s)
    BY <1>1, <1>2
  <2> QED
    BY <1>2, <2>1, <2>2, <2>3
<1> QED
  BY <1>1, <1>4 DEF t

-----------------------------------------------------------------------------
(* Steps.                                                                  *)

LEMMA Senders == \A m \in Message : From(m) \in User
<1>1. \A m \in Message : Inbox[m] \in [from : User, kind : Kind]
  BY InboxAssumption, ElementOfSeq DEF Message
<1> QED
  BY <1>1 DEF From

\* The message at the head of the response is earlier than the others.
LEMMA TakesHead ==
  ASSUME PollType, OrderInv, NEW m \in Message, AtHead(m), batch' = Tail(batch)
  PROVE  /\ batch' \in Seq(Message) /\ Range(batch) = {m} \cup Range(batch')
         /\ \A n \in Range(batch') : m < n
         /\ Increasing(batch')
<1>1. /\ m = batch[1] /\ batch' \in Seq(Message) /\ Len(batch') = Len(batch) - 1
      /\ \A i \in 1..Len(batch') : i + 1 \in 1..Len(batch) /\ batch'[i] = batch[i + 1]
      /\ Range(batch) = {m} \cup Range(batch')
  BY RangeTail DEF AtHead, PollType
<1>2. Range(batch') = {batch'[i] : i \in 1..Len(batch')} /\ Len(batch) \in Nat /\ Len(batch') \in Nat
  <2>1. batch \in Seq(Message) /\ batch' \in Seq(Message)
    BY <1>1 DEF PollType
  <2>2. Len(batch) \in Nat /\ Len(batch') \in Nat
    BY <2>1, LenProperties
  <2>3. \A s \in Seq(Message) : Range(s) = {s[i] : i \in 1..Len(s)}
    BY Ranges
  <2> QED
    BY <2>1, <2>2, <2>3
<1>3. \A i, j \in 1..Len(batch) : i < j => batch[i] < batch[j]
  BY DEF OrderInv, Increasing
<1>4. \A i \in 1..Len(batch') : m < batch'[i]
  <2> SUFFICES ASSUME NEW i \in 1..Len(batch') PROVE m < batch'[i]
    OBVIOUS
  <2>1. 1 \in 1..Len(batch) /\ i + 1 \in 1..Len(batch) /\ 1 < i + 1 /\ batch'[i] = batch[i + 1]
    BY <1>1, <1>2
  <2> QED
    BY <1>1, <1>3, <2>1
<1>5. Increasing(batch')
  <2> SUFFICES ASSUME NEW i \in 1..Len(batch'), NEW j \in 1..Len(batch'), i < j
               PROVE  batch'[i] < batch'[j]
    BY DEF Increasing
  <2>1. /\ i + 1 \in 1..Len(batch) /\ j + 1 \in 1..Len(batch) /\ i + 1 < j + 1
        /\ batch'[i] = batch[i + 1] /\ batch'[j] = batch[j + 1]
    BY <1>1, <1>2
  <2> QED
    BY <1>3, <2>1
<1> QED
  BY <1>1, <1>2, <1>4, <1>5

\* A response holds the messages after the cursor, in order.
LEMMA Updates ==
  ASSUME PollType, GetUpdates
  PROVE  \E last \in syncBuf..Len(Inbox) :
           /\ batch' \in Seq(Message) /\ Increasing(batch')
           /\ Range(batch') = (syncBuf + 1)..last
           /\ (syncBuf + 1)..last \subseteq Message
           /\ \/ syncBuf' = last /\ disk' = last /\ uncovered' = uncovered
              \/ syncBuf' = last /\ disk' = disk /\ uncovered' = uncovered \cup (syncBuf + 1)..last
              \/ syncBuf' = syncBuf /\ disk' = disk /\ uncovered' = uncovered \cup (syncBuf + 1)..last
<1>1. PICK last \in syncBuf..Len(Inbox) :
        /\ batch' = [i \in 1..(last - syncBuf) |-> syncBuf + i]
        /\ \/ syncBuf' = last /\ disk' = last /\ UNCHANGED <<uncovered, faults>>
           \/ /\ syncBuf' = last /\ UNCHANGED disk /\ Fault
              /\ uncovered' = uncovered \cup (syncBuf + 1)..last
           \/ /\ UNCHANGED <<syncBuf, disk>> /\ Fault
              /\ uncovered' = uncovered \cup (syncBuf + 1)..last
  BY DEF GetUpdates
<1>2. /\ syncBuf \in Nat /\ Len(Inbox) \in Nat /\ last \in Nat /\ last - syncBuf \in Nat
      /\ last <= Len(Inbox)
  BY InboxAssumption, LenProperties DEF PollType
<1> DEFINE k == last - syncBuf
           s == [i \in 1..k |-> syncBuf + i]
<1>3. \A i \in 1..k : syncBuf + i \in Message
  BY <1>2 DEF Message
<1>4. s \in Seq(Message) /\ Len(s) = k /\ \A i \in 1..k : s[i] = syncBuf + i
  BY <1>2, <1>3
<1> HIDE DEF s
<1>5. Range(s) = (syncBuf + 1)..last
  <2>1. Range(s) = {s[i] : i \in 1..k}
    BY <1>4, Ranges
  <2>2. \A i \in 1..k : syncBuf + i \in (syncBuf + 1)..last
    BY <1>2
  <2>3. \A m \in (syncBuf + 1)..last : m - syncBuf \in 1..k /\ m = syncBuf + (m - syncBuf)
    BY <1>2
  <2> QED
    BY <1>4, <2>1, <2>2, <2>3
<1>6. Increasing(s)
  BY <1>2, <1>4 DEF Increasing
<1>7. (syncBuf + 1)..last \subseteq Message
  BY <1>2 DEF Message
<1>8. batch' = s
  BY <1>1 DEF s
<1> QED
  BY <1>1, <1>4, <1>5, <1>6, <1>7, <1>8

\* A new run.
LEMMA Begins ==
  ASSUME EngineType, NEW q \in SUBSET (Message \cup {Notice}), Len(run) < MaxRuns, Begin(q)
  PROVE  /\ run' \in Seq({"live", "ended", "done"}) /\ Len(run') <= MaxRuns
         /\ asks' \in Seq(SUBSET (Message \cup {Notice})) /\ Len(asks') = Len(run')
         /\ queryActive' = TRUE
         /\ Len(run) + 1 \in Runs' /\ Runs \subseteq Runs' /\ Len(run) + 1 \notin Runs
         /\ run'[Len(run) + 1] = "live" /\ asks'[Len(run) + 1] = q
         /\ \A g \in Runs : run'[g] = run[g] /\ asks'[g] = asks[g]
<1>1. /\ run' = Append(run, "live") /\ asks' = Append(asks, q) /\ Len(asks) = Len(run)
      /\ run \in Seq({"live", "ended", "done"}) /\ asks \in Seq(SUBSET (Message \cup {Notice}))
      /\ Len(run) \in Nat /\ MaxRuns \in Nat
  BY LenProperties, BoundAssumption DEF EngineType, Begin
<1>2. /\ run' \in Seq({"live", "ended", "done"}) /\ Len(run') = Len(run) + 1
      /\ \A i \in 1..Len(run) : run'[i] = run[i]
      /\ run'[Len(run) + 1] = "live"
  BY <1>1, AppendProperties
<1>3. /\ asks' \in Seq(SUBSET (Message \cup {Notice})) /\ Len(asks') = Len(asks) + 1
      /\ \A i \in 1..Len(asks) : asks'[i] = asks[i]
      /\ asks'[Len(asks) + 1] = q
  BY <1>1, AppendProperties
<1>4. Runs = 1..Len(run) /\ Runs' = 1..(Len(run) + 1)
  BY <1>1, <1>2, LenProperties DEF Runs
<1> QED
  BY <1>1, <1>2, <1>3, <1>4 DEF Begin

\* A flush sends what is in the buffer, keeps it or drops it.
LEMMA Flushes ==
  ASSUME TurnType, EngineType, FlushBuffer
  PROVE  buffer' \subseteq Runs /\ emitted' \subseteq Runs /\ told' \subseteq User \X Runs /\ faults' \in Nat
<1>1. CASE activeUserID = None /\ emitted' = emitted \ buffer /\ buffer' = {} /\ UNCHANGED <<told, faults>>
  BY <1>1 DEF EngineType
<1>2. CASE /\ activeUserID # None /\ told' = told \cup ({activeUserID} \X buffer)
           /\ buffer' = {} /\ UNCHANGED <<emitted, faults>>
  BY <1>2 DEF EngineType, TurnType
<1>3. CASE UNCHANGED text /\ Fault
  BY <1>3 DEF EngineType, text, Fault
<1> QED
  BY <1>1, <1>2, <1>3 DEF FlushBuffer

LEMMA PollTypeStep == PollType /\ OrderInv /\ TurnType /\ Next => PollType'
<1> SUFFICES ASSUME PollType, OrderInv, TurnType, Next
             PROVE  PollType'
  OBVIOUS
<1>1. ASSUME GetUpdates PROVE PollType'
  <2>1. PICK last \in syncBuf..Len(Inbox) :
          /\ batch' \in Seq(Message) /\ (syncBuf + 1)..last \subseteq Message
          /\ \/ syncBuf' = last /\ disk' = last /\ uncovered' = uncovered
             \/ syncBuf' = last /\ disk' = disk /\ uncovered' = uncovered \cup (syncBuf + 1)..last
             \/ syncBuf' = syncBuf /\ disk' = disk /\ uncovered' = uncovered \cup (syncBuf + 1)..last
    BY <1>1, Updates
  <2>2. /\ disk' \in 0..Len(Inbox) /\ syncBuf' \in 0..Len(Inbox) /\ disk' <= syncBuf'
        /\ uncovered' \subseteq Message
    <3>1. Len(Inbox) \in Nat /\ syncBuf \in Nat /\ disk \in Nat /\ last \in Nat
      BY InboxAssumption, LenProperties DEF PollType
    <3> QED
      BY <2>1, <3>1 DEF PollType
  <2>3. item = <<>> /\ item' = <<>> /\ media' = media /\ dedup' = dedup /\ UNCHANGED fate /\ poll' = "batch"
    BY <1>1 DEF GetUpdates, PollType
  <2> QED
    BY <2>1, <2>2, <2>3 DEF PollType, fate
<1>2. ASSUME Flush PROVE PollType'
  BY <1>2 DEF Flush, PollType, cursor, turn, text, engine, fate, bounds
<1>3. ASSUME EndBatch PROVE PollType'
  BY <1>3 DEF EndBatch, PollType, cursor, turn, text, engine, fate, bounds
<1>4. ASSUME ReadBusy PROVE PollType'
  BY <1>4 DEF ReadBusy, IsBusy, PollType, cursor, turn, text, engine, fate, bounds
<1>5. ASSUME Attach PROVE PollType'
  <2>1. Range(item) \subseteq Message /\ <<>> \in Seq(Message)
    BY Ranges DEF PollType
  <2> QED
    BY <1>5, <2>1 DEF Attach, Routed, PollType, cursor, fate
<1>6. ASSUME Send PROVE PollType'
  <2>1. Range(item) \subseteq Message /\ <<>> \in Seq(Message)
    BY Ranges, EmptySeq DEF PollType
  <2>2. UNCHANGED <<cursor, batch, media, lost, forgotten>> /\ item' = <<>> /\ poll' = "batch"
    BY <1>6 DEF Send, Routed
  <2>3. routed' \subseteq Message /\ again' \subseteq Message /\ dropped' \subseteq Message
    BY <1>6, <2>1 DEF Send, Routed, PollType
  <2> QED
    BY <2>1, <2>2, <2>3 DEF PollType, cursor
<1>7. ASSUME NEW m \in Message, Skip(m) PROVE PollType'
  <2>1. batch' \in Seq(Message)
    BY <1>7, TakesHead DEF Skip, AtHead
  <2> QED
    BY <1>7, <2>1, RangeOne, EmptySeq DEF Skip, AtHead, PollType, cursor, polling
<1>8. ASSUME NEW m \in Message, Drop(m) PROVE PollType'
  <2>1. batch' \in Seq(Message)
    BY <1>8, TakesHead DEF Drop, Seen, AtHead
  <2> QED
    BY <1>8, <2>1, RangeOne, EmptySeq DEF Drop, Seen, AtHead, PollType, cursor, polling
<1>9. ASSUME NEW m \in Message, Merge(m) PROVE PollType'
  <2>1. batch' \in Seq(Message) /\ item = <<>>
    BY <1>9, TakesHead DEF Merge, Seen, AtHead, PollType
  <2>2. <<m>> \in Seq(Message) /\ Append(media, m) \in Seq(Message)
    BY RangeAppend DEF PollType
  <2>3. CASE media = <<>> \/ From(Head(media)) = From(m)
    BY <1>9, <2>1, <2>2, <2>3 DEF Merge, Seen, AtHead, PollType
  <2>4. CASE ~(media = <<>> \/ From(Head(media)) = From(m))
    BY <1>9, <2>1, <2>2, <2>4 DEF Merge, Seen, AtHead, PollType
  <2> QED
    BY <2>3, <2>4
<1>10. ASSUME NEW m \in Message, Text(m) PROVE PollType'
  <2>1. batch' \in Seq(Message)
    BY <1>10, TakesHead DEF Text, Seen, AtHead
  <2>2. <<m>> \in Seq(Message) /\ <<m>> # <<>>
    OBVIOUS
  <2> QED
    BY <1>10, <2>1, <2>2 DEF Text, Seen, AtHead, PollType
<1>11. ASSUME NEW m \in Message, Expire(m) PROVE PollType'
  BY <1>11 DEF Expire, Fault, PollType, polling, turn, text, engine
<1>12. ASSUME Ask PROVE PollType'
  <2>1. Range(asking) \subseteq Message
    BY Ranges DEF TurnType
  <2>2. dropped' \subseteq Message
    BY <1>12, <2>1 DEF Ask, PollType
  <2> QED
    BY <1>12, <2>2 DEF Ask, PollType, cursor, polling
<1>13. ASSUME Crash PROVE PollType'
  <2>1. <<>> \in Seq(Message) /\ 1..disk \subseteq Message
    BY DEF PollType, Message
  <2> QED
    BY <1>13, <2>1 DEF Crash, Fault, PollType
<1>14. ASSUME 
            \/ EnqueueNotice \/ Kick \/ Close \/ Receive \/ Return
     PROVE PollType'
  BY <1>14 DEF EnqueueNotice, Other, Kick, Begin, IsBusy, Close, Fault, Receive, Return,
       PollType, cursor, polling, turn, text, engine, fate, bounds
<1>15. ASSUME NEW g \in Runs,
            \/ EmitText(g) \/ AgentEnd(g) \/ Drain(g) \/ FindNothing(g) \/ RunEnds(g)
            \/ EndQuery(g)
     PROVE PollType'
  BY <1>15 DEF EmitText, Live, AgentEnd, Other, QueryEnd, FlushBuffer, Fault, Drain,
       FindNothing, RunEnds, EndQuery, PollType, cursor, polling, turn, text, engine,
       fate, bounds
<1> QED
  BY <1>1, <1>2, <1>3, <1>4, <1>5, <1>6, <1>7, <1>8, <1>9, <1>10, <1>11, <1>12, <1>13,
       <1>14, <1>15 DEF Next, Poll, Engine, Process

LEMMA TurnTypeStep == PollType /\ TurnType /\ Next => TurnType'
<1> SUFFICES ASSUME PollType, TurnType, Next
             PROVE  TurnType'
  OBVIOUS
<1>1. ASSUME Send PROVE TurnType'
  <2>1. CASE Len(inboundCh) < Capacity
    <3>1. item \in Seq(Message) \ {<<>>} /\ Capacity \in Nat
      BY <1>1, BoundAssumption DEF Send, PollType
    <3>2. /\ Append(inboundCh, item) \in Seq(Seq(Message) \ {<<>>})
          /\ Len(Append(inboundCh, item)) = Len(inboundCh) + 1
      BY <3>1, AppendProperties DEF TurnType
    <3>3. Len(inboundCh) \in Nat
      BY LenProperties DEF TurnType
    <3>4. inboundCh' = Append(inboundCh, item) /\ UNCHANGED turn
      BY <1>1, <2>1 DEF Send
    <3>5. Len(inboundCh') <= Capacity
      BY <2>1, <3>1, <3>2, <3>3, <3>4
    <3> QED
      BY <3>2, <3>4, <3>5 DEF TurnType, turn
  <2>2. CASE ~(Len(inboundCh) < Capacity)
    BY <1>1, <2>2 DEF Send, TurnType, turn
  <2> QED
    BY <2>1, <2>2
<1>2. ASSUME NEW g \in Runs, AgentEnd(g) PROVE TurnType'
  BY <1>2 DEF AgentEnd, Live, Other, QueryEnd, FlushBuffer, Fault, TurnType, cursor,
       polling, text, engine, fate
<1>3. ASSUME NEW g \in Runs, RunEnds(g) PROVE TurnType'
  BY <1>3 DEF RunEnds, Live, QueryEnd, FlushBuffer, Fault, TurnType, cursor, polling,
       text, fate
<1>4. ASSUME Receive PROVE TurnType'
  <2>1. /\ Head(inboundCh) \in Seq(Message) \ {<<>>}
        /\ Tail(inboundCh) \in Seq(Seq(Message) \ {<<>>})
        /\ Len(Tail(inboundCh)) = Len(inboundCh) - 1
    BY <1>4, RangeTail DEF Receive, TurnType
  <2>2. Len(inboundCh) \in Nat /\ Capacity \in Nat
    BY LenProperties, BoundAssumption DEF TurnType
  <2>3. Head(Head(inboundCh)) \in Message
    BY <2>1, RangeTail
  <2>4. From(Head(Head(inboundCh))) \in User
    BY <2>3, Senders
  <2> QED
    BY <1>4, <2>1, <2>2, <2>4 DEF Receive, TurnType
<1>5. ASSUME Ask PROVE TurnType'
  <2>1. handler' = "wait" /\ asking' = <<>> /\ UNCHANGED <<inboundCh, activeUserID>>
    BY <1>5 DEF Ask
  <2>2. queryDone' \in BOOLEAN
    BY <1>5 DEF Ask, TurnType
  <2>3. <<>> \in Seq(Message)
    BY EmptySeq
  <2> QED
    BY <2>1, <2>2, <2>3 DEF TurnType
<1>6. ASSUME Return PROVE TurnType'
  BY <1>6 DEF Return, TurnType, cursor, polling, text, engine, fate, bounds
<1>7. ASSUME Crash PROVE TurnType'
  <2>1. /\ <<>> \in Seq(Seq(Message) \ {<<>>}) /\ <<>> \in Seq(Message)
        /\ Len(<<>>) = 0 /\ Capacity \in Nat
    BY EmptySeq, BoundAssumption
  <2>2. /\ inboundCh' = <<>> /\ handler' = "idle" /\ asking' = <<>> /\ queryDone' = FALSE
        /\ activeUserID' = None
    BY <1>7 DEF Crash
  <2>3. Len(inboundCh') <= Capacity
    BY <2>1, <2>2
  <2> QED
    BY <2>1, <2>2, <2>3 DEF TurnType
<1>8. ASSUME 
            \/ GetUpdates \/ Flush \/ EndBatch \/ ReadBusy \/ Attach \/ EnqueueNotice
            \/ Kick \/ Close
     PROVE TurnType'
  BY <1>8 DEF GetUpdates, Fault, Flush, EndBatch, ReadBusy, IsBusy, Attach, Routed,
       EnqueueNotice, Other, Kick, Begin, Close, TurnType, cursor, polling, turn, text,
       engine, fate, bounds
<1>9. ASSUME NEW m \in Message,
            \/ Skip(m) \/ Drop(m) \/ Merge(m) \/ Text(m) \/ Expire(m)
     PROVE TurnType'
  BY <1>9 DEF Skip, AtHead, Drop, Seen, Merge, Text, Expire, Fault, TurnType, cursor,
       polling, turn, text, engine, bounds
<1>10. ASSUME NEW g \in Runs,
            \/ EmitText(g) \/ Drain(g) \/ FindNothing(g) \/ EndQuery(g)
     PROVE TurnType'
  BY <1>10 DEF EmitText, Live, Drain, FindNothing, EndQuery, TurnType, cursor, polling,
       turn, text, engine, fate, bounds
<1> QED
  BY <1>1, <1>2, <1>3, <1>4, <1>5, <1>6, <1>7, <1>8, <1>9, <1>10 DEF Next, Poll, Engine,
       Process

LEMMA EngineTypeStep == PollType /\ TurnType /\ EngineType /\ Next => EngineType'
<1> SUFFICES ASSUME PollType, TurnType, EngineType, Next
             PROVE  EngineType'
  OBVIOUS
<1>1. ASSUME GetUpdates PROVE EngineType'
  BY <1>1 DEF GetUpdates, Fault, EngineType, Runs, turn, text, engine, fate
<1>2. ASSUME Attach PROVE EngineType'
  <2>1. Range(item) \subseteq Message
    BY Ranges DEF PollType
  <2> QED
    BY <1>2, <2>1 DEF Attach, EngineType, Runs, text, bounds
<1>3. ASSUME NEW m \in Message, Expire(m) PROVE EngineType'
  BY <1>3 DEF Expire, Fault, EngineType, Runs, polling, turn, text, engine
<1>4. ASSUME EnqueueNotice PROVE EngineType'
  BY <1>4 DEF EnqueueNotice, Other, EngineType, Runs, cursor, polling, turn, text, fate
<1>5. ASSUME Kick PROVE EngineType'
  <2>1. CASE attachments = {} \/ IsBusy \/ closing
    BY <1>5, <2>1 DEF Kick, EngineType, Runs, text, bounds
  <2>2. CASE ~(attachments = {} \/ IsBusy \/ closing)
    <3>1. Begin({}) /\ Len(run) < MaxRuns
      BY <1>5, <2>2 DEF Kick
    <3>2. /\ run' \in Seq({"live", "ended", "done"}) /\ Len(run') <= MaxRuns
          /\ asks' \in Seq(SUBSET (Message \cup {Notice})) /\ Len(asks') = Len(run')
          /\ queryActive' = TRUE /\ Runs \subseteq Runs'
      BY <3>1, Begins
    <3> QED
      BY <1>5, <3>2 DEF Kick, EngineType, text, bounds
  <2> QED
    BY <2>1, <2>2
<1>6. ASSUME Close PROVE EngineType'
  BY <1>6 DEF Close, Fault, EngineType, Runs, cursor, polling, turn, text, fate
<1>7. ASSUME NEW g \in Runs, EmitText(g) PROVE EngineType'
  <2>1. CASE emitted' = emitted \cup {g} /\ buffer' = buffer \cup {g} /\ UNCHANGED told
    BY <1>7, <2>1 DEF EmitText, EngineType, Runs, engine, bounds
  <2>2. CASE /\ activeUserID # None /\ emitted' = emitted \cup {g} /\ buffer' = {}
             /\ told' = told \cup ({activeUserID} \X (buffer \cup {g}))
    BY <1>7, <2>2 DEF EmitText, EngineType, TurnType, Runs, engine, bounds
  <2> QED
    BY <1>7, <2>1, <2>2 DEF EmitText
<1>8. ASSUME NEW g \in Runs, AgentEnd(g) PROVE EngineType'
  <2>1. buffer' \subseteq Runs /\ emitted' \subseteq Runs /\ told' \subseteq User \X Runs /\ faults' \in Nat
    BY <1>8, Flushes DEF AgentEnd, QueryEnd
  <2> QED
    BY <1>8, <2>1 DEF AgentEnd, Other, EngineType, Runs, engine
<1>9. ASSUME NEW g \in Runs, Drain(g) PROVE EngineType'
  <2>1. asks[g] \in SUBSET (Message \cup {Notice}) /\ g \in 1..Len(asks)
    BY LenProperties, ElementOfSeq DEF EngineType, Runs
  <2>2. asks' = [asks EXCEPT ![g] = asks[g] \cup attachments]
    BY <1>9 DEF Drain
  <2>3. asks' \in Seq(SUBSET (Message \cup {Notice})) /\ Len(asks') = Len(asks)
    BY <2>1, <2>2, ExceptSeq DEF EngineType
  <2> QED
    BY <1>9, <2>3 DEF Drain, EngineType, Runs, text, bounds
<1>10. ASSUME NEW g \in Runs, FindNothing(g) PROVE EngineType'
  <2>1. run' = [run EXCEPT ![g] = "ended"] /\ g \in 1..Len(run)
    BY <1>10, LenProperties DEF FindNothing, EngineType, Runs
  <2>2. run' \in Seq({"live", "ended", "done"}) /\ Len(run') = Len(run)
    BY <2>1, ExceptSeq DEF EngineType
  <2>3. Runs' = Runs
    BY <2>2, LenProperties DEF EngineType, Runs
  <2>4. UNCHANGED <<closing, attachments, asks, mine, others>> /\ kicks' \in Nat /\ queryActive' \in BOOLEAN
    BY <1>10 DEF FindNothing, EngineType, bounds
  <2> QED
    BY <1>10, <2>2, <2>3, <2>4 DEF FindNothing, EngineType, text, bounds
<1>11. ASSUME NEW g \in Runs, RunEnds(g) PROVE EngineType'
  <2>0. buffer' \subseteq Runs /\ emitted' \subseteq Runs /\ told' \subseteq User \X Runs /\ faults' \in Nat
    BY <1>11, Flushes DEF RunEnds, QueryEnd
  <2>1. run' = [run EXCEPT ![g] = "ended"] /\ g \in 1..Len(run)
    BY <1>11, LenProperties DEF RunEnds, EngineType, Runs
  <2>2. run' \in Seq({"live", "ended", "done"}) /\ Len(run') = Len(run)
    BY <2>1, ExceptSeq DEF EngineType
  <2>3. Runs' = Runs
    BY <2>2, LenProperties DEF EngineType, Runs
  <2>4. UNCHANGED <<closing, attachments, asks, mine, others>> /\ kicks' \in Nat /\ queryActive' \in BOOLEAN
    BY <1>11 DEF RunEnds, EngineType
  <2> QED
    BY <1>11, <2>0, <2>2, <2>3, <2>4 DEF RunEnds, EngineType
<1>12. ASSUME NEW g \in Runs, EndQuery(g) PROVE EngineType'
  <2>1. run' = [run EXCEPT ![g] = "done"] /\ g \in 1..Len(run)
    BY <1>12, LenProperties DEF EndQuery, EngineType, Runs
  <2>2. run' \in Seq({"live", "ended", "done"}) /\ Len(run') = Len(run)
    BY <2>1, ExceptSeq DEF EngineType
  <2>3. Runs' = Runs
    BY <2>2, LenProperties DEF EngineType, Runs
  <2>4. UNCHANGED <<closing, attachments, asks, mine, others>> /\ kicks' \in Nat /\ queryActive' \in BOOLEAN
    <3>1. CASE g = Len(run)
      <4>1. UNCHANGED <<closing, attachments, asks, mine, others>>
        BY <1>12 DEF EndQuery, bounds
      <4>2. queryActive' = FALSE /\ kicks' = kicks + 1
        BY <1>12, <3>1 DEF EndQuery
      <4>3. kicks' \in Nat
        BY <4>2 DEF EngineType
      <4>4. queryActive' \in BOOLEAN
        BY <4>2
      <4> QED
        BY <4>1, <4>3, <4>4
    <3>2. CASE g # Len(run)
      BY <1>12, <3>2 DEF EndQuery, EngineType, bounds
    <3> QED
      BY <3>1, <3>2
  <2> QED
    BY <1>12, <2>2, <2>3, <2>4 DEF EndQuery, EngineType, text, bounds
<1>13. ASSUME Ask PROVE EngineType'
  <2>1. CASE closing
    <3>1. buffer' \subseteq Runs /\ emitted' \subseteq Runs /\ told' \subseteq User \X Runs /\ faults' \in Nat
      BY <1>13, <2>1, Flushes DEF Ask
    <3> QED
      BY <1>13, <2>1, <3>1 DEF Ask, EngineType, Runs
  <2>2. CASE ~closing
    <3>1. Begin(Range(asking)) /\ Len(run) < MaxRuns /\ Range(asking) \subseteq Message
      BY <1>13, <2>2, Ranges DEF Ask, TurnType
    <3>3. /\ run' \in Seq({"live", "ended", "done"}) /\ Len(run') <= MaxRuns
          /\ asks' \in Seq(SUBSET (Message \cup {Notice})) /\ Len(asks') = Len(run')
          /\ queryActive' = TRUE /\ Runs \subseteq Runs' /\ Len(run) + 1 \in Runs'
      BY <3>1, Begins
    <3> QED
      BY <1>13, <2>2, <3>3 DEF Ask, EngineType, text
  <2> QED
    BY <2>1, <2>2
<1>14. ASSUME Crash PROVE EngineType'
  <2>1. run' = [g \in 1..Len(run) |-> "done"] /\ Len(run) \in Nat
    BY <1>14, LenProperties DEF Crash, EngineType, Runs
  <2>2. run' \in Seq({"live", "ended", "done"}) /\ Len(run') = Len(run) /\ DOMAIN run' = 1..Len(run)
    BY <2>1
  <2>3. Runs' = Runs
    BY <2>2, LenProperties DEF EngineType, Runs
  <2>4. /\ closing' = FALSE /\ queryActive' = FALSE /\ attachments' = {} /\ kicks' = 0
        /\ buffer' = {} /\ emitted' = {} /\ UNCHANGED <<told, asks, mine, others>> /\ faults' = faults + 1
    BY <1>14 DEF Crash, Fault
  <2>5. Len(run') <= MaxRuns /\ Len(asks') = Len(run') /\ mine' \subseteq Runs' /\ told' \subseteq User \X Runs'
    BY <2>2, <2>3, <2>4 DEF EngineType
  <2>6. faults' \in Nat
    BY <2>4 DEF EngineType
  <2> QED
    BY <2>2, <2>4, <2>5, <2>6 DEF EngineType
<1>15. ASSUME 
            \/ Flush \/ EndBatch \/ ReadBusy \/ Send \/ Receive \/ Return
     PROVE EngineType'
  BY <1>15 DEF Flush, EndBatch, ReadBusy, IsBusy, Send, Routed, Receive, Return,
       EngineType, Runs, cursor, polling, turn, text, engine, fate, bounds
<1>16. ASSUME NEW m \in Message,
            \/ Skip(m) \/ Drop(m) \/ Merge(m) \/ Text(m)
     PROVE EngineType'
  BY <1>16 DEF Skip, AtHead, Drop, Seen, Merge, Text, EngineType, Runs, cursor, turn,
       text, engine, bounds
<1> QED
  BY <1>1, <1>2, <1>3, <1>4, <1>5, <1>6, <1>7, <1>8, <1>9, <1>10, <1>11, <1>12, <1>13,
       <1>14, <1>15, <1>16 DEF Next, Poll, Engine, Process

-----------------------------------------------------------------------------
(* What the steps of pollLoop do to the three sets.                        *)

Same == UNCHANGED <<disk, syncBuf, uncovered, dedup, routed, again, forgotten, dropped>>

LEMMA GetUpdatesDoes ==
  ASSUME PollType, OrderInv, GetUpdates
  PROVE  /\ Held = {} /\ Merged' = {} /\ Item' = {} /\ Increasing(batch') /\ poll' = "batch"
         /\ UNCHANGED <<dedup, routed, again, forgotten, dropped, lost>>
         /\ \E last \in syncBuf..Len(Inbox) :
              /\ Rest' = (syncBuf + 1)..last
              /\ \/ syncBuf' = last /\ disk' = last /\ uncovered' = uncovered
                 \/ syncBuf' = last /\ disk' = disk /\ uncovered' = uncovered \cup Rest'
                 \/ syncBuf' = syncBuf /\ disk' = disk /\ uncovered' = uncovered \cup Rest'
<1>1. /\ batch = <<>> /\ media = <<>> /\ item = <<>> /\ media' = media /\ item' = item
      /\ UNCHANGED <<dedup, routed, again, forgotten, dropped, lost>> /\ poll' = "batch"
  BY DEF GetUpdates, PollType, OrderInv, fate
<1>2. Held = {} /\ Merged' = {} /\ Item' = {}
  BY <1>1, RangeEmpty DEF Held, Rest, Merged, Item
<1> QED
  BY <1>1, <1>2, Updates DEF Rest

\* A message leaves the response.
LEMMA HeadDoes ==
  ASSUME PollType, OrderInv, NEW m \in Message, AtHead(m), batch' = Tail(batch)
  PROVE  /\ Rest = {m} \cup Rest' /\ (\A n \in Rest' : m < n) /\ Increasing(batch') /\ Item = {}
         /\ m \notin Merged
<1>1. Rest = {m} \cup Rest' /\ (\A n \in Rest' : m < n) /\ Increasing(batch')
  BY TakesHead DEF Rest
<1>2. item = <<>>
  BY DEF AtHead, PollType
<1>3. ~(m < m)
  BY DEF Message
<1> QED
  BY <1>1, <1>2, <1>3, RangeEmpty DEF Item, OrderInv

LEMMA SkipDoes ==
  ASSUME PollType, OrderInv, NEW m \in Message, Skip(m)
  PROVE  /\ Rest = {m} \cup Rest' /\ (\A n \in Rest' : m < n) /\ Increasing(batch') /\ Item = {}
         /\ m \notin Merged /\ Merged' = Merged /\ Item' = {} /\ poll' = "batch"
         /\ UNCHANGED <<disk, syncBuf, uncovered, dedup, routed, again, forgotten, lost>>
         /\ \/ dropped' = dropped \cup {m}
            \/ dropped' = dropped /\ m \in dedup
BY HeadDoes DEF Skip, AtHead, Duplicate, Merged, Item, cursor

LEMMA SeenDoes ==
  ASSUME PollType, OrderInv, NEW m \in Message, Drop(m) \/ Merge(m) \/ Text(m)
  PROVE  /\ Rest = {m} \cup Rest' /\ (\A n \in Rest' : m < n) /\ Increasing(batch') /\ Item = {}
         /\ m \notin Merged /\ m \notin dedup /\ dedup' = dedup \cup {m} /\ poll' # "poll"
         /\ UNCHANGED <<disk, syncBuf, uncovered, routed, again, forgotten, lost>>
         /\ \/ dropped' = dropped \cup {m} /\ Merged' = Merged /\ Item' = {}
            \/ dropped' = dropped /\ Merged' = Merged \cup {m} /\ Item' = {}
            \/ dropped' = dropped /\ Merged' = {m} /\ Item' = Merged
            \/ dropped' = dropped /\ Merged = {} /\ Merged' = {} /\ Item' = {m}
<1>1. AtHead(m) /\ batch' = Tail(batch) /\ m \notin dedup /\ dedup' = dedup \cup {m}
      /\ UNCHANGED <<disk, syncBuf, uncovered, routed, again, forgotten, lost>>
  BY DEF Drop, Merge, Text, Seen, Duplicate
<1>2. poll' # "poll" /\ poll = "batch"
  BY <1>1 DEF Drop, Merge, Text, AtHead
<1>3. /\ Rest = {m} \cup Rest' /\ (\A n \in Rest' : m < n) /\ Increasing(batch') /\ Item = {}
      /\ m \notin Merged
  BY <1>1, HeadDoes
<1>4. CASE Drop(m)
  BY <1>1, <1>2, <1>3, <1>4 DEF Drop, Merged, Item
<1>5. CASE Text(m)
  <2>1. media = <<>> /\ media' = <<>> /\ item' = <<m>> /\ dropped' = dropped
    BY <1>5 DEF Text
  <2> QED
    BY <1>1, <1>2, <1>3, <2>1, RangeEmpty, RangeOne DEF Merged, Item
<1>6. CASE Merge(m)
  <2>1. /\ dropped' = dropped
        /\ \/ media' = Append(media, m) /\ item' = item
           \/ media' = <<m>> /\ item' = media
    BY <1>6 DEF Merge
  <2>2. Range(Append(media, m)) = Range(media) \cup {m} /\ Range(<<m>>) = {m}
    BY RangeAppend, RangeOne DEF PollType
  <2> QED
    BY <1>1, <1>2, <1>3, <2>1, <2>2 DEF Merged, Item
<1> QED
  BY <1>4, <1>5, <1>6

LEMMA FlushDoes ==
  ASSUME PollType, OrderInv, Flush
  PROVE  /\ Item = {} /\ Item' = Merged /\ Merged' = {} /\ batch' = batch /\ Rest' = Rest
         /\ poll' = "enqueue" /\ UNCHANGED lost /\ Same
<1>1. item = <<>> /\ item' = media /\ media' = <<>> /\ batch' = batch /\ poll' = "enqueue" /\ Same
      /\ UNCHANGED lost
  BY DEF Flush, PollType, cursor, fate, Same
<1> QED
  BY <1>1, RangeEmpty DEF Item, Merged, Rest

LEMMA RouteDoes ==
  ASSUME PollType, OrderInv, Attach \/ Send
  PROVE  /\ batch' = batch /\ Rest' = Rest /\ Merged' = Merged /\ Item' = {} /\ poll' = "batch"
         /\ UNCHANGED <<disk, syncBuf, uncovered, dedup, forgotten, lost>>
         /\ \/ /\ routed' = routed \cup Item /\ again' = again \cup (routed \cap Item)
               /\ dropped' = dropped
            \/ routed' = routed /\ again' = again /\ dropped' = dropped \cup Item
<1>1. /\ batch' = batch /\ media' = media /\ item' = <<>> /\ poll' = "batch"
      /\ UNCHANGED <<disk, syncBuf, uncovered, dedup, forgotten, lost>>
      /\ \/ /\ routed' = routed \cup Range(item) /\ again' = again \cup (routed \cap Range(item))
            /\ dropped' = dropped
         \/ routed' = routed /\ again' = again /\ dropped' = dropped \cup Range(item)
  BY DEF Attach, Send, Routed, cursor
<1> QED
  BY <1>1, RangeEmpty DEF Item, Merged, Rest

LEMMA CrashDoes ==
  ASSUME Crash
  PROVE  /\ Held' = {} /\ Rest' = {} /\ Merged' = {} /\ Item' = {} /\ batch' = <<>>
         /\ media' = <<>> /\ syncBuf' = disk /\ dedup' = {} /\ forgotten' = forgotten \cup dedup
         /\ UNCHANGED <<disk, uncovered, dropped, routed, again>>
         /\ lost' = lost \cup ((1..disk) \ dropped)
BY RangeEmpty DEF Crash, Held, Rest, Merged, Item

\* Everything else leaves what pollLoop holds alone.
Elsewhen ==
  /\ UNCHANGED <<batch, media, item, disk, syncBuf, uncovered, routed, again>>
  /\ poll' = poll \/ (poll = "batch" /\ poll' = "poll" /\ batch = <<>> /\ media = <<>>)
       \/ poll' \in {"attach", "send"}
  /\ dropped \subseteq dropped'
  /\ \/ dedup' = dedup /\ forgotten' = forgotten
     \/ \E m \in dedup : dedup' = dedup \ {m} /\ forgotten' = forgotten \cup {m}

LEMMA ElseDoes ==
  ASSUME Next
  PROVE  \/ GetUpdates \/ Flush \/ Attach \/ Send \/ Crash
         \/ \E m \in Message : Skip(m) \/ Drop(m) \/ Merge(m) \/ Text(m)
         \/ Elsewhen
<1> USE DEF Elsewhen
<1>1. ASSUME EndBatch \/ ReadBusy PROVE Elsewhen
  BY <1>1 DEF EndBatch, ReadBusy, cursor, fate
<1>2. ASSUME NEW m \in Message, Expire(m) PROVE Elsewhen
  BY <1>2 DEF Expire, polling
<1>3. ASSUME EnqueueNotice \/ Kick \/ Close PROVE Elsewhen
  BY <1>3 DEF EnqueueNotice, Kick, Close, cursor, polling, fate
<1>4. ASSUME NEW g \in Runs,
             EmitText(g) \/ AgentEnd(g) \/ Drain(g) \/ FindNothing(g) \/ RunEnds(g) \/ EndQuery(g)
      PROVE  Elsewhen
  BY <1>4 DEF EmitText, AgentEnd, Drain, FindNothing, RunEnds, EndQuery, cursor, polling, fate
<1>5. ASSUME Receive \/ Return PROVE Elsewhen
  BY <1>5 DEF Receive, Return, cursor, polling, fate
<1>6. ASSUME Ask PROVE Elsewhen
  BY <1>6 DEF Ask, cursor, polling
<1> QED
  BY <1>1, <1>2, <1>3, <1>4, <1>5, <1>6 DEF Next, Poll, Engine, Process

-----------------------------------------------------------------------------
(* Order, and what comes again.                                            *)

LEMMA Numbers ==
  ASSUME PollType
  PROVE  /\ Message \subseteq Nat /\ disk \in Nat /\ syncBuf \in Nat /\ disk <= syncBuf
         /\ Len(Inbox) \in Nat /\ Rest \subseteq Message /\ Merged \subseteq Message
         /\ Item \subseteq Message /\ routed \subseteq Message /\ dropped \subseteq Message
<1>1. Len(Inbox) \in Nat
  BY InboxAssumption, LenProperties
<1>2. Message \subseteq Nat
  BY <1>1 DEF Message
<1>3. disk \in Nat /\ syncBuf \in Nat /\ disk <= syncBuf
  BY <1>1 DEF PollType
<1>4. \A s \in Seq(Message) : Range(s) \subseteq Message
  BY Ranges
<1>5. Rest \subseteq Message /\ Merged \subseteq Message /\ Item \subseteq Message
  BY <1>4 DEF PollType, Rest, Merged, Item
<1> QED
  BY <1>1, <1>2, <1>3, <1>5 DEF PollType

LEMMA OrderStep == TypeOK /\ OrderInv /\ Next => OrderInv'
<1> SUFFICES ASSUME PollType, OrderInv, Next
             PROVE  OrderInv'
  BY DEF TypeOK
<1>1. ASSUME GetUpdates PROVE OrderInv'
  BY <1>1, GetUpdatesDoes DEF OrderInv
<1>2. ASSUME NEW m \in Message, Skip(m) PROVE OrderInv'
  BY <1>2, SkipDoes DEF OrderInv
<1>3. ASSUME NEW m \in Message, Drop(m) \/ Merge(m) \/ Text(m) PROVE OrderInv'
  BY <1>3, SeenDoes DEF OrderInv
<1>4. ASSUME Flush PROVE OrderInv'
  BY <1>4, FlushDoes DEF OrderInv
<1>5. ASSUME Attach \/ Send PROVE OrderInv'
  BY <1>5, RouteDoes DEF OrderInv
<1>6. ASSUME Crash PROVE OrderInv'
  <2>1. Increasing(<<>>)
    BY DEF Increasing
  <2> QED
    BY <1>6, <2>1, CrashDoes DEF OrderInv
<1>7. ASSUME Elsewhen PROVE OrderInv'
  BY <1>7 DEF Elsewhen, OrderInv, Rest, Merged, Item
<1> QED
  BY <1>1, <1>2, <1>3, <1>4, <1>5, <1>6, <1>7, ElseDoes

LEMMA AgainStep == TypeOK /\ OrderInv /\ AgainInv /\ Next => AgainInv'
<1> SUFFICES ASSUME PollType, OrderInv, AgainInv, Next
             PROVE  AgainInv'
  BY DEF TypeOK
<1> USE Numbers
<1>1. ASSUME GetUpdates PROVE AgainInv'
  <2>1. PICK last \in syncBuf..Len(Inbox) :
          /\ Rest' = (syncBuf + 1)..last
          /\ \/ syncBuf' = last /\ disk' = last /\ uncovered' = uncovered
             \/ syncBuf' = last /\ disk' = disk /\ uncovered' = uncovered \cup Rest'
             \/ syncBuf' = syncBuf /\ disk' = disk /\ uncovered' = uncovered \cup Rest'
    BY <1>1, GetUpdatesDoes
  <2>2. /\ Merged' = {} /\ Item' = {} /\ Held' = Rest'
        /\ UNCHANGED <<dedup, routed, again, forgotten>>
    BY <1>1, GetUpdatesDoes DEF Held
  <2>3. \A m \in 1..disk : m \in 1..disk' /\ m \notin Rest'
    BY <2>1
  <2>4. Rest' \subseteq (1..disk') \cup uncovered' /\ uncovered \subseteq uncovered'
    BY <2>1
  <2> QED
    BY <2>2, <2>3, <2>4 DEF AgainInv, AtMostOnce
<1>2. ASSUME NEW m \in Message, Skip(m) PROVE AgainInv'
  BY <1>2, SkipDoes DEF AgainInv, AtMostOnce, Held
<1>3. ASSUME NEW m \in Message, Drop(m) \/ Merge(m) \/ Text(m) PROVE AgainInv'
  <2>1. /\ Rest = {m} \cup Rest' /\ Item = {} /\ m \notin dedup /\ dedup' = dedup \cup {m}
        /\ UNCHANGED <<disk, uncovered, routed, again, forgotten>>
        /\ Merged' \cup Item' \subseteq Merged \cup {m}
    BY <1>3, SeenDoes
  <2> QED
    BY <2>1 DEF AgainInv, AtMostOnce, Held
<1>4. ASSUME Flush PROVE AgainInv'
  BY <1>4, FlushDoes DEF AgainInv, AtMostOnce, Held, Same
<1>5. ASSUME Attach \/ Send PROVE AgainInv'
  <2>1. Item \cap Rest = {} /\ Item \cap Merged = {}
    BY DEF OrderInv
  <2>2. /\ Rest' = Rest /\ Merged' = Merged /\ Item' = {}
        /\ UNCHANGED <<disk, uncovered, dedup, forgotten>>
        /\ \/ routed' = routed \cup Item /\ again' = again \cup (routed \cap Item)
           \/ routed' = routed /\ again' = again
    BY <1>5, RouteDoes
  <2> QED
    BY <2>1, <2>2 DEF AgainInv, AtMostOnce, Held
<1>6. ASSUME Crash PROVE AgainInv'
  BY <1>6, CrashDoes DEF AgainInv, AtMostOnce
<1>7. ASSUME Elsewhen PROVE AgainInv'
  <2>1. Rest' = Rest /\ Merged' = Merged /\ Item' = Item /\ Held' = Held
    BY <1>7 DEF Elsewhen, Rest, Merged, Item, Held
  <2> QED
    BY <1>7, <2>1 DEF Elsewhen, AgainInv, AtMostOnce
<1> QED
  BY <1>1, <1>2, <1>3, <1>4, <1>5, <1>6, <1>7, ElseDoes

LEMMA RoutedStep == TypeOK /\ OrderInv /\ RoutedInv /\ Next => RoutedInv'
<1> SUFFICES ASSUME PollType, OrderInv, RoutedInv, Next
             PROVE  RoutedInv'
  BY DEF TypeOK
<1> USE Numbers
<1>1. ASSUME GetUpdates PROVE RoutedInv'
  <2>1. PICK last \in syncBuf..Len(Inbox) :
          /\ Rest' = (syncBuf + 1)..last
          /\ \/ syncBuf' = last /\ disk' = last
             \/ syncBuf' = last /\ disk' = disk
             \/ syncBuf' = syncBuf /\ disk' = disk
    BY <1>1, GetUpdatesDoes
  <2>2. /\ Held = {} /\ Merged' = {} /\ Item' = {} /\ Held' = Rest' /\ Merged = {} /\ Item = {}
        /\ UNCHANGED <<dedup, routed, dropped>>
    BY <1>1, GetUpdatesDoes DEF Held
  <2>3. ASSUME NEW m \in Message, m > disk', m <= syncBuf' \/ \E n \in Rest' : m <= n
        PROVE  m > disk /\ (m <= syncBuf \/ m \in Rest')
    BY <2>1, <2>3
  <2>4. \A m \in Message : m > disk' \/ m \in Rest' => m > disk
    BY <2>1
  <2>5. \A m \in Message : m > disk /\ m <= syncBuf => m \in routed \cup dropped
    BY <2>2 DEF RoutedInv
  <2> QED
    BY <2>2, <2>3, <2>4, <2>5 DEF RoutedInv
<1>2. ASSUME NEW h \in Message, Skip(h) PROVE RoutedInv'
  <2>1. /\ Rest = {h} \cup Rest' /\ Item = {} /\ h \notin Merged /\ Merged' = Merged /\ Item' = {}
        /\ UNCHANGED <<disk, syncBuf, dedup, routed>>
        /\ dropped' = dropped \cup {h} \/ (dropped' = dropped /\ h \in dedup)
    BY <1>2, SkipDoes
  <2>2. h \in routed \cup dropped' /\ dropped \subseteq dropped'
    BY <2>1 DEF RoutedInv
  <2>3. Held' \subseteq Held /\ Held \subseteq Held' \cup {h}
    BY <2>1 DEF Held
  <2> QED
    BY <2>1, <2>2, <2>3 DEF RoutedInv
<1>3. ASSUME NEW h \in Message, Drop(h) \/ Merge(h) \/ Text(h) PROVE RoutedInv'
  <2>1. /\ Rest = {h} \cup Rest' /\ Item = {} /\ dedup' = dedup \cup {h}
        /\ UNCHANGED <<disk, syncBuf, routed>> /\ dropped \subseteq dropped'
        /\ Merged' \cup Item' \subseteq Merged \cup {h}
        /\ Merged \cup {h} \subseteq Merged' \cup Item' \cup dropped'
    BY <1>3, SeenDoes
  <2>2. Held' \subseteq Held /\ Held \subseteq Held' \cup dropped'
    BY <2>1 DEF Held
  <2> QED
    BY <2>1, <2>2 DEF RoutedInv
<1>4. ASSUME Flush PROVE RoutedInv'
  <2>1. Held' = Held /\ Merged' \cup Item' = Merged \cup Item
    BY <1>4, FlushDoes DEF Held
  <2> QED
    BY <1>4, <2>1, FlushDoes DEF RoutedInv, Same
<1>5. ASSUME Attach \/ Send PROVE RoutedInv'
  <2>1. /\ Rest' = Rest /\ Merged' = Merged /\ Item' = {}
        /\ UNCHANGED <<disk, syncBuf, dedup>>
        /\ \/ routed' = routed \cup Item /\ dropped' = dropped
           \/ routed' = routed /\ dropped' = dropped \cup Item
    BY <1>5, RouteDoes
  <2>2. Held' \subseteq Held /\ Held \subseteq Held' \cup Item /\ Item \subseteq routed' \cup dropped'
    BY <2>1 DEF Held
  <2>3. ASSUME NEW m \in Message \ (routed' \cup dropped'), m > disk \/ m \in Held',
               NEW n \in routed'
        PROVE  n < m
    <3>1. m \notin routed \cup dropped \cup Item /\ (m > disk \/ m \in Held)
      BY <2>1, <2>2, <2>3
    <3>2. CASE n \in routed
      BY <3>1, <3>2 DEF RoutedInv
    <3>3. CASE n \in Item
      <4>1. CASE m \in Rest \cup Merged
        BY <3>3, <4>1 DEF OrderInv
      <4>2. CASE m \notin Held
        <5>1. m > disk /\ n \in Held
          BY <3>1, <3>3, <4>2 DEF Held
        <5>2. ~(m <= n)
          BY <3>1, <4>2, <5>1 DEF RoutedInv
        <5> QED
          BY <5>2, <3>3
      <4> QED
        BY <3>1, <4>1, <4>2 DEF Held
    <3> QED
      BY <2>1, <3>2, <3>3
  <2> QED
    BY <2>1, <2>2, <2>3 DEF RoutedInv
<1>6. ASSUME Crash PROVE RoutedInv'
  <2>1. /\ Held' = {} /\ syncBuf' = disk /\ dedup' = {} /\ UNCHANGED <<disk, dropped, routed>>
    BY <1>6, CrashDoes
  <2>2. \A m \in Message : ~(m > disk /\ m <= disk)
    OBVIOUS
  <2> QED
    BY <2>1, <2>2 DEF RoutedInv
<1>7. ASSUME Elsewhen PROVE RoutedInv'
  <2>1. /\ Rest' = Rest /\ Merged' = Merged /\ Item' = Item /\ Held' = Held
        /\ dedup' \subseteq dedup /\ dropped \subseteq dropped' /\ UNCHANGED <<disk, syncBuf, routed>>
    BY <1>7 DEF Elsewhen, Rest, Merged, Item, Held
  <2> QED
    BY <2>1 DEF RoutedInv
<1> QED
  BY <1>1, <1>2, <1>3, <1>4, <1>5, <1>6, <1>7, ElseDoes

-----------------------------------------------------------------------------
(* Where the messages are.                                                 *)

\* A run's question joins what was asked.
LEMMA BeginAsks ==
  ASSUME EngineType, NEW q \in SUBSET (Message \cup {Notice}), Begin(q)
  PROVE  Asked' = Asked \cup q
<1>1. asks' = Append(asks, q) /\ asks \in Seq(SUBSET (Message \cup {Notice}))
  BY DEF Begin, EngineType
<1>2. Range(asks') = Range(asks) \cup {q}
  BY <1>1, RangeAppend
<1> QED
  BY <1>2 DEF Asked

\* What was queued in the engine is asked by the run that drains it.
LEMMA DrainAsks ==
  ASSUME EngineType, NEW g \in Runs, Drain(g)
  PROVE  Asked \cup attachments \subseteq Asked'
<1>1. /\ asks \in Seq(SUBSET (Message \cup {Notice})) /\ g \in 1..Len(asks)
      /\ asks' = [asks EXCEPT ![g] = asks[g] \cup attachments]
  BY LenProperties DEF Drain, EngineType, Runs
<1>2. asks[g] \in SUBSET (Message \cup {Notice})
  BY <1>1, ElementOfSeq
<1>3. asks' \in Seq(SUBSET (Message \cup {Notice})) /\ Len(asks') = Len(asks)
  BY <1>1, <1>2, ExceptSeq DEF EngineType
<1>4. asks'[g] = asks[g] \cup attachments /\ \A i \in 1..Len(asks) : asks[i] \subseteq asks'[i]
  <2>1. DOMAIN asks = 1..Len(asks)
    BY <1>1, LenProperties
  <2> QED
    BY <1>1, <2>1
<1>5. Range(asks) = {asks[i] : i \in 1..Len(asks)} /\ Range(asks') = {asks'[i] : i \in 1..Len(asks)}
  <2>1. \A s \in Seq(SUBSET (Message \cup {Notice})) : Range(s) = {s[i] : i \in 1..Len(s)}
    BY Ranges
  <2> QED
    BY <1>1, <1>3, <2>1
<1>6. \A i \in 1..Len(asks) : asks'[i] \subseteq Asked'
  BY <1>5 DEF Asked
<1>7. \A x \in Asked : \E i \in 1..Len(asks) : x \in asks[i]
  BY <1>5 DEF Asked
<1> QED
  BY <1>1, <1>4, <1>6, <1>7

\* No step but a crash makes a message vanish.
LEMMA Kept == TypeOK /\ OrderInv /\ Next => Crash \/ Elsewhere \subseteq Elsewhere'
<1> SUFFICES ASSUME PollType, TurnType, EngineType, OrderInv, Next, ~Crash
             PROVE  Elsewhere \subseteq Elsewhere'
  BY DEF TypeOK
<1>1. ASSUME GetUpdates PROVE Elsewhere \subseteq Elsewhere'
  BY <1>1 DEF GetUpdates, Elsewhere, Merged, Item, Queued, Asked, turn, engine, fate
<1>2. ASSUME NEW m \in Message, Skip(m) PROVE Elsewhere \subseteq Elsewhere'
  <2>1. dropped \subseteq dropped' /\ UNCHANGED <<media, item, turn, inboundCh, engine, lost>>
    BY <1>2 DEF Skip
  <2> QED
    BY <2>1 DEF Elsewhere, Merged, Item, Queued, Asked, turn, engine
<1>3. ASSUME NEW m \in Message, Drop(m) \/ Merge(m) \/ Text(m) PROVE Elsewhere \subseteq Elsewhere'
  <2>1. Merged \cup Item \cup dropped \subseteq Merged' \cup Item' \cup dropped' /\ lost' = lost
    BY <1>3, SeenDoes
  <2>2. UNCHANGED <<inboundCh, turn, engine>>
    BY <1>3 DEF Drop, Merge, Text, Seen
  <2>3. Range(asking') = Range(asking) /\ Queued' = Queued /\ attachments' = attachments /\ Asked' = Asked
    BY <2>2 DEF turn, engine, Queued, Asked
  <2> QED
    BY <2>1, <2>3 DEF Elsewhere
<1>4. ASSUME Flush PROVE Elsewhere \subseteq Elsewhere'
  <2>1. Merged \cup Item \cup dropped \subseteq Merged' \cup Item' \cup dropped' /\ lost' = lost
    BY <1>4, FlushDoes DEF Same
  <2>2. Range(asking') = Range(asking) /\ Queued' = Queued /\ attachments' = attachments /\ Asked' = Asked
    BY <1>4 DEF Flush, turn, engine, Queued, Asked
  <2> QED
    BY <2>1, <2>2 DEF Elsewhere
<1>5. ASSUME Attach PROVE Elsewhere \subseteq Elsewhere'
  <2>1. /\ attachments' = attachments \cup Item /\ Merged' = Merged
        /\ UNCHANGED <<asking, inboundCh, asks, dropped, lost>>
    BY <1>5 DEF Attach, Routed, Item, Merged, turn
  <2> QED
    BY <2>1 DEF Elsewhere, Queued, Asked
<1>6. ASSUME Send PROVE Elsewhere \subseteq Elsewhere'
  <2>1. /\ Merged' = Merged /\ UNCHANGED <<asking, attachments, asks, lost>>
        /\ \/ inboundCh' = Append(inboundCh, item) /\ dropped' = dropped
           \/ inboundCh' = inboundCh /\ dropped' = dropped \cup Item
    BY <1>6 DEF Send, Routed, Merged, Item, turn, engine
  <2>2. inboundCh \in Seq(Seq(Message)) /\ item \in Seq(Message)
    BY ElementOfSeq, RangeAppend DEF TurnType, PollType
  <2>3. Range(Append(inboundCh, item)) = Range(inboundCh) \cup {item}
    BY <2>2, RangeAppend
  <2>4. UNION {Range(queued) : queued \in Range(Append(inboundCh, item))} = Queued \cup Item
    BY <2>3 DEF Queued, Item
  <2>5. Queued \cup Item \subseteq Queued' \cup dropped' /\ dropped \subseteq dropped'
    BY <2>1, <2>4 DEF Queued
  <2>6. Asked' = Asked /\ Range(asking)' = Range(asking)
    BY <2>1 DEF Asked
  <2> QED
    BY <2>1, <2>5, <2>6 DEF Elsewhere
<1>7. ASSUME NEW m \in Message, Expire(m) PROVE Elsewhere \subseteq Elsewhere'
  BY <1>7 DEF Expire, Elsewhere, Merged, Item, Queued, Asked, polling, turn, engine
<1>8. ASSUME EndBatch \/ ReadBusy PROVE Elsewhere \subseteq Elsewhere'
  BY <1>8 DEF EndBatch, ReadBusy, Elsewhere, Merged, Item, Queued, Asked, turn, engine, fate
<1>9. ASSUME EnqueueNotice \/ Close PROVE Elsewhere \subseteq Elsewhere'
  BY <1>9 DEF EnqueueNotice, Close, Elsewhere, Merged, Item, Queued, Asked, polling, turn, fate
<1>10. ASSUME Kick PROVE Elsewhere \subseteq Elsewhere'
  <2>1. asks' = asks \/ Begin({})
    BY <1>10 DEF Kick
  <2>2. Asked' = Asked
    BY <2>1, BeginAsks DEF Asked
  <2> QED
    BY <1>10, <2>2 DEF Kick, Elsewhere, Merged, Item, Queued, polling, turn, fate
<1>11. ASSUME NEW g \in Runs, Drain(g) PROVE Elsewhere \subseteq Elsewhere'
  <2>1. Asked \cup attachments \subseteq Asked'
    BY <1>11, DrainAsks
  <2> QED
    BY <1>11, <2>1 DEF Drain, Elsewhere, Merged, Item, Queued, polling, turn, fate
<1>12. ASSUME NEW g \in Runs,
              EmitText(g) \/ AgentEnd(g) \/ FindNothing(g) \/ RunEnds(g) \/ EndQuery(g)
       PROVE  Elsewhere \subseteq Elsewhere'
  <2>1. UNCHANGED <<media, item, asking, inboundCh, attachments, asks, dropped, lost>>
    BY <1>12 DEF EmitText, AgentEnd, FindNothing, RunEnds, EndQuery, QueryEnd, polling, turn,
                 engine, fate
  <2> QED
    BY <2>1 DEF Elsewhere, Merged, Item, Queued, Asked
<1>13. ASSUME Receive PROVE Elsewhere \subseteq Elsewhere'
  <2>1. /\ inboundCh # <<>> /\ asking' = Head(inboundCh) /\ inboundCh' = Tail(inboundCh)
        /\ asking = <<>> /\ UNCHANGED <<media, item, attachments, asks, dropped, lost>>
    BY <1>13 DEF Receive, TurnType, polling, engine, fate
  <2>2. Range(inboundCh) = {Head(inboundCh)} \cup Range(Tail(inboundCh))
    BY <2>1, RangeTail DEF TurnType
  <2>3. Queued = Range(asking') \cup Queued'
    BY <2>1, <2>2 DEF Queued
  <2>4. Range(asking) = {}
    BY <2>1, RangeEmpty
  <2> QED
    BY <2>1, <2>3, <2>4 DEF Elsewhere, Merged, Item, Asked
<1>14. ASSUME Ask PROVE Elsewhere \subseteq Elsewhere'
  <2>1. UNCHANGED <<media, item, inboundCh, attachments, lost>>
    BY <1>14 DEF Ask, polling
  <2>2. Range(asking) \cup Asked \cup dropped \subseteq Asked' \cup dropped'
    <3>1. CASE closing
      BY <1>14, <3>1 DEF Ask, Asked
    <3>2. CASE ~closing
      <4>1. Begin(Range(asking)) /\ dropped' = dropped /\ Range(asking) \subseteq Message
        BY <1>14, <3>2, Ranges DEF Ask, TurnType
      <4> QED
        BY <4>1, BeginAsks
    <3> QED
      BY <3>1, <3>2
  <2> QED
    BY <2>1, <2>2 DEF Elsewhere, Merged, Item, Queued
<1>15. ASSUME Return PROVE Elsewhere \subseteq Elsewhere'
  BY <1>15 DEF Return, Elsewhere, Merged, Item, Queued, Asked, polling, engine, fate
<1> QED
  BY <1>1, <1>2, <1>3, <1>4, <1>5, <1>6, <1>7, <1>8, <1>9, <1>10, <1>11, <1>12, <1>13,
     <1>14, <1>15 DEF Next, Poll, Engine, Process

LEMMA AccountStep == TypeOK /\ OrderInv /\ AccountInv /\ Next => AccountInv'
<1> SUFFICES ASSUME TypeOK, PollType, OrderInv, AccountInv, Next
             PROVE  AccountInv'
  BY DEF TypeOK
<1> USE Numbers
<1>0. Merged \cup Item \cup dropped \cup lost \subseteq Elsewhere
      /\ Merged' \cup Item' \cup dropped' \cup lost' \subseteq Elsewhere'
  BY DEF Elsewhere
<1>1. ASSUME GetUpdates PROVE AccountInv'
  <2>1. PICK last \in syncBuf..Len(Inbox) :
          Rest' = (syncBuf + 1)..last /\ (syncBuf' = last \/ syncBuf' = syncBuf)
    BY <1>1, GetUpdatesDoes
  <2>2. Rest = {} /\ dedup' = dedup
    BY <1>1, GetUpdatesDoes DEF Held
  <2>3. 1..syncBuf' \subseteq 1..syncBuf \cup Rest'
    BY <2>1
  <2>4. Elsewhere \subseteq Elsewhere'
    BY <1>1, Kept DEF GetUpdates, Crash
  <2> QED
    BY <2>2, <2>3, <2>4 DEF AccountInv
<1>2. ASSUME Crash PROVE AccountInv'
  <2>1. /\ Rest' = {} /\ syncBuf' = disk /\ dedup' = {} /\ dropped' = dropped
        /\ lost' = lost \cup ((1..disk) \ dropped)
    BY <1>2, CrashDoes
  <2> QED
    BY <1>0, <2>1 DEF AccountInv
<1> SUFFICES ASSUME ~Crash, ~GetUpdates PROVE AccountInv'
  BY <1>1, <1>2
<1>3. Elsewhere \subseteq Elsewhere'
  BY Kept
<1>4. ASSUME NEW m \in Message, Skip(m) PROVE AccountInv'
  <2>1. /\ Rest = {m} \cup Rest' /\ UNCHANGED <<syncBuf, dedup>>
        /\ m \in dropped' \/ m \in dedup
    BY <1>4, SkipDoes
  <2> QED
    BY <1>0, <1>3, <2>1 DEF AccountInv
<1>5. ASSUME NEW m \in Message, Drop(m) \/ Merge(m) \/ Text(m) PROVE AccountInv'
  <2>1. /\ Rest = {m} \cup Rest' /\ syncBuf' = syncBuf /\ dedup' = dedup \cup {m}
        /\ m \in dropped' \cup Merged' \cup Item'
    BY <1>5, SeenDoes
  <2> QED
    BY <1>0, <1>3, <2>1 DEF AccountInv
<1>6. ASSUME Flush \/ Attach \/ Send PROVE AccountInv'
  <2>1. Rest' = Rest /\ UNCHANGED <<syncBuf, dedup>>
    BY <1>6, FlushDoes, RouteDoes DEF Same
  <2> QED
    BY <1>3, <2>1 DEF AccountInv
<1>7. ASSUME Elsewhen PROVE AccountInv'
  <2>1. Rest' = Rest /\ syncBuf' = syncBuf /\ dedup' \subseteq dedup
    BY <1>7 DEF Elsewhen, Rest
  <2> QED
    BY <1>3, <2>1 DEF AccountInv
<1> QED
  BY <1>4, <1>5, <1>6, <1>7, ElseDoes

-----------------------------------------------------------------------------
(* Turns and their text.                                                   *)

LEMMA TurnStep == TypeOK /\ TurnInv /\ Next => TurnInv'
<1> SUFFICES ASSUME TurnType, EngineType, TurnInv, Next
             PROVE  TurnInv'
  BY DEF TypeOK
<1>1. mine \subseteq Runs /\ \A g \in Runs : asks[g] \in SUBSET (Message \cup {Notice})
  <2>1. Runs = 1..Len(asks) /\ asks \in Seq(SUBSET (Message \cup {Notice}))
    BY LenProperties DEF EngineType, Runs
  <2> QED
    BY <2>1, ElementOfSeq DEF EngineType
<1>2. ASSUME NEW q \in SUBSET (Message \cup {Notice}), Len(run) < MaxRuns, Begin(q),
             UNCHANGED <<handler, queryDone, mine>>
      PROVE  TurnInv'
  <2>1. \A g \in Runs : run'[g] = run[g] /\ asks'[g] = asks[g]
    BY <1>2, Begins
  <2> QED
    BY <1>1, <1>2, <2>1 DEF TurnInv, TurnHasEnd, Live
<1>3. ASSUME Kick PROVE TurnInv'
  <2>1. \/ run' = run /\ asks' = asks
        \/ Begin({}) /\ Len(run) < MaxRuns
    BY <1>3 DEF Kick
  <2>2. UNCHANGED <<handler, queryDone, mine>>
    BY <1>3 DEF Kick, turn
  <2>3. CASE run' = run /\ asks' = asks
    BY <2>2, <2>3 DEF TurnInv, TurnHasEnd, Live
  <2> QED
    BY <1>2, <2>1, <2>2, <2>3
<1>4. ASSUME NEW g \in Runs, Drain(g) PROVE TurnInv'
  <2>1. /\ asks' = [asks EXCEPT ![g] = asks[g] \cup attachments]
        /\ UNCHANGED <<handler, queryDone, mine, run>>
    BY <1>4 DEF Drain, turn
  <2>2. Runs = DOMAIN asks
    BY LenProperties DEF EngineType, Runs
  <2>3. \A h \in Runs : asks[h] \subseteq asks'[h]
    BY <2>1, <2>2
  <2> QED
    BY <1>1, <2>1, <2>3 DEF TurnInv, TurnHasEnd, Live
<1>5. ASSUME NEW g \in Runs, FindNothing(g) PROVE TurnInv'
  <2>1. /\ run' = [run EXCEPT ![g] = "ended"] /\ asks[g] = {}
        /\ UNCHANGED <<handler, queryDone, mine, asks>>
    BY <1>5 DEF FindNothing, turn
  <2>2. g \notin mine
    BY <2>1 DEF TurnInv
  <2>3. \A h \in mine : run'[h] = run[h]
    BY <1>1, <2>1, <2>2 DEF Runs
  <2> QED
    BY <2>1, <2>3 DEF TurnInv, TurnHasEnd, Live
<1>6. ASSUME NEW g \in Runs, RunEnds(g) \/ AgentEnd(g) PROVE TurnInv'
  <2>1. queryDone' = FALSE /\ UNCHANGED <<mine, asks>>
    BY <1>6 DEF RunEnds, AgentEnd, QueryEnd, engine
  <2> QED
    BY <2>1 DEF TurnInv, TurnHasEnd
<1>7. ASSUME NEW g \in Runs, EndQuery(g) PROVE TurnInv'
  <2>1. /\ run' = [run EXCEPT ![g] = "done"] /\ run[g] = "ended"
        /\ UNCHANGED <<handler, queryDone, mine, asks>>
    BY <1>7 DEF EndQuery, turn
  <2>2. \A h \in mine : Live(h) => run'[h] = "live"
    BY <1>1, <2>1 DEF Runs, Live
  <2> QED
    BY <2>1, <2>2 DEF TurnInv, TurnHasEnd, Live
<1>8. ASSUME Receive PROVE TurnInv'
  BY <1>8 DEF Receive, engine, TurnInv, TurnHasEnd
<1>9. ASSUME Ask PROVE TurnInv'
  <2>1. CASE closing
    BY <1>9, <2>1 DEF Ask, TurnInv, TurnHasEnd
  <2>2. CASE ~closing
    <3>1. /\ Begin(Range(asking)) /\ Len(run) < MaxRuns /\ mine' = mine \cup {Len(run) + 1}
          /\ asking # <<>>
      BY <1>9, <2>2 DEF Ask, TurnType
    <3>2. Range(asking) \subseteq Message /\ Range(asking) # {}
      BY <3>1, Ranges DEF TurnType
    <3>3. /\ run'[Len(run) + 1] = "live" /\ asks'[Len(run) + 1] = Range(asking)
          /\ \A g \in Runs : asks'[g] = asks[g]
      BY <3>1, <3>2, Begins
    <3> QED
      BY <1>1, <3>1, <3>2, <3>3 DEF TurnInv, TurnHasEnd, Live
  <2> QED
    BY <2>1, <2>2
<1>10. ASSUME Return \/ Crash PROVE TurnInv'
  BY <1>10 DEF Return, Crash, engine, TurnInv, TurnHasEnd
<1>11. ASSUME UNCHANGED <<turn, run, asks, mine>> PROVE TurnInv'
  BY <1>11 DEF turn, TurnInv, TurnHasEnd, Live
<1>12. ASSUME \/ GetUpdates \/ Flush \/ EndBatch \/ ReadBusy \/ Attach \/ Send
              \/ \E m \in Message : Skip(m) \/ Drop(m) \/ Merge(m) \/ Text(m) \/ Expire(m)
              \/ EnqueueNotice \/ Close \/ \E g \in Runs : EmitText(g)
       PROVE  UNCHANGED <<turn, run, asks, mine>>
  BY <1>12 DEF GetUpdates, Flush, EndBatch, ReadBusy, Attach, Send, Skip, Drop, Merge, Text, Seen,
               Expire, EnqueueNotice, Close, EmitText, engine
<1> QED
  BY <1>3, <1>4, <1>5, <1>6, <1>7, <1>8, <1>9, <1>10, <1>11, <1>12
     DEF Next, Poll, Engine, Process

\* A flush keeps text that was not sent.
LEMMA FlushKeeps ==
  ASSUME TurnType, TextKept, FlushBuffer
  PROVE  TextKept'
<1>1. CASE activeUserID = None /\ emitted' = emitted \ buffer /\ buffer' = {} /\ UNCHANGED <<told, faults>>
  BY <1>1 DEF TextKept
<1>2. CASE /\ activeUserID # None /\ told' = told \cup ({activeUserID} \X buffer)
           /\ buffer' = {} /\ UNCHANGED <<emitted, faults>>
  BY <1>2 DEF TextKept, TurnType
<1>3. CASE UNCHANGED text
  BY <1>3 DEF TextKept, text
<1> QED
  BY <1>1, <1>2, <1>3 DEF FlushBuffer

LEMMA TextStep == TypeOK /\ TextKept /\ Next => TextKept'
<1> SUFFICES ASSUME TurnType, TextKept, Next
             PROVE  TextKept'
  BY DEF TypeOK
<1>1. ASSUME NEW g \in Runs, EmitText(g) PROVE TextKept'
  <2>1. CASE emitted' = emitted \cup {g} /\ buffer' = buffer \cup {g} /\ UNCHANGED told
    BY <2>1 DEF TextKept
  <2>2. CASE /\ activeUserID # None /\ emitted' = emitted \cup {g}
             /\ told' = told \cup ({activeUserID} \X (buffer \cup {g}))
    BY <2>2 DEF TextKept, TurnType
  <2> QED
    BY <1>1, <2>1, <2>2 DEF EmitText
<1>2. ASSUME NEW g \in Runs, AgentEnd(g) \/ RunEnds(g) PROVE TextKept'
  BY <1>2, FlushKeeps DEF AgentEnd, RunEnds, QueryEnd
<1>3. ASSUME Ask PROVE TextKept'
  <2>1. CASE closing
    BY <1>3, <2>1, FlushKeeps DEF Ask
  <2>2. CASE ~closing
    BY <1>3, <2>2 DEF Ask, text, TextKept
  <2> QED
    BY <2>1, <2>2
<1>4. ASSUME Crash PROVE TextKept'
  BY <1>4 DEF Crash, TextKept
<1>5. ASSUME \/ GetUpdates \/ Flush \/ EndBatch \/ ReadBusy \/ Attach \/ Send
             \/ \E m \in Message : Skip(m) \/ Drop(m) \/ Merge(m) \/ Text(m) \/ Expire(m)
             \/ EnqueueNotice \/ Kick \/ Close
             \/ \E g \in Runs : Drain(g) \/ FindNothing(g) \/ EndQuery(g)
             \/ Receive \/ Return
      PROVE  UNCHANGED text
  BY <1>5 DEF GetUpdates, Flush, EndBatch, ReadBusy, Attach, Send, Skip, Drop, Merge, Text, Seen,
              Expire, EnqueueNotice, Kick, Close, Drain, FindNothing, EndQuery, Receive, Return
<1>6. ASSUME UNCHANGED text PROVE TextKept'
  BY <1>6 DEF text, TextKept
<1> QED
  BY <1>1, <1>2, <1>3, <1>4, <1>5, <1>6 DEF Next, Poll, Engine, Process

-----------------------------------------------------------------------------
(* The invariant.                                                          *)

LEMMA InvInit == Init => WeChatInv
<1> SUFFICES ASSUME Init PROVE WeChatInv
  OBVIOUS
<1> USE DEF Init
<1>1. TypeOK
  <2>1. Len(Inbox) \in Nat
    BY InboxAssumption, LenProperties
  <2>2. PollType
    BY <2>1 DEF PollType
  <2>3. \A S : <<>> \in Seq(S) /\ Len(<<>>) = 0
    BY EmptySeq
  <2>4. Capacity \in Nat /\ MaxRuns \in Nat
    BY BoundAssumption
  <2>5. TurnType
    <3>1. inboundCh \in Seq(Seq(Message) \ {<<>>}) /\ asking \in Seq(Message) /\ Len(inboundCh) = 0
      BY <2>3
    <3>2. (handler = "ask") = (asking # <<>>) /\ handler \in {"idle", "ask", "wait"}
      OBVIOUS
    <3>3. activeUserID \in User \cup {None} /\ queryDone \in BOOLEAN
      OBVIOUS
    <3> HIDE DEF Init
    <3>4. Len(inboundCh) <= Capacity
      BY <2>4, <3>1
    <3> QED
      BY <3>1, <3>2, <3>3, <3>4 DEF TurnType
  <2>6. EngineType
    <3>1. /\ run \in Seq({"live", "ended", "done"}) /\ asks \in Seq(SUBSET (Message \cup {Notice}))
          /\ Len(run) = 0 /\ Len(asks) = 0
      BY <2>3
    <3>2. /\ closing \in BOOLEAN /\ queryActive \in BOOLEAN /\ attachments = {}
          /\ mine = {} /\ buffer = {} /\ emitted = {} /\ told = {}
          /\ kicks \in Nat /\ others \in Nat /\ faults \in Nat
      OBVIOUS
    <3> HIDE DEF Init
    <3> QED
      BY <2>4, <3>1, <3>2 DEF EngineType
  <2> QED
    BY <2>2, <2>5, <2>6 DEF TypeOK
<1>2. Rest = {} /\ Merged = {} /\ Item = {} /\ Held = {}
  BY RangeEmpty DEF Rest, Merged, Item, Held
<1>3. OrderInv /\ AgainInv
  BY <1>2 DEF OrderInv, AgainInv, AtMostOnce, Increasing
<1>4. RoutedInv
  <2>1. \A m \in Message : ~(m > disk /\ m <= syncBuf)
    BY <1>1, Numbers DEF TypeOK
  <2> QED
    BY <1>2, <2>1 DEF RoutedInv
<1>5. AccountInv
  BY DEF AccountInv
<1>6. TurnInv /\ TextKept
  BY DEF TurnInv, TurnHasEnd, TextKept
<1> QED
  BY <1>1, <1>3, <1>4, <1>5, <1>6 DEF WeChatInv

LEMMA InvStutter == WeChatInv /\ UNCHANGED vars => WeChatInv'
<1> SUFFICES ASSUME WeChatInv, UNCHANGED vars PROVE WeChatInv'
  OBVIOUS
<1> USE DEF vars, cursor, polling, turn, text, engine, fate, bounds
<1>1. TypeOK'
  BY DEF WeChatInv, TypeOK, PollType, TurnType, EngineType, Runs
<1>2. Rest' = Rest /\ Merged' = Merged /\ Item' = Item /\ Held' = Held /\ Elsewhere' = Elsewhere
  BY DEF Rest, Merged, Item, Held, Elsewhere, Queued, Asked
<1>3. OrderInv' /\ AgainInv' /\ RoutedInv' /\ AccountInv'
  BY <1>2 DEF WeChatInv, OrderInv, AgainInv, AtMostOnce, RoutedInv, AccountInv
<1>4. TurnInv' /\ TextKept'
  BY DEF WeChatInv, TurnInv, TurnHasEnd, Live, TextKept
<1> QED
  BY <1>1, <1>3, <1>4 DEF WeChatInv

LEMMA InvStep == WeChatInv /\ [Next]_vars => WeChatInv'
<1>1. WeChatInv /\ Next => WeChatInv'
  <2> SUFFICES ASSUME WeChatInv, Next PROVE WeChatInv'
    OBVIOUS
  <2>1. TypeOK'
    BY PollTypeStep, TurnTypeStep, EngineTypeStep DEF WeChatInv, TypeOK
  <2> QED
    BY <2>1, OrderStep, AgainStep, RoutedStep, AccountStep, TurnStep, TextStep DEF WeChatInv
<1> QED
  BY <1>1, InvStutter

THEOREM Inductive == Spec => []WeChatInv
BY InvInit, InvStep, PTL DEF Spec

\* Every variable of the connector keeps its type, and a message being enqueued
\* or asked is always in the place that holds it.
THEOREM TypeCorrect == Spec => []TypeOK
<1>1. WeChatInv => TypeOK
  BY DEF WeChatInv
<1> QED
  BY <1>1, Inductive, PTL

\* A message the cursor has passed is on its way, in a conversation, left aside
\* on purpose, or was taken by a crash (processBatch, enqueue, processLoop).
THEOREM NothingLost == Spec => []Accounted
<1>1. WeChatInv => Accounted
  BY DEF WeChatInv, AccountInv, Elsewhere, Accounted, Rest, Merged, Item, Queued, Asked
<1> QED
  BY <1>1, Inductive, PTL

\* A message is handed on twice only if its cursor was not saved and its dedup
\* entry was lost as well (pollLoop, dedup).
THEOREM HandedOnOnce == Spec => []AtMostOnce
<1>1. WeChatInv => AtMostOnce
  BY DEF WeChatInv, AgainInv
<1> QED
  BY <1>1, Inductive, PTL

\* Text of a turn is in the buffer until it was sent (flushBuffer).
THEOREM TextIsKept == Spec => []TextKept
<1>1. WeChatInv => TextKept
  BY DEF WeChatInv
<1> QED
  BY <1>1, Inductive, PTL

\* handleInbound waits only while a query it began is still to end.
THEOREM WaitsForItsTurn == Spec => []TurnHasEnd
<1>1. WeChatInv => TurnHasEnd
  BY DEF WeChatInv, TurnInv
<1> QED
  BY <1>1, Inductive, PTL

\* Messages are handed on in the order the server holds them (processBatch).
THEOREM HandedOnInOrder == Spec => InOrder
<1> DEFINE Later == \A m \in routed' \ routed : m \in dropped \/ \A n \in routed : n < m
<1>1. WeChatInv /\ Next => Later
  <2> SUFFICES ASSUME WeChatInv, Next, NEW m \in routed' \ routed, m \notin dropped
               PROVE  \A n \in routed : n < m
    OBVIOUS
  <2>1. PollType /\ OrderInv /\ RoutedInv
    BY DEF WeChatInv, TypeOK
  <2>2. m \in Item
    <3>1. CASE Attach \/ Send
      BY <2>1, <3>1, RouteDoes
    <3>2. CASE \E h \in Message : Skip(h) \/ Drop(h) \/ Merge(h) \/ Text(h)
      BY <2>1, <3>2, SkipDoes, SeenDoes
    <3>3. CASE GetUpdates \/ Flush \/ Crash \/ Elsewhen
      BY <2>1, <3>3, GetUpdatesDoes, FlushDoes, CrashDoes DEF Same, Elsewhen
    <3> QED
      BY <3>1, <3>2, <3>3, ElseDoes
  <2>3. m \in Held /\ m \in Message
    BY <2>1, <2>2, Numbers DEF Held
  <2> QED
    BY <2>1, <2>3 DEF RoutedInv
<1>2. WeChatInv /\ [Next]_vars => [Later]_vars
  BY <1>1
<1> QED
  BY <1>2, Inductive, PTL DEF Spec, InOrder
=============================================================================
