------------------------- MODULE ClientStreamProofs -------------------------
(***************************************************************************)
(* What ClientStream.tla keeps true for any connections, emitters and      *)
(* bounds, from one inductive invariant, StreamInv, in layers: where the   *)
(* locks and the queues are, which era everyone is in, how the numbers of  *)
(* events and of pages relate, that an event is in one place, and that     *)
(* what a client has not shown is on its way to it.                        *)
(***************************************************************************)
EXTENDS ClientStream, SequenceTheorems, FiniteSetTheorems, WellFoundedInduction, TLAPS

Actor == Conn \cup Emitter

EventFrame == [kind : {"event"}, id : Nat, by : Emitter, seq : Nat]
PageFrame == [kind : {"page"}, nonce : Conn \X Nat, has : Nat, seq : Nat]
Frame == {Metadata} \cup EventFrame \cup PageFrame
Queue == [frames : Seq(Frame), closed : BOOLEAN, pushed : BOOLEAN]

Place ==
  {"new", "era", "read", "loadQ", "page", "deactivate", "forget", "gone"} \cup Dialling
EmitterPlace == {"idle", "capture", "push"}
Holding == {"capture", "push", "loadQ", "page"}

SlotType ==
  /\ active \in BOOLEAN /\ activeWS \in Conn \cup {None} /\ applied \in 0..MaxEvents
  /\ ssMu \in Actor \cup {None} /\ clock \in Nat /\ upsets \in 0..MaxUpsets
QueueType == queues \in Seq(Queue) /\ queues # <<>> /\ outQ = Len(queues)
PcType ==
  /\ pc \in [Actor -> Place \cup EmitterPlace]
  /\ \A e \in Emitter : pc[e] \in EmitterPlace
  /\ \A c \in Conn : pc[c] \in Place
HandType == target \in [Actor -> 0..outQ] /\ frame \in [Actor -> Frame]
ConnType ==
  /\ again \in [Conn -> BOOLEAN] /\ up \in [Conn -> BOOLEAN]
  /\ myEra \in [Conn -> 0..outQ] /\ installed \in [Conn -> 0..outQ]
WriterType ==
  /\ writer \in {"take", "conn", "era", "write"} /\ batch \in Seq(Frame)
  /\ writerQ \in 0..outQ /\ writerWS \in Conn \cup {None}
BrowserType ==
  /\ asks \in [Conn -> Seq(Nat)]
  /\ nonce \in [Conn -> Nat] /\ pending \in [Conn -> BOOLEAN]
  /\ pageSeq \in [Conn -> Nat] /\ has \in [Conn -> Nat]
  /\ live \in [Conn -> Seq(EventFrame)] /\ buffer \in [Conn -> Seq(EventFrame)]

TypeInv ==
  SlotType /\ QueueType /\ PcType /\ HandType /\ ConnType /\ WriterType /\ BrowserType

\* Only the current queue is open and holds frames.
QueuesInv ==
  /\ ~queues[outQ].closed
  /\ queues[outQ].frames # <<>> => queues[outQ].pushed
  /\ \A q \in 1..outQ : Len(queues[q].frames) <= Capacity /\ (q # outQ => queues[q].frames = <<>>)

\* A hand is empty, an event's or a page's.
HandInv ==
  \A a \in Actor :
    /\ pc[a] \notin Holding => frame[a] = Metadata
    /\ pc[a] \in {"capture", "push"} => frame[a] \in EventFrame
    /\ pc[a] \in {"loadQ", "page"} => frame[a] \in PageFrame /\ frame[a].nonce[1] = a
    /\ pc[a] \in {"push", "page", "flip", "metadata"} => target[a] # 0

\* The writer holds a batch but for when it waits.
WriterInv ==
  /\ Len(batch) <= Capacity
  /\ writer = "take" => batch = <<>> /\ writerQ = 0
  /\ writer # "take" => batch # <<>> /\ writerQ # 0 /\ queues[writerQ].pushed
  /\ writer \in {"take", "conn"} => writerWS = None
  /\ writer = "write" => writerWS # None

QueueInv == QueuesInv /\ HandInv /\ WriterInv

\* Who holds slot.ssMu.
LockInv ==
  \A a \in Actor : ssMu = a <=> pc[a] \in {"capture", "flip", "metadata", "loadQ", "page"}

\* A queue somebody is about to push to is current or closed.
TargetInv ==
  \A a \in Actor :
    pc[a] \in {"push", "page", "flip", "metadata"} /\ target[a] # outQ => queues[target[a]].closed

\* While sendMetadata holds the lock no event gets a later queue than its own; a handshake that
\* was overtaken leaves no client, or another handshake.
OvertakenInv ==
  \A c \in Conn : pc[c] \in {"flip", "metadata"} =>
    /\ \A e \in Emitter : pc[e] = "push" => target[e] <= target[c]
    /\ \A q \in 1..outQ : q > target[c] => queues[q].frames = <<>>
    /\ target[c] # outQ =>
         activeWS = None \/ \E d \in Conn \ {c} : pc[d] \in {"swapWS", "switch", "greet", "meta"}

\* A connection is known from its own swap on; the writer serves the current queue for another
\* than the client only while the client's handshake is under way.
ClientInv ==
  /\ \A c \in Conn : pc[c] \in {"new", "swapQ", "swapWS"} => activeWS # c /\ writerWS # c
  /\ writer \in {"era", "write"} /\ writerQ = outQ /\ activeWS \notin {None, writerWS} =>
       pc[activeWS] \in {"switch", "greet", "meta", "flip"}

EraInv == TargetInv /\ OvertakenInv /\ ClientInv /\ NoOldEraFrame

-----------------------------------------------------------------------------
Waiting == queues[outQ].frames
Frames == Range(Waiting) \cup Range(batch) \cup Range(frame)

\* The events somebody holds or shows.
Known ==
  {f \in Frames \cup UNION {Range(live[c]) \cup Range(buffer[c]) : c \in Conn} : f.kind = "event"}

\* What pages were frozen with: those on their way, and those a client shows.
Sent == {f \in Frames : f.kind = "page"}
Showing == {c \in Conn : nonce[c] # 0 /\ ~pending[c]}
After(f, n, seq) == f.id > n <=> f.seq = 0 \/ f.seq > seq

\* An event is later than a page exactly when the page does not hold it; one without its
\* number yet is later than every page.
OrderInv ==
  /\ \A f \in Known :
       /\ f.id \in 1..applied /\ f.seq <= clock
       /\ \A g \in Sent : After(f, g.has, g.seq)
       /\ \A c \in Showing : After(f, has[c], pageSeq[c])
  /\ \A g \in Sent : g.has <= applied /\ g.seq \in 1..clock

\* Only the event in a hand that holds the lock has no number yet.
NumberedInv ==
  /\ \A e \in Emitter :
       (pc[e] = "capture" => frame[e].seq = 0) /\ (pc[e] = "push" => frame[e].seq # 0)
  /\ \A f \in Range(Waiting) \cup Range(batch) : f.kind = "event" => f.seq # 0
  /\ \A c \in Conn : \A f \in Range(live[c]) \cup Range(buffer[c]) : f.seq # 0

PageInv ==
  \A c \in Conn :
    /\ has[c] <= applied /\ pageSeq[c] <= clock
    /\ nonce[c] # 0 /\ ~pending[c] => \A f \in Range(live[c]) : f.seq > pageSeq[c]

NumberInv == OrderInv /\ NumberedInv /\ PageInv

\* The browser numbers its requests; no page answers one that is still to come.
NonceInv ==
  \A c \in Conn : up[c] \/ pc[c] = "new" =>
    /\ \A n \in Range(asks[c]) : n <= nonce[c]
    /\ \A g \in Sent : g.nonce[1] = c => g.nonce[2] <= nonce[c]

EventIds(s) == {s[i].id : i \in {j \in 1..Len(s) : s[j].kind = "event"}}
Distinct(s) ==
  \A i, j \in 1..Len(s) : s[i].kind = "event" /\ s[j].kind = "event" /\ s[i].id = s[j].id => i = j

InHand == {frame[a].id : a \in {b \in Actor : frame[b].kind = "event"}}
Underway == InHand \cup EventIds(Waiting) \cup EventIds(batch)

\* An event is in one hand, or at one place of the queue or of the batch,
PlaceInv ==
  /\ \A a, b \in Actor :
       frame[a].kind = "event" /\ frame[b].kind = "event" /\ frame[a].id = frame[b].id => a = b
  /\ Distinct(Waiting) /\ Distinct(batch)
  /\ InHand \cap EventIds(Waiting) = {} /\ InHand \cap EventIds(batch) = {}
  /\ EventIds(Waiting) \cap EventIds(batch) = {}

\* or at one place of what a client has received.
SeenInv ==
  \A c \in Conn :
    /\ Distinct(live[c]) /\ Distinct(buffer[c])
    /\ Underway \cap (EventIds(live[c]) \cup EventIds(buffer[c])) = {}
    /\ IF pending[c] THEN live[c] = <<>> ELSE buffer[c] = <<>>

OnceInv == PlaceInv /\ SeenInv

-----------------------------------------------------------------------------
\* c is the client and no handshake is under way;
Serving(c) ==
  /\ active /\ activeWS = c /\ up[c] /\ pc[c] \in {"era", "read", "loadQ", "page"}
  /\ \A d \in Conn : pc[d] \notin Dialling

\* no metadata is on its way either.
MetadataComing ==
  Metadata \in Range(Waiting) \/ (writerQ = outQ /\ Metadata \in Range(batch))
Settling(c) == Serving(c) /\ ~MetadataComing

\* While the writer holds frames of an earlier queue, metadata waits in the current one.
StaleInv ==
  \A c \in Conn : Serving(c) /\ writerQ \notin {0, outQ} => Metadata \in Range(Waiting)

\* What a settled client will receive, and the effects among it.
Pushing == {frame[a] : a \in {b \in Actor : pc[b] \in {"push", "page"} /\ target[b] = outQ}}
Way == Range(Waiting) \cup Range(batch) \cup Pushing
Capturing == {frame[e].id : e \in {d \in Emitter : pc[d] = "capture"}}
Due == Capturing \cup {f.id : f \in {g \in Way : g.kind = "event"}}

\* The pages that answer its latest request.
Answers(c) ==
  {f \in Way \cup (IF pc[c] = "loadQ" THEN {frame[c]} ELSE {}) :
     f.kind = "page" /\ f.nonce = <<c, nonce[c]>>}

\* An effect that is not in its page is on its screen or due; the page it waits for is on its
\* way, and so is what comes after that page.
Covered(c) ==
  /\ nonce[c] # 0 /\ ~pending[c] =>
       \A i \in (has[c] + 1)..applied : i \in Ids(live[c]) \cup Due
  /\ pending[c] => nonce[c] \in Range(asks[c]) \/ Answers(c) # {}
  /\ pending[c] =>
       \A f \in Answers(c) : \A i \in (f.has + 1)..applied : i \in Ids(buffer[c]) \cup Due

ComingInv == \A c \in Conn : Settling(c) => Covered(c)

StreamInv ==
  /\ TypeInv /\ QueueInv /\ LockInv /\ EraInv /\ NumberInv /\ NonceInv /\ OnceInv
  /\ StaleInv /\ ComingInv

USE NameAssumption, BoundAssumption

-----------------------------------------------------------------------------
(* Sequences of frames.                                                    *)

\* A sequence and its range.
LEMMA Ranges ==
  ASSUME NEW S, NEW s \in Seq(S)
  PROVE  /\ Range(s) = {s[i] : i \in 1..Len(s)} /\ Len(s) \in Nat
         /\ Range(s) \subseteq S
         /\ s = <<>> <=> Len(s) = 0
<1>1. DOMAIN s = 1..Len(s) /\ Len(s) \in Nat /\ \A i \in 1..Len(s) : s[i] \in S
  BY LenProperties, ElementOfSeq
<1>2. s = <<>> <=> Len(s) = 0
  BY EmptySeq
<1>3. Range(s) = {s[i] : i \in 1..Len(s)}
  BY <1>1 DEF Range
<1> QED
  BY <1>1, <1>2, <1>3

LEMMA RangeEmpty == Range(<<>>) = {} /\ Len(<<>>) = 0 /\ \A S : <<>> \in Seq(S)
  BY Ranges, EmptySeq DEF Range

LEMMA RangeOne ==
  ASSUME NEW S, NEW x \in S
  PROVE  <<x>> \in Seq(S) /\ Len(<<x>>) = 1 /\ <<x>>[1] = x /\ Range(<<x>>) = {x}
<1> DEFINE t == <<x>>
<1>1. t \in Seq(S) /\ Len(t) = 1 /\ t[1] = x
  OBVIOUS
<1> HIDE DEF t
<1>2. Range(t) = {t[i] : i \in 1..Len(t)}
  BY <1>1, Ranges
<1>3. Range(t) = {x}
  BY <1>1, <1>2
<1> QED
  BY <1>1, <1>3 DEF t

\* What Append adds.
LEMMA AppendIs ==
  ASSUME NEW S, NEW s \in Seq(S), NEW x \in S
  PROVE  /\ Append(s, x) \in Seq(S) /\ Append(s, x) # <<>>
         /\ Len(Append(s, x)) = Len(s) + 1 /\ Append(s, x)[Len(s) + 1] = x
         /\ \A i \in 1..Len(s) : Append(s, x)[i] = s[i]
         /\ Range(Append(s, x)) = Range(s) \cup {x}
<1> DEFINE t == Append(s, x)
<1>1. /\ t \in Seq(S) /\ Len(t) = Len(s) + 1 /\ t[Len(s) + 1] = x
      /\ \A i \in 1..Len(s) : t[i] = s[i]
  BY AppendProperties
<1> HIDE DEF t
<1>2. Range(t) = {t[i] : i \in 1..Len(t)} /\ Range(s) = {s[i] : i \in 1..Len(s)} /\ Len(s) \in Nat
  BY <1>1, Ranges
<1>3. 1..Len(t) = 1..Len(s) \cup {Len(s) + 1}
  BY <1>1, <1>2
<1>5. t # <<>>
  BY <1>1, <1>2, Ranges
<1>4. Range(t) = Range(s) \cup {x}
  BY <1>1, <1>2, <1>3
<1> QED
  BY <1>1, <1>4, <1>5 DEF t

\* What Tail takes away.
LEMMA TailIs ==
  ASSUME NEW S, NEW s \in Seq(S), s # <<>>
  PROVE  /\ Head(s) \in S /\ Tail(s) \in Seq(S) /\ Head(s) = s[1] /\ Len(s) \in Nat \ {0}
         /\ Len(Tail(s)) \in Nat /\ Len(Tail(s)) = Len(s) - 1
         /\ \A i \in 1..Len(Tail(s)) : i + 1 \in 1..Len(s) /\ Tail(s)[i] = s[i + 1]
         /\ Range(s) = {Head(s)} \cup Range(Tail(s))
<1> DEFINE t == Tail(s)
<1>1. /\ t \in Seq(S) /\ Len(s) \in Nat \ {0} /\ Len(t) = Len(s) - 1
      /\ Head(s) = s[1] /\ s[1] \in S
      /\ \A i \in 1..Len(t) : i + 1 \in 1..Len(s) /\ t[i] = s[i + 1]
  BY EmptySeq, HeadTailProperties
<1>2. Range(t) = {t[i] : i \in 1..Len(t)} /\ Range(s) = {s[i] : i \in 1..Len(s)} /\ Len(t) \in Nat
  BY <1>1, Ranges
<1>3. \A i \in 1..Len(s) : i = 1 \/ (i - 1 \in 1..Len(t) /\ t[i - 1] = s[i])
  BY <1>1
<1> HIDE DEF t
<1>4. Range(s) = {s[1]} \cup Range(t)
  <2>1. \A i \in 1..Len(s) : s[i] \in {s[1]} \cup Range(t)
    BY <1>2, <1>3
  <2>2. \A i \in 1..Len(t) : t[i] \in Range(s)
    BY <1>1, <1>2
  <2>3. s[1] \in Range(s)
    BY <1>1, <1>2
  <2> QED
    BY <1>2, <2>1, <2>2, <2>3
<1> QED
  BY <1>1, <1>2, <1>4 DEF t

\* The kind of a frame says what it is.
LEMMA Kinds ==
  /\ Metadata \in Frame /\ Metadata.kind = "metadata"
  /\ Metadata \notin EventFrame /\ Metadata \notin PageFrame
  /\ \A f \in EventFrame : f \in Frame /\ f.kind = "event" /\ f.id \in Nat /\ f.by \in Emitter /\ f.seq \in Nat
  /\ \A f \in PageFrame :
       f \in Frame /\ f.kind = "page" /\ f.nonce \in Conn \X Nat /\ f.has \in Nat /\ f.seq \in Nat
  /\ \A f \in Frame :
       /\ f.kind = "event" <=> f \in EventFrame
       /\ f.kind = "page" <=> f \in PageFrame
       /\ f.kind = "metadata" <=> f = Metadata
  BY DEF Metadata, Frame, EventFrame, PageFrame

\* The ids of the events in a sequence.
LEMMA EventIdsIs ==
  ASSUME NEW s \in Seq(Frame)
  PROVE  EventIds(s) = {f.id : f \in {g \in Range(s) : g.kind = "event"}}
  BY Ranges DEF EventIds

LEMMA IdsIs ==
  ASSUME NEW s \in Seq(EventFrame)
  PROVE  /\ s \in Seq(Frame)
         /\ Ids(s) = {f.id : f \in Range(s)}
         /\ EventIds(s) = Ids(s)
<1>1. s \in Seq(Frame) /\ \A i \in 1..Len(s) : s[i] \in EventFrame
  BY SeqMonotonic, ElementOfSeq, Kinds
<1>2. Range(s) = {s[i] : i \in 1..Len(s)}
  BY Ranges
<1>3. Ids(s) = {f.id : f \in Range(s)}
  BY <1>2 DEF Ids
<1>4. \A i \in 1..Len(s) : s[i].kind = "event"
  BY <1>1, Kinds
<1>5. EventIds(s) = Ids(s)
  BY <1>4 DEF EventIds, Ids
<1> QED
  BY <1>1, <1>3, <1>5

\* A new event at the end, or one event fewer at the head, leaves the events distinct.
LEMMA DistinctAppend ==
  ASSUME NEW s \in Seq(Frame), NEW f \in Frame, Distinct(s),
         f.kind = "event" => f.id \notin EventIds(s)
  PROVE  Distinct(Append(s, f))
<1> DEFINE t == Append(s, f)
<1>1. /\ Len(s) \in Nat /\ Len(t) = Len(s) + 1 /\ t[Len(s) + 1] = f
      /\ \A i \in 1..Len(s) : t[i] = s[i]
  BY AppendIs, Ranges
<1>2. \A i \in 1..Len(t) : i \in 1..Len(s) \/ i = Len(s) + 1
  BY <1>1
<1>3. \A i \in 1..Len(s) : s[i].kind = "event" => s[i].id \in EventIds(s)
  BY DEF EventIds
<1> HIDE DEF t
<1> SUFFICES ASSUME NEW i \in 1..Len(t), NEW j \in 1..Len(t),
                    t[i].kind = "event", t[j].kind = "event", t[i].id = t[j].id
             PROVE  i = j
  BY DEF Distinct, t
<1>4. CASE i \in 1..Len(s) /\ j \in 1..Len(s)
  BY <1>1, <1>4 DEF Distinct
<1>5. CASE i = Len(s) + 1 \/ j = Len(s) + 1
  BY <1>1, <1>2, <1>3, <1>5
<1> QED
  BY <1>2, <1>4, <1>5

LEMMA DistinctTail ==
  ASSUME NEW s \in Seq(Frame), s # <<>>, Distinct(s)
  PROVE  /\ Distinct(Tail(s))
         /\ Head(s).kind = "event" => Head(s).id \notin EventIds(Tail(s))
<1> DEFINE t == Tail(s)
<1>1. /\ Len(s) \in Nat \ {0} /\ Len(t) \in Nat /\ Head(s) = s[1]
      /\ \A i \in 1..Len(t) : i + 1 \in 1..Len(s) /\ t[i] = s[i + 1]
  BY TailIs
<1> HIDE DEF t
<1>2. Distinct(t)
  <2> SUFFICES ASSUME NEW i \in 1..Len(t), NEW j \in 1..Len(t),
                      t[i].kind = "event", t[j].kind = "event", t[i].id = t[j].id
               PROVE  i = j
    BY DEF Distinct
  <2>1. i + 1 = j + 1
    BY <1>1 DEF Distinct
  <2> QED
    BY <2>1
<1>3. ASSUME s[1].kind = "event" PROVE s[1].id \notin EventIds(t)
  <2> SUFFICES ASSUME NEW i \in 1..Len(t), t[i].kind = "event", t[i].id = s[1].id
               PROVE  FALSE
    BY DEF EventIds
  <2>1. i + 1 \in 1..Len(s) /\ 1 \in 1..Len(s) /\ i + 1 # 1
    BY <1>1
  <2> QED
    BY <1>1, <1>3, <2>1 DEF Distinct
<1> QED
  BY <1>1, <1>2, <1>3 DEF t

-----------------------------------------------------------------------------
(* What a browser replays.  A recursive function is the CHOOSE of its      *)
(* equation: that one exists follows from the least number it does not     *)
(* reach, and so does what it holds at every step.                         *)

\* A set of naturals has a least element.
LEMMA Least ==
  ASSUME NEW S, S \subseteq Nat, S # {}
  PROVE  \E m \in S : \A n \in S : m <= n
<1> DEFINE R == OpToRel(<, Nat)
<1>1. \E m \in S : \A n \in S : <<n, m>> \notin R
  BY NatLessThanWellFounded, WFMin
<1>2. \A n, m \in Nat : n < m => <<n, m>> \in R
  BY DEF OpToRel
<1> HIDE DEF R
<1>3. PICK m \in S : \A n \in S : <<n, m>> \notin R
  BY <1>1
<1>4. ASSUME NEW n \in S PROVE m <= n
  <2>1. n \in Nat /\ m \in Nat /\ ~(n < m)
    BY <1>2, <1>3
  <2> QED
    BY <2>1
<1> QED
  BY <1>4

\* Induction, for a property given as a set.
LEMMA UpTo ==
  ASSUME NEW n \in Nat, NEW S, 0 \in S, \A i \in 1..n : i - 1 \in S => i \in S
  PROVE  \A i \in 0..n : i \in S
<1> DEFINE Bad == (0..n) \ S
<1>1. SUFFICES ASSUME Bad # {} PROVE FALSE
  OBVIOUS
<1>2. PICK m \in Bad : \A k \in Bad : m <= k
  <2>1. Bad \subseteq Nat
    OBVIOUS
  <2> HIDE DEF Bad
  <2> QED
    BY <1>1, <2>1, Least
<1>3. m \in 1..n /\ m - 1 \in 0..n /\ m - 1 < m
  BY <1>2
<1>4. m - 1 \notin Bad
  BY <1>2, <1>3
<1> QED
  BY <1>2, <1>3, <1>4

Iterates(f, n, A, a, step) ==
  /\ f \in [0..n -> A]
  /\ f[0] = a
  /\ \A i \in 1..n : f[i] = step[<<i, f[i - 1]>>]

\* A function given by its start and its step exists.
LEMMA Recursion ==
  ASSUME NEW n \in Nat, NEW A, NEW a \in A, NEW step \in [(1..n) \X A -> A]
  PROVE  \E f : Iterates(f, n, A, a, step)
<1> DEFINE S == {m \in 0..n : \E f \in [0..m -> A] :
                    f[0] = a /\ \A i \in 1..m : f[i] = step[<<i, f[i - 1]>>]}
<1>1. 0 \in S
  <2> DEFINE f == [i \in 0..0 |-> a]
  <2>1. f \in [0..0 -> A] /\ f[0] = a
    OBVIOUS
  <2> HIDE DEF f
  <2> QED
    BY <2>1
<1>2. ASSUME NEW m \in 1..n, m - 1 \in S PROVE m \in S
  <2>1. m \in Nat /\ m - 1 \in Nat /\ m - 1 \in 0..(m - 1) /\ m \in 0..n
    OBVIOUS
  <2>2. PICK f \in [0..(m-1) -> A] : f[0] = a /\ \A i \in 1..(m-1) : f[i] = step[<<i, f[i - 1]>>]
    BY <1>2
  <2> DEFINE g == [i \in 0..m |-> IF i = m THEN step[<<m, f[m - 1]>>] ELSE f[i]]
  <2>3. /\ g \in [0..m -> A] /\ g[m] = step[<<m, f[m - 1]>>]
        /\ \A i \in 0..(m-1) : g[i] = f[i]
    <3>1. step[<<m, f[m - 1]>>] \in A
      BY <2>1, <2>2
    <3>2. \A i \in 0..m : i = m \/ i \in 0..(m-1)
      BY <2>1
    <3>3. \A i \in 0..(m-1) : i \in 0..m /\ i # m
      BY <2>1
    <3> QED
      BY <2>1, <2>2, <3>1, <3>2, <3>3
  <2> HIDE DEF g
  <2>4. g[0] = a
    BY <2>1, <2>2, <2>3
  <2>5. ASSUME NEW i \in 1..m PROVE g[i] = step[<<i, g[i - 1]>>]
    <3>1. i - 1 \in 0..(m-1)
      BY <2>1
    <3>2. i = m \/ (i \in 1..(m-1) /\ i \in 0..(m-1))
      BY <2>1
    <3> QED
      BY <2>2, <2>3, <3>1, <3>2
  <2> QED
    BY <2>1, <2>3, <2>4, <2>5
<1> HIDE DEF S
<1>3. \A i \in 0..n : i \in S
  BY <1>1, <1>2, UpTo
<1>4. n \in S
  BY <1>3
<1> QED
  BY <1>4 DEF S, Iterates

Unfolds(k, F, s, n) ==
  /\ k \in [0..Len(s) -> Seq(F)]
  /\ k[0] = <<>>
  /\ \A i \in 1..Len(s) : k[i] = IF s[i].seq > n THEN Append(k[i - 1], s[i]) ELSE k[i - 1]
  /\ Replayed(s, n) = k[Len(s)]

\* The recursive function of Replayed exists and unfolds.
LEMMA ReplayedUnfolds ==
  ASSUME NEW F, NEW s \in Seq(F), NEW n \in Nat
  PROVE  \E k : Unfolds(k, F, s, n)
<1> DEFINE E(g) == [i \in 0..Len(s) |->
        IF i = 0 THEN <<>>
        ELSE IF s[i].seq > n THEN Append(g[i - 1], s[i]) ELSE g[i - 1]]
    kept == CHOOSE g : g = E(g)
    A == Seq(F)
    none == <<>>
    m == Len(s)
    step == [p \in (1..Len(s)) \X A |-> IF s[p[1]].seq > n THEN Append(p[2], s[p[1]]) ELSE p[2]]
<1>1. /\ m \in Nat /\ none \in A
      /\ \A i \in 1..m, t \in A : Append(t, s[i]) \in A
  BY LenProperties, EmptySeq, ElementOfSeq, AppendProperties
<1>2. \A i \in 1..m, t \in A :
        step[<<i, t>>] = IF s[i].seq > n THEN Append(t, s[i]) ELSE t
  OBVIOUS
<1>3. step \in [(1..m) \X A -> A]
  BY <1>1
<1> HIDE DEF step, A, none, m
<1>4. PICK k : Iterates(k, m, A, none, step)
  BY <1>1, <1>3, Recursion
<1>5. /\ k \in [0..m -> A] /\ k[0] = none
      /\ \A i \in 1..m : k[i] = IF s[i].seq > n THEN Append(k[i - 1], s[i]) ELSE k[i - 1]
  <2>1. \A i \in 1..m : i - 1 \in 0..m
    BY <1>1
  <2> QED
    BY <1>2, <1>4, <2>1 DEF Iterates
<1>6. k = E(k)
  <2>1. \A i \in 0..m : i = 0 \/ i \in 1..m
    BY <1>1
  <2>2. k = [i \in 0..m |-> k[i]]
    BY <1>5
  <2>3. \A i \in 0..m : k[i] = IF i = 0 THEN none
                               ELSE IF s[i].seq > n THEN Append(k[i - 1], s[i]) ELSE k[i - 1]
    BY <1>5, <2>1
  <2> QED
    BY <2>2, <2>3 DEF m, none
<1>7. kept = E(kept)
  <2> HIDE DEF E
  <2> QED
    BY <1>6
<1>8. Replayed(s, n) = kept[m]
  BY DEF Replayed, m
<1> HIDE DEF kept
<1>9. \A i \in 0..m : kept[i] = IF i = 0 THEN none
                ELSE IF s[i].seq > n THEN Append(kept[i - 1], s[i]) ELSE kept[i - 1]
  BY <1>7 DEF m, none
<1> HIDE DEF E
<1>10. kept[m] = k[m]
  <2> DEFINE S == {i \in 0..m : kept[i] = k[i]}
  <2>1. 0 \in S
    BY <1>1, <1>5, <1>9
  <2>2. ASSUME NEW i \in 1..m, i - 1 \in S PROVE i \in S
    <3>1. i \in 0..m /\ i # 0
      BY <1>1
    <3> QED
      BY <1>5, <1>9, <2>2, <3>1
  <2>3. \A i \in 0..m : i \in S
    <3> HIDE DEF S
    <3> QED
      BY <1>1, <2>1, <2>2, UpTo
  <2> QED
    BY <1>1, <2>3
<1> QED
  BY <1>5, <1>8, <1>10 DEF Unfolds, A, m, none

\* The events later than the page, each as often as it was buffered.
LEMMA ReplayedIs ==
  ASSUME NEW s \in Seq(EventFrame), NEW n \in Nat, Distinct(s)
  PROVE  /\ Replayed(s, n) \in Seq(EventFrame)
         /\ Range(Replayed(s, n)) = {f \in Range(s) : f.seq > n}
         /\ Distinct(Replayed(s, n))
<1> DEFINE m == Len(s)
<1>0. PICK k : Unfolds(k, EventFrame, s, n)
  BY ReplayedUnfolds
<1>1. /\ k \in [0..m -> Seq(EventFrame)] /\ k[0] = <<>>
      /\ \A i \in 1..m : k[i] = IF s[i].seq > n THEN Append(k[i - 1], s[i]) ELSE k[i - 1]
      /\ Replayed(s, n) = k[m]
  BY <1>0 DEF Unfolds
<1>2. m \in Nat /\ Range(s) = {s[i] : i \in 1..m} /\ \A i \in 1..m : s[i] \in EventFrame
  BY Ranges, ElementOfSeq
<1>3. \A i, j \in 1..m : s[i].id = s[j].id => i = j
  BY <1>2, Kinds DEF Distinct
<1> DEFINE Upto(i) == {s[j] : j \in {h \in 1..i : s[h].seq > n}}
           S == {i \in 0..m : Range(k[i]) = Upto(i) /\ Distinct(k[i])}
           later == {f \in Range(s) : f.seq > n}
<1> HIDE DEF m
<1>4. 0 \in S
  <2>1. 1..0 = {}
    OBVIOUS
  <2>2. Upto(0) = {}
    BY <2>1
  <2>3. Distinct(<<>>) /\ Range(<<>>) = {}
    BY RangeEmpty DEF Distinct
  <2> QED
    BY <1>1, <1>2, <2>2, <2>3
<1>5. ASSUME NEW i \in 1..m, i - 1 \in S PROVE i \in S
  <2>1. i \in 0..m /\ i - 1 \in 0..m /\ k[i - 1] \in Seq(EventFrame)
    BY <1>1, <1>2
  <2>2. \A h \in 1..i : h \in 1..(i - 1) \/ h = i
    BY <1>2
  <2>3. \A h \in 1..(i - 1) : h \in 1..i /\ h \in 1..m /\ h # i
    BY <1>2
  <2>4. CASE s[i].seq > n
    <3>1. k[i] = Append(k[i - 1], s[i]) /\ s[i] \in EventFrame
      BY <1>1, <1>2, <2>4
    <3>2. Upto(i) = Upto(i - 1) \cup {s[i]}
      BY <2>2, <2>3, <2>4
    <3>3. Range(k[i]) = Range(k[i - 1]) \cup {s[i]}
      BY <2>1, <3>1, AppendIs
    <3>4. s[i].id \notin EventIds(k[i - 1])
      <4>1. \A f \in Upto(i - 1) : f.id # s[i].id
        BY <1>3, <2>3
      <4>2. \A f \in Range(k[i - 1]) : f.id # s[i].id
        BY <1>5, <4>1
      <4> QED
        BY <2>1, <4>2, IdsIs
    <3>5. Distinct(k[i])
      <4>1. k[i - 1] \in Seq(Frame) /\ s[i] \in Frame /\ Distinct(k[i - 1])
        BY <1>5, <2>1, <3>1, IdsIs, Kinds
      <4> QED
        BY <3>1, <3>4, <4>1, DistinctAppend
    <3> QED
      BY <1>5, <2>1, <3>2, <3>3, <3>5
  <2>5. CASE ~(s[i].seq > n)
    <3>1. k[i] = k[i - 1]
      BY <1>1, <2>5
    <3>2. Upto(i) = Upto(i - 1)
      BY <2>2, <2>3, <2>5
    <3> QED
      BY <1>5, <2>1, <3>1, <3>2
  <2> QED
    BY <2>4, <2>5
<1>6. m \in S
  <2> HIDE DEF S
  <2>1. \A i \in 0..m : i \in S
    BY <1>2, <1>4, <1>5, UpTo
  <2> QED
    BY <1>2, <2>1
<1>7. Upto(m) = later
  BY <1>2
<1>8. k[m] \in Seq(EventFrame) /\ Range(k[m]) = Upto(m) /\ Distinct(k[m])
  BY <1>1, <1>2, <1>6
<1> HIDE DEF Upto, S
<1> QED
  BY <1>1, <1>7, <1>8

-----------------------------------------------------------------------------
(* Types.                                                                  *)

\* The current queue is the last one.
LEMMA QueueIs ==
  ASSUME TypeInv
  PROVE  /\ outQ \in Nat \ {0} /\ outQ \in 1..outQ
         /\ \A q \in 1..outQ :
              /\ queues[q] \in Queue /\ queues[q].frames \in Seq(Frame)
              /\ queues[q].closed \in BOOLEAN /\ queues[q].pushed \in BOOLEAN
<1>1. queues \in Seq(Queue) /\ queues # <<>> /\ outQ = Len(queues)
  BY DEF TypeInv, QueueType
<1>2. outQ \in Nat \ {0}
  BY <1>1, Ranges
<1>3. \A q \in 1..outQ : queues[q] \in Queue
  BY <1>1, ElementOfSeq
<1> QED
  BY <1>2, <1>3 DEF Queue

\* What a push does to the queues,
LEMMA PushedIs ==
  ASSUME TypeInv, NEW q \in 1..outQ, NEW f \in Frame, Pushed(q, f)
  PROVE  /\ queues' \in Seq(Queue) /\ Len(queues') = outQ /\ queues' # <<>>
         /\ \A p \in 1..outQ : p # q => queues'[p] = queues[p]
         /\ queues[q].closed => queues' = queues
         /\ ~queues[q].closed =>
              /\ Len(queues[q].frames) < Capacity
              /\ queues'[q].frames = Append(queues[q].frames, f)
              /\ ~queues'[q].closed /\ queues'[q].pushed
<1>1. /\ outQ \in Nat \ {0} /\ queues \in Seq(Queue) /\ outQ = Len(queues)
      /\ \A p \in 1..outQ : queues[p] \in Queue
      /\ queues[q].frames \in Seq(Frame)
  BY QueueIs DEF TypeInv, QueueType
<1>2. CASE queues[q].closed /\ UNCHANGED queues
  BY <1>1, <1>2, EmptySeq
<1>3. CASE /\ ~queues[q].closed /\ Len(queues[q].frames) < Capacity
           /\ queues' = [queues EXCEPT ![q].frames = Append(@, f), ![q].pushed = TRUE]
  <2> DEFINE r == [queues[q] EXCEPT !.frames = Append(@, f), !.pushed = TRUE]
  <2>1. Append(queues[q].frames, f) \in Seq(Frame)
    BY <1>1, AppendIs
  <2>2. /\ r \in Queue /\ r.frames = Append(queues[q].frames, f)
        /\ r.closed = queues[q].closed /\ r.pushed
    BY <1>1, <2>1 DEF Queue
  <2>3. queues' = [queues EXCEPT ![q] = r]
    BY <1>3
  <2> HIDE DEF r
  <2>4. queues' \in Seq(Queue) /\ Len(queues') = Len(queues) /\ queues'[q] = r
        /\ \A p \in 1..outQ : p # q => queues'[p] = queues[p]
    BY <1>1, <2>2, <2>3, ExceptSeq
  <2>5. queues' # <<>>
    BY <1>1, <2>4, EmptySeq
  <2> QED
    BY <1>1, <1>3, <2>2, <2>4, <2>5
<1> QED
  BY <1>2, <1>3 DEF Pushed

\* what a takeover does,
LEMMA ClosedIs ==
  ASSUME TypeInv, NEW q \in 1..outQ, NEW r \in Queue, queues' = Append(Closed(q), r)
  PROVE  /\ queues' \in Seq(Queue) /\ Len(queues') = outQ + 1 /\ queues' # <<>>
         /\ queues'[outQ + 1] = r
         /\ queues'[q].frames = <<>> /\ queues'[q].closed /\ queues'[q].pushed
         /\ \A p \in 1..outQ : p # q => queues'[p] = queues[p]
<1> DEFINE z == [frames |-> <<>>, closed |-> TRUE, pushed |-> TRUE]
           s == Closed(q)
<1>1. /\ outQ \in Nat \ {0} /\ queues \in Seq(Queue) /\ outQ = Len(queues)
  BY QueueIs DEF TypeInv, QueueType
<1>2. z \in Queue /\ z.frames = <<>> /\ z.closed /\ z.pushed
  BY RangeEmpty DEF Queue
<1>3. s = [queues EXCEPT ![q] = z]
  BY DEF Closed
<1> HIDE DEF z
<1>4. s \in Seq(Queue) /\ Len(s) = outQ /\ s[q] = z /\ \A p \in 1..outQ : p # q => s[p] = queues[p]
  BY <1>1, <1>2, <1>3, ExceptSeq
<1> HIDE DEF s
<1>5. queues' = Append(s, r)
  BY DEF s
<1>6. /\ queues' \in Seq(Queue) /\ Len(queues') = outQ + 1 /\ queues' # <<>>
      /\ queues'[outQ + 1] = r /\ \A p \in 1..outQ : queues'[p] = s[p]
  BY <1>4, <1>5, AppendIs
<1> QED
  BY <1>2, <1>4, <1>6

\* and what the writer does.
LEMMA TakenIs ==
  ASSUME TypeInv, queues' = [queues EXCEPT ![outQ].frames = <<>>]
  PROVE  /\ queues' \in Seq(Queue) /\ Len(queues') = outQ /\ queues' # <<>>
         /\ queues'[outQ].frames = <<>> /\ queues'[outQ].closed = queues[outQ].closed
         /\ queues'[outQ].pushed = queues[outQ].pushed
         /\ \A p \in 1..outQ : p # outQ => queues'[p] = queues[p]
<1> DEFINE r == [queues[outQ] EXCEPT !.frames = <<>>]
<1>1. /\ outQ \in Nat \ {0} /\ outQ \in 1..outQ /\ queues \in Seq(Queue) /\ outQ = Len(queues)
      /\ queues[outQ] \in Queue
  BY QueueIs DEF TypeInv, QueueType
<1>2. r \in Queue /\ r.frames = <<>> /\ r.closed = queues[outQ].closed /\ r.pushed = queues[outQ].pushed
  BY <1>1, RangeEmpty DEF Queue
<1>3. queues' = [queues EXCEPT ![outQ] = r]
  OBVIOUS
<1> HIDE DEF r
<1>4. queues' \in Seq(Queue) /\ Len(queues') = outQ /\ queues'[outQ] = r
      /\ \A p \in 1..outQ : p # outQ => queues'[p] = queues[p]
  BY <1>1, <1>2, <1>3, ExceptSeq
<1> QED
  BY <1>1, <1>2, <1>4, EmptySeq

Greeted == [Pristine EXCEPT !.frames = <<Metadata>>, !.pushed = TRUE]

LEMMA PristineIs ==
  /\ Pristine \in Queue /\ Pristine.frames = <<>> /\ ~Pristine.closed /\ ~Pristine.pushed
  /\ Greeted \in Queue /\ Greeted.frames = <<Metadata>> /\ ~Greeted.closed /\ Greeted.pushed
<1>1. <<Metadata>> \in Seq(Frame)
  BY Kinds, RangeOne
<1> QED
  BY <1>1, RangeEmpty DEF Pristine, Greeted, Queue

\* What the browser does at a frame.
LEMMA ReceiveIs ==
  ASSUME TypeInv, OnceInv, NEW c \in Conn, NEW f \in Frame, Receive(c, f)
  PROVE  /\ f = Metadata => Reset(c)
         /\ f \in EventFrame => Show(c, f)
         /\ f \in PageFrame => ApplyPage(c, f)
         /\ f \in PageFrame =>
              /\ Replayed(buffer[c], f.seq) \in Seq(EventFrame)
              /\ Range(Replayed(buffer[c], f.seq)) = {g \in Range(buffer[c]) : g.seq > f.seq}
              /\ Distinct(Replayed(buffer[c], f.seq))
              /\ pending[c] => live[c] \o Replayed(buffer[c], f.seq) = Replayed(buffer[c], f.seq)
<1>1. /\ f = Metadata => Reset(c)
      /\ f \in EventFrame => Show(c, f)
      /\ f \in PageFrame => ApplyPage(c, f)
  BY Kinds DEF Receive
<1>2. ASSUME f \in PageFrame
      PROVE  /\ Replayed(buffer[c], f.seq) \in Seq(EventFrame)
             /\ Range(Replayed(buffer[c], f.seq)) = {g \in Range(buffer[c]) : g.seq > f.seq}
             /\ Distinct(Replayed(buffer[c], f.seq))
  <2>1. buffer[c] \in Seq(EventFrame) /\ f.seq \in Nat /\ Distinct(buffer[c])
    BY <1>2, Kinds DEF TypeInv, BrowserType, OnceInv, SeenInv
  <2> QED
    BY <2>1, ReplayedIs
<1>3. ASSUME f \in PageFrame, pending[c]
      PROVE  live[c] \o Replayed(buffer[c], f.seq) = Replayed(buffer[c], f.seq)
  <2>1. live[c] = <<>>
    BY <1>3 DEF OnceInv, SeenInv
  <2> QED
    BY <1>2, <1>3, <2>1, ConcatEmptySeq
<1> QED
  BY <1>1, <1>2, <1>3

\* The head of the batch and the rest.
LEMMA BatchIs ==
  ASSUME TypeInv, batch # <<>>
  PROVE  /\ Head(batch) \in Frame /\ Tail(batch) \in Seq(Frame)
         /\ Range(batch) = {Head(batch)} \cup Range(Tail(batch))
         /\ Len(Tail(batch)) <= Len(batch)
<1>1. batch \in Seq(Frame)
  BY DEF TypeInv, WriterType
<1> QED
  BY <1>1, TailIs

LEMMA HangUpType ==
  ASSUME BrowserType, NEW c \in Conn, HangUp(c), UNCHANGED asks
  PROVE  BrowserType'
<1>1. <<>> \in Seq(EventFrame)
  BY RangeEmpty
<1>2. live' \in [Conn -> Seq(EventFrame)] /\ buffer' \in [Conn -> Seq(EventFrame)]
  BY <1>1 DEF HangUp, BrowserType
<1> QED
  BY <1>2 DEF HangUp, BrowserType

LEMMA ReceiveType ==
  ASSUME TypeInv, OnceInv, NEW c \in Conn, NEW f \in Frame, Receive(c, f)
  PROVE  BrowserType'
<1>1. f = Metadata \/ f \in EventFrame \/ f \in PageFrame
  BY DEF Frame
<1>2. /\ nonce[c] \in Nat /\ asks[c] \in Seq(Nat)
      /\ live[c] \in Seq(EventFrame) /\ buffer[c] \in Seq(EventFrame)
      /\ BrowserType
  BY DEF TypeInv, BrowserType
<1>3. CASE f = Metadata
  <2>1. nonce[c] + 1 \in Nat /\ Append(asks[c], nonce[c] + 1) \in Seq(Nat) /\ <<>> \in Seq(EventFrame)
    BY <1>2, AppendIs, RangeEmpty
  <2>2. Reset(c)
    BY <1>3, ReceiveIs
  <2> QED
    BY <1>2, <2>1, <2>2 DEF Reset, BrowserType
<1>4. CASE f \in EventFrame
  <2>1. Append(buffer[c], f) \in Seq(EventFrame) /\ Append(live[c], f) \in Seq(EventFrame)
    BY <1>2, <1>4, AppendIs
  <2>2. Show(c, f)
    BY <1>4, ReceiveIs
  <2>3. /\ live' = live \/ live' = [live EXCEPT ![c] = Append(live[c], f)]
        /\ buffer' = buffer \/ buffer' = [buffer EXCEPT ![c] = Append(buffer[c], f)]
        /\ UNCHANGED <<asks, nonce, pending, pageSeq, has>>
    BY <2>2 DEF Show
  <2>4. live' \in [Conn -> Seq(EventFrame)]
    BY <1>2, <2>1, <2>3 DEF BrowserType
  <2>5. buffer' \in [Conn -> Seq(EventFrame)]
    BY <1>2, <2>1, <2>3 DEF BrowserType
  <2> QED
    BY <1>2, <2>3, <2>4, <2>5 DEF BrowserType
<1>5. CASE f \in PageFrame
  <2>1. f.seq \in Nat /\ f.has \in Nat /\ <<>> \in Seq(EventFrame)
    BY <1>5, Kinds, RangeEmpty
  <2>2. ApplyPage(c, f) /\ Replayed(buffer[c], f.seq) \in Seq(EventFrame)
        /\ (pending[c] => live[c] \o Replayed(buffer[c], f.seq) = Replayed(buffer[c], f.seq))
    BY <1>5, ReceiveIs
  <2>3. live' = live \/ live' = [live EXCEPT ![c] = Replayed(buffer[c], f.seq)]
    BY <2>2 DEF ApplyPage
  <2>5. /\ UNCHANGED <<asks, nonce>>
        /\ pending' = pending \/ pending' = [pending EXCEPT ![c] = FALSE]
        /\ pageSeq' = pageSeq \/ pageSeq' = [pageSeq EXCEPT ![c] = f.seq]
        /\ has' = has \/ has' = [has EXCEPT ![c] = f.has]
        /\ buffer' = buffer \/ buffer' = [buffer EXCEPT ![c] = <<>>]
    BY <2>2 DEF ApplyPage
  <2>4. live' \in [Conn -> Seq(EventFrame)]
    BY <1>2, <2>2, <2>3 DEF BrowserType
  <2>6. buffer' \in [Conn -> Seq(EventFrame)]
    BY <1>2, <2>1, <2>5 DEF BrowserType
  <2>7. pageSeq' \in [Conn -> Nat] /\ has' \in [Conn -> Nat]
    BY <1>2, <2>1, <2>5 DEF BrowserType
  <2>8. pending' \in [Conn -> BOOLEAN]
    BY <1>2, <2>5 DEF BrowserType
  <2>9. UNCHANGED <<asks, nonce>>
    BY <2>5
  <2> QED
    BY <1>2, <2>4, <2>6, <2>7, <2>8, <2>9 DEF BrowserType
<1> QED
  BY <1>1, <1>3, <1>4, <1>5

\* Every action keeps the types.
LEMMA TypeStep == TypeInv /\ QueueInv /\ OnceInv /\ [Next]_vars => TypeInv'
<1> SUFFICES ASSUME TypeInv, QueueInv, OnceInv, [Next]_vars
             PROVE  TypeInv'
  OBVIOUS
<1>1. ASSUME NEW e \in Emitter, Apply(e) PROVE TypeInv'
  <2>1. applied + 1 \in 0..MaxEvents /\ applied + 1 \in Nat
    BY <1>1 DEF Apply, TypeInv, SlotType
  <2>2. [kind |-> "event", id |-> applied + 1, by |-> e, seq |-> 0] \in Frame
    BY <2>1, Kinds DEF EventFrame
  <2>3. SlotType'
    BY <1>1, <2>1 DEF TypeInv, SlotType, Apply, Actor
  <2>4. PcType'
    BY <1>1 DEF TypeInv, PcType, Apply, Goto, Place, EmitterPlace, Actor, Dialling
  <2>5. HandType'
    BY <1>1, <2>2 DEF TypeInv, HandType, Apply, Actor, outbound
  <2>6. UNCHANGED <<queues, outQ, again, up, myEra, installed, writer, batch, writerQ, writerWS,
    asks, nonce, pending, pageSeq, has, live, buffer>>
    BY <1>1 DEF Apply, outbound, writing, browser
  <2> QED
    BY <2>3, <2>4, <2>5, <2>6 DEF TypeInv, QueueType, ConnType, WriterType, BrowserType
<1>2. ASSUME NEW e \in Emitter, Capture(e) PROVE TypeInv'
  <2>1. frame[e] \in EventFrame /\ outQ \in 0..outQ /\ clock + 1 \in Nat
    BY <1>2, QueueIs DEF Capture, TypeInv, SlotType, QueueInv, HandInv, Actor
  <2>2. [frame[e] EXCEPT !.seq = clock + 1] \in Frame
    BY <2>1, Kinds DEF EventFrame
  <2>3. SlotType'
    BY <1>2, <2>1 DEF TypeInv, SlotType, Capture, slot
  <2>4. PcType'
    BY <1>2 DEF TypeInv, PcType, Capture, Goto, Place, EmitterPlace, Actor, Dialling
  <2>5. HandType'
    BY <1>2, <2>1, <2>2 DEF TypeInv, HandType, Capture, outbound, Actor
  <2>6. UNCHANGED <<queues, outQ, again, up, myEra, installed, writer, batch, writerQ, writerWS,
    asks, nonce, pending, pageSeq, has, live, buffer>>
    BY <1>2 DEF Capture, slot, outbound, writing, browser
  <2> QED
    BY <2>3, <2>4, <2>5, <2>6 DEF TypeInv, QueueType, ConnType, WriterType, BrowserType
<1>3. ASSUME NEW e \in Emitter, Push(e) PROVE TypeInv'
  <2>1. target[e] \in 1..outQ /\ frame[e] \in Frame
    BY <1>3 DEF Push, TypeInv, HandType, QueueInv, HandInv, Actor
  <2>2. SlotType'
    BY <1>3 DEF TypeInv, SlotType, Push, slot
  <2>3. QueueType'
    BY <1>3, <2>1, PushedIs DEF TypeInv, QueueType, Push
  <2>4. PcType'
    BY <1>3 DEF TypeInv, PcType, Push, Goto, Place, EmitterPlace, Actor, Dialling
  <2>5. HandType'
    BY <1>3, Kinds, QueueIs DEF TypeInv, HandType, Push, Done, Actor
  <2>6. UNCHANGED <<again, up, myEra, installed, writer, batch, writerQ, writerWS, asks, nonce,
    pending, pageSeq, has, live, buffer, outQ>>
    BY <1>3 DEF Push, slot, writing, browser
  <2> QED
    BY <2>2, <2>3, <2>4, <2>5, <2>6 DEF TypeInv, ConnType, WriterType, BrowserType
<1>4. ASSUME NEW c \in Conn, Dial(c) PROVE TypeInv'
  <2>1. SlotType'
    BY <1>4 DEF TypeInv, SlotType, Dial
  <2>2. PcType'
    BY <1>4 DEF TypeInv, PcType, Dial, Goto, Dialling, Place, EmitterPlace, Actor
  <2>3. ConnType'
    BY <1>4 DEF TypeInv, ConnType, Dial, actor, outbound
  <2>4. UNCHANGED <<queues, outQ, target, frame, writer, batch, writerQ, writerWS, asks, nonce,
    pending, pageSeq, has, live, buffer>>
    BY <1>4 DEF Dial, outbound, actor, writing, browser
  <2> QED
    BY <2>1, <2>2, <2>3, <2>4 DEF TypeInv, QueueType, HandType, WriterType, BrowserType
<1>5. ASSUME NEW c \in Conn, SwapQueue(c) PROVE TypeInv'
  <2>1. queues' \in Seq(Queue) /\ Len(queues') = outQ + 1 /\ queues' # <<>> /\ outQ' = outQ + 1
    /\ outQ \in Nat
    BY <1>5, QueueIs, ClosedIs, PristineIs DEF SwapQueue, TypeInv, QueueType
  <2>2. \A q \in 0..outQ : q \in 0..outQ'
    BY <2>1
  <2>3. SlotType'
    BY <1>5 DEF TypeInv, SlotType, SwapQueue, slot
  <2>4. QueueType'
    BY <2>1 DEF TypeInv, QueueType
  <2>5. PcType'
    BY <1>5 DEF TypeInv, PcType, SwapQueue, Goto, Dialling, Place, EmitterPlace, Actor
  <2>6. HandType'
    BY <1>5, <2>2 DEF TypeInv, HandType, SwapQueue, Actor
  <2>7. ConnType'
    BY <1>5, <2>1, <2>2 DEF TypeInv, ConnType, SwapQueue, QueueType
  <2>8. WriterType'
    BY <1>5, <2>2 DEF TypeInv, WriterType, SwapQueue, writing
  <2>9. UNCHANGED <<asks, nonce, pending, pageSeq, has, live, buffer>>
    BY <1>5 DEF SwapQueue, slot, writing, browser
  <2> QED
    BY <2>3, <2>4, <2>5, <2>6, <2>7, <2>8, <2>9 DEF TypeInv, BrowserType
<1>6. ASSUME NEW c \in Conn, SwapConn(c) PROVE TypeInv'
  <2>1. SlotType'
    BY <1>6 DEF TypeInv, SlotType, SwapConn
  <2>2. PcType'
    BY <1>6 DEF TypeInv, PcType, SwapConn, Goto, Dialling, Place, EmitterPlace, Actor
  <2>3. ConnType'
    BY <1>6 DEF TypeInv, ConnType, SlotType, SwapConn, HangUp, actor, outbound
  <2>4. BrowserType'
    BY <1>6, HangUpType DEF TypeInv, BrowserType, SlotType, SwapConn, browser
  <2>5. UNCHANGED <<queues, outQ, target, frame, writer, batch, writerQ, writerWS>>
    BY <1>6 DEF SwapConn, outbound, actor, writing, browser
  <2> QED
    BY <2>1, <2>2, <2>3, <2>4, <2>5 DEF TypeInv, QueueType, HandType, WriterType
<1>7. ASSUME NEW c \in Conn, SwitchEngine(c) PROVE TypeInv'
  <2>1. SlotType'
    BY <1>7 DEF TypeInv, SlotType, SwitchEngine, Handshake
  <2>2. PcType'
    BY <1>7 DEF TypeInv, PcType, SwitchEngine, Handshake, Goto, Dialling, Place,
      EmitterPlace, Actor
  <2>3. ConnType'
    BY <1>7 DEF TypeInv, ConnType, SwitchEngine, Handshake, outbound
  <2>4. UNCHANGED <<queues, outQ, target, frame, writer, batch, writerQ, writerWS, asks, nonce,
    pending, pageSeq, has, live, buffer>>
    BY <1>7 DEF SwitchEngine, Handshake, outbound, writing, browser
  <2> QED
    BY <2>1, <2>2, <2>3, <2>4 DEF TypeInv, QueueType, HandType, WriterType, BrowserType
<1>7a. ASSUME NEW c \in Conn, Greet(c) PROVE TypeInv'
  <2>1. SlotType'
    BY <1>7a DEF TypeInv, SlotType, Greet
  <2>2. PcType'
    BY <1>7a DEF TypeInv, PcType, Greet, Return, Goto, Dialling, Place, EmitterPlace, Actor
  <2>3. ConnType'
    BY <1>7a DEF TypeInv, ConnType, Greet, Return, outbound
  <2>4. UNCHANGED <<queues, outQ, target, frame, writer, batch, writerQ, writerWS, asks, nonce,
    pending, pageSeq, has, live, buffer>>
    BY <1>7a DEF Greet, outbound, writing, browser
  <2> QED
    BY <2>1, <2>2, <2>3, <2>4 DEF TypeInv, QueueType, HandType, WriterType, BrowserType
<1>8. ASSUME NEW c \in Conn, LoadEra(c) PROVE TypeInv'
  <2>1. outQ \in 0..outQ
    BY QueueIs
  <2>2. SlotType'
    BY <1>8 DEF TypeInv, SlotType, LoadEra, slot
  <2>3. PcType'
    BY <1>8 DEF TypeInv, PcType, LoadEra, Goto, Place, EmitterPlace, Actor, Dialling
  <2>4. ConnType'
    BY <1>8, <2>1 DEF TypeInv, ConnType, LoadEra, outbound
  <2>5. UNCHANGED <<queues, outQ, target, frame, writer, batch, writerQ, writerWS, asks, nonce,
    pending, pageSeq, has, live, buffer>>
    BY <1>8 DEF LoadEra, slot, outbound, writing, browser
  <2> QED
    BY <2>2, <2>3, <2>4, <2>5 DEF TypeInv, QueueType, HandType, WriterType, BrowserType
<1>9. ASSUME NEW c \in Conn, LoadQueue(c) PROVE TypeInv'
  <2>1. outQ \in 0..outQ
    BY QueueIs
  <2>2. SlotType'
    BY <1>9 DEF TypeInv, SlotType, LoadQueue, Actor, slot
  <2>3. PcType'
    BY <1>9 DEF TypeInv, PcType, LoadQueue, Goto, Dialling, Place, EmitterPlace, Actor
  <2>4. HandType'
    BY <1>9, <2>1 DEF TypeInv, HandType, LoadQueue, outbound, Actor
  <2>5. UNCHANGED <<queues, outQ, again, up, myEra, installed, writer, batch, writerQ, writerWS,
    asks, nonce, pending, pageSeq, has, live, buffer>>
    BY <1>9 DEF LoadQueue, slot, outbound, writing, browser
  <2> QED
    BY <2>2, <2>3, <2>4, <2>5 DEF TypeInv, QueueType, ConnType, WriterType, BrowserType
<1>10. ASSUME NEW c \in Conn, Flip(c) PROVE TypeInv'
  <2>1. target[c] \in 1..outQ
    BY <1>10 DEF Flip, TypeInv, HandType, QueueInv, HandInv, Actor
  <2>2. queues' \in Seq(Queue) /\ Len(queues') = outQ + 1 /\ queues' # <<>> /\ outQ' = outQ + 1
    /\ outQ \in Nat
    BY <1>10, <2>1, QueueIs, ClosedIs, PristineIs DEF Flip, Greeted, TypeInv, QueueType
  <2>3. \A q \in 0..outQ : q \in 0..outQ'
    BY <2>2
  <2>4. SlotType'
    BY <1>10 DEF TypeInv, SlotType, Flip, Activate
  <2>5. QueueType'
    BY <2>2 DEF TypeInv, QueueType
  <2>6. PcType'
    BY <1>10 DEF TypeInv, PcType, Flip, Activate, Return, Goto, Place, EmitterPlace, Actor,
      Dialling
  <2>7. HandType'
    BY <1>10, <2>3, Kinds DEF TypeInv, HandType, Flip, Activate, Done, Actor
  <2>8. ConnType'
    BY <1>10, <2>3 DEF TypeInv, ConnType, Flip, Activate, Return
  <2>9. WriterType'
    BY <1>10, <2>3 DEF TypeInv, WriterType, Flip, Activate, writing
  <2>10. UNCHANGED <<asks, nonce, pending, pageSeq, has, live, buffer>>
    BY <1>10 DEF Flip, Activate, writing, browser
  <2> QED
    BY <2>4, <2>5, <2>6, <2>7, <2>8, <2>9, <2>10 DEF TypeInv, BrowserType
<1>11. ASSUME NEW c \in Conn, PushMetadata(c) PROVE TypeInv'
  <2>1. target[c] \in 1..outQ
    BY <1>11 DEF PushMetadata, TypeInv, HandType, QueueInv, HandInv, Actor
  <2>2. SlotType'
    BY <1>11 DEF TypeInv, SlotType, PushMetadata, Activate
  <2>3. QueueType'
    BY <1>11, <2>1, Kinds, PushedIs DEF TypeInv, QueueType, PushMetadata
  <2>4. PcType'
    BY <1>11 DEF TypeInv, PcType, PushMetadata, Activate, Return, Goto, Place, EmitterPlace,
      Actor, Dialling
  <2>5. HandType'
    BY <1>11, Kinds, QueueIs DEF TypeInv, HandType, PushMetadata, Activate, Done, Actor
  <2>6. ConnType'
    BY <1>11 DEF TypeInv, ConnType, PushMetadata, Activate, Return
  <2>7. UNCHANGED <<writer, batch, writerQ, writerWS, asks, nonce, pending, pageSeq, has, live,
    buffer, outQ>>
    BY <1>11 DEF PushMetadata, Activate, writing, browser
  <2> QED
    BY <2>2, <2>3, <2>4, <2>5, <2>6, <2>7 DEF TypeInv, WriterType, BrowserType
<1>12. ASSUME NEW c \in Conn, FreezePage(c) PROVE TypeInv'
  <2>1. asks[c] \in Seq(Nat) /\ applied \in Nat /\ clock + 1 \in Nat
    BY DEF TypeInv, SlotType, BrowserType
  <2>2. Head(asks[c]) \in Nat /\ Tail(asks[c]) \in Seq(Nat)
    BY <1>12, <2>1, TailIs DEF FreezePage
  <2>3. Page(c, Head(asks[c])) \in Frame
    BY <2>1, <2>2, Kinds DEF Page, PageFrame
  <2>4. SlotType'
    BY <1>12, <2>1 DEF TypeInv, SlotType, FreezePage, Actor, slot
  <2>5. PcType'
    BY <1>12 DEF TypeInv, PcType, FreezePage, Goto, Place, EmitterPlace, Actor, Dialling
  <2>6. HandType'
    BY <1>12, <2>3 DEF TypeInv, HandType, FreezePage, outbound, Actor
  <2>7. BrowserType'
    BY <1>12, <2>2 DEF TypeInv, BrowserType, FreezePage, browser
  <2>8. UNCHANGED <<queues, outQ, again, up, myEra, installed, writer, batch, writerQ, writerWS>>
    BY <1>12 DEF FreezePage, slot, outbound, writing, browser
  <2> QED
    BY <2>4, <2>5, <2>6, <2>7, <2>8 DEF TypeInv, QueueType, ConnType, WriterType
<1>13. ASSUME NEW c \in Conn, LoadPageQueue(c) PROVE TypeInv'
  <2>1. outQ \in 0..outQ
    BY QueueIs
  <2>2. SlotType'
    BY <1>13 DEF TypeInv, SlotType, LoadPageQueue, slot
  <2>3. PcType'
    BY <1>13 DEF TypeInv, PcType, LoadPageQueue, Goto, Place, EmitterPlace, Actor, Dialling
  <2>4. HandType'
    BY <1>13, <2>1 DEF TypeInv, HandType, LoadPageQueue, outbound, Actor
  <2>5. UNCHANGED <<queues, outQ, again, up, myEra, installed, writer, batch, writerQ, writerWS,
    asks, nonce, pending, pageSeq, has, live, buffer>>
    BY <1>13 DEF LoadPageQueue, slot, outbound, writing, browser
  <2> QED
    BY <2>2, <2>3, <2>4, <2>5 DEF TypeInv, QueueType, ConnType, WriterType, BrowserType
<1>14. ASSUME NEW c \in Conn, PushPage(c) PROVE TypeInv'
  <2>1. target[c] \in 1..outQ /\ frame[c] \in Frame
    BY <1>14 DEF PushPage, TypeInv, HandType, QueueInv, HandInv, Actor
  <2>2. SlotType'
    BY <1>14 DEF TypeInv, SlotType, PushPage, slot
  <2>3. QueueType'
    BY <1>14, <2>1, PushedIs DEF TypeInv, QueueType, PushPage
  <2>4. PcType'
    BY <1>14 DEF TypeInv, PcType, PushPage, Goto, Place, EmitterPlace, Actor, Dialling
  <2>5. HandType'
    BY <1>14, Kinds, QueueIs DEF TypeInv, HandType, PushPage, Done, Actor
  <2>6. UNCHANGED <<again, up, myEra, installed, writer, batch, writerQ, writerWS, asks, nonce,
    pending, pageSeq, has, live, buffer, outQ>>
    BY <1>14 DEF PushPage, slot, writing, browser
  <2> QED
    BY <2>2, <2>3, <2>4, <2>5, <2>6 DEF TypeInv, ConnType, WriterType, BrowserType
<1>15. ASSUME NEW c \in Conn, EngineSwitch(c) PROVE TypeInv'
  <2>1. SlotType'
    <3>1. /\ upsets \in 0..MaxUpsets /\ upsets < MaxUpsets /\ upsets' = upsets + 1 /\ active' = FALSE
          /\ UNCHANGED <<activeWS, applied, ssMu, clock>>
      BY <1>15 DEF TypeInv, SlotType, EngineSwitch, Handshake
    <3>2. upsets' \in 0..MaxUpsets
      BY <3>1, BoundAssumption
    <3> QED
      BY <3>1, <3>2 DEF TypeInv, SlotType
  <2>2. PcType'
    BY <1>15 DEF TypeInv, PcType, EngineSwitch, Handshake, Goto, Dialling, Place,
      EmitterPlace, Actor
  <2>3. ConnType'
    BY <1>15 DEF TypeInv, ConnType, EngineSwitch, Handshake, outbound
  <2>4. UNCHANGED <<queues, outQ, target, frame, writer, batch, writerQ, writerWS, asks, nonce,
    pending, pageSeq, has, live, buffer>>
    BY <1>15 DEF EngineSwitch, Handshake, outbound, writing, browser
  <2> QED
    BY <2>1, <2>2, <2>3, <2>4 DEF TypeInv, QueueType, HandType, WriterType, BrowserType
<1>16. ASSUME NEW c \in Conn, Disconnect(c) PROVE TypeInv'
  <2>1. SlotType'
    BY <1>16 DEF TypeInv, SlotType, Disconnect, slot
  <2>2. ConnType'
    BY <1>16 DEF TypeInv, ConnType, Disconnect, HangUp, actor, outbound
  <2>3. BrowserType'
    BY <1>16, HangUpType DEF TypeInv, BrowserType, Disconnect
  <2>4. UNCHANGED <<queues, outQ, pc, target, frame, writer, batch, writerQ, writerWS>>
    BY <1>16 DEF Disconnect, slot, outbound, actor, writing
  <2> QED
    BY <2>1, <2>2, <2>3, <2>4 DEF TypeInv, QueueType, PcType, HandType, WriterType
<1>17. ASSUME NEW c \in Conn, Leave(c) PROVE TypeInv'
  <2>1. 0 \in 0..outQ
    BY QueueIs
  <2>2. SlotType'
    BY <1>17 DEF TypeInv, SlotType, Leave, slot
  <2>3. PcType'
    BY <1>17 DEF TypeInv, PcType, Leave, Goto, Place, EmitterPlace, Actor, Dialling
  <2>4. ConnType'
    BY <1>17, <2>1 DEF TypeInv, ConnType, Leave, outbound
  <2>5. UNCHANGED <<queues, outQ, target, frame, writer, batch, writerQ, writerWS, asks, nonce,
    pending, pageSeq, has, live, buffer>>
    BY <1>17 DEF Leave, slot, outbound, writing, browser
  <2> QED
    BY <2>2, <2>3, <2>4, <2>5 DEF TypeInv, QueueType, HandType, WriterType, BrowserType
<1>18. ASSUME NEW c \in Conn, Deactivate(c) PROVE TypeInv'
  <2>1. SlotType'
    BY <1>18 DEF TypeInv, SlotType, Deactivate
  <2>2. PcType'
    BY <1>18 DEF TypeInv, PcType, Deactivate, Goto, Place, EmitterPlace, Actor, Dialling
  <2>3. UNCHANGED <<queues, outQ, target, frame, again, up, myEra, installed, writer, batch,
    writerQ, writerWS, asks, nonce, pending, pageSeq, has, live, buffer>>
    BY <1>18 DEF Deactivate, outbound, actor, writing, browser
  <2> QED
    BY <2>1, <2>2, <2>3 DEF TypeInv, QueueType, HandType, ConnType, WriterType, BrowserType
<1>19. ASSUME NEW c \in Conn, Forget(c) PROVE TypeInv'
  <2>1. 0 \in 0..outQ
    BY QueueIs
  <2>2. SlotType'
    BY <1>19 DEF TypeInv, SlotType, Forget
  <2>3. PcType'
    BY <1>19 DEF TypeInv, PcType, Forget, Goto, Place, EmitterPlace, Actor, Dialling
  <2>4. ConnType'
    BY <1>19, <2>1 DEF TypeInv, ConnType, Forget, outbound
  <2>5. BrowserType'
    BY <1>19, RangeEmpty DEF TypeInv, BrowserType, Forget, browser
  <2>6. UNCHANGED <<queues, outQ, target, frame, writer, batch, writerQ, writerWS>>
    BY <1>19 DEF Forget, outbound, writing, browser
  <2> QED
    BY <2>2, <2>3, <2>4, <2>5, <2>6 DEF TypeInv, QueueType, HandType, WriterType
<1>20. ASSUME Take PROVE TypeInv'
  <2>1. queues[outQ].frames \in Seq(Frame) /\ outQ \in 0..outQ
    BY QueueIs
  <2>2. SlotType'
    BY <1>20 DEF TypeInv, SlotType, Take, slot
  <2>3. QueueType'
    BY <1>20, TakenIs DEF TypeInv, QueueType, Take
  <2>4. WriterType'
    BY <1>20, <2>1 DEF TypeInv, WriterType, Take
  <2>5. UNCHANGED <<pc, target, frame, again, up, myEra, installed, asks, nonce, pending,
    pageSeq, has, live, buffer, outQ>>
    BY <1>20 DEF Take, slot, actor, browser
  <2> QED
    BY <2>2, <2>3, <2>4, <2>5 DEF TypeInv, PcType, HandType, ConnType, BrowserType
<1>21. ASSUME LoadConn PROVE TypeInv'
  <2>1. SlotType'
    BY <1>21 DEF TypeInv, SlotType, LoadConn, slot
  <2>2. WriterType'
    BY <1>21 DEF TypeInv, WriterType, LoadConn, SlotType, outbound
  <2>3. UNCHANGED <<queues, outQ, pc, target, frame, again, up, myEra, installed, asks, nonce,
    pending, pageSeq, has, live, buffer>>
    BY <1>21 DEF LoadConn, slot, outbound, actor, browser
  <2> QED
    BY <2>1, <2>2, <2>3 DEF TypeInv, QueueType, PcType, HandType, ConnType, BrowserType
<1>22. ASSUME CheckEra PROVE TypeInv'
  <2>1. Tail(batch) \in Seq(Frame) /\ <<>> \in Seq(Frame) /\ 0 \in 0..outQ
    BY <1>22, QueueIs, BatchIs, RangeEmpty DEF CheckEra, QueueInv, WriterInv
  <2>2. SlotType'
    BY <1>22 DEF TypeInv, SlotType, CheckEra, slot
  <2>3. WriterType'
    BY <1>22, <2>1 DEF TypeInv, WriterType, CheckEra, Proceed, outbound
  <2>4. UNCHANGED <<queues, outQ, pc, target, frame, again, up, myEra, installed, asks, nonce,
    pending, pageSeq, has, live, buffer>>
    BY <1>22 DEF CheckEra, Proceed, slot, outbound, actor, browser
  <2> QED
    BY <2>2, <2>3, <2>4 DEF TypeInv, QueueType, PcType, HandType, ConnType, BrowserType
<1>23. ASSUME Write PROVE TypeInv'
  <2>1. Tail(batch) \in Seq(Frame) /\ Head(batch) \in Frame /\ writerWS \in Conn /\ 0 \in 0..outQ
    BY <1>23, QueueIs, BatchIs DEF Write, QueueInv, WriterInv, TypeInv, WriterType
  <2>2. SlotType'
    BY <1>23 DEF TypeInv, SlotType, Write, slot
  <2>3. WriterType'
    BY <1>23, <2>1 DEF TypeInv, WriterType, Write, Proceed, outbound
  <2>4. BrowserType'
    BY <1>23, <2>1, ReceiveType DEF BrowserType, Write
  <2>5. UNCHANGED <<queues, outQ, pc, target, frame, again, up, myEra, installed>>
    BY <1>23 DEF Write, Proceed, slot, outbound, actor
  <2> QED
    BY <2>2, <2>3, <2>4, <2>5 DEF TypeInv, QueueType, PcType, HandType, ConnType
<1>24. ASSUME WriteFails PROVE TypeInv'
  <2>1. Tail(batch) \in Seq(Frame) /\ 0 \in 0..outQ
    BY <1>24, QueueIs, BatchIs DEF WriteFails, QueueInv, WriterInv
  <2>2. SlotType'
    BY <1>24 DEF TypeInv, SlotType, WriteFails
  <2>3. WriterType'
    BY <1>24, <2>1 DEF TypeInv, WriterType, WriteFails, Proceed, outbound
  <2>4. UNCHANGED <<queues, outQ, pc, target, frame, again, up, myEra, installed, asks, nonce,
    pending, pageSeq, has, live, buffer>>
    BY <1>24 DEF WriteFails, Proceed, outbound, actor, browser
  <2> QED
    BY <2>2, <2>3, <2>4 DEF TypeInv, QueueType, PcType, HandType, ConnType, BrowserType
<1>25. ASSUME WriteLost PROVE TypeInv'
  <2>1. Tail(batch) \in Seq(Frame) /\ 0 \in 0..outQ
    BY <1>25, QueueIs, BatchIs DEF WriteLost, QueueInv, WriterInv
  <2>2. SlotType'
    BY <1>25 DEF TypeInv, SlotType, WriteLost, slot
  <2>3. WriterType'
    BY <1>25, <2>1 DEF TypeInv, WriterType, WriteLost, Proceed, outbound
  <2>4. UNCHANGED <<queues, outQ, pc, target, frame, again, up, myEra, installed, asks, nonce,
    pending, pageSeq, has, live, buffer>>
    BY <1>25 DEF WriteLost, Proceed, slot, outbound, actor, browser
  <2> QED
    BY <2>2, <2>3, <2>4 DEF TypeInv, QueueType, PcType, HandType, ConnType, BrowserType
<1>26. CASE UNCHANGED vars
  BY <1>26 DEF vars, slot, outbound, actor, writing, browser, TypeInv, SlotType, QueueType,
    PcType,
    HandType, ConnType, WriterType, BrowserType
<1> QED
  BY <1>1, <1>2, <1>3, <1>4, <1>5, <1>6, <1>7, <1>7a, <1>8, <1>9, <1>10, <1>11, <1>12, <1>13, <1>14,
    <1>15, <1>16, <1>17, <1>18, <1>19, <1>20, <1>21, <1>22, <1>23, <1>24, <1>25, <1>26
  DEF Next, Emit, Serve, wsWriter

-----------------------------------------------------------------------------
(* Queues, hands and locks.                                                *)

\* Who changes what.
LEMMA Changes ==
  ASSUME [Next]_vars
  PROVE  /\ \/ Take \/ UNCHANGED outbound
            \/ \E e \in Emitter : Push(e)
            \/ \E c \in Conn : SwapQueue(c) \/ Flip(c) \/ PushMetadata(c) \/ PushPage(c)
         /\ wsWriter \/ UNCHANGED writing
         /\ \/ UNCHANGED <<pc, ssMu, target, frame>>
            \/ \E e \in Emitter : Apply(e) \/ Capture(e) \/ Push(e)
            \/ \E c \in Conn :
                 \/ Dial(c) \/ SwapQueue(c) \/ SwapConn(c) \/ SwitchEngine(c) \/ Greet(c) \/ LoadEra(c)
                 \/ LoadQueue(c) \/ Flip(c) \/ PushMetadata(c) \/ FreezePage(c)
                 \/ LoadPageQueue(c) \/ PushPage(c) \/ EngineSwitch(c) \/ Leave(c)
                 \/ Deactivate(c) \/ Forget(c)
<1>1. CASE UNCHANGED vars
  BY <1>1 DEF vars, outbound, writing, actor
<1>2. ASSUME NEW e \in Emitter, Emit(e)
      PROVE  UNCHANGED writing /\ (UNCHANGED outbound \/ Push(e)) /\ (Apply(e) \/ Capture(e) \/ Push(e))
  BY <1>2 DEF Emit, Apply, Capture, Push
<1>3. ASSUME NEW c \in Conn, Serve(c)
      PROVE  /\ UNCHANGED writing
             /\ UNCHANGED outbound \/ SwapQueue(c) \/ Flip(c) \/ PushMetadata(c) \/ PushPage(c)
             /\ \/ UNCHANGED <<pc, ssMu, target, frame>>
                \/ Dial(c) \/ SwapQueue(c) \/ SwapConn(c) \/ SwitchEngine(c) \/ Greet(c) \/ LoadEra(c)
                \/ LoadQueue(c) \/ Flip(c) \/ PushMetadata(c) \/ FreezePage(c)
                \/ LoadPageQueue(c) \/ PushPage(c) \/ EngineSwitch(c) \/ Leave(c)
                \/ Deactivate(c) \/ Forget(c)
  BY <1>3 DEF Serve, Dial, SwapQueue, SwapConn, SwitchEngine, Greet, LoadEra, LoadQueue, Flip, PushMetadata,
       FreezePage, LoadPageQueue, PushPage, EngineSwitch, Disconnect, Leave, Deactivate, Forget,
       Handshake, Activate, actor
<1>4. ASSUME wsWriter
      PROVE  (UNCHANGED outbound \/ Take) /\ UNCHANGED <<pc, ssMu, target, frame>>
  BY <1>4 DEF wsWriter, Take, LoadConn, CheckEra, Write, WriteFails, WriteLost, actor
<1> QED
  BY <1>1, <1>2, <1>3, <1>4 DEF Next

\* A push finds room, and only the current queue has frames.
LEMMA QueuesStep == TypeInv /\ QueueInv /\ EraInv /\ [Next]_vars => QueuesInv'
<1> SUFFICES ASSUME TypeInv, QueueInv, EraInv, [Next]_vars
             PROVE  QueuesInv'
  OBVIOUS
<1>0. /\ outQ \in Nat \ {0} /\ outQ \in 1..outQ /\ QueuesInv
      /\ \A q \in 1..outQ : queues[q].frames \in Seq(Frame)
      /\ \A a \in Actor : target[a] # 0 => target[a] \in 1..outQ /\ frame[a] \in Frame
  BY QueueIs DEF QueueInv, TypeInv, HandType
<1>1. ASSUME NEW q \in 1..outQ, NEW f \in Frame, Pushed(q, f), UNCHANGED outQ,
             q # outQ => queues[q].closed
      PROVE  QueuesInv'
  <2>1. CASE queues[q].closed
    <3>1. UNCHANGED queues
      BY <1>1, <2>1, PushedIs
    <3> QED
      BY <1>0, <1>1, <3>1 DEF QueuesInv
  <2>2. CASE ~queues[q].closed
    <3>1. /\ Len(queues[q].frames) < Capacity
          /\ queues'[q].frames = Append(queues[q].frames, f)
          /\ ~queues'[q].closed /\ queues'[q].pushed
          /\ \A p \in 1..outQ : p # q => queues'[p] = queues[p]
      BY <1>1, <2>2, PushedIs
    <3>2. Len(queues'[q].frames) = Len(queues[q].frames) + 1 /\ Len(queues[q].frames) \in Nat
      BY <1>0, <3>1, AppendIs, Ranges
    <3>3. Len(queues'[q].frames) <= Capacity
      BY <3>1, <3>2
    <3>4. q = outQ /\ outQ' = outQ
      BY <1>1, <2>2
    <3>5. \A p \in 1..outQ : Len(queues'[p].frames) <= Capacity /\ (p # outQ => queues'[p].frames = <<>>)
      BY <1>0, <3>1, <3>3, <3>4 DEF QueuesInv
    <3> QED
      BY <3>1, <3>4, <3>5 DEF QueuesInv
  <2> QED
    BY <2>1, <2>2
<1>2. ASSUME NEW q \in 1..outQ, NEW r \in Queue, queues' = Append(Closed(q), r), outQ' = outQ + 1,
             ~r.closed, r.frames # <<>> => r.pushed, Len(r.frames) <= Capacity,
             \A p \in 1..outQ : p # q => queues[p].frames = <<>>
      PROVE  QueuesInv'
  <2>1. /\ queues'[outQ + 1] = r /\ queues'[q].frames = <<>>
        /\ \A p \in 1..outQ : p # q => queues'[p] = queues[p]
    BY <1>2, ClosedIs
  <2>2. \A p \in 1..outQ : queues'[p].frames = <<>>
    BY <1>2, <2>1
  <2>3. \A p \in 1..outQ' : p = outQ' \/ p \in 1..outQ
    BY <1>0, <1>2
  <2>4. \A p \in 1..outQ : Len(queues'[p].frames) <= Capacity
    BY <2>2, RangeEmpty
  <2> QED
    BY <1>2, <2>1, <2>2, <2>3, <2>4 DEF QueuesInv
<1>3. CASE UNCHANGED outbound
  BY <1>0, <1>3 DEF outbound, QueuesInv
<1>4. ASSUME NEW e \in Emitter, Push(e) PROVE QueuesInv'
  <2>1. target[e] \in 1..outQ /\ frame[e] \in Frame /\ (target[e] # outQ => queues[target[e]].closed)
    BY <1>0, <1>4 DEF Push, QueueInv, HandInv, EraInv, TargetInv, Actor
  <2> QED
    BY <1>1, <1>4, <2>1 DEF Push
<1>5. ASSUME NEW c \in Conn, SwapQueue(c) PROVE QueuesInv'
  <2>1. queues' = Append(Closed(outQ), Pristine) /\ outQ' = outQ + 1
    BY <1>5 DEF SwapQueue, TypeInv, QueueType
  <2>2. Len(Pristine.frames) <= Capacity
    BY PristineIs, RangeEmpty
  <2> QED
    BY <1>0, <1>2, <2>1, <2>2, PristineIs DEF QueuesInv
<1>6. ASSUME NEW c \in Conn, Flip(c) PROVE QueuesInv'
  <2>1. queues' = Append(Closed(target[c]), Greeted) /\ outQ' = outQ + 1 /\ pc[c] = "flip"
    BY <1>6 DEF Flip, Greeted, TypeInv, QueueType
  <2>2. target[c] \in 1..outQ
    BY <1>0, <2>1 DEF QueueInv, HandInv, Actor
  <2>3. Len(Greeted.frames) <= Capacity
    BY PristineIs, Kinds, RangeOne
  <2>4. \A p \in 1..outQ : p # target[c] => queues[p].frames = <<>>
    <3>1. \A p \in 1..outQ : p > target[c] => queues[p].frames = <<>>
      BY <2>1 DEF EraInv, OvertakenInv
    <3>2. \A p \in 1..outQ : p < target[c] => p # outQ
      BY <1>0, <2>2
    <3> QED
      BY <1>0, <2>2, <3>1, <3>2 DEF QueuesInv
  <2> QED
    BY <1>2, <2>1, <2>2, <2>3, <2>4, PristineIs
<1>7. ASSUME NEW c \in Conn, PushMetadata(c) PROVE QueuesInv'
  <2>1. target[c] \in 1..outQ /\ (target[c] # outQ => queues[target[c]].closed)
    BY <1>0, <1>7 DEF PushMetadata, QueueInv, HandInv, EraInv, TargetInv, Actor
  <2> QED
    BY <1>1, <1>7, <2>1, Kinds DEF PushMetadata
<1>8. ASSUME NEW c \in Conn, PushPage(c) PROVE QueuesInv'
  <2>1. target[c] \in 1..outQ /\ frame[c] \in Frame /\ (target[c] # outQ => queues[target[c]].closed)
    BY <1>0, <1>8 DEF PushPage, QueueInv, HandInv, EraInv, TargetInv, Actor
  <2> QED
    BY <1>1, <1>8, <2>1 DEF PushPage
<1>9. CASE Take
  <2>1. queues' = [queues EXCEPT ![outQ].frames = <<>>] /\ UNCHANGED outQ
    BY <1>9 DEF Take
  <2>2. /\ queues'[outQ].frames = <<>> /\ queues'[outQ].closed = queues[outQ].closed
        /\ \A p \in 1..outQ : p # outQ => queues'[p] = queues[p]
    BY <2>1, TakenIs
  <2> QED
    BY <1>0, <2>1, <2>2, RangeEmpty DEF QueuesInv
<1> QED
  BY <1>3, <1>4, <1>5, <1>6, <1>7, <1>8, <1>9, Changes

\* The writer holds a batch until it waits again.
LEMMA WriterStep == TypeInv /\ QueueInv /\ [Next]_vars => WriterInv'
<1> SUFFICES ASSUME TypeInv, QueueInv, [Next]_vars
             PROVE  WriterInv'
  OBVIOUS
<1>0. /\ WriterInv /\ outQ \in Nat \ {0} /\ outQ \in 1..outQ /\ writerQ \in 0..outQ
      /\ queues[outQ].frames \in Seq(Frame)
  BY QueueIs DEF QueueInv, TypeInv, WriterType
<1>1. \A q \in 1..outQ : queues[q].pushed => queues'[q].pushed
  <2>0. \A a \in Actor : target[a] # 0 => target[a] \in 1..outQ /\ frame[a] \in Frame
    BY DEF TypeInv, HandType
  <2>1. ASSUME NEW q \in 1..outQ, NEW f \in Frame, Pushed(q, f)
        PROVE  \A p \in 1..outQ : queues[p].pushed => queues'[p].pushed
    BY <2>1, PushedIs
  <2>2. ASSUME NEW q \in 1..outQ, NEW r \in Queue, queues' = Append(Closed(q), r)
        PROVE  \A p \in 1..outQ : queues[p].pushed => queues'[p].pushed
    BY <2>2, ClosedIs
  <2>3. CASE UNCHANGED outbound
    BY <2>3 DEF outbound
  <2>4. ASSUME NEW e \in Emitter, Push(e) PROVE \A p \in 1..outQ : queues[p].pushed => queues'[p].pushed
    BY <2>0, <2>1, <2>4 DEF Push, QueueInv, HandInv, Actor
  <2>5. ASSUME NEW c \in Conn, SwapQueue(c) PROVE \A p \in 1..outQ : queues[p].pushed => queues'[p].pushed
    BY <1>0, <2>2, <2>5, PristineIs DEF SwapQueue
  <2>6. ASSUME NEW c \in Conn, Flip(c) PROVE \A p \in 1..outQ : queues[p].pushed => queues'[p].pushed
    BY <2>0, <2>2, <2>6, PristineIs DEF Flip, Greeted, QueueInv, HandInv, Actor
  <2>7. ASSUME NEW c \in Conn, PushMetadata(c) PROVE \A p \in 1..outQ : queues[p].pushed => queues'[p].pushed
    BY <2>0, <2>1, <2>7, Kinds DEF PushMetadata, QueueInv, HandInv, Actor
  <2>8. ASSUME NEW c \in Conn, PushPage(c) PROVE \A p \in 1..outQ : queues[p].pushed => queues'[p].pushed
    BY <2>0, <2>1, <2>8 DEF PushPage, QueueInv, HandInv, Actor
  <2>9. CASE Take
    BY <2>9, TakenIs DEF Take
  <2> QED
    BY <2>3, <2>4, <2>5, <2>6, <2>7, <2>8, <2>9, Changes
<1>2. CASE UNCHANGED writing
  BY <1>0, <1>1, <1>2 DEF writing, WriterInv
<1>3. CASE Take
  <2>1. Len(queues[outQ].frames) <= Capacity /\ queues[outQ].pushed
    BY <1>0, <1>3 DEF Take, QueueInv, QueuesInv
  <2> QED
    BY <1>0, <1>1, <1>3, <2>1 DEF Take, WriterInv
<1>4. CASE LoadConn
  BY <1>0, <1>1, <1>4 DEF LoadConn, WriterInv
<1>5. ASSUME NEW rest, rest = Tail(batch) \/ rest = <<>>, writer # "take", Proceed(rest)
      PROVE  WriterInv'
  <2>1. Len(rest) <= Capacity
    BY <1>0, <1>5, BatchIs, RangeEmpty, Ranges DEF WriterInv, TypeInv, WriterType
  <2> QED
    BY <1>0, <1>1, <1>5, <2>1 DEF Proceed, WriterInv
<1>6. CASE CheckEra
  <2>1. CASE Proceed(<<>>) \/ Proceed(Tail(batch))
    BY <1>5, <1>6, <2>1 DEF CheckEra
  <2>2. CASE writer' = "write" /\ writerWS # None /\ UNCHANGED <<batch, writerQ, writerWS>>
    BY <1>0, <1>1, <1>6, <2>2 DEF CheckEra, WriterInv
  <2> QED
    BY <1>6, <2>1, <2>2 DEF CheckEra
<1>7. CASE Write \/ WriteFails \/ WriteLost
  BY <1>5, <1>7 DEF Write, WriteFails, WriteLost
<1> QED
  BY <1>2, <1>3, <1>4, <1>6, <1>7, Changes DEF wsWriter

\* Whoever enters a section of ssMu finds it free, and takes a frame in its hand there.
LEMMA HandStep == TypeInv /\ QueueInv /\ LockInv /\ [Next]_vars => HandInv' /\ LockInv'
<1> SUFFICES ASSUME TypeInv, HandInv, LockInv, [Next]_vars
             PROVE  HandInv' /\ LockInv'
  BY DEF QueueInv
<1> DEFINE Here(a) ==
      /\ pc[a] \notin Holding => frame[a] = Metadata
      /\ pc[a] \in {"capture", "push"} => frame[a] \in EventFrame
      /\ pc[a] \in {"loadQ", "page"} => frame[a] \in PageFrame /\ frame[a].nonce[1] = a
      /\ pc[a] \in {"push", "page", "flip", "metadata"} => target[a] # 0
    Lock(a) == ssMu = a <=> pc[a] \in {"capture", "flip", "metadata", "loadQ", "page"}
<1>0. /\ \A a \in Actor : Here(a) /\ Lock(a)
      /\ pc \in [Actor -> Place \cup EmitterPlace] /\ target \in [Actor -> 0..outQ] /\ frame \in [Actor -> Frame]
      /\ \A c \in Conn : c \in Actor /\ c # None
      /\ \A e \in Emitter : e \in Actor /\ e # None
      /\ outQ \in Nat \ {0} /\ applied \in Nat /\ clock \in Nat
  BY QueueIs DEF HandInv, LockInv, TypeInv, PcType, HandType, SlotType, Actor
\* A step of one actor leaves the others where they are.
<1>1. ASSUME NEW a \in Actor, Here(a)', Lock(a)', ssMu' # ssMu => {ssMu, ssMu'} = {None, a},
             \A b \in Actor \ {a} : pc'[b] = pc[b] /\ target'[b] = target[b] /\ frame'[b] = frame[b]
      PROVE  HandInv' /\ LockInv'
  <2>1. ASSUME NEW b \in Actor, b # a PROVE Here(b)' /\ Lock(b)'
    <3>1. pc'[b] = pc[b] /\ target'[b] = target[b] /\ frame'[b] = frame[b] /\ Here(b) /\ Lock(b)
      BY <1>0, <1>1, <2>1
    <3>2. ssMu' = b <=> ssMu = b
      BY <1>1, <2>1 DEF Actor
    <3> QED
      BY <3>1, <3>2
  <2>2. \A b \in Actor : Here(b)' /\ Lock(b)'
    BY <1>1, <2>1
  <2> QED
    BY <2>2 DEF HandInv, LockInv
<1>2. CASE UNCHANGED <<pc, ssMu, target, frame>>
  BY <1>0, <1>2 DEF HandInv, LockInv
<1>3. ASSUME NEW e \in Emitter, Apply(e) PROVE HandInv' /\ LockInv'
  <2>1. e \in Actor /\ Here(e) /\ Lock(e) /\ e # None
    BY <1>0
  <2>2. Here(e)' /\ Lock(e)'
    BY <1>0, <1>3, <2>1 DEF Apply, Goto, EventFrame, Holding
  <2>3. /\ ssMu' # ssMu => {ssMu, ssMu'} = {None, e}
        /\ \A b \in Actor \ {e} : pc'[b] = pc[b] /\ target'[b] = target[b] /\ frame'[b] = frame[b]
    BY <1>0, <1>3, <2>1 DEF Apply, Goto, EventFrame
  <2> QED
    BY <1>1, <2>1, <2>2, <2>3
<1>4. ASSUME NEW e \in Emitter, Capture(e) PROVE HandInv' /\ LockInv'
  <2>1. e \in Actor /\ Here(e) /\ Lock(e) /\ e # None
    BY <1>0
  <2>2. Here(e)' /\ Lock(e)'
    BY <1>0, <1>4, <2>1 DEF Capture, Goto, EventFrame, Holding
  <2>3. /\ ssMu' # ssMu => {ssMu, ssMu'} = {None, e}
        /\ \A b \in Actor \ {e} : pc'[b] = pc[b] /\ target'[b] = target[b] /\ frame'[b] = frame[b]
    BY <1>0, <1>4, <2>1 DEF Capture, Goto, EventFrame
  <2> QED
    BY <1>1, <2>1, <2>2, <2>3
<1>5. ASSUME NEW e \in Emitter, Push(e) PROVE HandInv' /\ LockInv'
  <2>1. e \in Actor /\ Here(e) /\ Lock(e) /\ e # None
    BY <1>0
  <2>2. Here(e)' /\ Lock(e)'
    BY <1>0, <1>5, <2>1 DEF Push, Goto, Done, Holding
  <2>3. /\ ssMu' # ssMu => {ssMu, ssMu'} = {None, e}
        /\ \A b \in Actor \ {e} : pc'[b] = pc[b] /\ target'[b] = target[b] /\ frame'[b] = frame[b]
    BY <1>0, <1>5, <2>1 DEF Push, Goto, Done
  <2> QED
    BY <1>1, <2>1, <2>2, <2>3
<1>6. ASSUME NEW c \in Conn, Dial(c) PROVE HandInv' /\ LockInv'
  <2>1. c \in Actor /\ Here(c) /\ Lock(c) /\ c # None
    BY <1>0
  <2>2. Here(c)' /\ Lock(c)'
    BY <1>0, <1>6, <2>1 DEF Dial, Goto, actor, Holding
  <2>3. /\ ssMu' # ssMu => {ssMu, ssMu'} = {None, c}
        /\ \A b \in Actor \ {c} : pc'[b] = pc[b] /\ target'[b] = target[b] /\ frame'[b] = frame[b]
    BY <1>0, <1>6, <2>1 DEF Dial, Goto, actor
  <2> QED
    BY <1>1, <2>1, <2>2, <2>3
<1>7. ASSUME NEW c \in Conn, SwapQueue(c) PROVE HandInv' /\ LockInv'
  <2>1. c \in Actor /\ Here(c) /\ Lock(c) /\ c # None
    BY <1>0
  <2>2. Here(c)' /\ Lock(c)'
    BY <1>0, <1>7, <2>1 DEF SwapQueue, Goto, Holding
  <2>3. /\ ssMu' # ssMu => {ssMu, ssMu'} = {None, c}
        /\ \A b \in Actor \ {c} : pc'[b] = pc[b] /\ target'[b] = target[b] /\ frame'[b] = frame[b]
    BY <1>0, <1>7, <2>1 DEF SwapQueue, Goto
  <2> QED
    BY <1>1, <2>1, <2>2, <2>3
<1>8. ASSUME NEW c \in Conn, SwapConn(c) PROVE HandInv' /\ LockInv'
  <2>1. c \in Actor /\ Here(c) /\ Lock(c) /\ c # None
    BY <1>0
  <2>2. Here(c)' /\ Lock(c)'
    BY <1>0, <1>8, <2>1 DEF SwapConn, Goto, actor, Holding
  <2>3. /\ ssMu' # ssMu => {ssMu, ssMu'} = {None, c}
        /\ \A b \in Actor \ {c} : pc'[b] = pc[b] /\ target'[b] = target[b] /\ frame'[b] = frame[b]
    BY <1>0, <1>8, <2>1 DEF SwapConn, Goto, actor
  <2> QED
    BY <1>1, <2>1, <2>2, <2>3
<1>9. ASSUME NEW c \in Conn, SwitchEngine(c) PROVE HandInv' /\ LockInv'
  <2>1. c \in Actor /\ Here(c) /\ Lock(c) /\ c # None
    BY <1>0
  <2>2. Here(c)' /\ Lock(c)'
    BY <1>0, <1>9, <2>1 DEF SwitchEngine, Handshake, Goto, Holding
  <2>3. /\ ssMu' # ssMu => {ssMu, ssMu'} = {None, c}
        /\ \A b \in Actor \ {c} : pc'[b] = pc[b] /\ target'[b] = target[b] /\ frame'[b] = frame[b]
    BY <1>0, <1>9, <2>1 DEF SwitchEngine, Handshake, Goto
  <2> QED
    BY <1>1, <2>1, <2>2, <2>3
<1>9a. ASSUME NEW c \in Conn, Greet(c) PROVE HandInv' /\ LockInv'
  <2>1. c \in Actor /\ Here(c) /\ Lock(c) /\ c # None
    BY <1>0
  <2>2. Here(c)' /\ Lock(c)'
    BY <1>0, <1>9a, <2>1 DEF Greet, Return, Goto, Holding
  <2>3. /\ ssMu' # ssMu => {ssMu, ssMu'} = {None, c}
        /\ \A b \in Actor \ {c} : pc'[b] = pc[b] /\ target'[b] = target[b] /\ frame'[b] = frame[b]
    BY <1>0, <1>9a, <2>1 DEF Greet, Return, Goto
  <2> QED
    BY <1>1, <2>1, <2>2, <2>3
<1>10. ASSUME NEW c \in Conn, LoadEra(c) PROVE HandInv' /\ LockInv'
  <2>1. c \in Actor /\ Here(c) /\ Lock(c) /\ c # None
    BY <1>0
  <2>2. Here(c)' /\ Lock(c)'
    BY <1>0, <1>10, <2>1 DEF LoadEra, Goto, Holding
  <2>3. /\ ssMu' # ssMu => {ssMu, ssMu'} = {None, c}
        /\ \A b \in Actor \ {c} : pc'[b] = pc[b] /\ target'[b] = target[b] /\ frame'[b] = frame[b]
    BY <1>0, <1>10, <2>1 DEF LoadEra, Goto
  <2> QED
    BY <1>1, <2>1, <2>2, <2>3
<1>11. ASSUME NEW c \in Conn, LoadQueue(c) PROVE HandInv' /\ LockInv'
  <2>1. c \in Actor /\ Here(c) /\ Lock(c) /\ c # None
    BY <1>0
  <2>2. Here(c)' /\ Lock(c)'
    BY <1>0, <1>11, <2>1 DEF LoadQueue, Goto, Holding
  <2>3. /\ ssMu' # ssMu => {ssMu, ssMu'} = {None, c}
        /\ \A b \in Actor \ {c} : pc'[b] = pc[b] /\ target'[b] = target[b] /\ frame'[b] = frame[b]
    BY <1>0, <1>11, <2>1 DEF LoadQueue, Goto
  <2> QED
    BY <1>1, <2>1, <2>2, <2>3
<1>12. ASSUME NEW c \in Conn, Flip(c) PROVE HandInv' /\ LockInv'
  <2>1. c \in Actor /\ Here(c) /\ Lock(c) /\ c # None
    BY <1>0
  <2>2. Here(c)' /\ Lock(c)'
    BY <1>0, <1>12, <2>1 DEF Flip, Activate, Return, Done, Goto, Holding
  <2>3. /\ ssMu' # ssMu => {ssMu, ssMu'} = {None, c}
        /\ \A b \in Actor \ {c} : pc'[b] = pc[b] /\ target'[b] = target[b] /\ frame'[b] = frame[b]
    BY <1>0, <1>12, <2>1 DEF Flip, Activate, Return, Done, Goto
  <2> QED
    BY <1>1, <2>1, <2>2, <2>3
<1>13. ASSUME NEW c \in Conn, PushMetadata(c) PROVE HandInv' /\ LockInv'
  <2>1. c \in Actor /\ Here(c) /\ Lock(c) /\ c # None
    BY <1>0
  <2>2. Here(c)' /\ Lock(c)'
    BY <1>0, <1>13, <2>1 DEF PushMetadata, Activate, Return, Done, Goto, Holding
  <2>3. /\ ssMu' # ssMu => {ssMu, ssMu'} = {None, c}
        /\ \A b \in Actor \ {c} : pc'[b] = pc[b] /\ target'[b] = target[b] /\ frame'[b] = frame[b]
    BY <1>0, <1>13, <2>1 DEF PushMetadata, Activate, Return, Done, Goto
  <2> QED
    BY <1>1, <2>1, <2>2, <2>3
<1>14. ASSUME NEW c \in Conn, FreezePage(c) PROVE HandInv' /\ LockInv'
  <2>1. c \in Actor /\ Here(c) /\ Lock(c) /\ c # None
    BY <1>0
  <2>0. asks[c] \in Seq(Nat) /\ asks[c] # <<>>
    BY <1>14 DEF FreezePage, TypeInv, BrowserType
  <2>4. Page(c, Head(asks[c])) \in PageFrame /\ Page(c, Head(asks[c])).nonce[1] = c
    <3>1. Head(asks[c]) \in Nat
      BY <2>0, TailIs
    <3>2. applied \in Nat /\ clock + 1 \in Nat
      BY DEF TypeInv, SlotType
    <3> QED
      BY <3>1, <3>2 DEF Page, PageFrame
  <2>2. Here(c)' /\ Lock(c)'
    BY <1>0, <1>14, <2>1, <2>4 DEF FreezePage, Goto, Holding
  <2>3. /\ ssMu' # ssMu => {ssMu, ssMu'} = {None, c}
        /\ \A b \in Actor \ {c} : pc'[b] = pc[b] /\ target'[b] = target[b] /\ frame'[b] = frame[b]
    BY <1>0, <1>14, <2>1 DEF FreezePage, Goto
  <2> QED
    BY <1>1, <2>1, <2>2, <2>3
<1>15. ASSUME NEW c \in Conn, LoadPageQueue(c) PROVE HandInv' /\ LockInv'
  <2>1. c \in Actor /\ Here(c) /\ Lock(c) /\ c # None
    BY <1>0
  <2>2. Here(c)' /\ Lock(c)'
    BY <1>0, <1>15, <2>1 DEF LoadPageQueue, Goto, Holding
  <2>3. /\ ssMu' # ssMu => {ssMu, ssMu'} = {None, c}
        /\ \A b \in Actor \ {c} : pc'[b] = pc[b] /\ target'[b] = target[b] /\ frame'[b] = frame[b]
    BY <1>0, <1>15, <2>1 DEF LoadPageQueue, Goto
  <2> QED
    BY <1>1, <2>1, <2>2, <2>3
<1>16. ASSUME NEW c \in Conn, PushPage(c) PROVE HandInv' /\ LockInv'
  <2>1. c \in Actor /\ Here(c) /\ Lock(c) /\ c # None
    BY <1>0
  <2>2. Here(c)' /\ Lock(c)'
    BY <1>0, <1>16, <2>1 DEF PushPage, Done, Goto, Holding
  <2>3. /\ ssMu' # ssMu => {ssMu, ssMu'} = {None, c}
        /\ \A b \in Actor \ {c} : pc'[b] = pc[b] /\ target'[b] = target[b] /\ frame'[b] = frame[b]
    BY <1>0, <1>16, <2>1 DEF PushPage, Done, Goto
  <2> QED
    BY <1>1, <2>1, <2>2, <2>3
<1>17. ASSUME NEW c \in Conn, EngineSwitch(c) PROVE HandInv' /\ LockInv'
  <2>1. c \in Actor /\ Here(c) /\ Lock(c) /\ c # None
    BY <1>0
  <2>2. Here(c)' /\ Lock(c)'
    BY <1>0, <1>17, <2>1 DEF EngineSwitch, Handshake, Goto, Holding
  <2>3. /\ ssMu' # ssMu => {ssMu, ssMu'} = {None, c}
        /\ \A b \in Actor \ {c} : pc'[b] = pc[b] /\ target'[b] = target[b] /\ frame'[b] = frame[b]
    BY <1>0, <1>17, <2>1 DEF EngineSwitch, Handshake, Goto
  <2> QED
    BY <1>1, <2>1, <2>2, <2>3
<1>18. ASSUME NEW c \in Conn, Leave(c) PROVE HandInv' /\ LockInv'
  <2>1. c \in Actor /\ Here(c) /\ Lock(c) /\ c # None
    BY <1>0
  <2>2. Here(c)' /\ Lock(c)'
    BY <1>0, <1>18, <2>1 DEF Leave, Goto, Holding
  <2>3. /\ ssMu' # ssMu => {ssMu, ssMu'} = {None, c}
        /\ \A b \in Actor \ {c} : pc'[b] = pc[b] /\ target'[b] = target[b] /\ frame'[b] = frame[b]
    BY <1>0, <1>18, <2>1 DEF Leave, Goto
  <2> QED
    BY <1>1, <2>1, <2>2, <2>3
<1>19. ASSUME NEW c \in Conn, Deactivate(c) PROVE HandInv' /\ LockInv'
  <2>1. c \in Actor /\ Here(c) /\ Lock(c) /\ c # None
    BY <1>0
  <2>2. Here(c)' /\ Lock(c)'
    BY <1>0, <1>19, <2>1 DEF Deactivate, Goto, actor, Holding
  <2>3. /\ ssMu' # ssMu => {ssMu, ssMu'} = {None, c}
        /\ \A b \in Actor \ {c} : pc'[b] = pc[b] /\ target'[b] = target[b] /\ frame'[b] = frame[b]
    BY <1>0, <1>19, <2>1 DEF Deactivate, Goto, actor
  <2> QED
    BY <1>1, <2>1, <2>2, <2>3
<1>20. ASSUME NEW c \in Conn, Forget(c) PROVE HandInv' /\ LockInv'
  <2>1. c \in Actor /\ Here(c) /\ Lock(c) /\ c # None
    BY <1>0
  <2>2. Here(c)' /\ Lock(c)'
    BY <1>0, <1>20, <2>1 DEF Forget, Goto, Holding
  <2>3. /\ ssMu' # ssMu => {ssMu, ssMu'} = {None, c}
        /\ \A b \in Actor \ {c} : pc'[b] = pc[b] /\ target'[b] = target[b] /\ frame'[b] = frame[b]
    BY <1>0, <1>20, <2>1 DEF Forget, Goto
  <2> QED
    BY <1>1, <2>1, <2>2, <2>3
<1> QED
  BY <1>2, <1>3, <1>4, <1>5, <1>6, <1>7, <1>8, <1>9, <1>9a, <1>10, <1>11, <1>12, <1>13, <1>14, <1>15,
    <1>16, <1>17, <1>18, <1>19, <1>20, Changes

\* A queue is loaded when it is the current one, and kept until the frame is in it.
LEMMA Moves ==
  ASSUME TypeInv, LockInv, [Next]_vars, NEW a \in Actor, pc'[a] \in {"push", "page", "flip", "metadata"}
  PROVE  \/ pc'[a] = pc[a] /\ target'[a] = target[a]
         \/ /\ target'[a] = outQ /\ UNCHANGED outbound
            /\ ssMu \in {None, a} /\ (pc'[a] = "push" => ssMu = a)
<1> DEFINE Goal ==
      \/ pc'[a] = pc[a] /\ target'[a] = target[a]
      \/ /\ target'[a] = outQ /\ UNCHANGED outbound
         /\ ssMu \in {None, a} /\ (pc'[a] = "push" => ssMu = a)
<1>0. /\ pc \in [Actor -> Place \cup EmitterPlace] /\ target \in [Actor -> 0..outQ]
      /\ \A c \in Conn : c \in Actor
      /\ \A e \in Emitter : e \in Actor
      /\ \A b \in Actor : pc[b] = "capture" \/ pc[b] = "loadQ" => ssMu = b
  BY DEF TypeInv, PcType, HandType, Actor, LockInv
<1>1. CASE UNCHANGED <<pc, ssMu, target, frame>>
  BY <1>1
<1>2. ASSUME NEW e \in Emitter, Apply(e) PROVE Goal
  BY <1>0, <1>2 DEF Apply, Goto
<1>3. ASSUME NEW e \in Emitter, Capture(e) PROVE Goal
  BY <1>0, <1>3 DEF Capture, Goto
<1>4. ASSUME NEW e \in Emitter, Push(e) PROVE Goal
  BY <1>0, <1>4 DEF Push, Goto, Done
<1>5. ASSUME NEW c \in Conn, Dial(c) PROVE Goal
  BY <1>0, <1>5 DEF Dial, Goto, actor
<1>6. ASSUME NEW c \in Conn, SwapQueue(c) PROVE Goal
  BY <1>0, <1>6 DEF SwapQueue, Goto
<1>7. ASSUME NEW c \in Conn, SwapConn(c) PROVE Goal
  BY <1>0, <1>7 DEF SwapConn, Goto, actor
<1>8. ASSUME NEW c \in Conn, SwitchEngine(c) PROVE Goal
  BY <1>0, <1>8 DEF SwitchEngine, Handshake, Goto
<1>8a. ASSUME NEW c \in Conn, Greet(c) PROVE Goal
  BY <1>0, <1>8a DEF Greet, Return, Goto
<1>9. ASSUME NEW c \in Conn, LoadEra(c) PROVE Goal
  BY <1>0, <1>9 DEF LoadEra, Goto
<1>10. ASSUME NEW c \in Conn, LoadQueue(c) PROVE Goal
  BY <1>0, <1>10 DEF LoadQueue, Goto
<1>11. ASSUME NEW c \in Conn, Flip(c) PROVE Goal
  BY <1>0, <1>11 DEF Flip, Activate, Return, Done, Goto
<1>12. ASSUME NEW c \in Conn, PushMetadata(c) PROVE Goal
  BY <1>0, <1>12 DEF PushMetadata, Activate, Return, Done, Goto
<1>13. ASSUME NEW c \in Conn, FreezePage(c) PROVE Goal
  BY <1>0, <1>13 DEF FreezePage, Goto
<1>14. ASSUME NEW c \in Conn, LoadPageQueue(c) PROVE Goal
  BY <1>0, <1>14 DEF LoadPageQueue, Goto
<1>15. ASSUME NEW c \in Conn, PushPage(c) PROVE Goal
  BY <1>0, <1>15 DEF PushPage, Done, Goto
<1>16. ASSUME NEW c \in Conn, EngineSwitch(c) PROVE Goal
  BY <1>0, <1>16 DEF EngineSwitch, Handshake, Goto
<1>17. ASSUME NEW c \in Conn, Leave(c) PROVE Goal
  BY <1>0, <1>17 DEF Leave, Goto
<1>18. ASSUME NEW c \in Conn, Deactivate(c) PROVE Goal
  BY <1>0, <1>18 DEF Deactivate, Goto, actor
<1>19. ASSUME NEW c \in Conn, Forget(c) PROVE Goal
  BY <1>0, <1>19 DEF Forget, Goto
<1> QED
  BY <1>1, <1>2, <1>3, <1>4, <1>5, <1>6, <1>7, <1>8, <1>8a, <1>9, <1>10, <1>11, <1>12, <1>13, <1>14,
    <1>15, <1>16, <1>17, <1>18, <1>19, Changes

\* What becomes of the queues: at most one is added, and the current one closed with it or,
\* in an overtaken handshake, left with nothing in it.
LEMMA QueuesMove ==
  ASSUME TypeInv, QueueInv, [Next]_vars
  PROVE  /\ outQ' \in {outQ, outQ + 1}
         /\ \A q \in 1..outQ : queues[q].closed => queues'[q].closed
         /\ outQ' # outQ =>
              \/ \E c \in Conn : SwapQueue(c) /\ queues'[outQ].closed /\ queues'[outQ'].frames = <<>>
              \/ \E c \in Conn : Flip(c) /\ queues'[target[c]].closed
         /\ \A q \in 1..outQ : queues'[q].frames # <<>> /\ queues[q].frames = <<>> =>
              /\ UNCHANGED outQ
              /\ \E a \in Actor : pc[a] \in {"push", "metadata", "page"} /\ target[a] = q
                                   /\ pc'[a] \notin {"metadata", "page"}
<1>0. /\ outQ \in Nat \ {0} /\ outQ \in 1..outQ
      /\ \A a \in Actor : target[a] # 0 => target[a] \in 1..outQ /\ frame[a] \in Frame
      /\ pc \in [Actor -> Place \cup EmitterPlace]
      /\ \A c \in Conn : c \in Actor
      /\ \A e \in Emitter : e \in Actor
  BY QueueIs DEF TypeInv, HandType, PcType, Actor
<1> DEFINE Goal ==
         /\ outQ' \in {outQ, outQ + 1}
         /\ \A q \in 1..outQ : queues[q].closed => queues'[q].closed
         /\ outQ' # outQ =>
              \/ \E c \in Conn : SwapQueue(c) /\ queues'[outQ].closed /\ queues'[outQ'].frames = <<>>
              \/ \E c \in Conn : Flip(c) /\ queues'[target[c]].closed
         /\ \A q \in 1..outQ : queues'[q].frames # <<>> /\ queues[q].frames = <<>> =>
              /\ UNCHANGED outQ
              /\ \E a \in Actor : pc[a] \in {"push", "metadata", "page"} /\ target[a] = q
                                   /\ pc'[a] \notin {"metadata", "page"}
<1>1. ASSUME NEW a \in Actor, NEW f \in Frame, target[a] \in 1..outQ, Pushed(target[a], f), UNCHANGED outQ,
             pc[a] \in {"push", "metadata", "page"}, pc'[a] \notin {"metadata", "page"}
      PROVE  Goal
  <2>1. /\ \A q \in 1..outQ : q # target[a] => queues'[q] = queues[q]
        /\ queues[target[a]].closed => queues' = queues
    BY <1>1, PushedIs
  <2> QED
    BY <1>1, <2>1
<1>2. CASE UNCHANGED outbound
  BY <1>2 DEF outbound
<1>3. ASSUME NEW e \in Emitter, Push(e) PROVE Goal
  <2>1. target[e] \in 1..outQ /\ frame[e] \in Frame /\ e \in Actor
    BY <1>0, <1>3 DEF Push, QueueInv, HandInv
  <2>2. Pushed(target[e], frame[e]) /\ UNCHANGED outQ /\ pc[e] = "push" /\ pc'[e] = "idle"
    BY <1>0, <1>3 DEF Push, Goto
  <2> QED
    BY <1>1, <2>1, <2>2
<1>4. ASSUME NEW c \in Conn, SwapQueue(c) PROVE Goal
  <2>1. queues' = Append(Closed(outQ), Pristine) /\ outQ' = outQ + 1
    BY <1>4 DEF SwapQueue, TypeInv, QueueType
  <2>2. /\ queues'[outQ + 1] = Pristine /\ queues'[outQ].frames = <<>> /\ queues'[outQ].closed
        /\ \A p \in 1..outQ : p # outQ => queues'[p] = queues[p]
    BY <1>0, <2>1, PristineIs, ClosedIs
  <2> QED
    BY <1>4, <2>1, <2>2, PristineIs
<1>5. ASSUME NEW c \in Conn, Flip(c) PROVE Goal
  <2>1. queues' = Append(Closed(target[c]), Greeted) /\ outQ' = outQ + 1 /\ target[c] \in 1..outQ
    BY <1>0, <1>5 DEF Flip, Greeted, TypeInv, QueueType, QueueInv, HandInv
  <2>2. /\ queues'[target[c]].frames = <<>> /\ queues'[target[c]].closed
        /\ \A p \in 1..outQ : p # target[c] => queues'[p] = queues[p]
    BY <2>1, PristineIs, ClosedIs
  <2> QED
    BY <1>5, <2>1, <2>2
<1>6. ASSUME NEW c \in Conn, PushMetadata(c) PROVE Goal
  <2>1. target[c] \in 1..outQ /\ c \in Actor
    BY <1>0, <1>6 DEF PushMetadata, QueueInv, HandInv
  <2>2. /\ Pushed(target[c], Metadata) /\ UNCHANGED outQ
        /\ pc[c] = "metadata" /\ pc'[c] \in {"read", "era"}
    BY <1>0, <1>6 DEF PushMetadata, Activate, Return, Goto
  <2> QED
    BY <1>1, <2>1, <2>2, Kinds
<1>7. ASSUME NEW c \in Conn, PushPage(c) PROVE Goal
  <2>1. target[c] \in 1..outQ /\ frame[c] \in Frame /\ c \in Actor
    BY <1>0, <1>7 DEF PushPage, QueueInv, HandInv
  <2>2. Pushed(target[c], frame[c]) /\ UNCHANGED outQ /\ pc[c] = "page" /\ pc'[c] = "read"
    BY <1>0, <1>7 DEF PushPage, Goto
  <2> QED
    BY <1>1, <2>1, <2>2
<1>8. CASE Take
  <2>1. queues' = [queues EXCEPT ![outQ].frames = <<>>] /\ UNCHANGED outQ
    BY <1>8 DEF Take
  <2>2. /\ queues'[outQ].frames = <<>> /\ queues'[outQ].closed = queues[outQ].closed
        /\ \A p \in 1..outQ : p # outQ => queues'[p] = queues[p]
    BY <2>1, TakenIs
  <2> QED
    BY <2>1, <2>2
<1> QED
  BY <1>2, <1>3, <1>4, <1>5, <1>6, <1>7, <1>8, Changes

\* A queue is closed before another becomes current.
LEMMA TargetStep == TypeInv /\ QueueInv /\ LockInv /\ EraInv /\ [Next]_vars => TargetInv'
<1> SUFFICES ASSUME TypeInv, QueueInv, LockInv, EraInv, [Next]_vars,
                    NEW a \in Actor, pc'[a] \in {"push", "page", "flip", "metadata"}, target'[a] # outQ'
             PROVE  queues'[target'[a]].closed
  BY DEF TargetInv
<1>1. pc'[a] = pc[a] /\ target'[a] = target[a]
  BY Moves DEF outbound
<1>2. target[a] \in 1..outQ /\ target[a] \in Nat /\ outQ \in Nat
  BY <1>1, QueueIs DEF TypeInv, HandType, QueueInv, HandInv
<1>3. CASE target[a] # outQ
  <2>1. queues[target[a]].closed
    BY <1>1, <1>3 DEF EraInv, TargetInv
  <2> QED
    BY <1>1, <1>2, <2>1, QueuesMove
<1>4. CASE target[a] = outQ
  <2>1. outQ' # outQ
    BY <1>1, <1>4
  <2>2. CASE \E c \in Conn : SwapQueue(c) /\ queues'[outQ].closed
    BY <1>1, <1>4, <2>2
  <2>3. ASSUME NEW c \in Conn, Flip(c), queues'[target[c]].closed
        PROVE  queues'[target'[a]].closed
    <3>1. pc[c] = "flip" /\ ssMu = c /\ c \in Actor
      BY <2>3 DEF Flip, LockInv, Actor
    <3>2. CASE a = c
      BY <1>1, <2>3, <3>2
    <3>3. CASE a # c
      <4>1. pc[a] = "push"
        BY <1>1, <3>1, <3>3 DEF LockInv
      <4>2. a \in Emitter
        BY <4>1 DEF TypeInv, PcType, Place, Dialling, Actor
      <4>3. target[a] <= target[c] /\ target[c] \in 0..outQ
        BY <3>1, <4>1, <4>2 DEF EraInv, OvertakenInv, TypeInv, HandType
      <4>4. target[c] = outQ
        BY <1>2, <1>4, <4>3
      <4> QED
        BY <1>1, <1>4, <2>3, <4>4
    <3> QED
      BY <3>2, <3>3
  <2> QED
    BY <2>1, <2>2, <2>3, QueuesMove
<1> QED
  BY <1>3, <1>4

\* How a handshake goes on, and who becomes the client.
LEMMA Handshakes ==
  ASSUME TypeInv, [Next]_vars
  PROVE  /\ activeWS' # activeWS =>
              activeWS' = None \/ \E d \in Conn : activeWS' = d /\ pc'[d] = "switch"
         /\ \A d \in Conn :
              /\ pc'[d] \in {"new", "swapQ", "swapWS"} => pc[d] \in {"new", "swapQ", "swapWS"}
              /\ pc'[d] = "new" => pc[d] = "new"
              /\ pc[d] \in {"swapWS", "switch", "greet", "meta"} /\ ssMu # None =>
                   pc'[d] \in {"swapWS", "switch", "greet", "meta"} \/ activeWS' = None
              /\ /\ pc[d] \in {"switch", "greet", "meta", "flip"} /\ activeWS = d /\ UNCHANGED <<activeWS, outQ>>
                 /\ queues[outQ].pushed
                 => pc'[d] \in {"switch", "greet", "meta", "flip"}
<1> DEFINE Client == activeWS' # activeWS =>
                       activeWS' = None \/ \E d \in Conn : activeWS' = d /\ pc'[d] = "switch"
           Shake(d) ==
             /\ pc'[d] \in {"new", "swapQ", "swapWS"} => pc[d] \in {"new", "swapQ", "swapWS"}
             /\ pc'[d] = "new" => pc[d] = "new"
             /\ pc[d] \in {"swapWS", "switch", "greet", "meta"} /\ ssMu # None =>
                  pc'[d] \in {"swapWS", "switch", "greet", "meta"} \/ activeWS' = None
             /\ /\ pc[d] \in {"switch", "greet", "meta", "flip"} /\ activeWS = d /\ UNCHANGED <<activeWS, outQ>>
                /\ queues[outQ].pushed
                => pc'[d] \in {"switch", "greet", "meta", "flip"}
<1>0. /\ pc \in [Actor -> Place \cup EmitterPlace]
      /\ \A d \in Conn : d \in Actor /\ d \notin Emitter /\ d # None
      /\ \A e \in Emitter : e \in Actor
      /\ outQ \in Nat
  BY QueueIs DEF TypeInv, PcType, Actor
<1>1. CASE UNCHANGED <<pc, ssMu, target, frame>>
  <2>1. ASSUME NEW d \in Conn PROVE Shake(d)
    BY <1>1
  <2>2. Client
    <3>1. CASE UNCHANGED vars
      BY <3>1 DEF vars, slot
    <3>2. ASSUME NEW e \in Emitter, Emit(e) PROVE activeWS' = activeWS
      BY <3>2 DEF Emit, Apply, Capture, Push, slot
    <3>3. ASSUME NEW c \in Conn, Serve(c) PROVE Client
      BY <1>0, <1>1, <3>3
      DEF Serve, Dial, SwapQueue, SwapConn, SwitchEngine, Greet, LoadEra, LoadQueue, Flip, PushMetadata,
        FreezePage, LoadPageQueue, PushPage, EngineSwitch, Disconnect, Leave, Deactivate, Forget,
        Handshake, Activate, slot, Goto
    <3>4. ASSUME wsWriter PROVE Client
      BY <3>4 DEF wsWriter, Take, LoadConn, CheckEra, Write, WriteFails, WriteLost, slot
    <3> QED
      BY <3>1, <3>2, <3>3, <3>4 DEF Next
  <2> QED
    BY <2>1, <2>2
<1>2. ASSUME NEW e \in Emitter, Apply(e) PROVE Client /\ \A d \in Conn : Shake(d)
  BY <1>0, <1>2 DEF Apply, Goto
<1>3. ASSUME NEW e \in Emitter, Capture(e) PROVE Client /\ \A d \in Conn : Shake(d)
  BY <1>0, <1>3 DEF Capture, Goto, slot
<1>4. ASSUME NEW e \in Emitter, Push(e) PROVE Client /\ \A d \in Conn : Shake(d)
  BY <1>0, <1>4 DEF Push, Goto, slot
<1>5. ASSUME NEW c \in Conn, Dial(c) PROVE Client /\ \A d \in Conn : Shake(d)
  BY <1>0, <1>5 DEF Dial, Goto
<1>6. ASSUME NEW c \in Conn, SwapQueue(c) PROVE Client /\ \A d \in Conn : Shake(d)
  BY <1>0, <1>6 DEF SwapQueue, Goto, slot
<1>7. ASSUME NEW c \in Conn, SwapConn(c) PROVE Client /\ \A d \in Conn : Shake(d)
  BY <1>0, <1>7 DEF SwapConn, Goto
<1>8. ASSUME NEW c \in Conn, SwitchEngine(c) PROVE Client /\ \A d \in Conn : Shake(d)
  BY <1>0, <1>8 DEF SwitchEngine, Handshake, Goto
<1>8a. ASSUME NEW c \in Conn, Greet(c) PROVE Client /\ \A d \in Conn : Shake(d)
  BY <1>0, <1>8a DEF Greet, Return, Goto
<1>9. ASSUME NEW c \in Conn, LoadEra(c) PROVE Client /\ \A d \in Conn : Shake(d)
  BY <1>0, <1>9 DEF LoadEra, Goto, slot
<1>10. ASSUME NEW c \in Conn, LoadQueue(c) PROVE Client /\ \A d \in Conn : Shake(d)
  BY <1>0, <1>10 DEF LoadQueue, Goto, slot
<1>11. ASSUME NEW c \in Conn, Flip(c) PROVE Client /\ \A d \in Conn : Shake(d)
  BY <1>0, <1>11 DEF Flip, Activate, Return, Goto, TypeInv, QueueType
<1>12. ASSUME NEW c \in Conn, PushMetadata(c) PROVE Client /\ \A d \in Conn : Shake(d)
  BY <1>0, <1>12 DEF PushMetadata, Activate, Return, Goto
<1>13. ASSUME NEW c \in Conn, FreezePage(c) PROVE Client /\ \A d \in Conn : Shake(d)
  BY <1>0, <1>13 DEF FreezePage, Goto, slot
<1>14. ASSUME NEW c \in Conn, LoadPageQueue(c) PROVE Client /\ \A d \in Conn : Shake(d)
  BY <1>0, <1>14 DEF LoadPageQueue, Goto, slot
<1>15. ASSUME NEW c \in Conn, PushPage(c) PROVE Client /\ \A d \in Conn : Shake(d)
  BY <1>0, <1>15 DEF PushPage, Goto, slot
<1>16. ASSUME NEW c \in Conn, EngineSwitch(c) PROVE Client /\ \A d \in Conn : Shake(d)
  BY <1>0, <1>16 DEF EngineSwitch, Handshake, Goto
<1>17. ASSUME NEW c \in Conn, Leave(c) PROVE Client /\ \A d \in Conn : Shake(d)
  BY <1>0, <1>17 DEF Leave, Goto, slot
<1>18. ASSUME NEW c \in Conn, Deactivate(c) PROVE Client /\ \A d \in Conn : Shake(d)
  BY <1>0, <1>18 DEF Deactivate, Goto
<1>19. ASSUME NEW c \in Conn, Forget(c) PROVE Client /\ \A d \in Conn : Shake(d)
  BY <1>0, <1>19 DEF Forget, Goto
<1> QED
  BY <1>1, <1>2, <1>3, <1>4, <1>5, <1>6, <1>7, <1>8, <1>8a, <1>9, <1>10, <1>11, <1>12, <1>13, <1>14,
    <1>15, <1>16, <1>17, <1>18, <1>19, Changes

\* sendMetadata under ssMu is overtaken only by another handshake.
LEMMA OvertakenStep == TypeInv /\ QueueInv /\ LockInv /\ EraInv /\ [Next]_vars => OvertakenInv'
<1> SUFFICES ASSUME TypeInv, QueueInv, LockInv, EraInv, [Next]_vars,
                    NEW c \in Conn, pc'[c] \in {"flip", "metadata"}
             PROVE  /\ \A e \in Emitter : pc'[e] = "push" => target'[e] <= target'[c]
                    /\ \A q \in 1..outQ' : q > target'[c] => queues'[q].frames = <<>>
                    /\ target'[c] # outQ' =>
                         activeWS' = None \/ \E d \in Conn \ {c} : pc'[d] \in {"swapWS", "switch", "greet", "meta"}
  BY DEF OvertakenInv
<1>0. /\ c \in Actor /\ outQ \in Nat \ {0} /\ c # None
      /\ \A a \in Actor : target[a] \in 0..outQ
      /\ \A e \in Emitter : e \in Actor /\ e # c /\ pc[e] \notin {"flip", "metadata", "page"} /\ e # None
      /\ \A d \in Conn : pc[d] # "push"
      /\ pc \in [Actor -> Place \cup EmitterPlace]
  BY QueueIs DEF TypeInv, HandType, PcType, Place, EmitterPlace, Dialling, Actor
<1>1. CASE pc'[c] = pc[c] /\ target'[c] = target[c]
  <2>1. ssMu = c /\ \A a \in Actor \ {c} : pc[a] \notin {"flip", "metadata", "page", "capture"}
    BY <1>0, <1>1 DEF LockInv
  <2>2. /\ \A e \in Emitter : pc[e] = "push" => target[e] <= target[c]
        /\ \A q \in 1..outQ : q > target[c] => queues[q].frames = <<>>
        /\ target[c] # outQ =>
             activeWS = None \/ \E d \in Conn \ {c} : pc[d] \in {"swapWS", "switch", "greet", "meta"}
    BY <1>1 DEF EraInv, OvertakenInv
  <2>3. \A e \in Emitter : pc'[e] = "push" => target'[e] <= target'[c]
    <3> SUFFICES ASSUME NEW e \in Emitter, pc'[e] = "push" PROVE target'[e] <= target'[c]
      OBVIOUS
    <3>1. pc'[e] = pc[e] /\ target'[e] = target[e]
      BY <1>0, <2>1, Moves
    <3> QED
      BY <1>1, <2>2, <3>1
  <2>4. \A d \in Conn : ~Flip(d)
    <3> SUFFICES ASSUME NEW d \in Conn, Flip(d) PROVE FALSE
      OBVIOUS
    <3>1. d = c /\ pc'[d] \in {"read", "era"}
      BY <1>0, <2>1 DEF Flip, Activate, Return, Goto, Actor
    <3> QED
      BY <3>1
  <2>5. \A q \in 1..outQ : q > target[c] => queues'[q].frames = <<>>
    <3> SUFFICES ASSUME NEW q \in 1..outQ, q > target[c], queues'[q].frames # <<>> PROVE FALSE
      OBVIOUS
    <3>1. PICK a \in Actor : /\ pc[a] \in {"push", "metadata", "page"} /\ target[a] = q
                             /\ pc'[a] \notin {"metadata", "page"}
      BY <2>2, QueuesMove
    <3>2. a # c
      BY <1>1, <3>1
    <3>3. pc[a] = "push" /\ a \in Emitter
      BY <1>0, <2>1, <3>1, <3>2 DEF Actor
    <3> QED
      BY <1>0, <2>2, <3>1, <3>3
  <2>6. CASE outQ' = outQ
    <3>1. target[c] # outQ => activeWS' = None \/ \E d \in Conn \ {c} : pc'[d] \in {"swapWS", "switch", "greet", "meta"}
      <4> SUFFICES ASSUME target[c] # outQ, activeWS' # None
                   PROVE  \E d \in Conn \ {c} : pc'[d] \in {"swapWS", "switch", "greet", "meta"}
        OBVIOUS
      <4>1. CASE activeWS = None
        BY <4>1, <1>1, Handshakes
      <4>2. CASE activeWS # None
        <5>1. PICK d \in Conn \ {c} : pc[d] \in {"swapWS", "switch", "greet", "meta"}
          BY <2>2, <4>2
        <5>2. pc'[d] \in {"swapWS", "switch", "greet", "meta"}
          BY <1>0, <2>1, <5>1, Handshakes
        <5> QED
          BY <5>2
      <4> QED
        BY <4>1, <4>2
    <3> QED
      BY <1>1, <2>3, <2>5, <2>6, <3>1
  <2>7. CASE outQ' # outQ
    <3>1. PICK d \in Conn : SwapQueue(d) /\ queues'[outQ'].frames = <<>>
      BY <2>4, <2>7, QueuesMove
    <3>2. d # c /\ pc'[d] = "swapWS"
      BY <1>0, <1>1, <3>1 DEF SwapQueue, Goto, Actor
    <3>3. \A q \in 1..outQ' : q \in 1..outQ \/ q = outQ'
      BY <1>0, QueuesMove
    <3> QED
      BY <1>1, <2>3, <2>5, <3>1, <3>2, <3>3
  <2> QED
    BY <2>6, <2>7
<1>2. CASE target'[c] = outQ /\ UNCHANGED outbound /\ ssMu \in {None, c}
  <2>1. outQ' = outQ /\ queues' = queues
    BY <1>2 DEF outbound
  <2>2. \A q \in 1..outQ : ~(q > outQ)
    BY <1>0
  <2>3. ASSUME NEW e \in Emitter, pc'[e] = "push" PROVE target'[e] <= target'[c]
    <3>1. pc'[e] = pc[e] /\ target'[e] = target[e]
      BY <1>0, <1>2, <2>3, Moves
    <3> QED
      BY <1>0, <1>2, <3>1
  <2> QED
    BY <1>2, <2>1, <2>2, <2>3
<1> QED
  BY <1>0, <1>1, <1>2, Moves

\* The writer between two looks at its connection.
LEMMA WriterMoves ==
  ASSUME [Next]_vars, writer' \in {"era", "write"}
  PROVE  \/ writer' = "era" /\ writerWS' = activeWS /\ UNCHANGED activeWS
         \/ /\ writer \in {"era", "write"} /\ UNCHANGED <<writerQ, writerWS>>
            /\ writer' = "write" /\ writer = "era" => writerQ = outQ /\ writerWS # None
<1>1. CASE UNCHANGED writing
  BY <1>1 DEF writing
<1>2. CASE wsWriter
  BY <1>2 DEF wsWriter, Take, LoadConn, CheckEra, Write, WriteFails, WriteLost, Proceed, slot, outbound
<1> QED
  BY <1>1, <1>2, Changes

\* A takeover swaps the queue before the connection.
LEMMA ClientStep == TypeInv /\ QueueInv /\ EraInv /\ [Next]_vars => ClientInv'
<1> SUFFICES ASSUME TypeInv, QueueInv, EraInv, [Next]_vars
             PROVE  ClientInv'
  OBVIOUS
<1>0. outQ \in Nat \ {0} /\ writerQ \in 0..outQ /\ \A c \in Conn : c # None
  BY QueueIs DEF TypeInv, WriterType
<1>1. ASSUME NEW c \in Conn, pc'[c] \in {"new", "swapQ", "swapWS"}
      PROVE  activeWS' # c /\ writerWS' # c
  <2>1. pc[c] \in {"new", "swapQ", "swapWS"}
    BY <1>1, Handshakes
  <2>2. activeWS # c /\ writerWS # c
    BY <2>1 DEF EraInv, ClientInv
  <2>3. activeWS' # c
    BY <1>0, <1>1, <2>2, Handshakes
  <2>4. writerWS' \in {writerWS, activeWS, None}
    <3>1. CASE UNCHANGED writing
      BY <3>1 DEF writing
    <3>2. CASE wsWriter
      BY <3>2 DEF wsWriter, Take, LoadConn, CheckEra, Write, WriteFails, WriteLost, Proceed
    <3> QED
      BY <3>1, <3>2, Changes
  <2> QED
    BY <1>0, <2>2, <2>3, <2>4
<1>2. ASSUME writer' \in {"era", "write"}, writerQ' = outQ', activeWS' \notin {None, writerWS'}
      PROVE  pc'[activeWS'] \in {"switch", "greet", "meta", "flip"}
  <2>1. CASE activeWS' # activeWS
    BY <1>2, <2>1, Handshakes
  <2>2. CASE activeWS' = activeWS
    <3>1. writer \in {"era", "write"} /\ UNCHANGED <<writerQ, writerWS>>
      BY <1>2, <2>2, WriterMoves
    <3>2. outQ' = outQ /\ writerQ = outQ
      BY <1>0, <1>2, <3>1, QueuesMove
    <3>3. activeWS \in Conn /\ queues[outQ].pushed /\ pc[activeWS] \in {"switch", "greet", "meta", "flip"}
      BY <1>2, <2>2, <3>1, <3>2
      DEF EraInv, ClientInv, TypeInv, SlotType, QueueInv, WriterInv
    <3> QED
      BY <2>2, <3>2, <3>3, Handshakes
  <2> QED
    BY <2>1, <2>2
<1> QED
  BY <1>1, <1>2 DEF ClientInv

\* The writer loads the connection before it looks at the queue.
LEMMA OldEraStep == TypeInv /\ QueueInv /\ EraInv /\ [Next]_vars => NoOldEraFrame'
<1> SUFFICES ASSUME TypeInv, QueueInv, EraInv, [Next]_vars, writer' = "write"
             PROVE  writerQ' >= installed'[writerWS']
  BY DEF NoOldEraFrame
<1>1. writer \in {"era", "write"} /\ UNCHANGED <<writerQ, writerWS>>
  BY WriterMoves
<1>2. writerWS \in Conn
  BY <1>1, WriterMoves DEF TypeInv, WriterType, QueueInv, WriterInv
<1>3. outQ \in Nat /\ writerQ \in Nat /\ installed[writerWS] \in 0..outQ
  BY <1>2, QueueIs DEF TypeInv, ConnType, WriterType
<1>4. writerQ >= installed[writerWS]
  BY <1>1, <1>3, WriterMoves DEF EraInv, NoOldEraFrame
<1>5. installed'[writerWS] \in {installed[writerWS], 0}
  <2>0. installed \in [Conn -> 0..outQ] /\ pc[writerWS] \notin {"swapQ"}
    BY <1>2 DEF TypeInv, ConnType, EraInv, ClientInv
  <2>1. CASE UNCHANGED vars
    BY <2>1 DEF vars, actor
  <2>2. ASSUME NEW e \in Emitter, Emit(e) PROVE installed' = installed
    BY <2>2 DEF Emit, Apply, Capture, Push
  <2>3. ASSUME NEW c \in Conn, Serve(c) PROVE installed'[writerWS] \in {installed[writerWS], 0}
    BY <1>2, <2>0, <2>3
    DEF Serve, Dial, SwapQueue, SwapConn, SwitchEngine, Greet, LoadEra, LoadQueue, Flip, PushMetadata,
      FreezePage, LoadPageQueue, PushPage, EngineSwitch, Disconnect, Leave, Deactivate, Forget,
      Handshake, Activate, actor
  <2>4. ASSUME wsWriter PROVE installed' = installed
    BY <2>4 DEF wsWriter, Take, LoadConn, CheckEra, Write, WriteFails, WriteLost, actor
  <2> QED
    BY <2>1, <2>2, <2>3, <2>4 DEF Next
<1> QED
  BY <1>1, <1>3, <1>4, <1>5

-----------------------------------------------------------------------------
(* How frames move: every step is one of the following.                    *)

Rest == UNCHANGED <<applied, clock, Waiting, batch, frame, browser>>

Raise(e) ==
  /\ pc[e] = "idle" /\ ssMu = None /\ applied' = applied + 1
  /\ \/ UNCHANGED frame
     \/ frame' = [frame EXCEPT ![e] = [kind |-> "event", id |-> applied + 1, by |-> e, seq |-> 0]]
  /\ UNCHANGED <<clock, Waiting, batch, browser, asks>>

Number(e) ==
  /\ pc[e] = "capture" /\ clock' = clock + 1
  /\ frame' = [frame EXCEPT ![e].seq = clock + 1]
  /\ UNCHANGED <<applied, Waiting, batch, browser, asks>>

\* A pusher's frame is in the current queue, or dropped.
Put(a) ==
  /\ pc[a] \in {"push", "page"}
  /\ frame' = [frame EXCEPT ![a] = Metadata]
  /\ Waiting' = Waiting \/ Waiting' = Append(Waiting, frame[a])
  /\ UNCHANGED <<applied, clock, batch, browser, asks>>

\* A new queue, or metadata in the old.
Signal ==
  /\ Waiting' \in {Waiting, <<>>, <<Metadata>>, Append(Waiting, Metadata)}
  /\ UNCHANGED <<applied, clock, frame, batch, browser, asks>>

Freeze(c) ==
  /\ pc[c] = "read" /\ ssMu = None /\ asks[c] # <<>> /\ clock' = clock + 1
  /\ frame' = [frame EXCEPT ![c] = Page(c, Head(asks[c]))]
  /\ asks' = [asks EXCEPT ![c] = Tail(@)]
  /\ UNCHANGED <<applied, Waiting, batch, browser>>

Fetch ==
  /\ Waiting' = <<>> /\ batch' = Waiting
  /\ UNCHANGED <<applied, clock, frame, browser, asks>>

Drop ==
  /\ batch # <<>> /\ batch' \in {<<>>, Tail(batch)}
  /\ UNCHANGED <<applied, clock, Waiting, frame, browser, asks>>

Deliver(c) ==
  /\ batch # <<>> /\ batch' = Tail(batch) /\ up[c]
  /\ Receive(c, Head(batch))
  /\ UNCHANGED <<applied, clock, Waiting, frame>>

Blank(c) ==
  /\ HangUp(c) /\ pc[c] # "new"
  /\ UNCHANGED <<applied, clock, Waiting, batch, frame, asks>>

Flow ==
  \/ Rest /\ (asks' = asks \/ \E c \in Conn : asks' = [asks EXCEPT ![c] = <<>>])
  \/ \E e \in Emitter : Raise(e) \/ Number(e)
  \/ \E a \in Actor : Put(a)
  \/ Signal \/ Fetch \/ Drop
  \/ \E c \in Conn : Freeze(c) \/ Deliver(c) \/ Blank(c)

\* What the current queue holds after a push.
LEMMA PutIs ==
  ASSUME TypeInv, QueueInv, EraInv, NEW a \in Actor, NEW f \in Frame,
         pc[a] \in {"push", "page", "metadata"}, Pushed(target[a], f), UNCHANGED outQ
  PROVE  Waiting' = IF target[a] = outQ THEN Append(Waiting, f) ELSE Waiting
<1>1. target[a] \in 1..outQ /\ outQ \in 1..outQ
  BY QueueIs DEF TypeInv, HandType, QueueInv, HandInv
<1>2. CASE target[a] = outQ
  BY <1>1, <1>2, PushedIs DEF Waiting, QueueInv, QueuesInv
<1>3. CASE target[a] # outQ
  <2>1. queues[target[a]].closed
    BY <1>3 DEF EraInv, TargetInv
  <2> QED
    BY <1>1, <1>3, <2>1, PushedIs DEF Waiting
<1> QED
  BY <1>2, <1>3

\* Every step moves the frames in one of these ways.
LEMMA FlowStep == TypeInv /\ QueueInv /\ EraInv /\ [Next]_vars => Flow
<1> SUFFICES ASSUME TypeInv, QueueInv, EraInv, [Next]_vars
             PROVE  Flow
  OBVIOUS
<1>0. /\ \A e \in Emitter : e \in Actor /\ frame[e] \in Frame
      /\ \A c \in Conn : c \in Actor /\ c # None /\ frame[c] \in Frame
      /\ frame \in [Actor -> Frame] /\ outQ \in 1..outQ
  BY QueueIs DEF TypeInv, HandType, Actor
<1>1. CASE UNCHANGED vars
  BY <1>1 DEF vars, slot, outbound, actor, writing, Waiting, Rest, Flow
<1>2. ASSUME NEW e \in Emitter, Apply(e) PROVE Flow
  <2>1. Raise(e)
    BY <1>2 DEF Apply, Raise, outbound, writing, Waiting
  <2> QED
    BY <2>1 DEF Flow
<1>3. ASSUME NEW e \in Emitter, Capture(e) PROVE Flow
  <2>1. Number(e)
    BY <1>3 DEF Capture, Number, slot, outbound, writing, Waiting
  <2> QED
    BY <2>1 DEF Flow
<1>4. ASSUME NEW e \in Emitter, Push(e) PROVE Flow
  <2>1. Waiting' = Waiting \/ Waiting' = Append(Waiting, frame[e])
    BY <1>0, <1>4, PutIs DEF Push
  <2>2. Put(e)
    BY <1>4, <2>1 DEF Push, Done, Put, slot, writing
  <2> QED
    BY <1>0, <2>2 DEF Flow
<1>5. ASSUME NEW c \in Conn,
             Dial(c) \/ SwitchEngine(c) \/ Greet(c) \/ LoadEra(c) \/ LoadQueue(c)
               \/ LoadPageQueue(c)
               \/ EngineSwitch(c) \/ Leave(c) \/ Deactivate(c)
      PROVE  Flow
  <2>1. Rest /\ asks' = asks
    BY <1>5 DEF Dial, SwitchEngine, Greet, LoadEra, LoadQueue, LoadPageQueue, EngineSwitch, Leave, Deactivate,
         Handshake, Rest, slot, outbound, actor, writing, Waiting
  <2> QED
    BY <2>1 DEF Flow
<1>6. ASSUME NEW c \in Conn, Forget(c) PROVE Flow
  <2>1. Rest /\ asks' = [asks EXCEPT ![c] = <<>>]
    BY <1>6 DEF Forget, Rest, outbound, writing, Waiting
  <2> QED
    BY <2>1 DEF Flow
<1>7. ASSUME NEW c \in Conn, SwapQueue(c) PROVE Flow
  <2>1. queues' = Append(Closed(outQ), Pristine) /\ outQ' = outQ + 1
    BY <1>7 DEF SwapQueue, TypeInv, QueueType
  <2>2. Waiting' = <<>>
    BY <1>0, <2>1, ClosedIs, PristineIs DEF Waiting
  <2>3. Signal
    BY <1>7, <2>2 DEF SwapQueue, Signal, slot, writing
  <2> QED
    BY <2>3 DEF Flow
<1>8. ASSUME NEW c \in Conn, SwapConn(c) PROVE Flow
  <2>1. UNCHANGED <<applied, clock, Waiting, batch, frame, asks>>
    BY <1>8 DEF SwapConn, outbound, actor, writing, Waiting
  <2>2. CASE activeWS = None
    <3>1. Rest
      BY <1>8, <2>1, <2>2 DEF SwapConn, Rest
    <3> QED
      BY <2>1, <3>1 DEF Flow
  <2>3. CASE activeWS # None
    <3>1. activeWS \in Conn /\ pc[activeWS] # "new"
      BY <2>3 DEF TypeInv, SlotType, EraInv, ClientInv
    <3>2. Blank(activeWS)
      BY <1>8, <2>1, <2>3, <3>1 DEF SwapConn, Blank
    <3> QED
      BY <3>1, <3>2 DEF Flow
  <2> QED
    BY <2>2, <2>3
<1>9. ASSUME NEW c \in Conn, Flip(c) PROVE Flow
  <2>1. /\ queues' = Append(Closed(target[c]), Greeted) /\ outQ' = outQ + 1
        /\ target[c] \in 1..outQ /\ frame[c] = Metadata
    BY <1>0, <1>9 DEF Flip, Greeted, TypeInv, QueueType, HandType, QueueInv, HandInv, Holding
  <2>2. Waiting' = <<Metadata>>
    BY <2>1, ClosedIs, PristineIs DEF Waiting
  <2>3. frame' = frame
    BY <1>0, <1>9, <2>1 DEF Flip, Activate, Done
  <2>4. Signal
    BY <1>9, <2>2, <2>3 DEF Flip, Activate, Signal, writing
  <2> QED
    BY <2>4 DEF Flow
<1>10. ASSUME NEW c \in Conn, PushMetadata(c) PROVE Flow
  <2>1. Waiting' = Waiting \/ Waiting' = Append(Waiting, Metadata)
    BY <1>0, <1>10, PutIs, Kinds DEF PushMetadata
  <2>2. frame[c] = Metadata
    BY <1>0, <1>10 DEF PushMetadata, QueueInv, HandInv, Holding
  <2>3. frame' = frame
    BY <1>0, <1>10, <2>2 DEF PushMetadata, Activate, Done
  <2>4. Signal
    BY <1>10, <2>1, <2>3 DEF PushMetadata, Activate, Signal, writing
  <2> QED
    BY <2>4 DEF Flow
<1>11. ASSUME NEW c \in Conn, FreezePage(c) PROVE Flow
  <2>1. Freeze(c)
    BY <1>11 DEF FreezePage, Freeze, slot, outbound, writing, Waiting
  <2> QED
    BY <2>1 DEF Flow
<1>12. ASSUME NEW c \in Conn, PushPage(c) PROVE Flow
  <2>1. Waiting' = Waiting \/ Waiting' = Append(Waiting, frame[c])
    BY <1>0, <1>12, PutIs DEF PushPage
  <2>2. Put(c)
    BY <1>12, <2>1 DEF PushPage, Done, Put, slot, writing
  <2> QED
    BY <1>0, <2>2 DEF Flow
<1>13. ASSUME NEW c \in Conn, Disconnect(c) PROVE Flow
  <2>1. Blank(c)
    BY <1>13 DEF Disconnect, Blank, slot, outbound, actor, writing, Waiting
  <2> QED
    BY <2>1 DEF Flow
<1>14. CASE Take
  <2>1. Waiting' = <<>>
    BY <1>14, TakenIs DEF Take, Waiting
  <2>2. Fetch
    BY <1>14, <2>1 DEF Take, Fetch, slot, actor, Waiting
  <2> QED
    BY <2>2 DEF Flow
<1>15. CASE LoadConn
  <2>1. Rest /\ asks' = asks
    BY <1>15 DEF LoadConn, Rest, slot, outbound, actor, Waiting
  <2> QED
    BY <2>1 DEF Flow
<1>16. CASE CheckEra \/ WriteFails \/ WriteLost
  <2>1. batch # <<>>
    BY <1>16 DEF CheckEra, WriteFails, WriteLost, QueueInv, WriterInv
  <2>2. batch' \in {batch, <<>>, Tail(batch)}
    BY <1>16 DEF CheckEra, WriteFails, WriteLost, Proceed
  <2>3. UNCHANGED <<applied, clock, Waiting, frame, browser, asks>>
    BY <1>16 DEF CheckEra, WriteFails, WriteLost, slot, outbound, actor, Waiting
  <2> QED
    BY <2>1, <2>2, <2>3 DEF Rest, Drop, Flow
<1>17. CASE Write
  <2>1. writerWS \in Conn /\ batch # <<>>
    BY <1>17 DEF Write, QueueInv, WriterInv, TypeInv, WriterType
  <2>2. Deliver(writerWS)
    BY <1>17, <2>1 DEF Write, Proceed, Deliver, slot, outbound, actor, Waiting
  <2> QED
    BY <2>1, <2>2 DEF Flow
<1> QED
  BY <1>1, <1>2, <1>3, <1>4, <1>5, <1>6, <1>7, <1>8, <1>9, <1>10, <1>11, <1>12, <1>13, <1>14,
     <1>15, <1>16, <1>17
  DEF Next, Emit, Serve, wsWriter

-----------------------------------------------------------------------------
(* What a browser makes of a frame.                                        *)

Same(d) ==
  /\ asks'[d] = asks[d] /\ nonce'[d] = nonce[d] /\ pending'[d] = pending[d]
  /\ pageSeq'[d] = pageSeq[d] /\ has'[d] = has[d] /\ live'[d] = live[d] /\ buffer'[d] = buffer[d]

Restarted(c) ==
  /\ nonce'[c] = nonce[c] + 1 /\ asks'[c] = Append(asks[c], nonce[c] + 1) /\ pending'[c]
  /\ pageSeq'[c] = pageSeq[c] /\ has'[c] = 0 /\ live'[c] = <<>> /\ buffer'[c] = <<>>

Buffered(c, f) ==
  /\ pending[c] /\ asks'[c] = asks[c] /\ nonce'[c] = nonce[c] /\ pending'[c]
  /\ pageSeq'[c] = pageSeq[c] /\ has'[c] = has[c]
  /\ live'[c] = live[c] /\ buffer'[c] = Append(buffer[c], f)

Shows(c, f) ==
  /\ ~pending[c] /\ asks'[c] = asks[c] /\ nonce'[c] = nonce[c] /\ ~pending'[c]
  /\ pageSeq'[c] = pageSeq[c] /\ has'[c] = has[c]
  /\ buffer'[c] = buffer[c]
  /\ \/ f.seq > pageSeq[c] /\ live'[c] = Append(live[c], f)
     \/ f.seq <= pageSeq[c] /\ live'[c] = live[c]

Paged(c, f) ==
  /\ f.nonce = <<c, nonce[c]>> /\ pending[c]
  /\ asks'[c] = asks[c] /\ nonce'[c] = nonce[c] /\ ~pending'[c]
  /\ pageSeq'[c] = f.seq /\ has'[c] = f.has /\ buffer'[c] = <<>>
  /\ live'[c] \in Seq(EventFrame) /\ Distinct(live'[c])
  /\ Range(live'[c]) = {g \in Range(buffer[c]) : g.seq > f.seq}

\* What Receive does to the browser it is for; no other changes.
LEMMA DeliverIs ==
  ASSUME TypeInv, NumberInv, OnceInv, NEW c \in Conn, Deliver(c)
  PROVE  \E f \in Frame :
           /\ f = Head(batch) /\ Range(batch) = {f} \cup Range(batch')
           /\ \A d \in Conn : d # c => Same(d)
           /\ \/ f = Metadata /\ Restarted(c)
              \/ f \in EventFrame /\ (Buffered(c, f) \/ Shows(c, f))
              \/ f \in PageFrame /\ (Paged(c, f) \/ (~(f.nonce = <<c, nonce[c]>> /\ pending[c]) /\ Same(c)))
<1> DEFINE f == Head(batch)
<1>1. f \in Frame /\ Range(batch) = {f} \cup Range(batch') /\ Receive(c, f) /\ f \in Range(batch)
  BY BatchIs DEF Deliver
<1>2. BrowserType
  BY DEF TypeInv
<1> HIDE DEF f
<1>3. CASE f = Metadata
  <2>1. Reset(c)
    BY <1>1, <1>3, ReceiveIs
  <2>2. Restarted(c) /\ \A d \in Conn : d # c => Same(d)
    BY <1>2, <2>1 DEF Reset, BrowserType, Restarted, Same
  <2> QED
    BY <1>1, <1>3, <2>2 DEF f
<1>4. CASE f \in EventFrame
  <2>1. Show(c, f) /\ f.seq \in Nat /\ f.seq # 0
    BY <1>1, <1>4, Kinds, ReceiveIs DEF NumberInv, NumberedInv
  <2>2. CASE pending[c]
    <3>1. Buffered(c, f) /\ \A d \in Conn : d # c => Same(d)
      BY <1>2, <2>1, <2>2 DEF Show, BrowserType, Buffered, Same
    <3> QED
      BY <1>1, <1>4, <3>1 DEF f
  <2>3. CASE ~pending[c]
    <3>0. pageSeq[c] \in Nat
      BY <1>2 DEF BrowserType
    <3>1. CASE f.seq <= pageSeq[c]
      <4>1. UNCHANGED <<asks, nonce, pending, pageSeq, has, live, buffer>>
        BY <2>1, <2>3, <3>0, <3>1 DEF Show
      <4>2. Shows(c, f) /\ \A d \in Conn : d # c => Same(d)
        BY <2>3, <3>1, <4>1 DEF Shows, Same
      <4> QED
        BY <1>1, <1>4, <4>2 DEF f
    <3>2. CASE ~(f.seq <= pageSeq[c])
      <4>1. /\ live' = [live EXCEPT ![c] = Append(@, f)]
            /\ UNCHANGED <<asks, nonce, pending, pageSeq, has, buffer>>
        BY <2>1, <2>3, <3>2 DEF Show
      <4>2. Shows(c, f) /\ \A d \in Conn : d # c => Same(d)
        BY <1>2, <2>1, <2>3, <3>0, <3>2, <4>1 DEF Shows, Same, BrowserType
      <4> QED
        BY <1>1, <1>4, <4>2 DEF f
    <3> QED
      BY <3>1, <3>2
  <2> QED
    BY <2>2, <2>3
<1>5. CASE f \in PageFrame
  <2>1. /\ ApplyPage(c, f)
        /\ Replayed(buffer[c], f.seq) \in Seq(EventFrame)
        /\ Range(Replayed(buffer[c], f.seq)) = {g \in Range(buffer[c]) : g.seq > f.seq}
        /\ Distinct(Replayed(buffer[c], f.seq))
        /\ pending[c] => live[c] \o Replayed(buffer[c], f.seq) = Replayed(buffer[c], f.seq)
    BY <1>1, <1>5, ReceiveIs
  <2>2. CASE f.nonce = <<c, nonce[c]>> /\ pending[c]
    <3>1. /\ pending' = [pending EXCEPT ![c] = FALSE]
          /\ pageSeq' = [pageSeq EXCEPT ![c] = f.seq]
          /\ has' = [has EXCEPT ![c] = f.has]
          /\ live' = [live EXCEPT ![c] = Replayed(buffer[c], f.seq)]
          /\ buffer' = [buffer EXCEPT ![c] = <<>>]
          /\ UNCHANGED <<asks, nonce>>
      BY <2>1, <2>2 DEF ApplyPage
    <3>2. \A d \in Conn : d # c => Same(d)
      BY <1>2, <3>1 DEF Same, BrowserType
    <3>3. /\ ~pending'[c] /\ pageSeq'[c] = f.seq /\ has'[c] = f.has /\ buffer'[c] = <<>>
          /\ live'[c] = Replayed(buffer[c], f.seq) /\ asks'[c] = asks[c] /\ nonce'[c] = nonce[c]
      BY <1>2, <3>1 DEF BrowserType
    <3>4. Paged(c, f)
      BY <2>1, <2>2, <3>3 DEF Paged
    <3> QED
      BY <1>1, <1>5, <3>2, <3>4 DEF f
  <2>3. CASE ~(f.nonce = <<c, nonce[c]>> /\ pending[c])
    <3>1. \A d \in Conn : Same(d)
      BY <2>1, <2>3 DEF ApplyPage, Same
    <3> QED
      BY <1>1, <1>5, <2>3, <3>1 DEF f
  <2> QED
    BY <2>2, <2>3
<1> QED
  BY <1>1, <1>3, <1>4, <1>5 DEF Frame

\* A client that is gone shows nothing.
LEMMA BlankIs ==
  ASSUME TypeInv, NEW c \in Conn, Blank(c)
  PROVE  /\ \A d \in Conn : d # c => Same(d)
         /\ nonce'[c] = 0 /\ ~pending'[c] /\ pageSeq'[c] = 0 /\ has'[c] = 0
         /\ live'[c] = <<>> /\ buffer'[c] = <<>> /\ ~up'[c] /\ \A d \in Conn : d # c => up'[d] = up[d]
<1>1. BrowserType /\ up \in [Conn -> BOOLEAN]
  BY DEF TypeInv, ConnType
<1>2. nonce'[c] = 0 /\ ~pending'[c] /\ pageSeq'[c] = 0 /\ has'[c] = 0
         /\ live'[c] = <<>> /\ buffer'[c] = <<>> /\ ~up'[c]
  BY <1>1 DEF Blank, HangUp, BrowserType
<1>3. ASSUME NEW d \in Conn, d # c PROVE Same(d) /\ up'[d] = up[d]
  BY <1>1, <1>3 DEF Blank, HangUp, Same, BrowserType
<1> QED
  BY <1>2, <1>3

\* Browsers change at a delivery or when their client goes.
LEMMA RestIs ==
  ASSUME Rest \/ (\E e \in Emitter : Raise(e) \/ Number(e)) \/ (\E a \in Actor : Put(a))
           \/ Signal \/ Fetch \/ Drop \/ (\E c \in Conn : Freeze(c))
  PROVE  UNCHANGED <<nonce, pending, pageSeq, has, live, buffer>>
  BY DEF Rest, Raise, Number, Put, Signal, Fetch, Drop, Freeze, browser

-----------------------------------------------------------------------------
(* The frames there are.                                                   *)

\* One place of a function changes.
LEMMA Updated ==
  ASSUME NEW A, NEW B, NEW F \in [A -> B], NEW a \in A, NEW x
  PROVE  Range([F EXCEPT ![a] = x]) \subseteq Range(F) \cup {x}
  BY DEF Range

\* Where frames are, and of which kind.
LEMMA FramesAre ==
  ASSUME TypeInv
  PROVE  /\ Waiting \in Seq(Frame) /\ batch \in Seq(Frame) /\ frame \in [Actor -> Frame]
         /\ \A a \in Actor : frame[a] \in Frames
         /\ Frames \subseteq Frame
         /\ \A c \in Conn : Range(live[c]) \subseteq EventFrame /\ Range(buffer[c]) \subseteq EventFrame
         /\ Known \subseteq EventFrame /\ Sent \subseteq PageFrame
         /\ \A f \in EventFrame :
              f \in Known <=> f \in Frames \/ \E c \in Conn : f \in Range(live[c]) \cup Range(buffer[c])
         /\ \A f \in PageFrame : f \in Sent <=> f \in Frames
<1>1. Waiting \in Seq(Frame) /\ batch \in Seq(Frame) /\ frame \in [Actor -> Frame]
  BY QueueIs DEF TypeInv, Waiting, WriterType, HandType
<1>2. /\ \A a \in Actor : frame[a] \in Range(frame)
      /\ Range(frame) \subseteq Frame
  BY <1>1 DEF Range
<1>3. Range(Waiting) \subseteq Frame /\ Range(batch) \subseteq Frame
  BY <1>1, Ranges
<1>4. ASSUME NEW c \in Conn
      PROVE  Range(live[c]) \subseteq EventFrame /\ Range(buffer[c]) \subseteq EventFrame
  <2>1. live[c] \in Seq(EventFrame) /\ buffer[c] \in Seq(EventFrame)
    BY DEF TypeInv, BrowserType
  <2> QED
    BY <2>1, Ranges
<1>5. Frames \subseteq Frame
  BY <1>2, <1>3 DEF Frames
<1>6. Known \subseteq EventFrame
  BY <1>4, <1>5, Kinds DEF Known
<1>7. Sent \subseteq PageFrame
  BY <1>5, Kinds DEF Sent
<1>8. \A f \in EventFrame :
        f \in Known <=> f \in Frames \/ \E c \in Conn : f \in Range(live[c]) \cup Range(buffer[c])
  BY Kinds DEF Known
<1>9. \A f \in PageFrame : f \in Sent <=> f \in Frames
  BY Kinds DEF Sent
<1> QED
  BY <1>1, <1>2, <1>4, <1>5, <1>6, <1>7, <1>8, <1>9 DEF Frames

\* The same, a step later.
LEMMA FramesAreNext ==
  ASSUME TypeInv'
  PROVE  /\ \A f \in Frames' : f \in Frame
         /\ Known' \subseteq EventFrame /\ Sent' \subseteq PageFrame
         /\ \A f \in EventFrame :
              f \in Known' <=> f \in Frames' \/ \E c \in Conn : f \in Range(live'[c]) \cup Range(buffer'[c])
         /\ \A f \in PageFrame : f \in Sent' <=> f \in Frames'
<1>1. queues'[outQ'].frames \in Seq(Frame) /\ batch' \in Seq(Frame) /\ frame' \in [Actor -> Frame]
  <2>1. queues' \in Seq(Queue) /\ outQ' \in 1..Len(queues')
    BY EmptySeq, LenProperties DEF TypeInv, QueueType
  <2>2. queues'[outQ'] \in Queue
    BY <2>1, ElementOfSeq
  <2> QED
    BY <2>2 DEF TypeInv, WriterType, HandType, Queue
<1>2. Range(frame') \subseteq Frame
  BY <1>1 DEF Range
<1>3. Range(queues'[outQ'].frames) \subseteq Frame /\ Range(batch') \subseteq Frame
  BY <1>1, Ranges
<1>4. ASSUME NEW c \in Conn
      PROVE  Range(live'[c]) \subseteq EventFrame /\ Range(buffer'[c]) \subseteq EventFrame
  <2>1. live'[c] \in Seq(EventFrame) /\ buffer'[c] \in Seq(EventFrame)
    BY DEF TypeInv, BrowserType
  <2> QED
    BY <2>1, Ranges
<1>5. Frames' \subseteq Frame
  BY <1>2, <1>3 DEF Frames, Waiting
<1>6. Known' \subseteq EventFrame
  BY <1>4, <1>5, Kinds DEF Known
<1>7. Sent' \subseteq PageFrame
  BY <1>5, Kinds DEF Sent
<1>8. \A f \in EventFrame :
        f \in Known' <=> f \in Frames' \/ \E c \in Conn : f \in Range(live'[c]) \cup Range(buffer'[c])
  BY Kinds DEF Known
<1>9. \A f \in PageFrame : f \in Sent' <=> f \in Frames'
  BY Kinds DEF Sent
<1> QED
  BY <1>5, <1>6, <1>7, <1>8, <1>9

\* Only a freeze, an effect and a number bring new frames.
LEMMA FramesMove ==
  ASSUME TypeInv,
         Rest \/ (\E a \in Actor : Put(a)) \/ Signal \/ Fetch \/ Drop
           \/ (\E c \in Conn : Deliver(c) \/ Blank(c))
  PROVE  Frames' \subseteq Frames \cup {Metadata} /\ applied' = applied /\ clock' = clock
<1>0. /\ Waiting \in Seq(Frame) /\ batch \in Seq(Frame)
      /\ \A a \in Actor : frame[a] \in Frame /\ frame[a] \in Range(frame)
  BY FramesAre DEF Range
<1>1. CASE Rest \/ \E c \in Conn : Blank(c)
  BY <1>1 DEF Rest, Blank, Frames
<1>2. ASSUME NEW a \in Actor, Put(a) PROVE Frames' \subseteq Frames \cup {Metadata}
  <2>1. Range(frame') \subseteq Range(frame) \cup {Metadata}
    BY <1>2, FramesAre, Updated DEF Put
  <2>2. Range(Waiting') \subseteq Range(Waiting) \cup {frame[a]}
    <3>1. Range(Append(Waiting, frame[a])) = Range(Waiting) \cup {frame[a]}
      BY <1>0, AppendIs
    <3> QED
      BY <1>2, <3>1 DEF Put
  <2> QED
    BY <1>0, <1>2, <2>1, <2>2 DEF Frames, Put
<1>3. CASE Signal
  <2>1. Range(Waiting') \subseteq Range(Waiting) \cup {Metadata}
    <3>1. Range(Append(Waiting, Metadata)) = Range(Waiting) \cup {Metadata}
      BY <1>0, AppendIs, Kinds
    <3>2. Range(<<Metadata>>) = {Metadata} /\ Range(<<>>) = {}
      BY RangeEmpty, RangeOne, Kinds
    <3> QED
      BY <1>3, <3>1, <3>2 DEF Signal
  <2> QED
    BY <1>3, <2>1 DEF Frames, Signal
<1>4. CASE Fetch
  BY <1>4, RangeEmpty DEF Fetch, Frames
<1>5. CASE Drop \/ \E c \in Conn : Deliver(c)
  <2>1. batch' \in {<<>>, Tail(batch)} /\ batch # <<>>
    BY <1>5 DEF Drop, Deliver
  <2>2. Range(batch') \subseteq Range(batch)
    <3>1. Range(Tail(batch)) \subseteq Range(batch) /\ Range(<<>>) = {}
      BY <1>0, <2>1, TailIs, RangeEmpty
    <3> QED
      BY <2>1, <3>1
  <2> QED
    BY <1>5, <2>2 DEF Frames, Drop, Deliver
<1> QED
  BY <1>1, <1>2, <1>3, <1>4, <1>5 DEF Rest, Put, Signal, Fetch, Drop, Deliver, Blank

\* An effect brings one event, without its number;
LEMMA FramesRaise ==
  ASSUME TypeInv, NEW e \in Emitter, Raise(e)
  PROVE  \E f \in EventFrame :
           f.id = applied + 1 /\ f.seq = 0 /\ Frames' \subseteq Frames \cup {f}
<1> DEFINE f == [kind |-> "event", id |-> applied + 1, by |-> e, seq |-> 0]
<1>1. f \in EventFrame /\ f.id = applied + 1 /\ f.seq = 0
  BY DEF TypeInv, SlotType, EventFrame
<1>2. e \in Actor
  BY DEF Actor
<1> HIDE DEF f
<1>3. frame' = frame \/ frame' = [frame EXCEPT ![e] = f]
  BY DEF Raise, f
<1>4. Range(frame') \subseteq Range(frame) \cup {f}
  <2>1. frame \in [Actor -> Frame]
    BY FramesAre
  <2>2. Range([frame EXCEPT ![e] = f]) \subseteq Range(frame) \cup {f}
    BY <1>2, <2>1, Updated
  <2> QED
    BY <1>3, <2>2
<1>5. Frames' \subseteq Frames \cup {f}
  BY <1>4 DEF Frames, Raise
<1> QED
  BY <1>1, <1>5

\* a capture numbers it;
LEMMA FramesNumber ==
  ASSUME TypeInv, QueueInv, NumberInv, NEW e \in Emitter, Number(e)
  PROVE  \E f \in EventFrame :
           /\ f.id = frame[e].id /\ f.seq = clock + 1 /\ Frames' \subseteq Frames \cup {f}
           /\ frame[e] \in EventFrame /\ frame[e] \in Known /\ frame[e].seq = 0
<1>1. e \in Actor /\ pc[e] = "capture" /\ clock \in Nat
  BY DEF Actor, Number, TypeInv, SlotType
<1>2. frame[e] \in EventFrame /\ frame[e].seq = 0
  BY <1>1 DEF QueueInv, HandInv, NumberInv, NumberedInv
<1>3. frame[e] \in Known
  BY <1>1, <1>2, FramesAre
<1> DEFINE f == [frame[e] EXCEPT !.seq = clock + 1]
<1>4. f \in EventFrame /\ f.id = frame[e].id /\ f.seq = clock + 1
  BY <1>1, <1>2 DEF EventFrame
<1>5. frame' = [frame EXCEPT ![e] = f]
  BY <1>1 DEF Number
<1> HIDE DEF f
<1>6. Range(frame') \subseteq Range(frame) \cup {f}
  BY <1>1, <1>5, FramesAre, Updated
<1>7. Frames' \subseteq Frames \cup {f}
  BY <1>6 DEF Frames, Number
<1> QED
  BY <1>2, <1>3, <1>4, <1>7

\* a freeze brings one page.
LEMMA FramesFreeze ==
  ASSUME TypeInv, NEW c \in Conn, Freeze(c)
  PROVE  \E g \in PageFrame :
           /\ g.nonce = <<c, Head(asks[c])>> /\ Head(asks[c]) \in Range(asks[c])
           /\ g.has = applied /\ g.seq = clock + 1 /\ Frames' \subseteq Frames \cup {g}
           /\ frame' = [frame EXCEPT ![c] = g]
<1>0. asks[c] \in Seq(Nat) /\ asks[c] # <<>>
  BY DEF TypeInv, BrowserType, Freeze
<1>1. Head(asks[c]) \in Nat /\ Head(asks[c]) \in Range(asks[c])
  BY <1>0, TailIs
<1> DEFINE g == Page(c, Head(asks[c]))
<1>2. /\ g \in PageFrame /\ g.nonce = <<c, Head(asks[c])>>
      /\ g.has = applied /\ g.seq = clock + 1
  BY <1>1 DEF Page, PageFrame, TypeInv, SlotType
<1>3. c \in Actor /\ frame' = [frame EXCEPT ![c] = g]
  BY DEF Actor, Freeze
<1> HIDE DEF g
<1>4. Range(frame') \subseteq Range(frame) \cup {g}
  BY <1>3, FramesAre, Updated
<1>5. Frames' \subseteq Frames \cup {g}
  BY <1>4 DEF Frames, Freeze
<1> QED
  BY <1>1, <1>2, <1>3, <1>5

-----------------------------------------------------------------------------
(* The numbers of events and of pages.                                     *)

\* When ssMu is free every event has its number.
LEMMA AllNumbered ==
  ASSUME TypeInv, QueueInv, LockInv, NumberInv, ssMu = None
  PROVE  \A f \in Known : f.seq # 0
<1>1. ASSUME NEW a \in Actor, frame[a] \in EventFrame PROVE frame[a].seq # 0
  <2>1. pc[a] \in {"capture", "push"}
    BY <1>1, Kinds DEF QueueInv, HandInv, Holding, PageFrame, EventFrame
  <2>2. a \in Emitter
    BY <2>1 DEF TypeInv, PcType, Place, Dialling, Actor
  <2>3. pc[a] # "capture"
    BY NameAssumption DEF LockInv, Actor
  <2> QED
    BY <2>1, <2>2, <2>3 DEF NumberInv, NumberedInv
<1>2. \A f \in Range(Waiting) \cup Range(batch) : f \in EventFrame => f.seq # 0
  BY Kinds DEF NumberInv, NumberedInv
<1>3. ASSUME NEW f \in Range(frame), f \in EventFrame PROVE f.seq # 0
  <2>1. PICK a \in Actor : f = frame[a]
    BY FramesAre DEF Range
  <2> QED
    BY <1>1, <1>3, <2>1
<1>4. \A c \in Conn : \A f \in Range(live[c]) \cup Range(buffer[c]) : f.seq # 0
  BY DEF NumberInv, NumberedInv
<1>5. \A f \in Known : f \in EventFrame
  BY FramesAre
<1> QED
  BY <1>2, <1>3, <1>4, <1>5, FramesAre DEF Frames

\* The order stays when frames only go, and a client that begins to show a page had it sent.
LEMMA KeepsOrder ==
  ASSUME TypeInv, OrderInv, Known' \subseteq Known, Sent' \subseteq Sent,
         applied' \in Nat, clock' \in Nat, applied' >= applied, clock' >= clock,
         \A c \in Showing' :
           \/ c \in Showing /\ has'[c] = has[c] /\ pageSeq'[c] = pageSeq[c]
           \/ \E g \in Sent : has'[c] = g.has /\ pageSeq'[c] = g.seq
  PROVE  OrderInv'
<1>1. applied \in Nat /\ clock \in Nat
  BY DEF TypeInv, SlotType
<1>2. ASSUME NEW f \in Known'
      PROVE  /\ f.id \in 1..applied' /\ f.seq <= clock'
             /\ \A g \in Sent' : After(f, g.has, g.seq)
             /\ \A c \in Showing' : After(f, has'[c], pageSeq'[c])
  <2>1. f \in Known /\ f.id \in Nat /\ f.seq \in Nat
    BY FramesAre, Kinds
  <2>2. /\ f.id \in 1..applied /\ f.seq <= clock
        /\ \A g \in Sent : After(f, g.has, g.seq)
        /\ \A c \in Showing : After(f, has[c], pageSeq[c])
    BY <2>1 DEF OrderInv
  <2>3. f.id \in 1..applied' /\ f.seq <= clock'
    BY <1>1, <2>1, <2>2
  <2>4. \A c \in Showing' : After(f, has'[c], pageSeq'[c])
    BY <2>2
  <2> QED
    BY <2>2, <2>3, <2>4
<1>3. ASSUME NEW g \in Sent' PROVE g.has <= applied' /\ g.seq \in 1..clock'
  <2>1. g \in Sent /\ g.has \in Nat /\ g.seq \in Nat
    BY FramesAre, Kinds
  <2>2. g.has <= applied /\ g.seq \in 1..clock
    BY <2>1 DEF OrderInv
  <2> QED
    BY <1>1, <2>1, <2>2
<1>4. \A f \in Known' : \A g \in Sent' : After(f, g.has, g.seq)'
  BY <1>2 DEF After
<1>5. \A f \in Known' : \A c \in Showing' : After(f, has[c], pageSeq[c])'
  BY <1>2 DEF After
<1> QED
  BY <1>2, <1>3, <1>4, <1>5 DEF OrderInv

\* What a browser does leaves it with frames it had or was sent.
LEMMA BrowserMoves ==
  ASSUME TypeInv, NumberInv, OnceInv, TypeInv',
         (\E c \in Conn : Deliver(c) \/ Blank(c))
           \/ UNCHANGED <<nonce, pending, pageSeq, has, live, buffer>>
  PROVE  /\ \A c \in Conn : Range(live'[c]) \cup Range(buffer'[c])
                          \subseteq Range(live[c]) \cup Range(buffer[c]) \cup Range(batch)
         /\ \A c \in Showing' :
              \/ c \in Showing /\ has'[c] = has[c] /\ pageSeq'[c] = pageSeq[c]
              \/ \E g \in Sent : has'[c] = g.has /\ pageSeq'[c] = g.seq
<1>1. CASE UNCHANGED <<nonce, pending, pageSeq, has, live, buffer>>
  BY <1>1 DEF Showing
<1>2. ASSUME NEW c \in Conn, Blank(c)
      PROVE  /\ \A d \in Conn : Range(live'[d]) \cup Range(buffer'[d])
                              \subseteq Range(live[d]) \cup Range(buffer[d]) \cup Range(batch)
             /\ \A d \in Showing' :
                  d \in Showing /\ has'[d] = has[d] /\ pageSeq'[d] = pageSeq[d]
  <2>1. /\ \A d \in Conn : d # c => Same(d)
        /\ nonce'[c] = 0 /\ live'[c] = <<>> /\ buffer'[c] = <<>>
    BY <1>2, BlankIs
  <2>2. \A d \in Conn : Range(live'[d]) \cup Range(buffer'[d])
                              \subseteq Range(live[d]) \cup Range(buffer[d]) \cup Range(batch)
    BY <2>1, RangeEmpty DEF Same
  <2> QED
    BY <2>1, <2>2 DEF Same, Showing
<1>3. ASSUME NEW c \in Conn, Deliver(c)
      PROVE  /\ \A d \in Conn : Range(live'[d]) \cup Range(buffer'[d])
                              \subseteq Range(live[d]) \cup Range(buffer[d]) \cup Range(batch)
             /\ \A d \in Showing' :
                  \/ d \in Showing /\ has'[d] = has[d] /\ pageSeq'[d] = pageSeq[d]
                  \/ \E g \in Sent : has'[d] = g.has /\ pageSeq'[d] = g.seq
  <2>1. PICK f \in Frame :
           /\ f = Head(batch) /\ Range(batch) = {f} \cup Range(batch')
           /\ \A d \in Conn : d # c => Same(d)
           /\ \/ f = Metadata /\ Restarted(c)
              \/ f \in EventFrame /\ (Buffered(c, f) \/ Shows(c, f))
              \/ f \in PageFrame /\ (Paged(c, f) \/ (~(f.nonce = <<c, nonce[c]>> /\ pending[c]) /\ Same(c)))
    BY <1>3, DeliverIs
  <2>2. f \in Frames /\ live[c] \in Seq(EventFrame) /\ buffer[c] \in Seq(EventFrame)
    BY <2>1 DEF Frames, TypeInv, BrowserType
  <2>3. \A d \in Conn : d # c =>
          /\ Range(live'[d]) \cup Range(buffer'[d])
               \subseteq Range(live[d]) \cup Range(buffer[d]) \cup Range(batch)
          /\ d \in Showing' => d \in Showing /\ has'[d] = has[d] /\ pageSeq'[d] = pageSeq[d]
    BY <2>1 DEF Same, Showing
  <2>4. CASE Restarted(c)
    BY <2>3, <2>4, RangeEmpty DEF Restarted, Showing
  <2>5. CASE f \in EventFrame /\ (Buffered(c, f) \/ Shows(c, f))
    <3>2. /\ Range(Append(live[c], f)) = Range(live[c]) \cup {f}
          /\ Range(Append(buffer[c], f)) = Range(buffer[c]) \cup {f}
      BY <2>2, <2>5, AppendIs
    <3>3. Range(live'[c]) \cup Range(buffer'[c])
              \subseteq Range(live[c]) \cup Range(buffer[c]) \cup Range(batch)
      BY <2>1, <2>5, <3>2 DEF Buffered, Shows
    <3>4. c \in Showing' => c \in Showing /\ has'[c] = has[c] /\ pageSeq'[c] = pageSeq[c]
      BY <2>5 DEF Buffered, Shows, Showing
    <3> QED
      BY <2>3, <3>3, <3>4 DEF Showing
  <2>6. CASE f \in PageFrame /\ Paged(c, f)
    <3>1. f \in Sent
      BY <2>2, <2>6, FramesAre
    <3>2. Range(live'[c]) \cup Range(buffer'[c])
              \subseteq Range(live[c]) \cup Range(buffer[c]) \cup Range(batch)
      BY <2>6, RangeEmpty DEF Paged
    <3>3. has'[c] = f.has /\ pageSeq'[c] = f.seq
      BY <2>6 DEF Paged
    <3> QED
      BY <2>3, <3>1, <3>2, <3>3 DEF Showing
  <2>7. CASE Same(c)
    BY <2>3, <2>7 DEF Same, Showing
  <2> QED
    BY <2>1, <2>4, <2>5, <2>6, <2>7
<1> QED
  BY <1>1, <1>2, <1>3

\* Effects and pages are numbered under ssMu, so that the numbers tell which event a page holds.
LEMMA OrderStep ==
  ASSUME TypeInv, QueueInv, LockInv, NumberInv, OnceInv, TypeInv', Flow
  PROVE  OrderInv'
<1>0. /\ applied \in Nat /\ clock \in Nat /\ applied' \in Nat /\ clock' \in Nat
      /\ OrderInv
  BY DEF TypeInv, SlotType, NumberInv
<1>1. CASE Rest \/ (\E a \in Actor : Put(a)) \/ Signal \/ Fetch \/ Drop
             \/ (\E c \in Conn : Deliver(c) \/ Blank(c))
  <2>1. Frames' \subseteq Frames \cup {Metadata} /\ applied' = applied /\ clock' = clock
    BY <1>1, FramesMove
  <2>2. /\ \A c \in Conn : Range(live'[c]) \cup Range(buffer'[c])
                         \subseteq Range(live[c]) \cup Range(buffer[c]) \cup Range(batch)
        /\ \A c \in Showing' :
              \/ c \in Showing /\ has'[c] = has[c] /\ pageSeq'[c] = pageSeq[c]
              \/ \E g \in Sent : has'[c] = g.has /\ pageSeq'[c] = g.seq
    <3>1. (\E c \in Conn : Deliver(c) \/ Blank(c))
             \/ UNCHANGED <<nonce, pending, pageSeq, has, live, buffer>>
      BY <1>1, RestIs
    <3> QED
      BY <3>1, BrowserMoves
  <2>3. Known' \subseteq Known
    <3>1. Range(batch) \subseteq Frames
      BY DEF Frames
    <3> QED
      BY <2>1, <2>2, <3>1, FramesAre, FramesAreNext, Kinds
  <2>4. Sent' \subseteq Sent
    BY <2>1, FramesAre, FramesAreNext, Kinds
  <2> QED
    BY <1>0, <2>1, <2>2, <2>3, <2>4, KeepsOrder
<1>2. ASSUME NEW e \in Emitter, Raise(e) PROVE OrderInv'
  <2>1. PICK f \in EventFrame :
           f.id = applied + 1 /\ f.seq = 0 /\ Frames' \subseteq Frames \cup {f}
    BY <1>2, FramesRaise
  <2>2. /\ applied' = applied + 1 /\ clock' = clock
        /\ UNCHANGED <<nonce, pending, pageSeq, has, live, buffer>>
    BY <1>2 DEF Raise, browser
  <2>3. Known' \subseteq Known \cup {f} /\ Sent' \subseteq Sent /\ Showing' = Showing
    BY <2>1, <2>2, FramesAre, FramesAreNext, Kinds DEF Showing
  <2>4. ASSUME NEW h \in Known', h # f
        PROVE  /\ h.id \in 1..applied' /\ h.seq <= clock'
               /\ \A g \in Sent' : After(h, g.has, g.seq)
               /\ \A c \in Showing' : After(h, has'[c], pageSeq'[c])
    <3>1. h \in Known /\ h.id \in Nat
      BY <2>3, <2>4, FramesAre, Kinds
    <3> QED
      BY <1>0, <2>2, <2>3, <3>1 DEF OrderInv
  <2>5. ASSUME NEW g \in Sent' PROVE g.has <= applied /\ g.has \in Nat /\ g.seq \in 1..clock'
    BY <1>0, <2>2, <2>3, FramesAre, Kinds DEF OrderInv
  <2>6. f.id \in 1..applied' /\ f.seq <= clock'
    BY <1>0, <2>1, <2>2
  <2>7. \A g \in Sent' : After(f, g.has, g.seq)
    BY <1>0, <2>1, <2>5 DEF After
  <2>8. ASSUME NEW c \in Showing' PROVE After(f, has'[c], pageSeq'[c])
    <3>1. has'[c] = has[c] /\ has[c] <= applied /\ has[c] \in Nat
      BY <2>2, <2>3 DEF NumberInv, PageInv, Showing, TypeInv, BrowserType
    <3> QED
      BY <1>0, <2>1, <3>1 DEF After
  <2>9. \A h \in Known' :
          /\ h.id \in 1..applied' /\ h.seq <= clock'
          /\ \A g \in Sent' : After(h, g.has, g.seq)
          /\ \A c \in Showing' : After(h, has'[c], pageSeq'[c])
    BY <2>4, <2>6, <2>7, <2>8
  <2>10. \A g \in Sent' : g.has <= applied' /\ g.seq \in 1..clock'
    BY <1>0, <2>2, <2>5
  <2> QED
    BY <2>9, <2>10 DEF OrderInv, After
<1>3. ASSUME NEW e \in Emitter, Number(e) PROVE OrderInv'
  <2>1. PICK f \in EventFrame :
           /\ f.id = frame[e].id /\ f.seq = clock + 1 /\ Frames' \subseteq Frames \cup {f}
           /\ frame[e] \in EventFrame /\ frame[e] \in Known /\ frame[e].seq = 0
    BY <1>3, FramesNumber
  <2>2. /\ applied' = applied /\ clock' = clock + 1
        /\ UNCHANGED <<nonce, pending, pageSeq, has, live, buffer>>
    BY <1>3 DEF Number, browser
  <2>3. Known' \subseteq Known \cup {f} /\ Sent' \subseteq Sent /\ Showing' = Showing
    BY <2>1, <2>2, FramesAre, FramesAreNext, Kinds DEF Showing
  <2>4. ASSUME NEW h \in Known', h # f
        PROVE  /\ h.id \in 1..applied' /\ h.seq <= clock'
               /\ \A g \in Sent' : After(h, g.has, g.seq)
               /\ \A c \in Showing' : After(h, has'[c], pageSeq'[c])
    <3>1. h \in Known /\ h.seq \in Nat
      BY <2>3, <2>4, FramesAre, Kinds
    <3>2. h.seq <= clock
      BY <3>1, <1>0 DEF OrderInv
    <3> QED
      BY <1>0, <2>2, <2>3, <3>1, <3>2 DEF OrderInv
  <2>5. ASSUME NEW g \in Sent' PROVE g.has <= applied /\ g.has \in Nat /\ g.seq \in 1..clock /\ g \in Sent
    BY <1>0, <2>2, <2>3, FramesAre, Kinds DEF OrderInv
  <2>6. f.id \in 1..applied' /\ f.seq <= clock' /\ frame[e].id \in Nat
    BY <1>0, <2>1, <2>2, Kinds DEF OrderInv
  <2>7. ASSUME NEW g \in Sent' PROVE After(f, g.has, g.seq)
    <3>1. After(frame[e], g.has, g.seq)
      BY <1>0, <2>1, <2>5 DEF OrderInv
    <3> QED
      BY <1>0, <2>1, <2>5, <3>1 DEF After
  <2>8. ASSUME NEW c \in Showing' PROVE After(f, has'[c], pageSeq'[c])
    <3>1. /\ has'[c] = has[c] /\ pageSeq'[c] = pageSeq[c] /\ c \in Showing
          /\ pageSeq[c] <= clock /\ pageSeq[c] \in Nat
      BY <2>2, <2>3 DEF NumberInv, PageInv, Showing, TypeInv, BrowserType
    <3>2. After(frame[e], has[c], pageSeq[c])
      BY <1>0, <2>1, <3>1 DEF OrderInv
    <3> QED
      BY <1>0, <2>1, <3>1, <3>2 DEF After
  <2>9. \A h \in Known' :
          /\ h.id \in 1..applied' /\ h.seq <= clock'
          /\ \A g \in Sent' : After(h, g.has, g.seq)
          /\ \A c \in Showing' : After(h, has'[c], pageSeq'[c])
    BY <2>4, <2>6, <2>7, <2>8
  <2>10. \A g \in Sent' : g.has <= applied' /\ g.seq \in 1..clock'
    BY <1>0, <2>2, <2>5
  <2> QED
    BY <2>9, <2>10 DEF OrderInv, After
<1>4. ASSUME NEW c \in Conn, Freeze(c) PROVE OrderInv'
  <2>1. PICK g \in PageFrame :
           g.has = applied /\ g.seq = clock + 1 /\ Frames' \subseteq Frames \cup {g}
    BY <1>4, FramesFreeze
  <2>2. /\ applied' = applied /\ clock' = clock + 1
        /\ UNCHANGED <<nonce, pending, pageSeq, has, live, buffer>>
    BY <1>4 DEF Freeze, browser
  <2>3. Known' \subseteq Known /\ Sent' \subseteq Sent \cup {g} /\ Showing' = Showing
    BY <2>1, <2>2, FramesAre, FramesAreNext, Kinds DEF Showing
  <2>4. ASSUME NEW h \in Known'
        PROVE  /\ h.id \in 1..applied' /\ h.seq <= clock'
               /\ \A p \in Sent' : After(h, p.has, p.seq)
               /\ \A d \in Showing' : After(h, has'[d], pageSeq'[d])
    <3>1. h \in Known /\ h.seq \in Nat /\ h.id \in Nat /\ h.seq # 0
      BY <1>4, <2>3, FramesAre, Kinds, AllNumbered DEF Freeze
    <3>2. h.seq <= clock /\ h.id \in 1..applied
      BY <3>1, <1>0 DEF OrderInv
    <3>3. After(h, g.has, g.seq)
      BY <1>0, <2>1, <3>1, <3>2 DEF After
    <3>4. \A p \in Sent' : After(h, p.has, p.seq)
      BY <1>0, <2>3, <3>1, <3>3 DEF OrderInv
    <3> QED
      BY <1>0, <2>2, <2>3, <3>1, <3>2, <3>4 DEF OrderInv
  <2>5. ASSUME NEW p \in Sent' PROVE p.has <= applied' /\ p.seq \in 1..clock'
    <3>1. CASE p = g
      BY <1>0, <2>1, <2>2, <3>1
    <3>2. CASE p # g
      <4>1. p \in Sent /\ p.seq \in Nat
        BY <2>3, <3>2, FramesAre, Kinds
      <4>2. p.has <= applied /\ p.seq \in 1..clock
        BY <1>0, <4>1 DEF OrderInv
      <4> QED
        BY <1>0, <2>2, <4>1, <4>2
    <3> QED
      BY <3>1, <3>2
  <2> QED
    BY <2>4, <2>5 DEF OrderInv, After
<1> QED
  BY <1>1, <1>2, <1>3, <1>4 DEF Flow

\* An event leaves the section of ssMu with its number.
LEMMA NumberedStep ==
  ASSUME TypeInv, QueueInv, NumberInv, OnceInv, TypeInv', Flow, [Next]_vars
  PROVE  NumberedInv'
<1>0. /\ frame \in [Actor -> Frame] /\ pc \in [Actor -> Place \cup EmitterPlace] /\ clock \in Nat
      /\ Waiting \in Seq(Frame) /\ batch \in Seq(Frame)
      /\ \A a \in Actor : frame[a] \in Frame
  BY FramesAre DEF TypeInv, PcType, SlotType
<1>1. ASSUME NEW e \in Emitter
      PROVE  (pc'[e] = "capture" => frame'[e].seq = 0) /\ (pc'[e] = "push" => frame'[e].seq # 0)
  <2>0. e \in Actor /\ (pc[e] = "capture" => frame[e].seq = 0) /\ (pc[e] = "push" => frame[e].seq # 0)
    BY DEF Actor, NumberInv, NumberedInv
  <2>1. CASE UNCHANGED <<pc, ssMu, target, frame>>
    BY <2>0, <2>1
  <2>2. ASSUME NEW d \in Emitter, Apply(d) \/ Capture(d) \/ Push(d)
        PROVE  (pc'[e] = "capture" => frame'[e].seq = 0) /\ (pc'[e] = "push" => frame'[e].seq # 0)
    <3>0. d \in Actor
      BY DEF Actor
    <3>1. CASE Apply(d)
      <4>1. applied \in Nat
        BY DEF TypeInv, SlotType
      <4>2. CASE UNCHANGED <<ssMu, frame, pc>>
        BY <2>0, <4>2
      <4>3. CASE /\ pc' = [pc EXCEPT ![d] = "capture"]
                 /\ frame' = [frame EXCEPT ![d] = [kind |-> "event", id |-> applied + 1, by |-> d, seq |-> 0]]
        BY <1>0, <2>0, <3>0, <4>1, <4>3
      <4> QED
        BY <3>1, <4>2, <4>3 DEF Apply, Goto
    <3>2. CASE Capture(d)
      <4>1. /\ pc' = [pc EXCEPT ![d] = "push"]
            /\ frame' = [frame EXCEPT ![d] = [frame[d] EXCEPT !.seq = clock + 1]]
            /\ frame[d] \in EventFrame
        BY <1>0, <3>0, <3>2 DEF Capture, Goto, QueueInv, HandInv
      <4>2. frame'[d] = [frame[d] EXCEPT !.seq = clock + 1] /\ (d # e => frame'[e] = frame[e])
        BY <1>0, <2>0, <3>0, <4>1
      <4>3. frame'[d].seq = clock + 1
        BY <4>1, <4>2 DEF EventFrame
      <4> QED
        BY <1>0, <2>0, <3>0, <4>1, <4>2, <4>3
    <3>3. CASE Push(d)
      BY <1>0, <2>0, <3>0, <3>3 DEF Push, Done, Goto
    <3> QED
      BY <2>2, <3>1, <3>2, <3>3
  <2>3. ASSUME NEW c \in Conn, Serve(c)
        PROVE  pc'[e] = pc[e] /\ frame'[e] = frame[e]
    <3>0. c \in Actor /\ c # e
      BY NameAssumption DEF Actor
    <3> QED
      BY <1>0, <2>0, <2>3, <3>0
      DEF Serve, Dial, SwapQueue, SwapConn, SwitchEngine, Greet, LoadEra, LoadQueue, Flip, PushMetadata,
        FreezePage, LoadPageQueue, PushPage, EngineSwitch, Disconnect, Leave, Deactivate, Forget,
        Handshake, Activate, Return, Done, Goto, actor
  <2>4. CASE wsWriter
    BY <2>0, <2>4 DEF wsWriter, Take, LoadConn, CheckEra, Write, WriteFails, WriteLost, actor
  <2>5. CASE UNCHANGED vars
    BY <2>0, <2>5 DEF vars, actor
  <2> QED
    BY <2>0, <2>2, <2>3, <2>4, <2>5 DEF Next, Emit
<1>2. ASSUME NEW f \in Range(Waiting') \cup Range(batch'), f.kind = "event" PROVE f.seq # 0
  <2>0. \A h \in Range(Waiting) \cup Range(batch) : h.kind = "event" => h.seq # 0
    BY DEF NumberInv, NumberedInv
  <2>1. CASE Rest \/ (\E e \in Emitter : Raise(e) \/ Number(e)) \/ (\E c \in Conn : Freeze(c) \/ Blank(c))
    BY <1>2, <2>0, <2>1 DEF Rest, Raise, Number, Freeze, Blank
  <2>2. ASSUME NEW a \in Actor, Put(a) PROVE f.seq # 0
    <3>1. Range(Append(Waiting, frame[a])) = Range(Waiting) \cup {frame[a]}
      BY <1>0, AppendIs
    <3>2. frame[a].kind = "event" => frame[a].seq # 0
      <4>1. CASE pc[a] = "push"
        BY <4>1 DEF TypeInv, PcType, Place, Dialling, Actor, NumberInv, NumberedInv
      <4>2. CASE pc[a] = "page"
        BY <4>2, Kinds DEF QueueInv, HandInv
      <4> QED
        BY <2>2, <4>1, <4>2 DEF Put
    <3> QED
      BY <1>2, <2>0, <2>2, <3>1, <3>2 DEF Put
  <2>3. CASE Signal
    <3>1. Range(Append(Waiting, Metadata)) = Range(Waiting) \cup {Metadata}
      BY <1>0, AppendIs, Kinds
    <3>2. Range(<<Metadata>>) = {Metadata} /\ Range(<<>>) = {}
      BY RangeEmpty, RangeOne, Kinds
    <3> QED
      BY <1>2, <2>0, <2>3, <3>1, <3>2, Kinds DEF Signal
  <2>4. CASE Fetch
    BY <1>2, <2>0, <2>4, RangeEmpty DEF Fetch
  <2>5. CASE Drop \/ \E c \in Conn : Deliver(c)
    <3>1. batch' \in {<<>>, Tail(batch)} /\ batch # <<>> /\ Waiting' = Waiting
      BY <2>5 DEF Drop, Deliver
    <3>2. Range(Tail(batch)) \subseteq Range(batch) /\ Range(<<>>) = {}
      BY <1>0, <3>1, TailIs, RangeEmpty
    <3> QED
      BY <1>2, <2>0, <3>1, <3>2
  <2> QED
    BY <2>1, <2>2, <2>3, <2>4, <2>5 DEF Flow
<1>3. ASSUME NEW c \in Conn, NEW f \in Range(live'[c]) \cup Range(buffer'[c]) PROVE f.seq # 0
  <2>1. f \in Range(live[c]) \cup Range(buffer[c]) \cup Range(batch)
    <3>1. (\E d \in Conn : Deliver(d) \/ Blank(d))
             \/ UNCHANGED <<nonce, pending, pageSeq, has, live, buffer>>
      BY RestIs DEF Flow
    <3> QED
      BY <3>1, BrowserMoves
  <2>2. f \in EventFrame
    <3>1. live'[c] \in Seq(EventFrame) /\ buffer'[c] \in Seq(EventFrame)
      BY DEF TypeInv, BrowserType
    <3> QED
      BY <3>1, Ranges
  <2> QED
    BY <2>1, <2>2, Kinds DEF NumberInv, NumberedInv
<1> QED
  BY <1>1, <1>2, <1>3 DEF NumberedInv

\* A page shown was frozen earlier, and the events shown on top of it are later.
LEMMA PageStep ==
  ASSUME TypeInv, NumberInv, OnceInv, TypeInv', Flow
  PROVE  PageInv'
<1> SUFFICES ASSUME NEW c \in Conn
             PROVE  /\ has'[c] <= applied' /\ pageSeq'[c] <= clock'
                    /\ nonce'[c] # 0 /\ ~pending'[c] => \A f \in Range(live'[c]) : f.seq > pageSeq'[c]
  BY DEF PageInv
<1>0. /\ applied \in Nat /\ clock \in Nat /\ has[c] \in Nat /\ pageSeq[c] \in Nat
      /\ applied' \in {applied, applied + 1} /\ clock' \in {clock, clock + 1}
      /\ live[c] \in Seq(EventFrame) /\ buffer[c] \in Seq(EventFrame)
  <2>1. applied' \in {applied, applied + 1} /\ clock' \in {clock, clock + 1}
    <3>1. CASE Rest \/ (\E a \in Actor : Put(a)) \/ Signal \/ Fetch \/ Drop
                 \/ (\E d \in Conn : Deliver(d) \/ Blank(d))
      BY <3>1, FramesMove
    <3>2. CASE (\E e \in Emitter : Raise(e) \/ Number(e)) \/ \E d \in Conn : Freeze(d)
      BY <3>2 DEF Raise, Number, Freeze
    <3> QED
      BY <3>1, <3>2 DEF Flow
  <2> QED
    BY <2>1 DEF TypeInv, SlotType, BrowserType
<1>1. /\ has[c] <= applied /\ pageSeq[c] <= clock
      /\ nonce[c] # 0 /\ ~pending[c] => \A f \in Range(live[c]) : f.seq > pageSeq[c]
  BY DEF NumberInv, PageInv
<1>2. ASSUME has'[c] = has[c], pageSeq'[c] = pageSeq[c], live'[c] = live[c], nonce'[c] = nonce[c],
             pending'[c] = pending[c]
      PROVE  /\ has'[c] <= applied' /\ pageSeq'[c] <= clock'
             /\ nonce'[c] # 0 /\ ~pending'[c] => \A f \in Range(live'[c]) : f.seq > pageSeq'[c]
  BY <1>0, <1>1, <1>2
<1>3. ASSUME NEW d \in Conn, Blank(d)
      PROVE  /\ has'[c] <= applied' /\ pageSeq'[c] <= clock'
             /\ nonce'[c] # 0 /\ ~pending'[c] => \A f \in Range(live'[c]) : f.seq > pageSeq'[c]
  <2>1. CASE c = d
    <3>1. nonce'[c] = 0 /\ has'[c] = 0 /\ pageSeq'[c] = 0
      BY <1>3, <2>1, BlankIs
    <3> QED
      BY <1>0, <3>1
  <2>2. CASE c # d
    BY <1>2, <1>3, <2>2, BlankIs DEF Same
  <2> QED
    BY <2>1, <2>2
<1>4. ASSUME NEW d \in Conn, Deliver(d)
      PROVE  /\ has'[c] <= applied' /\ pageSeq'[c] <= clock'
             /\ nonce'[c] # 0 /\ ~pending'[c] => \A f \in Range(live'[c]) : f.seq > pageSeq'[c]
  <2>1. PICK f \in Frame :
           /\ f = Head(batch) /\ Range(batch) = {f} \cup Range(batch')
           /\ \A b \in Conn : b # d => Same(b)
           /\ \/ f = Metadata /\ Restarted(d)
              \/ f \in EventFrame /\ (Buffered(d, f) \/ Shows(d, f))
              \/ f \in PageFrame /\ (Paged(d, f) \/ (~(f.nonce = <<d, nonce[d]>> /\ pending[d]) /\ Same(d)))
    BY <1>4, DeliverIs
  <2>2. CASE Same(c)
    BY <1>2, <2>2 DEF Same
  <2>3. CASE c = d /\ Restarted(c)
    BY <1>0, <1>1, <2>3 DEF Restarted
  <2>4. CASE c = d /\ f \in EventFrame /\ Buffered(c, f)
    BY <1>0, <1>1, <2>4 DEF Buffered
  <2>5. CASE c = d /\ f \in EventFrame /\ Shows(c, f)
    <3>1. Range(Append(live[c], f)) = Range(live[c]) \cup {f}
      BY <1>0, <2>5, AppendIs
    <3>2. has'[c] = has[c] /\ pageSeq'[c] = pageSeq[c] /\ nonce'[c] = nonce[c] /\ ~pending[c]
      BY <2>5 DEF Shows
    <3>3. nonce[c] # 0 => \A h \in Range(live'[c]) : h.seq > pageSeq[c]
      BY <1>1, <2>5, <3>1, <3>2 DEF Shows
    <3> QED
      BY <1>0, <1>1, <3>2, <3>3
  <2>6. CASE c = d /\ f \in PageFrame /\ Paged(c, f)
    <3>1. f \in Sent /\ f.has \in Nat /\ f.seq \in Nat
      BY <2>1, <2>6, FramesAre, Kinds DEF Frames
    <3>2. f.has <= applied /\ f.seq \in 1..clock
      BY <3>1 DEF NumberInv, OrderInv
    <3> QED
      BY <1>0, <2>6, <3>1, <3>2 DEF Paged
  <2> QED
    BY <2>1, <2>2, <2>3, <2>4, <2>5, <2>6
<1>5. CASE UNCHANGED <<nonce, pending, pageSeq, has, live, buffer>>
  BY <1>2, <1>5
<1> QED
  BY <1>3, <1>4, <1>5, RestIs DEF Flow

\* The numbers keep their relation.
LEMMA NumberStep == StreamInv /\ TypeInv' /\ [Next]_vars => NumberInv'
  BY OrderStep, NumberedStep, PageStep, FlowStep DEF StreamInv, NumberInv

-----------------------------------------------------------------------------
(* The numbers of requests.                                                *)

\* A connection opens once.
LEMMA UpMoves ==
  ASSUME TypeInv, [Next]_vars, NEW c \in Conn, up'[c], ~up[c]
  PROVE  pc[c] = "new"
<1>1. up \in [Conn -> BOOLEAN]
  BY DEF TypeInv, ConnType
<1>2. ASSUME NEW d \in Conn, Serve(d) PROVE pc[c] = "new"
  BY <1>1, <1>2
  DEF Serve, Dial, SwapQueue, SwapConn, SwitchEngine, Greet, LoadEra, LoadQueue, Flip, PushMetadata,
    FreezePage, LoadPageQueue, PushPage, EngineSwitch, Disconnect, Leave, Deactivate, Forget,
    Handshake, Activate, HangUp
<1>3. ~(\E e \in Emitter : Emit(e))
  BY DEF Emit, Apply, Capture, Push
<1>4. ~wsWriter
  BY DEF wsWriter, Take, LoadConn, CheckEra, Write, WriteFails, WriteLost
<1> QED
  BY <1>2, <1>3, <1>4 DEF Next, vars

\* The browser asks with a new number each time.
LEMMA NonceStep ==
  ASSUME StreamInv, TypeInv', [Next]_vars
  PROVE  NonceInv'
<1> SUFFICES ASSUME NEW c \in Conn, up'[c] \/ pc'[c] = "new"
             PROVE  /\ \A n \in Range(asks'[c]) : n <= nonce'[c]
                    /\ \A g \in Sent' : g.nonce[1] = c => g.nonce[2] <= nonce'[c]
  BY DEF NonceInv
<1>0. TypeInv /\ QueueInv /\ NumberInv /\ OnceInv /\ Flow
  BY FlowStep DEF StreamInv
<1>1. (pc'[c] = "new" => pc[c] = "new") /\ (up[c] \/ pc[c] = "new")
  BY <1>0, Handshakes, UpMoves
<1>2. /\ \A n \in Range(asks[c]) : n <= nonce[c]
      /\ \A g \in Sent : g.nonce[1] = c => g.nonce[2] <= nonce[c]
  BY <1>1 DEF StreamInv, NonceInv
<1>3. /\ asks \in [Conn -> Seq(Nat)] /\ nonce[c] \in Nat /\ asks[c] \in Seq(Nat)
  BY <1>0 DEF TypeInv, BrowserType
<1>4. ASSUME Sent' \subseteq Sent, asks'[c] \in {asks[c], <<>>}, nonce'[c] = nonce[c]
      PROVE  /\ \A n \in Range(asks'[c]) : n <= nonce'[c]
             /\ \A g \in Sent' : g.nonce[1] = c => g.nonce[2] <= nonce'[c]
  BY <1>2, <1>4, RangeEmpty
<1>5. ASSUME Rest \/ (\E a \in Actor : Put(a)) \/ Signal \/ Fetch \/ Drop
               \/ (\E d \in Conn : Deliver(d) \/ Blank(d))
      PROVE  Sent' \subseteq Sent
  <2>1. Frames' \subseteq Frames \cup {Metadata}
    BY <1>0, <1>5, FramesMove
  <2> QED
    BY <1>0, <2>1, FramesAre, FramesAreNext, Kinds
<1>6. CASE Rest /\ (asks' = asks \/ \E d \in Conn : asks' = [asks EXCEPT ![d] = <<>>])
  <2>1. asks'[c] \in {asks[c], <<>>}
    BY <1>3, <1>6
  <2> QED
    BY <1>4, <1>5, <1>6, <2>1 DEF Rest, browser
<1>7. CASE (\E e \in Emitter : Raise(e) \/ Number(e))
  <2>1. PICK f \in EventFrame : Frames' \subseteq Frames \cup {f}
    BY <1>0, <1>7, FramesRaise, FramesNumber
  <2>2. Sent' \subseteq Sent
    BY <1>0, <2>1, FramesAre, FramesAreNext, Kinds
  <2> QED
    BY <1>4, <1>7, <2>2 DEF Raise, Number, browser
<1>8. CASE (\E a \in Actor : Put(a)) \/ Signal \/ Fetch \/ Drop
  BY <1>4, <1>5, <1>8 DEF Put, Signal, Fetch, Drop, browser
<1>9. ASSUME NEW d \in Conn, Freeze(d)
      PROVE  /\ \A n \in Range(asks'[c]) : n <= nonce'[c]
             /\ \A g \in Sent' : g.nonce[1] = c => g.nonce[2] <= nonce'[c]
  <2>1. PICK g \in PageFrame :
           /\ g.nonce = <<d, Head(asks[d])>> /\ Head(asks[d]) \in Range(asks[d])
           /\ Frames' \subseteq Frames \cup {g}
    BY <1>0, <1>9, FramesFreeze
  <2>2. Sent' \subseteq Sent \cup {g}
    BY <1>0, <2>1, FramesAre, FramesAreNext, Kinds
  <2>3. nonce'[c] = nonce[c] /\ asks' = [asks EXCEPT ![d] = Tail(@)] /\ asks[d] # <<>>
    BY <1>9 DEF Freeze, browser
  <2>4. Range(asks'[c]) \subseteq Range(asks[c])
    <3>1. CASE c = d
      BY <1>3, <2>3, <3>1, TailIs
    <3>2. CASE c # d
      BY <1>3, <2>3, <3>2
    <3> QED
      BY <3>1, <3>2
  <2>5. g.nonce[1] = d /\ g.nonce[2] = Head(asks[d])
    BY <2>1
  <2> QED
    BY <1>2, <2>1, <2>2, <2>3, <2>4, <2>5
<1>10. ASSUME NEW d \in Conn, Blank(d)
       PROVE  /\ \A n \in Range(asks'[c]) : n <= nonce'[c]
              /\ \A g \in Sent' : g.nonce[1] = c => g.nonce[2] <= nonce'[c]
  <2>1. c # d
    BY <1>0, <1>1, <1>10, BlankIs DEF Blank
  <2> QED
    BY <1>0, <1>4, <1>5, <1>10, <2>1, BlankIs DEF Same
<1>11. ASSUME NEW d \in Conn, Deliver(d)
       PROVE  /\ \A n \in Range(asks'[c]) : n <= nonce'[c]
              /\ \A g \in Sent' : g.nonce[1] = c => g.nonce[2] <= nonce'[c]
  <2>1. PICK f \in Frame :
           /\ \A b \in Conn : b # d => Same(b)
           /\ \/ f = Metadata /\ Restarted(d)
              \/ f \in EventFrame /\ (Buffered(d, f) \/ Shows(d, f))
              \/ f \in PageFrame /\ (Paged(d, f) \/ (~(f.nonce = <<d, nonce[d]>> /\ pending[d]) /\ Same(d)))
    BY <1>0, <1>11, DeliverIs
  <2>2. Sent' \subseteq Sent
    BY <1>5, <1>11
  <2>3. CASE c = d /\ Restarted(c)
    <3>1. Range(Append(asks[c], nonce[c] + 1)) = Range(asks[c]) \cup {nonce[c] + 1}
      BY <1>3, AppendIs
    <3>2. \A n \in Range(asks[c]) : n \in Nat
      BY <1>3, Ranges
    <3>3. \A g \in Sent : g.nonce[2] \in Nat
      BY <1>0, FramesAre, Kinds
    <3>4. nonce'[c] = nonce[c] + 1
      BY <2>3 DEF Restarted
    <3>5. \A n \in Range(asks'[c]) : n <= nonce[c] + 1
      <4>1. Range(asks'[c]) = Range(asks[c]) \cup {nonce[c] + 1}
        BY <2>3, <3>1 DEF Restarted
      <4>2. nonce[c] \in Nat /\ \A n \in Range(asks[c]) : n <= nonce[c]
        BY <1>2, <1>3
      <4> QED
        BY <3>2, <4>1, <4>2
    <3>6. \A g \in Sent' : g.nonce[1] = c => g.nonce[2] <= nonce[c] + 1
      BY <1>2, <1>3, <2>2, <3>3
    <3> QED
      BY <3>4, <3>5, <3>6
  <2>4. CASE ~(c = d /\ Restarted(c))
    <3>1. asks'[c] = asks[c] /\ nonce'[c] = nonce[c]
      BY <2>1, <2>4 DEF Same, Buffered, Shows, Paged
    <3> QED
      BY <1>4, <2>2, <3>1
  <2> QED
    BY <2>3, <2>4
<1> QED
  BY <1>0, <1>6, <1>7, <1>8, <1>9, <1>10, <1>11 DEF Flow

-----------------------------------------------------------------------------
(* Every event is in one place.                                            *)

\* The ids of events as a sequence grows or shrinks.
LEMMA EventIdsMove ==
  /\ EventIds(<<>>) = {} /\ Distinct(<<>>)
  /\ EventIds(<<Metadata>>) = {} /\ Distinct(<<Metadata>>)
  /\ \A s \in Seq(Frame) : \A f \in Frame :
       /\ f.kind = "event" => EventIds(Append(s, f)) = EventIds(s) \cup {f.id}
       /\ f.kind # "event" => EventIds(Append(s, f)) = EventIds(s)
  /\ \A s \in Seq(Frame) : s # <<>> =>
       /\ EventIds(Tail(s)) \subseteq EventIds(s)
       /\ Head(s).kind = "event" => Head(s).id \in EventIds(s)
<1>1. <<>> \in Seq(Frame) /\ <<Metadata>> \in Seq(Frame) /\ Metadata.kind # "event"
      /\ Range(<<>>) = {} /\ Range(<<Metadata>>) = {Metadata}
      /\ Len(<<>>) = 0 /\ Len(<<Metadata>>) = 1
  BY Kinds, RangeEmpty, RangeOne
<1>2. EventIds(<<>>) = {} /\ EventIds(<<Metadata>>) = {}
  BY <1>1, EventIdsIs
<1>3. Distinct(<<>>) /\ Distinct(<<Metadata>>)
  BY <1>1 DEF Distinct
<1>4. ASSUME NEW s \in Seq(Frame), NEW f \in Frame
      PROVE  /\ f.kind = "event" => EventIds(Append(s, f)) = EventIds(s) \cup {f.id}
             /\ f.kind # "event" => EventIds(Append(s, f)) = EventIds(s)
  <2>1. Append(s, f) \in Seq(Frame) /\ Range(Append(s, f)) = Range(s) \cup {f}
    BY AppendIs
  <2>2. /\ EventIds(Append(s, f)) = {g.id : g \in {h \in Range(s) \cup {f} : h.kind = "event"}}
        /\ EventIds(s) = {g.id : g \in {h \in Range(s) : h.kind = "event"}}
    BY <2>1, EventIdsIs
  <2> QED
    BY <2>2
<1>5. ASSUME NEW s \in Seq(Frame), s # <<>>
      PROVE  /\ EventIds(Tail(s)) \subseteq EventIds(s)
             /\ Head(s).kind = "event" => Head(s).id \in EventIds(s)
  <2>1. Tail(s) \in Seq(Frame) /\ Range(s) = {Head(s)} \cup Range(Tail(s))
    BY <1>5, TailIs
  <2>2. /\ EventIds(Tail(s)) = {g.id : g \in {h \in Range(Tail(s)) : h.kind = "event"}}
        /\ EventIds(s) = {g.id : g \in {h \in Range(s) : h.kind = "event"}}
    BY <2>1, EventIdsIs
  <2> QED
    BY <2>1, <2>2
<1> QED
  BY <1>2, <1>3, <1>4, <1>5

UniqueHands ==
  \A a, b \in Actor :
    frame[a].kind = "event" /\ frame[b].kind = "event" /\ frame[a].id = frame[b].id => a = b

\* One hand takes a frame for another: the same event, or one that is in no hand.
LEMMA HandMoves ==
  ASSUME TypeInv, UniqueHands, NEW a \in Actor, NEW f \in Frame, frame' = [frame EXCEPT ![a] = f],
         f.kind = "event" =>
           (frame[a].kind = "event" /\ f.id = frame[a].id) \/ f.id \notin InHand
  PROVE  /\ UniqueHands'
         /\ f.kind = "event" => InHand' \subseteq InHand \cup {f.id}
         /\ f.kind # "event" =>
              /\ InHand' \subseteq InHand
              /\ frame[a].kind = "event" => frame[a].id \notin InHand'
<1>1. /\ frame'[a] = f /\ \A b \in Actor : b # a => frame'[b] = frame[b]
  BY FramesAre
<1>2. \A b \in Actor : frame[b].kind = "event" => frame[b].id \in InHand
  BY DEF InHand
<1>3. \A i \in InHand' : \E b \in Actor : frame'[b].kind = "event" /\ i = frame'[b].id
  BY DEF InHand
<1>4. ASSUME NEW b \in Actor, NEW d \in Actor, frame'[b].kind = "event", frame'[d].kind = "event",
             frame'[b].id = frame'[d].id
      PROVE  b = d
  BY <1>1, <1>2, <1>4 DEF UniqueHands
<1>5. UniqueHands'
  BY <1>4 DEF UniqueHands
<1>6. f.kind = "event" => InHand' \subseteq InHand \cup {f.id}
  BY <1>1, <1>2, <1>3
<1>7. f.kind # "event" => InHand' \subseteq InHand
  BY <1>1, <1>2, <1>3
<1>8. ASSUME f.kind # "event", frame[a].kind = "event", frame[a].id \in InHand'
      PROVE  FALSE
  BY <1>1, <1>3, <1>8 DEF UniqueHands
<1> QED
  BY <1>5, <1>6, <1>7, <1>8

\* No event has the number of an effect still to come.
LEMMA IdsBelow ==
  ASSUME TypeInv, NumberInv
  PROVE  /\ \A i \in Underway : i \in 1..applied
         /\ \A c \in Conn : \A i \in EventIds(live[c]) \cup EventIds(buffer[c]) : i \in 1..applied
<1>1. \A f \in Known : f.id \in 1..applied
  BY DEF NumberInv, OrderInv
<1>2. \A f \in Frames : f.kind = "event" => f \in Known
  BY FramesAre, Kinds
<1>3. \A c \in Conn : live[c] \in Seq(EventFrame) /\ buffer[c] \in Seq(EventFrame)
  BY DEF TypeInv, BrowserType
<1>4. ASSUME NEW s \in Seq(Frame), \A f \in Range(s) : f.kind = "event" => f \in Known
      PROVE  \A i \in EventIds(s) : i \in 1..applied
  BY <1>1, <1>4, EventIdsIs
<1>5. (\A i \in EventIds(Waiting) : i \in 1..applied) /\ \A i \in EventIds(batch) : i \in 1..applied
  BY <1>2, <1>4, FramesAre DEF Frames
<1>6. \A i \in InHand : i \in 1..applied
  BY <1>1, <1>2, FramesAre DEF InHand
<1>7. ASSUME NEW c \in Conn
      PROVE  \A i \in EventIds(live[c]) \cup EventIds(buffer[c]) : i \in 1..applied
  <2>1. live[c] \in Seq(Frame) /\ buffer[c] \in Seq(Frame)
    BY <1>3, IdsIs
  <2>2. \A f \in Range(live[c]) \cup Range(buffer[c]) : f \in Known
    BY FramesAre
  <2> QED
    BY <1>4, <2>1, <2>2
<1> QED
  BY <1>5, <1>6, <1>7 DEF Underway

PlaceMoves ==
  /\ PlaceInv'
  /\ Underway' \subseteq Underway \cup (IF applied' = applied THEN {} ELSE {applied + 1})

\* A frame that moves leaves its place.
LEMMA PlaceStep ==
  ASSUME TypeInv, QueueInv, NumberInv, OnceInv, Flow
  PROVE  PlaceMoves
<1>0. /\ Waiting \in Seq(Frame) /\ batch \in Seq(Frame) /\ frame \in [Actor -> Frame]
      /\ \A a \in Actor : frame[a] \in Frame
      /\ applied \in Nat
      /\ UniqueHands /\ Distinct(Waiting) /\ Distinct(batch)
      /\ InHand \cap EventIds(Waiting) = {} /\ InHand \cap EventIds(batch) = {}
      /\ EventIds(Waiting) \cap EventIds(batch) = {}
  BY FramesAre DEF TypeInv, SlotType, OnceInv, PlaceInv, UniqueHands
<1>1. ASSUME Distinct(Waiting)', Distinct(batch)', InHand' \subseteq InHand, UniqueHands',
             EventIds(Waiting') \subseteq EventIds(Waiting), EventIds(batch') \subseteq EventIds(batch)
      PROVE  PlaceMoves
  BY <1>0, <1>1 DEF PlaceMoves, PlaceInv, UniqueHands, Underway
<1>2. ASSUME UNCHANGED frame PROVE InHand' = InHand /\ UniqueHands'
  BY <1>0, <1>2 DEF InHand, UniqueHands
<1>3. CASE Rest \/ \E c \in Conn : Blank(c)
  <2>1. UNCHANGED <<frame, Waiting, batch>>
    BY <1>3 DEF Rest, Blank
  <2> QED
    BY <1>0, <1>1, <1>2, <2>1
<1>4. ASSUME NEW e \in Emitter, Raise(e) PROVE PlaceMoves
  <2>0. e \in Actor /\ applied' = applied + 1 /\ Waiting' = Waiting /\ batch' = batch
    BY <1>4 DEF Actor, Raise
  <2>1. CASE frame' = frame
    BY <1>0, <1>1, <1>2, <2>0, <2>1
  <2> DEFINE f == [kind |-> "event", id |-> applied + 1, by |-> e, seq |-> 0]
  <2>2. CASE frame' = [frame EXCEPT ![e] = f]
    <3>1. f \in EventFrame /\ f.id = applied + 1 /\ f.kind = "event" /\ f \in Frame
      BY <1>0, Kinds DEF EventFrame
    <3> HIDE DEF f
    <3>2. f.id \notin Underway
      BY <1>0, <3>1, IdsBelow
    <3>3. UniqueHands' /\ InHand' \subseteq InHand \cup {applied + 1}
      BY <1>0, <2>0, <2>2, <3>1, <3>2, HandMoves DEF Underway
    <3>4. PlaceInv'
      BY <1>0, <2>0, <3>1, <3>2, <3>3 DEF PlaceInv, UniqueHands, Underway
    <3>5. applied' # applied
      BY <1>0, <2>0
    <3> QED
      BY <2>0, <3>3, <3>4, <3>5 DEF PlaceMoves, Underway
  <2> QED
    BY <1>4, <2>1, <2>2 DEF Raise
<1>5. ASSUME NEW e \in Emitter, Number(e) PROVE PlaceMoves
  <2>1. e \in Actor /\ frame[e] \in EventFrame
    BY <1>5 DEF Actor, Number, QueueInv, HandInv
  <2> DEFINE f == [frame[e] EXCEPT !.seq = clock + 1]
  <2>2. f \in EventFrame /\ f.id = frame[e].id /\ f \in Frame /\ f.kind = "event"
        /\ frame[e].kind = "event"
    BY <2>1, Kinds DEF EventFrame, TypeInv, SlotType
  <2>3. frame' = [frame EXCEPT ![e] = f]
    BY <1>5 DEF Number
  <2> HIDE DEF f
  <2>4. UniqueHands' /\ InHand' \subseteq InHand \cup {f.id}
    BY <1>0, <2>1, <2>2, <2>3, HandMoves
  <2>5. frame[e].id \in InHand
    BY <2>1, <2>2 DEF InHand
  <2> QED
    BY <1>0, <1>1, <1>5, <2>2, <2>4, <2>5 DEF Number
<1>6. ASSUME NEW a \in Actor, Put(a) PROVE PlaceMoves
  <2>1. /\ UniqueHands' /\ InHand' \subseteq InHand
        /\ frame[a].kind = "event" => frame[a].id \notin InHand'
    BY <1>0, <1>6, HandMoves, Kinds DEF Put
  <2>2. frame[a].kind = "event" => frame[a].id \in InHand
    BY DEF InHand
  <2>3. CASE Waiting' = Waiting
    BY <1>0, <1>1, <1>6, <2>1, <2>3 DEF Put
  <2>4. CASE Waiting' = Append(Waiting, frame[a])
    <3>1. /\ frame[a].kind = "event" => EventIds(Waiting') = EventIds(Waiting) \cup {frame[a].id}
          /\ frame[a].kind # "event" => EventIds(Waiting') = EventIds(Waiting)
      BY <1>0, <2>4, EventIdsMove
    <3>2. Distinct(Waiting')
      BY <1>0, <2>2, <2>4, DistinctAppend
    <3>3. /\ batch' = batch /\ applied' = applied
          /\ Distinct(Waiting)' /\ EventIds(Waiting)' = EventIds(Waiting')
      BY <1>6, <3>2 DEF Put, Distinct, EventIds
    <3>4. PlaceInv'
      BY <1>0, <2>1, <2>2, <3>1, <3>3 DEF PlaceInv, UniqueHands
    <3> QED
      BY <2>1, <2>2, <3>1, <3>3, <3>4 DEF PlaceMoves, Underway
  <2> QED
    BY <1>6, <2>3, <2>4 DEF Put
<1>7. CASE Signal
  <2>1. Distinct(Append(Waiting, Metadata)) /\ EventIds(Append(Waiting, Metadata)) = EventIds(Waiting)
    BY <1>0, DistinctAppend, EventIdsMove, Kinds
  <2>2. Distinct(Waiting') /\ EventIds(Waiting') \subseteq EventIds(Waiting)
    <3>1. /\ EventIds(<<>>) = {} /\ Distinct(<<>>)
          /\ EventIds(<<Metadata>>) = {} /\ Distinct(<<Metadata>>)
      BY EventIdsMove
    <3>2. Waiting' \in {Waiting, <<>>, <<Metadata>>, Append(Waiting, Metadata)}
      BY <1>7 DEF Signal
    <3> QED
      BY <1>0, <2>1, <3>1, <3>2
  <2> QED
    BY <1>0, <1>1, <1>2, <1>7, <2>2 DEF Signal
<1>8. ASSUME NEW c \in Conn, Freeze(c) PROVE PlaceMoves
  <2>1. c \in Actor
    BY DEF Actor
  <2>2. PICK g \in PageFrame : frame' = [frame EXCEPT ![c] = g]
    BY <1>8, FramesFreeze
  <2>3. UniqueHands' /\ InHand' \subseteq InHand
    BY <1>0, <2>1, <2>2, HandMoves, Kinds
  <2> QED
    BY <1>0, <1>1, <1>8, <2>3 DEF Freeze
<1>9. CASE Fetch
  <2>1. Waiting' = <<>> /\ batch' = Waiting /\ applied' = applied /\ frame' = frame
    BY <1>9 DEF Fetch
  <2>2. EventIds(Waiting') = {} /\ Distinct(Waiting') /\ InHand' = InHand /\ UniqueHands'
    BY <1>2, <2>1, EventIdsMove
  <2>3. PlaceInv'
    BY <1>0, <2>1, <2>2 DEF PlaceInv, UniqueHands
  <2> QED
    BY <2>1, <2>2, <2>3 DEF PlaceMoves, Underway
<1>10. CASE Drop \/ \E c \in Conn : Deliver(c)
  <2>1. /\ batch' \in {<<>>, Tail(batch)} /\ batch # <<>> /\ Waiting' = Waiting
        /\ frame' = frame
    BY <1>10 DEF Drop, Deliver
  <2>2. EventIds(batch') \subseteq EventIds(batch) /\ Distinct(batch')
    <3>1. EventIds(Tail(batch)) \subseteq EventIds(batch) /\ Distinct(Tail(batch))
      BY <1>0, <2>1, EventIdsMove, DistinctTail
    <3>2. EventIds(<<>>) = {} /\ Distinct(<<>>)
      BY EventIdsMove
    <3> QED
      BY <2>1, <3>1, <3>2
  <2> QED
    BY <1>0, <1>1, <1>2, <2>1, <2>2
<1> QED
  BY <1>3, <1>4, <1>5, <1>6, <1>7, <1>8, <1>9, <1>10 DEF Flow

\* An event that a client has is nowhere else.
LEMMA SeenStep ==
  ASSUME TypeInv, QueueInv, NumberInv, OnceInv, Flow
  PROVE  SeenInv'
<1> SUFFICES ASSUME NEW c \in Conn
             PROVE  /\ Distinct(live'[c]) /\ Distinct(buffer'[c])
                    /\ Underway' \cap (EventIds(live'[c]) \cup EventIds(buffer'[c])) = {}
                    /\ IF pending'[c] THEN live'[c] = <<>> ELSE buffer'[c] = <<>>
  BY DEF SeenInv, Distinct, EventIds
<1>0. Underway' \subseteq Underway \cup (IF applied' = applied THEN {} ELSE {applied + 1})
  BY PlaceStep DEF PlaceMoves
<1>1. /\ Distinct(live[c]) /\ Distinct(buffer[c])
      /\ Underway \cap (EventIds(live[c]) \cup EventIds(buffer[c])) = {}
      /\ IF pending[c] THEN live[c] = <<>> ELSE buffer[c] = <<>>
  BY DEF OnceInv, SeenInv
<1>2. /\ live[c] \in Seq(EventFrame) /\ buffer[c] \in Seq(EventFrame)
      /\ live[c] \in Seq(Frame) /\ buffer[c] \in Seq(Frame) /\ applied \in Nat
  BY IdsIs DEF TypeInv, BrowserType, SlotType
<1>3. applied + 1 \notin EventIds(live[c]) \cup EventIds(buffer[c])
  <2>1. \A i \in EventIds(live[c]) \cup EventIds(buffer[c]) : i \in 1..applied
    BY IdsBelow
  <2>2. applied + 1 \notin 1..applied
    BY <1>2
  <2> QED
    BY <2>1, <2>2
<1>4. ASSUME live'[c] = live[c], buffer'[c] = buffer[c], pending'[c] = pending[c]
      PROVE  /\ Distinct(live'[c]) /\ Distinct(buffer'[c])
             /\ Underway' \cap (EventIds(live'[c]) \cup EventIds(buffer'[c])) = {}
             /\ IF pending'[c] THEN live'[c] = <<>> ELSE buffer'[c] = <<>>
  BY <1>0, <1>1, <1>3, <1>4
<1>5. ASSUME live'[c] = <<>>, buffer'[c] = <<>>
      PROVE  /\ Distinct(live'[c]) /\ Distinct(buffer'[c])
             /\ Underway' \cap (EventIds(live'[c]) \cup EventIds(buffer'[c])) = {}
             /\ IF pending'[c] THEN live'[c] = <<>> ELSE buffer'[c] = <<>>
  BY <1>5, EventIdsMove
<1>6. ASSUME NEW d \in Conn, Blank(d)
      PROVE  /\ Distinct(live'[c]) /\ Distinct(buffer'[c])
             /\ Underway' \cap (EventIds(live'[c]) \cup EventIds(buffer'[c])) = {}
             /\ IF pending'[c] THEN live'[c] = <<>> ELSE buffer'[c] = <<>>
  BY <1>4, <1>5, <1>6, BlankIs DEF Same
<1>7. ASSUME NEW d \in Conn, Deliver(d)
      PROVE  /\ Distinct(live'[c]) /\ Distinct(buffer'[c])
             /\ Underway' \cap (EventIds(live'[c]) \cup EventIds(buffer'[c])) = {}
             /\ IF pending'[c] THEN live'[c] = <<>> ELSE buffer'[c] = <<>>
  <2>1. PICK f \in Frame :
           /\ f = Head(batch)
           /\ \A b \in Conn : b # d => Same(b)
           /\ \/ f = Metadata /\ Restarted(d)
              \/ f \in EventFrame /\ (Buffered(d, f) \/ Shows(d, f))
              \/ f \in PageFrame /\ (Paged(d, f) \/ (~(f.nonce = <<d, nonce[d]>> /\ pending[d]) /\ Same(d)))
    BY <1>7, DeliverIs
  <2>2. CASE Same(c)
    BY <1>4, <2>2 DEF Same
  <2>3. CASE c = d /\ Restarted(c)
    BY <1>5, <2>3 DEF Restarted
  <2>4. ASSUME f \in EventFrame
        PROVE  /\ f.id \notin Underway' /\ f.id \notin EventIds(live[c]) \cup EventIds(buffer[c])
               /\ Underway' \subseteq Underway
    <3>1. /\ batch # <<>> /\ Waiting' = Waiting /\ frame' = frame /\ applied' = applied
          /\ batch' = Tail(batch) /\ batch \in Seq(Frame) /\ f.kind = "event"
      BY <1>7, <2>4, FramesAre, Kinds DEF Deliver
    <3>2. f.id \in EventIds(batch) /\ f.id \notin EventIds(batch')
      BY <2>1, <3>1, EventIdsMove, DistinctTail DEF OnceInv, PlaceInv
    <3>3. InHand' = InHand
      BY <3>1 DEF InHand
    <3> QED
      BY <1>0, <1>1, <3>1, <3>2, <3>3 DEF Underway, OnceInv, PlaceInv
  <2>5. CASE c = d /\ f \in EventFrame /\ Buffered(c, f)
    <3>1. Distinct(Append(buffer[c], f)) /\ EventIds(Append(buffer[c], f)) = EventIds(buffer[c]) \cup {f.id}
      BY <1>1, <1>2, <2>4, <2>5, DistinctAppend, EventIdsMove, Kinds
    <3> QED
      BY <1>1, <2>4, <2>5, <3>1 DEF Buffered
  <2>6. CASE c = d /\ f \in EventFrame /\ Shows(c, f)
    <3>1. Distinct(Append(live[c], f)) /\ EventIds(Append(live[c], f)) = EventIds(live[c]) \cup {f.id}
      BY <1>1, <1>2, <2>4, <2>6, DistinctAppend, EventIdsMove, Kinds
    <3>2. buffer'[c] = buffer[c] /\ ~pending'[c] /\ ~pending[c]
      BY <2>6 DEF Shows
    <3>3. Distinct(live'[c]) /\ EventIds(live'[c]) \subseteq EventIds(live[c]) \cup {f.id}
      BY <1>1, <2>6, <3>1 DEF Shows
    <3>4. Underway' \cap (EventIds(live'[c]) \cup EventIds(buffer'[c])) = {}
      BY <1>1, <2>4, <2>6, <3>2, <3>3
    <3> QED
      BY <1>1, <3>2, <3>3, <3>4
  <2>7. CASE c = d /\ Paged(c, f)
    <3>1. live'[c] \in Seq(Frame) /\ Range(live'[c]) \subseteq Range(buffer[c])
      BY <2>7, IdsIs DEF Paged
    <3>2. EventIds(live'[c]) \subseteq EventIds(buffer[c])
      BY <1>2, <3>1, EventIdsIs
    <3>3. applied' = applied
      BY <1>7 DEF Deliver
    <3> QED
      BY <1>0, <1>1, <2>7, <3>2, <3>3, EventIdsMove DEF Paged
  <2> QED
    BY <2>1, <2>2, <2>3, <2>5, <2>6, <2>7
<1>8. CASE UNCHANGED <<nonce, pending, pageSeq, has, live, buffer>>
  BY <1>4, <1>8
<1> QED
  BY <1>6, <1>7, <1>8, RestIs DEF Flow

\* An event stays in one place.
LEMMA OnceStep == StreamInv /\ [Next]_vars => OnceInv'
  BY FlowStep, PlaceStep, SeenStep DEF StreamInv, OnceInv, PlaceMoves

-----------------------------------------------------------------------------
(* Who is served, and until when.                                          *)

\* The steps after which a client is served that was before.
Remains(c) ==
  \/ UNCHANGED vars
  \/ \E e \in Emitter : Emit(e)
  \/ \E d \in Conn : LoadEra(d) \/ FreezePage(d) \/ LoadPageQueue(d) \/ PushPage(d)
  \/ \E d \in Conn \ {c} : Disconnect(d) \/ Leave(d) \/ Forget(d)
  \/ wsWriter

\* Another is served only once metadata waits for it.
LEMMA ServingStep ==
  ASSUME TypeInv, QueueInv, EraInv, [Next]_vars, NEW c \in Conn, Serving(c)'
  PROVE  Metadata \in Range(Waiting') \/ (Serving(c) /\ Remains(c))
<1>0. /\ pc \in [Actor -> Place \cup EmitterPlace] /\ up \in [Conn -> BOOLEAN]
      /\ \A d \in Conn : d \in Actor
      /\ \A e \in Emitter : e \in Actor /\ e \notin Conn
  BY NameAssumption DEF TypeInv, PcType, ConnType, Actor
<1>1. /\ active' /\ activeWS' = c /\ up'[c] /\ pc'[c] \in {"era", "read", "loadQ", "page"}
      /\ \A d \in Conn : pc'[d] \notin Dialling
  BY DEF Serving
<1>2. /\ "swapQ" \in Dialling /\ "swapWS" \in Dialling /\ "switch" \in Dialling /\ "greet" \in Dialling
      /\ "meta" \in Dialling /\ "flip" \in Dialling /\ "metadata" \in Dialling
      /\ {"new", "era", "read", "loadQ", "page", "deactivate", "forget", "gone"} \cap Dialling = {}
  BY DEF Dialling
<1>3. c # None /\ activeWS' # None
  BY <1>1, NameAssumption
<1>4. CASE UNCHANGED vars
  <2>1. Serving(c)
    BY <1>1, <1>4 DEF Serving, vars, slot
  <2> QED
    BY <1>4, <2>1 DEF Remains
<1>5. ASSUME NEW e \in Emitter, Emit(e) PROVE Serving(c) /\ Remains(c)
  <2>1. UNCHANGED <<active, activeWS, up>>
    BY <1>5 DEF Emit, Apply, Capture, Push, slot
  <2>2. \A d \in Conn : pc'[d] = pc[d]
    BY <1>0, <1>5 DEF Emit, Apply, Capture, Push, Goto
  <2> QED
    BY <1>1, <1>5, <2>1, <2>2 DEF Serving, Remains
<1>6. CASE wsWriter
  <2>1. UNCHANGED <<active, up, pc>>
    BY <1>6 DEF wsWriter, Take, LoadConn, CheckEra, Write, WriteFails, WriteLost, slot
  <2>2. activeWS' \in {activeWS, None}
    BY <1>6 DEF wsWriter, Take, LoadConn, CheckEra, Write, WriteFails, WriteLost, slot
  <2> QED
    BY <1>1, <1>3, <1>6, <2>1, <2>2 DEF Serving, Remains
<1>7. ASSUME NEW d \in Conn, Serve(d) PROVE Metadata \in Range(Waiting') \/ (Serving(c) /\ Remains(c))
  <2>1. ~Dial(d) /\ ~Deactivate(d)
    BY <1>1 DEF Dial, Deactivate
  <2>2. ~SwapQueue(d) /\ ~SwapConn(d) /\ ~LoadQueue(d)
    BY <1>0, <1>1, <1>2 DEF SwapQueue, SwapConn, LoadQueue, Goto
  <2>3. ~SwitchEngine(d) /\ ~EngineSwitch(d)
    <3>1. ~Handshake(d)
      BY <1>0, <1>1, <1>2, <1>3 DEF Handshake, Goto
    <3> QED
      BY <3>1 DEF SwitchEngine, EngineSwitch
  <2>3a. ~Greet(d)
    BY <1>0, <1>1, <1>2, <1>3 DEF Greet, Goto
  <2>4. CASE Flip(d)
    <3>1. queues' = Append(Closed(target[d]), Greeted) /\ outQ' = outQ + 1 /\ target[d] \in 1..outQ
      BY <1>0, <2>4 DEF Flip, Greeted, TypeInv, QueueType, HandType, QueueInv, HandInv
    <3>2. Waiting' = <<Metadata>>
      BY <3>1, ClosedIs, PristineIs DEF Waiting
    <3> QED
      BY <3>2, RangeOne, Kinds
  <2>5. CASE PushMetadata(d)
    <3>1. Waiting' = IF target[d] = outQ THEN Append(Waiting, Metadata) ELSE Waiting
      BY <1>0, <2>5, PutIs, Kinds DEF PushMetadata
    <3>2. CASE target[d] = outQ
      BY <3>1, <3>2, FramesAre, AppendIs, Kinds
    <3>3. CASE target[d] # outQ
      <4>1. activeWS = None \/ \E b \in Conn \ {d} : pc[b] \in {"swapWS", "switch", "greet", "meta"}
        BY <2>5, <3>3 DEF PushMetadata, EraInv, OvertakenInv
      <4>2. activeWS # None /\ \A b \in Conn \ {d} : pc'[b] = pc[b]
        BY <1>0, <1>3, <2>5 DEF PushMetadata, Activate, Return, Goto
      <4> QED
        BY <1>1, <1>2, <4>1, <4>2
    <3> QED
      BY <3>2, <3>3
  <2>6. CASE LoadEra(d) \/ FreezePage(d) \/ LoadPageQueue(d) \/ PushPage(d)
    <3>1. UNCHANGED <<active, activeWS, up>>
      BY <2>6 DEF LoadEra, FreezePage, LoadPageQueue, PushPage, slot
    <3>2. pc[d] \in {"era", "read", "loadQ", "page"} /\ \A b \in Conn \ {d} : pc'[b] = pc[b]
      BY <1>0, <2>6 DEF LoadEra, FreezePage, LoadPageQueue, PushPage, Goto
    <3> QED
      BY <1>1, <1>2, <2>6, <3>1, <3>2 DEF Serving, Remains
  <2>7. CASE Disconnect(d)
    <3>1. c # d /\ UNCHANGED <<active, activeWS, pc>> /\ up[c]
      BY <1>0, <1>1, <2>7 DEF Disconnect, HangUp, slot
    <3> QED
      BY <1>1, <2>7, <3>1 DEF Serving, Remains
  <2>8. CASE Leave(d) \/ Forget(d)
    <3>1. c # d
      BY <1>0, <1>1, <2>8 DEF Leave, Forget, Goto
    <3>2. /\ UNCHANGED <<active, up>> /\ activeWS = c
          /\ pc[d] \notin Dialling /\ \A b \in Conn \ {d} : pc'[b] = pc[b]
      BY <1>0, <1>1, <1>2, <1>3, <2>8 DEF Leave, Forget, Goto, slot
    <3> QED
      BY <1>1, <2>8, <3>1, <3>2 DEF Serving, Remains
  <2> QED
    BY <1>7, <2>1, <2>2, <2>3, <2>3a, <2>4, <2>5, <2>6, <2>7, <2>8 DEF Serve
<1> QED
  BY <1>4, <1>5, <1>6, <1>7 DEF Next

\* What such a step does to the queue and to the writer.
LEMMA RemainsIs ==
  ASSUME TypeInv, QueueInv, EraInv, NEW c \in Conn, Remains(c)
  PROVE  /\ UNCHANGED outQ
         /\ writerQ' \in {writerQ, 0, outQ}
         /\ Take \/ Range(Waiting) \subseteq Range(Waiting')
         /\ Take => writerQ' = outQ /\ batch' = Waiting
<1>0. /\ Waiting \in Seq(Frame)
      /\ \A a \in Actor : frame[a] \in Frame
      /\ \A d \in Conn : d \in Actor
      /\ \A e \in Emitter : e \in Actor
  BY FramesAre DEF Actor
<1>1. \A a \in Actor : Range(Append(Waiting, frame[a])) = Range(Waiting) \cup {frame[a]}
  BY <1>0, AppendIs
<1>2. ASSUME NEW a \in Actor, Push(a) \/ PushPage(a)
      PROVE  UNCHANGED <<outQ, writerQ>> /\ Range(Waiting) \subseteq Range(Waiting')
  <2>1. Waiting' = Waiting \/ Waiting' = Append(Waiting, frame[a])
    BY <1>0, <1>2, PutIs DEF Push, PushPage
  <2> QED
    BY <1>1, <1>2, <2>1 DEF Push, PushPage, writing
<1>3. CASE \/ UNCHANGED vars
           \/ \E e \in Emitter : Apply(e) \/ Capture(e)
           \/ \E d \in Conn : LoadEra(d) \/ FreezePage(d) \/ LoadPageQueue(d)
                                \/ Disconnect(d) \/ Leave(d) \/ Forget(d)
  BY <1>3 DEF vars, Apply, Capture, LoadEra, FreezePage, LoadPageQueue, Disconnect, Leave, Forget,
    outbound, writing, Waiting, Take
<1>4. CASE LoadConn \/ CheckEra \/ Write \/ WriteFails \/ WriteLost
  BY <1>4 DEF LoadConn, CheckEra, Write, WriteFails, WriteLost, Proceed, outbound, Waiting, Take
<1>5. CASE Take
  BY <1>5 DEF Take, Waiting
<1>6. Take => writerQ' = outQ /\ batch' = Waiting
  BY DEF Take, Waiting
<1> QED
  BY <1>0, <1>2, <1>3, <1>4, <1>5, <1>6 DEF Remains, Emit, wsWriter

\* After a takeover the new queue starts with metadata.
LEMMA StaleStep ==
  ASSUME StreamInv, [Next]_vars
  PROVE  StaleInv'
<1> SUFFICES ASSUME NEW c \in Conn, Serving(c)', writerQ' \notin {0, outQ'}
             PROVE  Metadata \in Range(Waiting')
  BY DEF StaleInv
<1>1. TypeInv /\ QueueInv /\ EraInv /\ StaleInv
  BY DEF StreamInv
<1>2. CASE Serving(c) /\ Remains(c)
  <2>1. outQ' = outQ /\ writerQ' = writerQ /\ ~Take
    BY <1>1, <1>2, RemainsIs
  <2> QED
    BY <1>1, <1>2, <2>1, RemainsIs DEF StaleInv
<1> QED
  BY <1>1, <1>2, ServingStep

\* While a client is settled the writer has nothing for another.
LEMMA SettledWriter ==
  ASSUME TypeInv, QueueInv, EraInv, StaleInv, NEW c \in Conn, Settling(c)
  PROVE  /\ writerQ \in {0, outQ} /\ (writerQ # outQ => batch = <<>>)
         /\ writer \in {"era", "write"} => writerWS = c /\ writerQ = outQ
<1>1. writerQ \in {0, outQ}
  BY DEF Settling, MetadataComing, StaleInv
<1>2. (writerQ # outQ => batch = <<>>) /\ (writer \in {"era", "write"} => writerQ = outQ)
  BY <1>1 DEF QueueInv, WriterInv, TypeInv, WriterType
<1>3. writer \in {"era", "write"} => activeWS = writerWS
  BY <1>2, NameAssumption DEF EraInv, ClientInv, Settling, Serving
<1> QED
  BY <1>1, <1>2, <1>3 DEF Settling, Serving

\* A client settles when it receives its metadata.
LEMMA SettlingStep ==
  ASSUME StreamInv, [Next]_vars, NEW c \in Conn, Settling(c)'
  PROVE  \/ Settling(c) /\ Remains(c) /\ ~(Write /\ Head(batch) = Metadata)
         \/ Deliver(c) /\ Head(batch) = Metadata
<1>1. TypeInv /\ QueueInv /\ EraInv /\ StaleInv
  BY DEF StreamInv
<1>2. Serving(c)' /\ Metadata \notin Range(Waiting') /\ ~(writerQ' = outQ' /\ Metadata \in Range(batch'))
  BY DEF Settling, MetadataComing
<1>3. Serving(c) /\ Remains(c)
  BY <1>1, <1>2, ServingStep
<1>4. /\ outQ' = outQ /\ (Take \/ Range(Waiting) \subseteq Range(Waiting'))
      /\ Take => writerQ' = outQ /\ batch' = Waiting
  BY <1>1, <1>3, RemainsIs
<1>5. Metadata \notin Range(Waiting)
  BY <1>2, <1>4
<1>6. writerQ \in {0, outQ}
  BY <1>1, <1>3, <1>5 DEF StaleInv
<1>7. (writer \in {"era", "write"} => writerQ = outQ) /\ (writer # "take" => batch # <<>> /\ batch \in Seq(Frame))
      /\ outQ \in Nat \ {0}
  BY <1>1, <1>6, QueueIs DEF QueueInv, WriterInv, TypeInv, WriterType
<1>8. writer \in {"era", "write"} => writerWS = c /\ c # None
  BY <1>1, <1>3, <1>7, NameAssumption DEF EraInv, ClientInv, Serving
<1>9. up[c] /\ activeWS = c /\ activeWS' = c
  BY <1>2, <1>3 DEF Serving
<1>10. ~WriteFails /\ ~WriteLost
  BY <1>8, <1>9 DEF WriteFails, WriteLost
<1>11. ASSUME Write
       PROVE  /\ Deliver(c) /\ batch' = Tail(batch) /\ outQ' = outQ
              /\ batch' # <<>> => writerQ' = outQ'
              /\ Range(batch) = {Head(batch)} \cup Range(batch')
  <2>1. writer = "write" /\ writerWS = c /\ batch # <<>> /\ batch \in Seq(Frame)
    BY <1>7, <1>8, <1>11 DEF Write
  <2>2. Deliver(c)
    BY <1>11, <2>1 DEF Write, Proceed, Deliver, slot, outbound, actor, Waiting
  <2>3. batch' = Tail(batch) /\ (batch' # <<>> => writerQ' = outQ')
    BY <1>4, <1>7, <1>11, <2>1 DEF Write, Proceed
  <2> QED
    BY <1>4, <2>1, <2>2, <2>3, TailIs
<1>12. CASE Metadata \notin Range(batch)
  <2>1. Settling(c)
    BY <1>3, <1>5, <1>12 DEF Settling, MetadataComing
  <2>2. Write => Head(batch) # Metadata
    BY <1>11, <1>12
  <2> QED
    BY <1>3, <2>1, <2>2
<1>13. CASE Metadata \in Range(batch)
  <2>1. ~Take
    BY <1>1, <1>13, RangeEmpty DEF Take, QueueInv, WriterInv
  <2>2. CASE Write
    <3>1. batch' # <<>> => Metadata \notin Range(batch')
      BY <1>2, <1>4, <1>11, <2>2
    <3>2. Metadata \notin Range(batch')
      BY <3>1, RangeEmpty
    <3>3. Head(batch) = Metadata
      BY <1>11, <1>13, <2>2, <3>2
    <3> QED
      BY <1>11, <2>2, <3>3
  <2>3. CASE ~Write
    <3>1. CASE CheckEra
      <4>1. writerQ = outQ /\ writerWS # None
        BY <1>7, <1>8, <3>1 DEF CheckEra
      <4> QED
        BY <1>2, <1>13, <1>4, <3>1, <4>1 DEF CheckEra
    <3>2. CASE ~CheckEra
      <4>1. UNCHANGED <<batch, writerQ>>
        BY <1>3, <1>10, <2>1, <2>3, <3>2
        DEF Remains, vars, Emit, Apply, Capture, Push, LoadEra, FreezePage, LoadPageQueue, PushPage, Disconnect,
          Leave, Forget, wsWriter, LoadConn, writing
      <4>2. writerQ = outQ
        BY <1>1, <1>6, <1>13, RangeEmpty DEF QueueInv, WriterInv, TypeInv, WriterType
      <4> QED
        BY <1>2, <1>4, <1>13, <4>1, <4>2
    <3> QED
      BY <3>1, <3>2
  <2> QED
    BY <2>2, <2>3
<1> QED
  BY <1>12, <1>13

-----------------------------------------------------------------------------
(* What is on its way stays so until the client has it.                    *)

\* One actor moves.
LEMMA HandsMove ==
  ASSUME NEW a \in Actor, outQ' = outQ,
         \A b \in Actor \ {a} : pc'[b] = pc[b] /\ target'[b] = target[b] /\ frame'[b] = frame[b]
  PROVE  /\ Pushing' \subseteq Pushing \cup {frame'[a]}
         /\ pc'[a] \notin {"push", "page"} => Pushing' \subseteq Pushing
         /\ Pushing \subseteq Pushing' \cup {frame[a]}
         /\ pc[a] \notin {"push", "page"} \/ target[a] # outQ => Pushing \subseteq Pushing'
         /\ pc[a] \in {"push", "page"} /\ target[a] = outQ => frame[a] \in Pushing
         /\ pc'[a] \in {"push", "page"} /\ target'[a] = outQ => frame'[a] \in Pushing'
         /\ Capturing \subseteq Capturing' \cup {frame[a].id}
         /\ pc[a] # "capture" => Capturing \subseteq Capturing'
<1>1. ASSUME NEW f \in Pushing' PROVE f \in Pushing \/ (f = frame'[a] /\ pc'[a] \in {"push", "page"})
  <2>1. PICK b \in Actor : pc'[b] \in {"push", "page"} /\ target'[b] = outQ /\ f = frame'[b]
    BY DEF Pushing
  <2> QED
    BY <2>1 DEF Pushing
<1>2. ASSUME NEW f \in Pushing
      PROVE  f \in Pushing' \/ (f = frame[a] /\ pc[a] \in {"push", "page"} /\ target[a] = outQ)
  <2>1. PICK b \in Actor : pc[b] \in {"push", "page"} /\ target[b] = outQ /\ f = frame[b]
    BY DEF Pushing
  <2> QED
    BY <2>1 DEF Pushing
<1>3. pc[a] \in {"push", "page"} /\ target[a] = outQ => frame[a] \in Pushing
  BY DEF Pushing
<1>4. pc'[a] \in {"push", "page"} /\ target'[a] = outQ => frame'[a] \in Pushing'
  BY DEF Pushing
<1>5. ASSUME NEW i \in Capturing
      PROVE  i \in Capturing' \/ (i = frame[a].id /\ pc[a] = "capture")
  <2>1. PICK e \in Emitter : pc[e] = "capture" /\ i = frame[e].id
    BY DEF Capturing
  <2>2. e \in Actor
    BY DEF Actor
  <2> QED
    BY <2>1, <2>2 DEF Capturing
<1> QED
  BY <1>1, <1>2, <1>3, <1>4, <1>5

\* Nothing a client needs is lost and nothing it would answer to is new.
Steady(c) ==
  /\ applied' = applied /\ Same(c)
  /\ Due \subseteq Due' /\ Answers(c)' = Answers(c)

\* A step that leaves the way and the client alone is steady.
LEMMA SteadyIs ==
  ASSUME NEW c \in Conn, applied' = applied, Same(c), Way' = Way, Capturing \subseteq Capturing',
         pc'[c] = "loadQ" <=> pc[c] = "loadQ",
         pc[c] = "loadQ" => frame'[c] = frame[c]
  PROVE  Steady(c)
<1>1. Due \subseteq Due'
  BY DEF Due
<1>2. nonce'[c] = nonce[c]
  BY DEF Same
<1>3. Answers(c)' = Answers(c)
  BY <1>2 DEF Answers
<1> QED
  BY <1>1, <1>3 DEF Steady

\* Neither the frames nor the client are touched.
LEMMA QuietStep ==
  ASSUME TypeInv, QueueInv, NEW c \in Conn,
         \/ UNCHANGED vars
         \/ \E d \in Conn : LoadEra(d)
         \/ \E d \in Conn \ {c} : Disconnect(d) \/ Leave(d) \/ Forget(d)
         \/ LoadConn
  PROVE  Steady(c)
<1>0. pc \in [Actor -> Place \cup EmitterPlace] /\ BrowserType /\ \A d \in Conn : d \in Actor
  BY DEF TypeInv, PcType, Actor
<1>1. UNCHANGED <<applied, Waiting, batch, frame, target, outQ>>
  BY DEF vars, LoadEra, Disconnect, Leave, Forget, LoadConn, outbound, slot, actor, writing, Waiting
<1>2. \A a \in Actor :
        /\ pc'[a] \in {"push", "page"} <=> pc[a] \in {"push", "page"}
        /\ pc'[a] = "loadQ" <=> pc[a] = "loadQ"
        /\ pc'[a] = "capture" <=> pc[a] = "capture"
  BY <1>0 DEF vars, LoadEra, Disconnect, Leave, Forget, LoadConn, Goto
<1>3. Same(c)
  <2>1. CASE UNCHANGED <<asks, browser>>
    BY <2>1 DEF Same, browser
  <2>2. ASSUME NEW d \in Conn \ {c}, Disconnect(d) PROVE Same(c)
    <3>1. HangUp(d) /\ UNCHANGED asks
      BY <2>2 DEF Disconnect
    <3> QED
      BY <1>0, <3>1 DEF HangUp, BrowserType, Same
  <2>3. ASSUME NEW d \in Conn \ {c}, Forget(d) PROVE Same(c)
    BY <1>0, <2>3 DEF Forget, BrowserType, Same, browser
  <2> QED
    BY <2>1, <2>2, <2>3 DEF vars, LoadEra, Leave, LoadConn
<1>4. Pushing' = Pushing
  BY <1>1, <1>2 DEF Pushing
<1>5. Way' = Way
  BY <1>1, <1>4 DEF Way
<1>6. Capturing' = Capturing
  <2>1. \A e \in Emitter : pc'[e] = "capture" <=> pc[e] = "capture"
    BY <1>2 DEF Actor
  <2> QED
    BY <1>1, <2>1 DEF Capturing
<1> QED
  BY <1>0, <1>1, <1>2, <1>3, <1>5, <1>6, SteadyIs

\* A frame goes from a hand to the queue; what another era would drop was not on its way.
LEMMA PushStep ==
  ASSUME TypeInv, QueueInv, EraInv, NEW c \in Conn, NEW a \in Actor,
         (a \in Emitter /\ Push(a)) \/ (a \in Conn /\ PushPage(a))
  PROVE  Steady(c)
<1>0. /\ pc \in [Actor -> Place \cup EmitterPlace] /\ c \in Actor
      /\ target \in [Actor -> 0..outQ] /\ frame \in [Actor -> Frame]
      /\ frame[a] \in Frame /\ Waiting \in Seq(Frame)
      /\ Range(Append(Waiting, frame[a])) = Range(Waiting) \cup {frame[a]}
  BY FramesAre, AppendIs DEF TypeInv, PcType, HandType, Actor
<1>1. pc[a] \in {"push", "page"} /\ outQ' = outQ /\ batch' = batch /\ applied' = applied
  BY DEF Push, PushPage, slot, writing
<1>2. Waiting' = IF target[a] = outQ THEN Append(Waiting, frame[a]) ELSE Waiting
  BY <1>0, PutIs DEF Push, PushPage
<1>3. pc'[a] \in {"idle", "read"} /\ \A b \in Actor \ {a} : pc'[b] = pc[b]
  BY <1>0 DEF Push, PushPage, Goto
<1>4. \A b \in Actor \ {a} : target'[b] = target[b] /\ frame'[b] = frame[b]
  BY <1>0 DEF Push, PushPage, Done
<1>5. /\ Pushing' \subseteq Pushing
      /\ Pushing \subseteq Pushing' \cup {frame[a]}
      /\ target[a] # outQ => Pushing \subseteq Pushing'
      /\ target[a] = outQ => frame[a] \in Pushing
      /\ Capturing \subseteq Capturing'
  BY <1>1, <1>3, <1>4, HandsMove
<1>6. Way' = Way
  BY <1>0, <1>1, <1>2, <1>5 DEF Way
<1>7. Same(c)
  BY DEF Push, PushPage, Same, browser
<1>8. (pc'[c] = "loadQ" <=> pc[c] = "loadQ") /\ (pc[c] = "loadQ" => frame'[c] = frame[c])
  BY <1>0, <1>1, <1>3, <1>4
<1> QED
  BY <1>1, <1>5, <1>6, <1>7, <1>8, SteadyIs

\* An event gets its number and the queue of the moment.
LEMMA CaptureStep ==
  ASSUME TypeInv, QueueInv, NEW c \in Conn, NEW e \in Emitter, Capture(e)
  PROVE  Steady(c)
<1>0. /\ pc \in [Actor -> Place \cup EmitterPlace] /\ e \in Actor /\ c \in Actor /\ c # e
      /\ target \in [Actor -> 0..outQ] /\ frame \in [Actor -> Frame] /\ clock \in Nat
  BY FramesAre, NameAssumption DEF TypeInv, PcType, HandType, Actor, SlotType
<1>1. /\ pc[e] = "capture" /\ frame[e] \in EventFrame
      /\ UNCHANGED <<outQ, Waiting, batch, applied>>
  BY <1>0 DEF Capture, QueueInv, HandInv, slot, outbound, writing, Waiting
<1>2. pc'[e] = "push" /\ \A b \in Actor \ {e} : pc'[b] = pc[b]
  BY <1>0 DEF Capture, Goto
<1>3. target'[e] = outQ /\ \A b \in Actor \ {e} : target'[b] = target[b]
  BY <1>0 DEF Capture
<1>4. /\ frame'[e] \in EventFrame /\ frame'[e].id = frame[e].id
      /\ \A b \in Actor \ {e} : frame'[b] = frame[b]
  <2>1. frame' = [frame EXCEPT ![e] = [frame[e] EXCEPT !.seq = clock + 1]]
    BY DEF Capture
  <2>2. [frame[e] EXCEPT !.seq = clock + 1] \in EventFrame
        /\ [frame[e] EXCEPT !.seq = clock + 1].id = frame[e].id
    BY <1>0, <1>1 DEF EventFrame
  <2> QED
    BY <1>0, <2>1, <2>2
<1>5. /\ Pushing' \subseteq Pushing \cup {frame'[e]} /\ Pushing \subseteq Pushing' /\ frame'[e] \in Pushing'
      /\ Capturing \subseteq Capturing' \cup {frame[e].id}
  BY <1>0, <1>1, <1>2, <1>3, <1>4, HandsMove
<1>6. Way' = Way \cup {frame'[e]}
  BY <1>1, <1>5 DEF Way
<1>7. Due \subseteq Due'
  BY <1>4, <1>5, <1>6, Kinds DEF Due
<1>8. Same(c)
  BY DEF Capture, Same, browser
<1>9. Answers(c)' = Answers(c)
  <2>1. nonce'[c] = nonce[c] /\ pc'[c] = pc[c] /\ frame'[c] = frame[c]
    BY <1>0, <1>2, <1>4, <1>8 DEF Same
  <2>2. frame'[e].kind # "page"
    BY <1>4, Kinds
  <2> QED
    BY <1>6, <2>1, <2>2 DEF Answers
<1> QED
  BY <1>1, <1>7, <1>8, <1>9 DEF Steady

\* A page gets the queue of the moment.
LEMMA LoadPageStep ==
  ASSUME TypeInv, QueueInv, NEW c \in Conn, NEW d \in Conn, LoadPageQueue(d)
  PROVE  Steady(c)
<1>0. /\ pc \in [Actor -> Place \cup EmitterPlace] /\ d \in Actor /\ c \in Actor
      /\ target \in [Actor -> 0..outQ]
  BY DEF TypeInv, PcType, HandType, Actor
<1>1. /\ pc[d] = "loadQ" /\ frame[d] \in PageFrame /\ frame[d].nonce[1] = d
      /\ UNCHANGED <<outQ, Waiting, batch, applied, frame>>
  BY <1>0 DEF LoadPageQueue, QueueInv, HandInv, slot, outbound, writing, Waiting
<1>2. pc'[d] = "page" /\ \A b \in Actor \ {d} : pc'[b] = pc[b]
  BY <1>0 DEF LoadPageQueue, Goto
<1>3. target'[d] = outQ /\ \A b \in Actor \ {d} : target'[b] = target[b]
  BY <1>0 DEF LoadPageQueue
<1>4. /\ Pushing' \subseteq Pushing \cup {frame[d]} /\ Pushing \subseteq Pushing' /\ frame[d] \in Pushing'
      /\ Capturing \subseteq Capturing'
  BY <1>0, <1>1, <1>2, <1>3, HandsMove
<1>5. Way' = Way \cup {frame[d]}
  BY <1>1, <1>4 DEF Way
<1>6. Due \subseteq Due'
  BY <1>4, <1>5 DEF Due
<1>7. Same(c)
  BY DEF LoadPageQueue, Same, browser
<1>8. Answers(c)' = Answers(c)
  <2>1. nonce'[c] = nonce[c]
    BY <1>7 DEF Same
  <2>2. CASE d = c
    BY <1>1, <1>2, <1>5, <2>1, <2>2 DEF Answers
  <2>3. CASE d # c
    <3>1. frame[d].nonce # <<c, nonce[c]>> /\ pc'[c] = pc[c]
      BY <1>0, <1>1, <1>2, <2>3
    <3> QED
      BY <1>1, <1>5, <2>1, <3>1 DEF Answers
  <2> QED
    BY <2>2, <2>3
<1> QED
  BY <1>1, <1>6, <1>7, <1>8 DEF Steady

\* The writer takes all there is.
LEMMA TakeStep ==
  ASSUME TypeInv, QueueInv, NEW c \in Conn, Take
  PROVE  Steady(c)
<1>1. batch = <<>> /\ batch' = Waiting /\ UNCHANGED <<outQ, pc, target, frame, applied>>
  BY DEF Take, QueueInv, WriterInv, Waiting, slot, actor
<1>2. Waiting' = <<>>
  BY TakenIs DEF Take, Waiting
<1>3. Pushing' = Pushing /\ Capturing' = Capturing
  BY <1>1 DEF Pushing, Capturing
<1>4. Way' = Way
  BY <1>1, <1>2, <1>3, RangeEmpty DEF Way
<1>5. Same(c)
  BY DEF Take, Same, browser
<1> QED
  BY <1>1, <1>3, <1>4, <1>5, SteadyIs

\* A settled client is written to.
LEMMA CheckStep ==
  ASSUME TypeInv, QueueInv, EraInv, StaleInv, NEW c \in Conn, Settling(c), CheckEra
  PROVE  Steady(c)
<1>1. writerWS = c /\ writerQ = outQ /\ c # None
  BY SettledWriter, NameAssumption DEF CheckEra
<1>2. UNCHANGED <<Waiting, batch, outQ, pc, target, frame, applied>>
  BY <1>1 DEF CheckEra, slot, outbound, actor, Waiting
<1>3. Pushing' = Pushing /\ Capturing' = Capturing
  BY <1>2 DEF Pushing, Capturing
<1>4. Way' = Way
  BY <1>2, <1>3 DEF Way
<1>5. Same(c)
  BY DEF CheckEra, Same, browser
<1> QED
  BY <1>2, <1>3, <1>4, <1>5, SteadyIs

\* An effect is in a frame before ssMu is free.
LEMMA ApplyStep ==
  ASSUME TypeInv, QueueInv, NEW c \in Conn, active, activeWS # None, NEW e \in Emitter, Apply(e)
  PROVE  /\ applied' = applied + 1 /\ Same(c) /\ Answers(c)' = Answers(c)
         /\ Due \cup {applied + 1} \subseteq Due'
<1>0. /\ pc \in [Actor -> Place \cup EmitterPlace] /\ e \in Actor /\ c \in Actor /\ c # e
      /\ frame \in [Actor -> Frame]
  BY FramesAre, NameAssumption DEF TypeInv, PcType, Actor
<1>1. /\ pc[e] = "idle" /\ applied' = applied + 1
      /\ UNCHANGED <<outQ, Waiting, batch, target>>
      /\ frame' = [frame EXCEPT ![e] = [kind |-> "event", id |-> applied + 1, by |-> e, seq |-> 0]]
      /\ pc' = [pc EXCEPT ![e] = "capture"]
  BY DEF Apply, Goto, outbound, writing, Waiting
<1>2. /\ frame'[e].id = applied + 1 /\ pc'[e] = "capture"
      /\ \A b \in Actor \ {e} : pc'[b] = pc[b] /\ frame'[b] = frame[b]
  BY <1>0, <1>1
<1>3. Pushing' \subseteq Pushing /\ Pushing \subseteq Pushing' /\ Capturing \subseteq Capturing'
  BY <1>0, <1>1, <1>2, HandsMove
<1>4. Way' = Way
  BY <1>1, <1>3 DEF Way
<1>5. applied + 1 \in Capturing'
  BY <1>2 DEF Capturing
<1>6. Due \cup {applied + 1} \subseteq Due'
  BY <1>3, <1>4, <1>5 DEF Due
<1>7. Same(c)
  BY DEF Apply, Same, browser
<1>8. Answers(c)' = Answers(c)
  BY <1>0, <1>2, <1>4, <1>7 DEF Same, Answers
<1> QED
  BY <1>1, <1>6, <1>7, <1>8

\* A page is frozen with every effect there is.
LEMMA FreezeStep ==
  ASSUME TypeInv, QueueInv, NEW c \in Conn, NEW d \in Conn, FreezePage(d)
  PROVE  \/ Steady(c)
         \/ /\ d = c /\ applied' = applied /\ Due \subseteq Due'
            /\ asks[c] # <<>> /\ asks'[c] = Tail(asks[c])
            /\ nonce'[c] = nonce[c] /\ pending'[c] = pending[c]
            /\ has'[c] = has[c] /\ live'[c] = live[c] /\ buffer'[c] = buffer[c]
            /\ \E g \in PageFrame :
                 /\ g.has = applied /\ Answers(c)' \subseteq Answers(c) \cup {g}
                 /\ Answers(c) \subseteq Answers(c)'
                 /\ Head(asks[c]) = nonce[c] => g \in Answers(c)'
<1>0. /\ pc \in [Actor -> Place \cup EmitterPlace] /\ d \in Actor /\ c \in Actor
      /\ frame \in [Actor -> Frame] /\ asks \in [Conn -> Seq(Nat)]
  BY FramesAre DEF TypeInv, PcType, Actor, BrowserType
<1>1. Freeze(d) /\ UNCHANGED <<outQ, Waiting, batch, applied, target>> /\ pc[d] = "read"
  BY DEF FreezePage, Freeze, slot, outbound, writing, Waiting
<1>2. PICK g \in PageFrame :
           /\ g.nonce = <<d, Head(asks[d])>> /\ g.has = applied
           /\ frame' = [frame EXCEPT ![d] = g]
  BY <1>1, FramesFreeze
<1>3. pc'[d] = "loadQ" /\ \A b \in Actor \ {d} : pc'[b] = pc[b]
  BY <1>0 DEF FreezePage, Goto
<1>4. frame'[d] = g /\ \A b \in Actor \ {d} : frame'[b] = frame[b]
  BY <1>0, <1>2
<1>5. Pushing' \subseteq Pushing /\ Pushing \subseteq Pushing' /\ Capturing \subseteq Capturing'
  BY <1>0, <1>1, <1>3, <1>4, HandsMove
<1>6. Way' = Way
  BY <1>1, <1>5 DEF Way
<1>7. Due \subseteq Due'
  BY <1>5, <1>6 DEF Due
<1>8. /\ nonce'[c] = nonce[c] /\ pending'[c] = pending[c] /\ pageSeq'[c] = pageSeq[c]
      /\ has'[c] = has[c] /\ live'[c] = live[c] /\ buffer'[c] = buffer[c]
  BY <1>1 DEF Freeze, browser
<1>9. CASE d # c
  <2>1. Same(c)
    BY <1>0, <1>1, <1>8, <1>9 DEF Same, Freeze
  <2> QED
    BY <1>0, <1>1, <1>3, <1>4, <1>5, <1>6, <1>9, <2>1, SteadyIs
<1>10. CASE d = c
  <2>1. asks[c] # <<>> /\ asks'[c] = Tail(asks[c])
    BY <1>0, <1>1, <1>10 DEF Freeze
  <2>2. Answers(c)' = Answers(c) \cup {f \in {g} : f.nonce = <<c, nonce[c]>>}
    <3>1. Answers(c) = {f \in Way : f.kind = "page" /\ f.nonce = <<c, nonce[c]>>}
      BY <1>1, <1>10 DEF Answers
    <3>2. Answers(c)' = {f \in Way \cup {g} : f.kind = "page" /\ f.nonce = <<c, nonce[c]>>}
      BY <1>3, <1>4, <1>6, <1>8, <1>10 DEF Answers
    <3> QED
      BY <3>1, <3>2, Kinds
  <2> QED
    BY <1>1, <1>2, <1>7, <1>8, <1>10, <2>1, <2>2
<1> QED
  BY <1>9, <1>10

\* A client is covered as long as the steps are steady,
LEMMA SteadyStep ==
  ASSUME NEW c \in Conn, Covered(c), Steady(c)
  PROVE  Covered(c)'
  BY DEF Covered, Steady, Same, Ids

\* when an effect comes,
LEMMA AppliedStep ==
  ASSUME TypeInv, NEW c \in Conn, Covered(c), applied' = applied + 1, Same(c), Answers(c)' = Answers(c),
         Due \cup {applied + 1} \subseteq Due'
  PROVE  Covered(c)'
<1>1. applied \in Nat /\ has[c] \in Nat
  BY DEF TypeInv, SlotType, BrowserType
<1>2. \A n \in Nat : \A i \in (n + 1)..applied' : i \in (n + 1)..applied \/ i = applied + 1
  BY <1>1
<1>3. /\ nonce'[c] = nonce[c] /\ pending'[c] = pending[c] /\ has'[c] = has[c] /\ asks'[c] = asks[c]
      /\ live'[c] = live[c] /\ buffer'[c] = buffer[c]
  BY DEF Same
<1>4. \A f \in Answers(c) : f.has \in Nat
  <2>1. Way \subseteq Frame /\ frame[c] \in Frame
    BY FramesAre DEF Way, Pushing, Frames, Actor
  <2> QED
    BY <2>1, Kinds DEF Answers
<1>5. Ids(live[c])' = Ids(live[c]) /\ Ids(buffer[c])' = Ids(buffer[c])
  BY <1>3 DEF Ids
<1>6. nonce'[c] # 0 /\ ~pending'[c] =>
        \A i \in (has'[c] + 1)..applied' : i \in Ids(live'[c]) \cup Due'
  BY <1>1, <1>2, <1>3 DEF Covered
<1>7. pending'[c] => nonce'[c] \in Range(asks'[c]) \/ Answers(c)' # {}
  BY <1>3 DEF Covered
<1>8. pending'[c] =>
        \A f \in Answers(c)' : \A i \in (f.has + 1)..applied' : i \in Ids(buffer'[c]) \cup Due'
  BY <1>1, <1>2, <1>3, <1>4 DEF Covered
<1> QED
  BY <1>5, <1>6, <1>7, <1>8 DEF Covered

\* when its page is frozen,
LEMMA FrozenStep ==
  ASSUME TypeInv, NEW c \in Conn, Covered(c), applied' = applied, Due \subseteq Due',
         asks[c] # <<>>, asks'[c] = Tail(asks[c]),
         nonce'[c] = nonce[c], pending'[c] = pending[c],
         has'[c] = has[c], live'[c] = live[c], buffer'[c] = buffer[c],
         NEW g \in PageFrame, g.has = applied, Answers(c)' \subseteq Answers(c) \cup {g},
         Answers(c) \subseteq Answers(c)', Head(asks[c]) = nonce[c] => g \in Answers(c)'
  PROVE  Covered(c)'
<1>1. applied \in Nat /\ asks[c] \in Seq(Nat)
  BY DEF TypeInv, SlotType, BrowserType
<1>2. Range(asks[c]) = {Head(asks[c])} \cup Range(asks'[c])
  BY <1>1, TailIs
<1>3. \A i \in (g.has + 1)..applied : FALSE
  BY <1>1
<1>4. Ids(live[c])' = Ids(live[c]) /\ Ids(buffer[c])' = Ids(buffer[c])
  BY DEF Ids
<1> QED
  BY <1>2, <1>3, <1>4 DEF Covered

\* The browser has received f, which was on its way.
LEMMA WriteStep ==
  ASSUME TypeInv, QueueInv, EraInv, NumberInv, OnceInv, StaleInv, NEW c \in Conn, Settling(c),
         Covered(c), Write, Head(batch) # Metadata
  PROVE  Covered(c)'
<1>0. /\ batch # <<>> /\ applied \in Nat /\ has[c] \in Nat /\ pageSeq[c] \in Nat
      /\ live[c] \in Seq(EventFrame) /\ buffer[c] \in Seq(EventFrame)
  BY DEF TypeInv, SlotType, BrowserType, Write, QueueInv, WriterInv
<1>1. writerWS = c /\ Deliver(c) /\ UNCHANGED <<outQ, pc, target, frame, Waiting, applied>>
  <2>1. writerWS = c
    BY SettledWriter DEF Write
  <2> QED
    BY <1>0, <2>1 DEF Write, Proceed, Deliver, slot, outbound, actor, Waiting
<1>2. PICK f \in Frame :
         /\ f = Head(batch) /\ Range(batch) = {f} \cup Range(batch')
         /\ \/ f = Metadata /\ Restarted(c)
            \/ f \in EventFrame /\ (Buffered(c, f) \/ Shows(c, f))
            \/ f \in PageFrame /\ (Paged(c, f) \/ (~(f.nonce = <<c, nonce[c]>> /\ pending[c]) /\ Same(c)))
  BY <1>1, DeliverIs
<1>3. Pushing' = Pushing /\ Capturing' = Capturing
  BY <1>1 DEF Pushing, Capturing
<1>4. Way = Way' \cup {f} /\ f \in Way /\ f \in Frames
  BY <1>1, <1>2, <1>3 DEF Way, Frames
<1>5. f.kind = "event" => Due \subseteq Due' \cup {f.id}
  BY <1>3, <1>4 DEF Due
<1>6. f.kind # "event" => Due \subseteq Due'
  BY <1>3, <1>4 DEF Due
<1>7. ASSUME nonce'[c] = nonce[c]
      PROVE  /\ Answers(c)' \subseteq Answers(c)
             /\ f.kind # "page" \/ f.nonce # <<c, nonce[c]>> => Answers(c)' = Answers(c)
  BY <1>1, <1>4, <1>7 DEF Answers
<1>8. \A i \in Nat : i \in Ids(live[c])' <=> i \in Ids(live'[c])
  BY DEF Ids
<1>9. \A i \in Nat : i \in Ids(buffer[c])' <=> i \in Ids(buffer'[c])
  BY DEF Ids
<1>10. CASE f \in EventFrame /\ Buffered(c, f)
  <2>1. f.kind = "event" /\ Answers(c)' = Answers(c)
    BY <1>7, <1>10, Kinds DEF Buffered
  <2>2. Append(buffer[c], f) \in Seq(EventFrame) /\ Range(Append(buffer[c], f)) = Range(buffer[c]) \cup {f}
    BY <1>0, <1>10, AppendIs
  <2>3. Ids(Append(buffer[c], f)) = Ids(buffer[c]) \cup {f.id}
    <3>1. /\ Ids(Append(buffer[c], f)) = {g.id : g \in Range(buffer[c]) \cup {f}}
          /\ Ids(buffer[c]) = {g.id : g \in Range(buffer[c])}
      BY <1>0, <2>2, IdsIs
    <3> QED
      BY <3>1
  <2>4. /\ pending[c] /\ pending'[c] /\ nonce'[c] = nonce[c] /\ asks'[c] = asks[c]
        /\ Ids(buffer[c])' = Ids(buffer[c]) \cup {f.id}
    BY <1>10, <2>3 DEF Buffered, Ids
  <2> QED
    BY <1>1, <1>5, <2>1, <2>4 DEF Covered
<1>11. CASE f \in EventFrame /\ Shows(c, f)
  <2>1. f.kind = "event" /\ f.seq \in Nat /\ f.id \in Nat
    BY <1>11, Kinds
  <2>2. ~pending[c] /\ ~pending'[c] /\ nonce'[c] = nonce[c] /\ has'[c] = has[c]
    BY <1>11 DEF Shows
  <2>3. ASSUME nonce[c] # 0, NEW i \in (has[c] + 1)..applied
        PROVE  i \in Ids(live'[c]) \cup Due'
    <3>1. i \in Ids(live[c]) \cup Due' \cup {f.id}
      BY <1>5, <2>1, <2>2, <2>3 DEF Covered
    <3>2. CASE f.seq > pageSeq[c] /\ live'[c] = Append(live[c], f)
      <4>1. Append(live[c], f) \in Seq(EventFrame) /\ Range(Append(live[c], f)) = Range(live[c]) \cup {f}
        BY <1>0, <1>11, AppendIs
      <4>2. /\ Ids(Append(live[c], f)) = {g.id : g \in Range(live[c]) \cup {f}}
            /\ Ids(live[c]) = {g.id : g \in Range(live[c])}
        BY <1>0, <4>1, IdsIs
      <4> QED
        BY <3>1, <3>2, <4>2
    <3>3. CASE f.seq <= pageSeq[c] /\ live'[c] = live[c]
      <4>1. f \in Known /\ f.seq # 0 /\ c \in Showing
        BY <1>2, <1>4, <1>11, <2>1, <2>2, <2>3, FramesAre DEF Showing, NumberInv, NumberedInv
      <4>2. After(f, has[c], pageSeq[c])
        BY <4>1 DEF NumberInv, OrderInv
      <4>3. ~(f.id > has[c])
        BY <1>0, <2>1, <3>3, <4>1, <4>2 DEF After
      <4>4. i # f.id
        BY <1>0, <2>1, <4>3
      <4> QED
        BY <3>1, <3>3, <4>4
    <3> QED
      BY <1>11, <3>2, <3>3 DEF Shows
  <2>4. Ids(live[c])' = Ids(live'[c])
    BY DEF Ids
  <2> QED
    BY <1>1, <2>2, <2>3, <2>4 DEF Covered
<1>12. CASE f \in PageFrame /\ Paged(c, f)
  <2>1. f.kind = "page" /\ f.seq \in Nat /\ f.has \in Nat /\ f \in Answers(c)
    BY <1>4, <1>12, Kinds DEF Paged, Answers
  <2>2. pending[c] /\ ~pending'[c] /\ has'[c] = f.has
    BY <1>12 DEF Paged
  <2>3. ASSUME NEW i \in (f.has + 1)..applied PROVE i \in Ids(live'[c]) \cup Due'
    <3>1. i \in Ids(buffer[c]) \cup Due'
      BY <1>6, <2>1, <2>2, <2>3 DEF Covered
    <3>2. CASE i \in Ids(buffer[c])
      <4>1. PICK g \in Range(buffer[c]) : g.id = i
        BY <1>0, <3>2, IdsIs
      <4>2. g \in Known /\ g.seq \in Nat /\ g.id \in Nat /\ g.seq # 0 /\ f \in Sent
        BY <1>4, <1>12, FramesAre, Kinds DEF NumberInv, NumberedInv
      <4>3. After(g, f.has, f.seq)
        BY <4>2 DEF NumberInv, OrderInv
      <4>4. g.seq > f.seq
        BY <2>1, <2>3, <4>1, <4>2, <4>3 DEF After
      <4>5. g \in Range(live'[c]) /\ live'[c] \in Seq(EventFrame)
        BY <1>12, <4>4 DEF Paged
      <4> QED
        BY <4>1, <4>5, IdsIs
    <3> QED
      BY <3>1, <3>2
  <2>4. Ids(live[c])' = Ids(live'[c])
    BY DEF Ids
  <2> QED
    BY <1>1, <2>2, <2>3, <2>4 DEF Covered
<1>13. CASE f \in PageFrame /\ ~(f.nonce = <<c, nonce[c]>> /\ pending[c]) /\ Same(c)
  <2>1. f.kind # "event" /\ nonce'[c] = nonce[c]
    BY <1>13, Kinds DEF Same
  <2>2. CASE pending[c]
    <3>1. f.nonce # <<c, nonce[c]>>
      BY <1>13, <2>2
    <3>2. Steady(c)
      BY <1>1, <1>6, <1>7, <1>13, <2>1, <3>1 DEF Steady
    <3> QED
      BY <3>2, SteadyStep
  <2>3. CASE ~pending[c]
    <3>1. /\ ~pending'[c] /\ has'[c] = has[c] /\ live'[c] = live[c]
          /\ Ids(live[c])' = Ids(live[c])
      BY <1>13, <2>3 DEF Same, Ids
    <3> QED
      BY <1>1, <1>6, <2>1, <2>3, <3>1 DEF Covered
  <2> QED
    BY <2>2, <2>3
<1> QED
  BY <1>2, <1>10, <1>11, <1>12, <1>13

\* With its metadata a client asks for a page that nobody has sent yet.
LEMMA MetadataStep ==
  ASSUME TypeInv, TypeInv', NumberInv, NonceInv, OnceInv, NEW c \in Conn, up[c], Deliver(c), Head(batch) = Metadata
  PROVE  Covered(c)'
<1>1. Restarted(c)
  BY DeliverIs, Kinds
<1>2. /\ nonce[c] \in Nat /\ asks[c] \in Seq(Nat)
      /\ nonce'[c] = nonce[c] + 1 /\ asks'[c] = Append(asks[c], nonce[c] + 1) /\ pending'[c]
  BY <1>1 DEF TypeInv, BrowserType, Restarted
<1>3. nonce'[c] \in Range(asks'[c])
  BY <1>2, AppendIs
<1>4. Answers(c)' = {}
  <2>1. Sent' \subseteq Sent
    BY FramesMove, FramesAre, FramesAreNext, Kinds
  <2>2. \A g \in Sent : g.nonce[1] = c => g.nonce[2] <= nonce[c]
    BY DEF NonceInv
  <2>3. ASSUME NEW g \in Answers(c)' PROVE FALSE
    <3>1. g.kind = "page" /\ g.nonce = <<c, nonce[c] + 1>>
      BY <1>2, <2>3 DEF Answers
    <3>2. c \in Actor /\ frame' \in [Actor -> Frame]
      BY DEF Actor, TypeInv, HandType
    <3>3. g \in Range(Waiting') \cup Range(batch') \cup {frame'[a] : a \in Actor}
      BY <2>3, <3>2 DEF Answers, Way, Pushing
    <3>4. {frame'[a] : a \in Actor} \subseteq Range(frame')
      BY <3>2 DEF Range
    <3>5. g \in Sent'
      BY <3>1, <3>3, <3>4 DEF Sent, Frames
    <3>6. g.nonce[1] = c /\ g.nonce[2] = nonce[c] + 1
      BY <3>1
    <3>7. nonce[c] + 1 <= nonce[c]
      BY <2>1, <2>2, <3>5, <3>6
    <3> QED
      BY <1>2, <3>7
  <2> QED
    BY <2>3
<1> QED
  BY <1>2, <1>3, <1>4 DEF Covered

\* A settled client is covered.
LEMMA ComingStep ==
  ASSUME StreamInv, TypeInv', [Next]_vars
  PROVE  ComingInv'
<1> SUFFICES ASSUME NEW c \in Conn, Settling(c)'
             PROVE  Covered(c)'
  BY DEF ComingInv
<1>1. /\ TypeInv /\ QueueInv /\ EraInv /\ NumberInv /\ NonceInv /\ OnceInv /\ StaleInv /\ ComingInv
      /\ c \in Actor
  BY DEF StreamInv, Actor
<1>2. CASE Deliver(c) /\ Head(batch) = Metadata
  BY <1>1, <1>2, MetadataStep DEF Deliver
<1>3. CASE Settling(c) /\ Remains(c) /\ ~(Write /\ Head(batch) = Metadata)
  <2>1. Covered(c) /\ Settling(c) /\ Serving(c) /\ active /\ activeWS # None
    BY <1>1, <1>3, NameAssumption DEF ComingInv, Settling, Serving
  <2>2. CASE \/ UNCHANGED vars
             \/ \E d \in Conn : LoadEra(d)
             \/ \E d \in Conn \ {c} : Disconnect(d) \/ Leave(d) \/ Forget(d)
             \/ LoadConn
    BY <1>1, <2>1, <2>2, QuietStep, SteadyStep
  <2>3. ASSUME NEW e \in Emitter, Emit(e) PROVE Covered(c)'
    <3>1. e \in Actor
      BY DEF Actor
    <3>2. CASE Apply(e)
      BY <1>1, <2>1, <3>2, ApplyStep, AppliedStep
    <3>3. CASE Capture(e)
      BY <1>1, <2>1, <3>3, CaptureStep, SteadyStep
    <3>4. CASE Push(e)
      BY <1>1, <2>1, <3>1, <3>4, PushStep, SteadyStep
    <3> QED
      BY <2>3, <3>2, <3>3, <3>4 DEF Emit
  <2>4. ASSUME NEW d \in Conn, FreezePage(d) PROVE Covered(c)'
    <3>1. CASE Steady(c)
      BY <2>1, <3>1, SteadyStep
    <3>2. CASE ~Steady(c)
      <4>1. /\ applied' = applied /\ Due \subseteq Due'
            /\ asks[c] # <<>> /\ asks'[c] = Tail(asks[c])
            /\ nonce'[c] = nonce[c] /\ pending'[c] = pending[c]
            /\ has'[c] = has[c] /\ live'[c] = live[c] /\ buffer'[c] = buffer[c]
            /\ \E g \in PageFrame :
                 /\ g.has = applied /\ Answers(c)' \subseteq Answers(c) \cup {g}
                 /\ Answers(c) \subseteq Answers(c)'
                 /\ Head(asks[c]) = nonce[c] => g \in Answers(c)'
        BY <1>1, <2>4, <3>2, FreezeStep
      <4>2. PICK g \in PageFrame :
              /\ g.has = applied /\ Answers(c)' \subseteq Answers(c) \cup {g}
              /\ Answers(c) \subseteq Answers(c)'
              /\ Head(asks[c]) = nonce[c] => g \in Answers(c)'
        BY <4>1
      <4> QED
        BY <1>1, <2>1, <4>1, <4>2, FrozenStep
    <3> QED
      BY <3>1, <3>2
  <2>5. ASSUME NEW d \in Conn, LoadPageQueue(d) PROVE Covered(c)'
    BY <1>1, <2>1, <2>5, LoadPageStep, SteadyStep
  <2>6. ASSUME NEW d \in Conn, PushPage(d) PROVE Covered(c)'
    <3>1. d \in Actor
      BY DEF Actor
    <3>2. Steady(c)
      BY <1>1, <2>6, <3>1, PushStep
    <3> QED
      BY <2>1, <3>2, SteadyStep
  <2>7. CASE Take
    BY <1>1, <2>1, <2>7, TakeStep, SteadyStep
  <2>8. CASE CheckEra
    BY <1>1, <2>1, <2>8, CheckStep, SteadyStep
  <2>9. CASE Write
    BY <1>1, <1>3, <2>1, <2>9, WriteStep
  <2>10. ~WriteFails /\ ~WriteLost
    <3>1. writer = "write" => writerWS = c
      BY <1>1, <2>1, SettledWriter
    <3>2. up[c] /\ activeWS = c /\ activeWS' = c /\ c # None
      BY <2>1, NameAssumption DEF Settling, Serving
    <3> QED
      BY <3>1, <3>2 DEF WriteFails, WriteLost
  <2> QED
    BY <1>3, <2>2, <2>3, <2>4, <2>5, <2>6, <2>7, <2>8, <2>9, <2>10 DEF Remains, wsWriter
<1> QED
  BY <1>2, <1>3, SettlingStep

-----------------------------------------------------------------------------
(* The invariant, and what it says of the runs' properties.                *)

\* The invariant holds at first,
LEMMA Start == Init => StreamInv
<1> SUFFICES ASSUME Init
             PROVE  StreamInv
  OBVIOUS
<1>0. /\ queues = <<Pristine>> /\ outQ = 1 /\ batch = <<>> /\ <<>> \in Seq(Frame)
      /\ <<Pristine>> \in Seq(Queue) /\ Len(<<Pristine>>) = 1 /\ <<Pristine>>[1] = Pristine
      /\ <<Pristine>> # <<>> /\ Pristine.frames = <<>> /\ ~Pristine.closed
  BY PristineIs, RangeOne, RangeEmpty DEF Init
<1>1. Waiting = <<>> /\ queues[outQ] = Pristine /\ Range(<<>>) = {}
  BY <1>0, RangeEmpty DEF Waiting
<1>2. /\ frame = [a \in Actor |-> Metadata]
      /\ pc = [a \in Actor |-> IF a \in Conn THEN "new" ELSE "idle"]
      /\ \A e \in Emitter : e \notin Conn
  BY NameAssumption DEF Init, Actor
<1>3. TypeInv
  <2>1. SlotType /\ ConnType /\ WriterType
    <3>1. SlotType
      <4>1. 0 \in 0..MaxEvents /\ 0 \in 0..MaxUpsets /\ 0 \in Nat
        BY BoundAssumption
      <4>2. active \in BOOLEAN
        BY DEF Init
      <4> QED
        BY <4>1, <4>2 DEF Init, SlotType
    <3>2. ConnType
      BY <1>0 DEF Init, ConnType
    <3>3. WriterType
      <4>1. writer = "take" /\ writerQ = 0 /\ writerWS = None /\ outQ = 1
        BY <1>0 DEF Init
      <4> QED
        BY <1>0, <4>1 DEF WriterType
    <3> QED
      BY <3>1, <3>2, <3>3
  <2>2. QueueType
    BY <1>0 DEF QueueType
  <2>3. PcType /\ HandType
    BY <1>0, <1>2, Kinds DEF Init, PcType, HandType, Place, EmitterPlace, Actor
  <2>4. BrowserType
    <3>1. \A S : <<>> \in Seq(S)
      BY RangeEmpty
    <3> QED
      BY <3>1 DEF Init, BrowserType
  <2> QED
    BY <2>1, <2>2, <2>3, <2>4 DEF TypeInv
<1>4. QueueInv
  <2>1. QueuesInv
    BY <1>0, <1>1, RangeEmpty, BoundAssumption DEF QueuesInv
  <2>2. HandInv
    BY <1>2 DEF HandInv, Holding
  <2>3. WriterInv
    BY <1>0, RangeEmpty, BoundAssumption DEF Init, WriterInv
  <2> QED
    BY <2>1, <2>2, <2>3 DEF QueueInv
<1>5. LockInv
  BY <1>2, NameAssumption DEF Init, LockInv, Actor
<1>6. EraInv
  <2>1. TargetInv /\ OvertakenInv
    BY <1>2 DEF TargetInv, OvertakenInv, Actor
  <2>2. ClientInv /\ NoOldEraFrame
    BY NameAssumption DEF Init, ClientInv, NoOldEraFrame
  <2> QED
    BY <2>1, <2>2 DEF EraInv
<1>7. Range(frame) \subseteq {Metadata} /\ Frames \subseteq {Metadata}
  BY <1>0, <1>1, <1>2 DEF Range, Frames
<1>8. Known = {} /\ Sent = {}
  BY <1>1, <1>7, Kinds DEF Init, Known, Sent
<1>9. NumberInv
  <2>1. OrderInv
    BY <1>8 DEF OrderInv
  <2>2. NumberedInv
    BY <1>0, <1>1, <1>2 DEF Init, NumberedInv, Actor
  <2>3. PageInv
    BY DEF Init, PageInv
  <2> QED
    BY <2>1, <2>2, <2>3 DEF NumberInv
<1>10. NonceInv
  BY <1>1, <1>8 DEF Init, NonceInv
<1>11. OnceInv
  <2>1. Distinct(<<>>) /\ EventIds(<<>>) = {}
    BY EventIdsMove
  <2>2. \A a \in Actor : frame[a].kind # "event"
    BY <1>2, Kinds
  <2>3. InHand = {}
    BY <2>2 DEF InHand
  <2>4. PlaceInv
    BY <1>0, <1>1, <2>1, <2>2, <2>3 DEF PlaceInv
  <2>5. SeenInv
    BY <2>1 DEF Init, SeenInv
  <2> QED
    BY <2>4, <2>5 DEF OnceInv
<1>12. StaleInv /\ ComingInv
  BY DEF Init, StaleInv, ComingInv, Settling, Serving
<1> QED
  BY <1>3, <1>4, <1>5, <1>6, <1>9, <1>10, <1>11, <1>12 DEF StreamInv

\* and every step keeps it.
LEMMA Step == StreamInv /\ [Next]_vars => StreamInv'
<1> SUFFICES ASSUME StreamInv, [Next]_vars
             PROVE  StreamInv'
  OBVIOUS
<1>1. TypeInv /\ QueueInv /\ LockInv /\ EraInv /\ OnceInv
  BY DEF StreamInv
<1>2. TypeInv'
  BY <1>1, TypeStep
<1>3. QueueInv' /\ LockInv'
  BY <1>1, QueuesStep, HandStep, WriterStep DEF QueueInv
<1>4. EraInv'
  BY <1>1, TargetStep, OvertakenStep, ClientStep, OldEraStep DEF EraInv
<1>5. NumberInv' /\ NonceInv' /\ OnceInv' /\ StaleInv' /\ ComingInv'
  BY <1>2, NumberStep, NonceStep, OnceStep, StaleStep, ComingStep
<1> QED
  BY <1>2, <1>3, <1>4, <1>5 DEF StreamInv

\* Between any two steps of whoever takes part, the locks, the eras, the numbers, the places
\* of events and what is owed to the client stand in the relation StreamInv states.
THEOREM StreamInvariant == Spec => []StreamInv
  BY Start, Step, PTL DEF Spec

\* The size of an interval.
LEMMA IntervalSize ==
  ASSUME NEW n \in Nat
  PROVE  IsFiniteSet(1..n) /\ Cardinality(1..n) = n
<1>1. 1 \in Int /\ n \in Int
  OBVIOUS
<1>2. IsFiniteSet(1..n) /\ Cardinality(1..n) = IF 1 > n THEN 0 ELSE n - 1 + 1
  BY <1>1, FS_Interval, Zenon
<1>3. (IF 1 > n THEN 0 ELSE n - 1 + 1) = n
  OBVIOUS
<1> QED
  BY <1>2, <1>3

\* No effect is numbered twice, so that a view has no more of them than there are.
LEMMA ViewBounded ==
  ASSUME StreamInv, NEW c \in Conn
  PROVE  Len(live[c]) <= MaxEvents
<1> DEFINE s == live[c]
           ids == [i \in 1..Len(s) |-> s[i].id]
<1>1. /\ TypeInv /\ s \in Seq(EventFrame) /\ Distinct(s) /\ Len(s) \in Nat
      /\ applied \in 0..MaxEvents /\ MaxEvents \in Nat
  BY Ranges, BoundAssumption DEF StreamInv, TypeInv, BrowserType, SlotType, OnceInv, SeenInv
<1>2. \A i \in 1..Len(s) : s[i] \in Known /\ s[i].kind = "event"
  <2>1. \A i \in 1..Len(s) : s[i] \in Range(s)
    BY <1>1, Ranges
  <2>2. \A f \in Range(s) : f \in Known /\ f \in EventFrame
    BY <1>1, FramesAre
  <2> QED
    BY <2>1, <2>2, Kinds
<1>3. \A i \in 1..Len(s) : s[i].id \in 1..MaxEvents
  <2>1. \A f \in Known : f.id \in 1..applied
    BY DEF StreamInv, NumberInv, OrderInv
  <2> QED
    BY <1>1, <1>2, <2>1
<1>4. ids \in [1..Len(s) -> 1..MaxEvents] /\ \A i, j \in 1..Len(s) : ids[i] = ids[j] => i = j
  BY <1>1, <1>2, <1>3 DEF Distinct
<1> HIDE DEF ids
<1>5. ids \in Injection(1..Len(s), 1..MaxEvents)
  <2>1. DOMAIN ids = 1..Len(s)
    BY <1>4
  <2>2. IsInjective(ids)
    BY <1>4, <2>1 DEF IsInjective
  <2> QED
    BY <1>4, <2>2 DEF Injection
<1>6. IsFiniteSet(1..MaxEvents) /\ Cardinality(1..MaxEvents) = MaxEvents
  BY <1>1, IntervalSize
<1>7. Cardinality(1..Len(s)) = Len(s)
  BY <1>1, IntervalSize
<1> QED
  BY <1>5, <1>6, <1>7, FS_Injection

\* Every variable has its type, the frames of a queue and of a batch stay within
\* outQueueCapacity, and a view has no more events than there were effects.
THEOREM TypeCorrect == Spec => []TypeOK
<1>1. StreamInv => TypeOK
  <2> SUFFICES ASSUME StreamInv PROVE TypeOK
    OBVIOUS
  <2>0. TypeInv /\ QueueInv /\ NumberInv
    BY DEF StreamInv
  <2>1. /\ active \in BOOLEAN /\ activeWS \in Conn \cup {None} /\ applied \in 0..MaxEvents
        /\ ssMu \in Conn \cup Emitter \cup {None} /\ clock \in Nat /\ upsets \in 0..MaxUpsets
    BY <2>0 DEF TypeInv, SlotType, Actor
  <2>2. outQ = Len(queues) /\ outQ \in 1..outQ
    BY <2>0, QueueIs DEF TypeInv, QueueType
  <2>3. \A q \in 1..Len(queues) : Len(queues[q].frames) <= Capacity
    BY <2>0, <2>2 DEF QueueInv, QueuesInv
  <2>4. /\ pc \in [Conn \cup Emitter ->
             {"new", "era", "read", "loadQ", "page", "deactivate", "forget", "gone",
              "idle", "capture", "push"} \cup Dialling]
        /\ target \in [Conn \cup Emitter -> 0..Len(queues)]
    BY <2>0, <2>2 DEF TypeInv, PcType, HandType, Place, EmitterPlace, Actor
  <2>5. /\ up \in [Conn -> BOOLEAN] /\ writer \in {"take", "conn", "era", "write"}
        /\ writerWS \in Conn \cup {None} /\ writerQ \in 0..Len(queues) /\ Len(batch) <= Capacity
    BY <2>0, <2>2 DEF TypeInv, ConnType, WriterType, QueueInv, WriterInv
  <2>6. ASSUME NEW c \in Conn PROVE Len(live[c]) <= MaxEvents /\ has[c] \in 0..MaxEvents
    <3>1. has[c] \in Nat /\ has[c] <= applied
      BY <2>0 DEF TypeInv, BrowserType, NumberInv, PageInv
    <3> QED
      BY <2>1, <3>1, ViewBounded, BoundAssumption
  <2> QED
    BY <2>1, <2>2, <2>3, <2>4, <2>5, <2>6 DEF TypeOK
<1> QED
  BY <1>1, StreamInvariant, PTL

\* However many clients dial, leave and take over, no frame of an era before a
\* connection's own is written to it.
THEOREM OldErasStaySilent == Spec => []NoOldEraFrame
<1>1. StreamInv => NoOldEraFrame
  BY DEF StreamInv, EraInv
<1> QED
  BY <1>1, StreamInvariant, PTL

\* A client shows no event twice, and none that its page holds already.
THEOREM ShownOnce == Spec => []ViewOnce
<1>1. StreamInv => ViewOnce
  <2> SUFFICES ASSUME StreamInv, NEW c \in Conn, nonce[c] # 0, ~pending[c]
               PROVE  /\ \A i, j \in 1..Len(live[c]) : live[c][i].id = live[c][j].id => i = j
                      /\ \A i \in 1..Len(live[c]) : live[c][i].id > has[c]
    BY DEF ViewOnce
  <2>0. /\ TypeInv /\ live[c] \in Seq(EventFrame) /\ Distinct(live[c])
        /\ c \in Showing /\ pageSeq[c] \in Nat /\ has[c] \in Nat
    BY DEF StreamInv, TypeInv, BrowserType, OnceInv, SeenInv, Showing
  <2>1. ASSUME NEW i \in 1..Len(live[c])
        PROVE  live[c][i].kind = "event" /\ live[c][i].id > has[c]
    <3>1. live[c][i] \in Range(live[c])
      BY <2>0, Ranges
    <3>2. live[c][i] \in Known /\ live[c][i] \in EventFrame
      BY <2>0, <3>1, FramesAre
    <3>3. live[c][i].seq > pageSeq[c]
      BY <3>1, <2>0 DEF StreamInv, NumberInv, PageInv, Showing
    <3>4. After(live[c][i], has[c], pageSeq[c])
      BY <2>0, <3>2 DEF StreamInv, NumberInv, OrderInv
    <3> QED
      BY <3>2, <3>3, <3>4, Kinds DEF After
  <2> QED
    BY <2>0, <2>1 DEF Distinct
<1> QED
  BY <1>1, StreamInvariant, PTL

\* What the properties call settled the invariant does, and what it calls due is on its way.
LEMMA SettledIs ==
  ASSUME StreamInv, NEW c \in Conn, Settled(c)
  PROVE  /\ Covered(c)
         /\ \A f \in Way : OnItsWay(f) /\ f \in UNION {Range(queues[outQ].frames), Range(batch), Range(frame)}
<1>1. TypeInv /\ QueueInv /\ EraInv /\ StaleInv /\ ComingInv
  BY DEF StreamInv
<1>2. Settling(c)
  BY DEF Settled, Settling, Serving, MetadataComing, OnItsWay, Waiting
<1>3. writerQ # outQ => batch = <<>>
  BY <1>1, <1>2, SettledWriter
<1>4. ASSUME NEW f \in Way
      PROVE  OnItsWay(f) /\ f \in UNION {Range(queues[outQ].frames), Range(batch), Range(frame)}
  <2>1. CASE f \in Range(Waiting)
    BY <2>1 DEF Waiting, OnItsWay
  <2>2. CASE f \in Range(batch)
    BY <1>3, <2>2, RangeEmpty DEF OnItsWay
  <2>3. CASE f \in Pushing
    <3>1. PICK a \in Actor : pc[a] \in {"push", "page"} /\ target[a] = outQ /\ f = frame[a]
      BY <2>3 DEF Pushing
    <3>2. f \in Range(frame)
      BY <1>1, <3>1 DEF Range, TypeInv, HandType
    <3> QED
      BY <3>1, <3>2 DEF OnItsWay, Actor
  <2> QED
    BY <2>1, <2>2, <2>3 DEF Way
<1> QED
  BY <1>1, <1>2, <1>4 DEF ComingInv

\* The current client misses nothing: an effect that is not in its page is on its screen or
\* on its way to it.
THEOREM NothingIsMissed == Spec => []NothingMissed
<1>1. StreamInv => NothingMissed
  <2> SUFFICES ASSUME StreamInv, NEW c \in Conn, Shown(c), NEW i \in (has[c] + 1)..applied, i \notin Ids(live[c])
               PROVE  \/ \E e \in Emitter : frame[e].kind = "event" /\ frame[e].id = i /\ pc[e] = "capture"
                      \/ \E f \in UNION {Range(queues[outQ].frames), Range(batch), Range(frame)} :
                           f.kind = "event" /\ f.id = i /\ OnItsWay(f)
    BY DEF NothingMissed
  <2>1. /\ Covered(c)
        /\ \A f \in Way : OnItsWay(f) /\ f \in UNION {Range(queues[outQ].frames), Range(batch), Range(frame)}
    BY SettledIs DEF Shown
  <2>2. i \in Due
    BY <2>1 DEF Covered, Shown
  <2>3. CASE i \in Capturing
    <3>1. PICK e \in Emitter : pc[e] = "capture" /\ i = frame[e].id
      BY <2>3 DEF Capturing
    <3>2. frame[e].kind = "event"
      BY <3>1, Kinds DEF StreamInv, QueueInv, HandInv, Actor
    <3> QED
      BY <3>1, <3>2
  <2>4. CASE i \in {f.id : f \in {g \in Way : g.kind = "event"}}
    BY <2>1, <2>4
  <2> QED
    BY <2>2, <2>3, <2>4 DEF Due
<1> QED
  BY <1>1, StreamInvariant, PTL

\* A client that waits for its page gets it: its request or the page is on its way.
THEOREM PageComes == Spec => []PageComing
<1>1. StreamInv => PageComing
  <2> SUFFICES ASSUME StreamInv, NEW c \in Conn, Settled(c), pending[c]
               PROVE  \/ nonce[c] \in Range(asks[c])
                      \/ pc[c] = "loadQ" /\ frame[c].nonce = <<c, nonce[c]>>
                      \/ \E f \in UNION {Range(queues[outQ].frames), Range(batch), Range(frame)} :
                           f.kind = "page" /\ f.nonce = <<c, nonce[c]>> /\ OnItsWay(f)
    BY DEF PageComing
  <2>1. /\ Covered(c)
        /\ \A f \in Way : OnItsWay(f) /\ f \in UNION {Range(queues[outQ].frames), Range(batch), Range(frame)}
    BY SettledIs
  <2>2. CASE nonce[c] \in Range(asks[c])
    BY <2>2
  <2>3. CASE Answers(c) # {}
    <3>1. PICK f \in Answers(c) : TRUE
      BY <2>3
    <3>2. f.kind = "page" /\ f.nonce = <<c, nonce[c]>> /\ (f \in Way \/ (pc[c] = "loadQ" /\ f = frame[c]))
      BY <3>1 DEF Answers
    <3> QED
      BY <2>1, <3>2
  <2> QED
    BY <2>1, <2>2, <2>3 DEF Covered
<1> QED
  BY <1>1, StreamInvariant, PTL
=============================================================================
