-------------------------- MODULE EngineLoopProofs --------------------------
(***************************************************************************)
(* Proofs about EngineLoop, for every set of messages and every bound.     *)
(* What the turn loop does to the ownership state is one lemma             *)
(* (TurnFrame); every invariant is then shown action by action.            *)
(***************************************************************************)
EXTENDS EngineLoop, TLAPS

\* The labels a goroutine passes between its spawn and its deferred calls.
Body == PC \ {"begun", "done", "dropped"}

\* A step of the turn loop moves its own goroutine inside the body, leaves
\* ownership, kicks, submissions and the manual compaction alone, and takes
\* nothing but items out of the queue.
LEMMA TurnFrame ==
  ASSUME NEW g \in Gen, TypeOK, Turn(g)
  PROVE  /\ pc[g] \in Body \ {"exit"}
         /\ \E label \in Body : pc' = [pc EXCEPT ![g] = label]
         /\ attachments' \subseteq attachments
         /\ UNCHANGED <<own, ask, cancelled, kicks, client, manual, closed>>
<1> USE DEF Goto, Frame, Body, PC, own, conversation, kicks, manual, DrainUser
<1>1. CASE StartRun(g)
  BY <1>1 DEF StartRun
<1>2. CASE LoopHead(g)
  BY <1>2 DEF LoopHead
<1>3. CASE AutoCompact(g)
  BY <1>3 DEF AutoCompact
<1>4. CASE SendRequest(g) \/ CallFails(g)
  BY <1>4 DEF SendRequest, CallFails
<1>5. CASE StartRecovery(g) \/ Recover(g)
  BY <1>5 DEF StartRecovery, Recover
<1>6. CASE ContinueTruncated(g) \/ RespondFinal(g) \/ RespondTools(g)
  BY <1>6 DEF ContinueTruncated, RespondFinal, RespondTools
<1>7. CASE StopHookBlocks(g) \/ TerminalDrain(g) \/ Terminal(g)
  BY <1>7 DEF StopHookBlocks, TerminalDrain, Terminal
<1>8. CASE ToolsDone(g) \/ Boundary(g)
  BY <1>8 DEF ToolsDone, Boundary
<1> QED
  BY <1>1, <1>2, <1>3, <1>4, <1>5, <1>6, <1>7, <1>8 DEF Turn

\* What beginLocked leaves behind, for a question of the right type.
LEMMA BeginType ==
  ASSUME TypeOK, NEW question \in SUBSET Item, BeginLocked(question)
  PROVE  /\ activeGen' \in Nat /\ activeCancel' \in 0..activeGen'
         /\ closing' \in BOOLEAN /\ queryActive' \in BOOLEAN /\ compacting' \in BOOLEAN
         /\ pc' \in [Gen' -> PC] /\ ask' \in [Gen' -> SUBSET Item]
         /\ snap' \in [Gen' -> SUBSET Item] /\ cancelled' \subseteq Gen'
BY DEF BeginLocked, TypeOK, Gen, PC

\* Every variable has its type at the start.
LEMMA TypeInit == Init => TypeOK
<1> SUFFICES ASSUME Init PROVE TypeOK
  OBVIOUS
<1>1. Gen = {} /\ activeCancel \in 0..activeGen
  BY DEF Init, Gen
<1>2. pc \in [Gen -> PC] /\ ask \in [Gen -> SUBSET Item] /\ snap \in [Gen -> SUBSET Item]
  BY <1>1 DEF Init, Gen
<1> QED
  BY <1>1, <1>2 DEF Init, TypeOK, ClientState

\* A step of the turn loop keeps every type.
LEMMA TurnType ==
  ASSUME NEW g \in Gen, TypeOK, Turn(g)
  PROVE  TypeOK'
<1> USE DEF TypeOK, Goto, Frame, PC, Gen, own, conversation, kicks, manual, Item, UserItem
<1>1. CASE StartRun(g)
  BY <1>1 DEF StartRun
<1>2. CASE LoopHead(g)
  BY <1>2 DEF LoopHead
<1>3. CASE AutoCompact(g)
  BY <1>3 DEF AutoCompact, Swap
<1>4. CASE SendRequest(g)
  BY <1>4 DEF SendRequest
<1>5. CASE CallFails(g)
  BY <1>5 DEF CallFails
<1>6. CASE StartRecovery(g)
  BY <1>6 DEF StartRecovery
<1>7. CASE Recover(g)
  BY <1>7 DEF Recover, Swap
<1>8. CASE ContinueTruncated(g)
  BY <1>8 DEF ContinueTruncated
<1>15. CASE RespondTools(g)
  BY <1>15 DEF RespondTools
<1>9. CASE RespondFinal(g)
  BY <1>9 DEF RespondFinal
<1>10. CASE StopHookBlocks(g)
  BY <1>10 DEF StopHookBlocks, CountTurn
<1>11. CASE TerminalDrain(g)
  BY <1>11 DEF TerminalDrain, DrainUser
<1>12. CASE Terminal(g)
  BY <1>12 DEF Terminal, CountTurn
<1>13. CASE ToolsDone(g)
  BY <1>13 DEF ToolsDone, DrainUser
<1>14. CASE Boundary(g)
  BY <1>14 DEF Boundary, CountTurn
<1> QED
  BY <1>1, <1>2, <1>3, <1>4, <1>5, <1>6, <1>7, <1>8, <1>9, <1>10, <1>11, <1>12,
     <1>13, <1>14, <1>15 DEF Turn

\* Every step keeps every type.
LEMMA TypeStep == TypeOK /\ [Next]_vars => TypeOK'
<1> SUFFICES ASSUME TypeOK, [Next]_vars PROVE TypeOK'
  OBVIOUS
<1> kickLen + 1 \in Nat /\ 0 \in 0..activeGen
  BY DEF TypeOK
<1> USE DEF TypeOK, Gen, own, conversation, runs, kicks, manual
<1>1. ASSUME NEW g \in Gen, GoRun(g) PROVE TypeOK'
  BY <1>1 DEF GoRun, PC
<1>2. ASSUME NEW g \in Gen, EndQuery(g) PROVE TypeOK'
  <2>1. /\ activeCancel' \in 0..activeGen' /\ queryActive' \in BOOLEAN
        /\ kickLen' \in Nat
    <3>1. CASE g = activeGen
      BY <1>2, <3>1 DEF EndQuery
    <3>2. CASE g # activeGen
      BY <1>2, <3>2 DEF EndQuery
    <3> QED
      BY <3>1, <3>2
  <2>2. pc' \in [Gen' -> PC]
    BY <1>2 DEF EndQuery, PC
  <2>4. cancelled' \subseteq Gen'
    BY <1>2 DEF EndQuery
  <2>3. UNCHANGED <<closing, activeGen, compacting, attachments, conversation, ask,
                    snap, kickTry, client, manual, extra, closed>>
    BY <1>2 DEF EndQuery
  <2> QED
    BY <2>1, <2>2, <2>3, <2>4
<1>3. CASE KickLen
  BY <1>3 DEF KickLen
<1>4. CASE KickTry
  <2>1. CASE IsBusy \/ closing
    <3>1. UNCHANGED <<own, runs>> /\ kickTry' \in Nat
      BY <1>4, <2>1 DEF KickTry
    <3> QED
      BY <1>4, <3>1 DEF KickTry
  <2>2. CASE ~(IsBusy \/ closing)
    <3>1. BeginLocked({}) /\ kickTry' \in Nat
      BY <1>4, <2>2 DEF KickTry
    <3> QED
      BY <1>4, <3>1, BeginType DEF KickTry
  <2> QED
    BY <2>1, <2>2
<1>5. ASSUME NEW i \in Item, Submit(i) PROVE TypeOK'
  <2>1. CASE ReadBusy(i) \/ DispatchGate(i)
    BY <1>5, <2>1 DEF ReadBusy, DispatchGate, ClientState
  <2>2. CASE Query(i)
    <3>1. CASE closing
      BY <2>2, <3>1 DEF Query, ClientState
    <3>2. CASE ~closing
      <4>1. BeginLocked({i})
        BY <2>2, <3>2 DEF Query
      <4> QED
        BY <2>2, <3>2, <4>1, BeginType DEF Query, ClientState
    <3> QED
      BY <2>2, <3>1, <3>2
  <2>3. CASE EnqueueAttachment(i)
    BY <1>5, <2>3 DEF EnqueueAttachment, ClientState
  <2>4. CASE RemoveAttachment(i)
    BY <1>5, <2>4 DEF RemoveAttachment, ClientState
  <2> QED
    BY <1>5, <2>1, <2>2, <2>3, <2>4 DEF Submit
<1>6. CASE Compact
  <2>1. CASE BeginCompact
    BY <2>1 DEF BeginCompact
  <2>2. CASE ReadHistory
    BY <2>2 DEF ReadHistory
  <2>3. CASE FinishSummary
    <3>1. history' \subseteq Item /\ lost' \subseteq Item
      BY <2>3 DEF FinishSummary, Swap
    <3> QED
      BY <2>3, <3>1 DEF FinishSummary
  <2>4. CASE EndCompact
    BY <2>4 DEF EndCompact
  <2> QED
    BY <1>6, <2>1, <2>2, <2>3, <2>4 DEF Compact
<1>7. CASE Abort
  BY <1>7 DEF Abort
<1>8. CASE Close
  BY <1>8 DEF Close
<1>9. CASE CloseJoin
  BY <1>9 DEF CloseJoin
<1>10. CASE UNCHANGED vars
  BY <1>10 DEF vars
<1> QED
  BY <1>1, <1>2, <1>3, <1>4, <1>5, <1>6, <1>7, <1>8, <1>9, <1>10, TurnType
  DEF Next, Run

-----------------------------------------------------------------------------
(* Ownership: the busy flag, the cancel handle and the generation agree.   *)

Ownership == TypeOK /\ BusyIffOwned /\ OwnerAbortable

\* A fresh owner is busy and abortable, whoever it superseded.
LEMMA BeginOwnership ==
  ASSUME TypeOK, NEW question, BeginLocked(question)
  PROVE  BusyIffOwned' /\ OwnerAbortable'
BY DEF BeginLocked, TypeOK, BusyIffOwned, OwnerAbortable, Gen

\* No step breaks the ownership of the engine: who is busy, who can be aborted and what the
\* superseded runs may still do.
LEMMA OwnershipStep == Ownership /\ [Next]_vars => Ownership'
<1> SUFFICES ASSUME Ownership, [Next]_vars PROVE BusyIffOwned' /\ OwnerAbortable'
  BY TypeStep DEF Ownership
<1> USE DEF Ownership, BusyIffOwned, OwnerAbortable
<1>0. /\ activeGen \in Nat /\ pc \in [Gen -> PC] /\ cancelled \subseteq Gen
      /\ (activeGen > 0 => activeGen \in Gen)
  BY DEF TypeOK, Gen
<1>1. ASSUME NEW g \in Gen, GoRun(g) PROVE BusyIffOwned' /\ OwnerAbortable'
  BY <1>0, <1>1 DEF GoRun, own
<1>2. ASSUME NEW g \in Gen, Turn(g) PROVE BusyIffOwned' /\ OwnerAbortable'
  <2>1. pc[g] # "done" /\ \E label \in PC \ {"done"} : pc' = [pc EXCEPT ![g] = label]
    BY <1>2, TurnFrame DEF Body
  <2>2. UNCHANGED <<own, cancelled>>
    BY <1>2, TurnFrame
  <2> QED
    BY <1>0, <2>1, <2>2 DEF own
<1>3. ASSUME NEW g \in Gen, EndQuery(g) PROVE BusyIffOwned' /\ OwnerAbortable'
  <2>1. activeGen > 0
    BY <1>0 DEF Gen
  <2>2. CASE g = activeGen
    BY <1>0, <1>3, <2>1, <2>2 DEF EndQuery
  <2>3. CASE g # activeGen
    BY <1>0, <1>3, <2>1, <2>3 DEF EndQuery
  <2> QED
    BY <2>2, <2>3
<1>4. CASE KickLen
  BY <1>4 DEF KickLen, own, runs
<1>5. CASE KickTry
  <2>1. CASE IsBusy \/ closing
    BY <1>5, <2>1 DEF KickTry, own, runs
  <2>2. CASE ~(IsBusy \/ closing)
    BY <1>5, <2>2, BeginOwnership DEF KickTry
  <2> QED
    BY <2>1, <2>2
<1>6. ASSUME NEW i \in Item, Submit(i) PROVE BusyIffOwned' /\ OwnerAbortable'
  <2>1. CASE Query(i) /\ ~closing
    BY <2>1, BeginOwnership DEF Query
  <2>2. CASE Query(i) /\ closing
    BY <2>2 DEF Query, own, runs
  <2>3. CASE ReadBusy(i) \/ DispatchGate(i) \/ EnqueueAttachment(i) \/ RemoveAttachment(i)
    BY <2>3 DEF ReadBusy, DispatchGate, EnqueueAttachment, RemoveAttachment, own, runs
  <2> QED
    BY <1>6, <2>1, <2>2, <2>3 DEF Submit
<1>7. CASE Compact
  BY <1>7 DEF Compact, BeginCompact, ReadHistory, FinishSummary, EndCompact, own, runs
<1>8. CASE Abort
  BY <1>8 DEF Abort
<1>9. CASE Close
  BY <1>9 DEF Close
<1>10. CASE CloseJoin \/ UNCHANGED vars
  BY <1>10 DEF CloseJoin, vars, own, runs
<1> QED
  BY <1>1, <1>2, <1>3, <1>4, <1>5, <1>6, <1>7, <1>8, <1>9, <1>10 DEF Next, Run

\* The ownership invariant holds in every reachable state.
LEMMA OwnershipAlways == Spec => []Ownership
<1>1. Init => Ownership
  <2> SUFFICES ASSUME Init PROVE BusyIffOwned /\ OwnerAbortable
    BY TypeInit DEF Ownership
  <2> QED
    BY DEF Init, BusyIffOwned, OwnerAbortable
<1> QED
  BY <1>1, OwnershipStep, PTL DEF Spec

\* Every variable keeps its type, whatever the messages and bounds are.
THEOREM TypeCorrect == Spec => []TypeOK
BY OwnershipAlways, PTL DEF Ownership

\* The busy flag is set exactly while the newest run has not ended, however
\* many runs were taken over and in whatever order their endQuery calls come.
THEOREM BusyIsOwned == Spec => []BusyIffOwned
BY OwnershipAlways, PTL DEF Ownership

\* Abort and Close always reach the newest run, and nobody else.
THEOREM NewestIsAbortable == Spec => []OwnerAbortable
BY OwnershipAlways, PTL DEF Ownership

-----------------------------------------------------------------------------
(* Nothing queued is left behind, and nothing runs after a joined Close.   *)

\* No step leaves a queued item without somebody who will look at it.
LEMMA StrandedStep == TypeOK /\ NoStranded /\ [Next]_vars => NoStranded'
<1> SUFFICES ASSUME TypeOK, NoStranded, [Next]_vars PROVE NoStranded'
  OBVIOUS
<1> USE DEF NoStranded, IsBusy
<1>0. kickLen \in Nat /\ kickTry \in Nat
  BY DEF TypeOK
<1>1. ASSUME NEW g \in Gen, GoRun(g) PROVE NoStranded'
  BY <1>1 DEF GoRun, own, kicks
<1>2. ASSUME NEW g \in Gen, Turn(g) PROVE NoStranded'
  BY <1>2, TurnFrame DEF own, kicks
<1>3. ASSUME NEW g \in Gen, EndQuery(g) PROVE NoStranded'
  BY <1>0, <1>3 DEF EndQuery
<1>4. CASE KickLen
  <2>1. CASE attachments = {}
    BY <1>4, <2>1 DEF KickLen
  <2>2. CASE attachments # {}
    BY <1>0, <1>4, <2>2 DEF KickLen
  <2> QED
    BY <2>1, <2>2
<1>5. CASE KickTry
  <2>1. CASE IsBusy \/ closing
    BY <1>5, <2>1 DEF KickTry, own
  <2>2. CASE ~(IsBusy \/ closing)
    BY <1>5, <2>2 DEF KickTry, BeginLocked
  <2> QED
    BY <2>1, <2>2
<1>6. ASSUME NEW i \in Item, Submit(i) PROVE NoStranded'
  <2>1. CASE ReadBusy(i) \/ DispatchGate(i) \/ RemoveAttachment(i)
    BY <2>1 DEF ReadBusy, DispatchGate, RemoveAttachment, own, kicks
  <2>2. CASE EnqueueAttachment(i)
    BY <1>0, <2>2 DEF EnqueueAttachment
  <2>3. CASE Query(i)
    BY <2>3 DEF Query, BeginLocked, own, kicks
  <2> QED
    BY <1>6, <2>1, <2>2, <2>3 DEF Submit
<1>7. CASE Compact
  <2>1. CASE BeginCompact \/ ReadHistory \/ FinishSummary
    BY <2>1 DEF BeginCompact, ReadHistory, FinishSummary, own, kicks
  <2>2. CASE EndCompact
    BY <1>0, <2>2 DEF EndCompact
  <2> QED
    BY <1>7, <2>1, <2>2 DEF Compact
<1>8. CASE Abort \/ Close \/ CloseJoin \/ UNCHANGED vars
  BY <1>8 DEF Abort, Close, CloseJoin, vars, own, kicks
<1> QED
  BY <1>1, <1>2, <1>3, <1>4, <1>5, <1>6, <1>7, <1>8 DEF Next, Run

\* A queued item is never left with nobody who will look at it again.
THEOREM NothingStranded == Spec => []NoStranded
<1>1. Init => NoStranded
  BY DEF Init, NoStranded
<1> QED
  BY <1>1, StrandedStep, TypeCorrect, PTL DEF Spec

\* Spawned needs the spawn to be refused once closing is set, and closing to
\* be set before the join.
JoinInv == JoinedIsQuiet /\ (closed # "open" => closing)

\* No step lets a run start behind Close's back.
LEMMA JoinStep == TypeOK /\ JoinInv /\ [Next]_vars => JoinInv'
<1> SUFFICES ASSUME TypeOK, JoinInv, [Next]_vars PROVE JoinInv'
  OBVIOUS
<1> USE DEF JoinInv, JoinedIsQuiet, Spawned, Live
<1>0. pc \in [Gen -> PC]
  BY DEF TypeOK
<1>1. ASSUME NEW g \in Gen, GoRun(g) PROVE JoinInv'
  BY <1>0, <1>1 DEF GoRun, own, Gen
<1>2. ASSUME NEW g \in Gen, Turn(g) PROVE JoinInv'
  <2>1. Spawned(g) /\ \E label \in PC : pc' = [pc EXCEPT ![g] = label]
    BY <1>2, TurnFrame DEF Body, PC
  <2>2. UNCHANGED <<closing, activeGen, closed>>
    BY <1>2, TurnFrame DEF own
  <2> QED
    BY <1>0, <2>1, <2>2 DEF Gen
<1>3. ASSUME NEW g \in Gen, EndQuery(g) PROVE JoinInv'
  BY <1>0, <1>3 DEF EndQuery, Gen
<1>4. ASSUME NEW question, BeginLocked(question), UNCHANGED closed PROVE JoinInv'
  BY <1>4 DEF BeginLocked
<1>5. ASSUME UNCHANGED <<own, runs, closed>> PROVE JoinInv'
  BY <1>5 DEF own, runs, Gen
<1>6. CASE KickLen \/ KickTry
  BY <1>4, <1>5, <1>6 DEF KickLen, KickTry
<1>7. ASSUME NEW i \in Item, Submit(i) PROVE JoinInv'
  BY <1>4, <1>5, <1>7
  DEF Submit, ReadBusy, DispatchGate, Query, EnqueueAttachment, RemoveAttachment
<1>8. CASE Compact
  BY <1>8 DEF Compact, BeginCompact, ReadHistory, FinishSummary, EndCompact, own, runs, Gen
<1>9. CASE Abort \/ Close
  BY <1>9 DEF Abort, Close, Gen
<1>10. CASE CloseJoin
  BY <1>10 DEF CloseJoin, own, runs, Gen
<1>11. CASE UNCHANGED vars
  BY <1>5, <1>11 DEF vars
<1> QED
  BY <1>1, <1>2, <1>3, <1>6, <1>7, <1>8, <1>9, <1>10, <1>11 DEF Next, Run

\* Once Close has joined its goroutines none is left and none starts, also
\* when a query had taken its token before Close and is spawned after it.
THEOREM CloseJoins == Spec => []JoinedIsQuiet
<1>1. Init => JoinInv
  BY DEF Init, JoinInv, JoinedIsQuiet
<1>2. JoinInv => JoinedIsQuiet
  BY DEF JoinInv
<1> QED
  BY <1>1, <1>2, JoinStep, TypeCorrect, PTL DEF Spec

-----------------------------------------------------------------------------
(* An engine whose messages all come through EnqueueAttachment.            *)

\* No goroutine is past a busy check with a query in hand; only the owner is
\* alive; and a compaction and a run exclude each other.
SerialInv ==
  /\ \A i \in Item : client[i] \notin {"readIdle", "readBusy", "query"}
  /\ \A g \in Gen : Live(g) => g = activeGen
  /\ compacting <=> compactor # "idle"
  /\ ~(compacting /\ queryActive)

\* Where no query takes over, no step gives the engine to a second run or compaction.
LEMMA SerialStep ==
  ASSUME Direct = {}
  PROVE  Ownership /\ SerialInv /\ [Next]_vars => SerialInv'
<1> SUFFICES ASSUME Ownership, SerialInv, [Next]_vars PROVE SerialInv'
  OBVIOUS
<1> USE DEF SerialInv, Live
<1>0. /\ pc \in [Gen -> PC] /\ activeGen \in Nat /\ client \in [Item -> ClientState]
      /\ (activeGen > 0 => activeGen \in Gen)
      /\ (queryActive <=> (activeGen > 0 /\ pc[activeGen] # "done"))
      /\ TypeOK
  BY DEF Ownership, BusyIffOwned, TypeOK, Gen
<1>1. ASSUME NEW g \in Gen, GoRun(g) PROVE SerialInv'
  BY <1>0, <1>1 DEF GoRun, own, manual, Gen
<1>2. ASSUME NEW g \in Gen, Turn(g) PROVE SerialInv'
  <2>1. Live(g) /\ \E label \in PC : pc' = [pc EXCEPT ![g] = label]
    BY <1>0, <1>2, TurnFrame DEF Body, PC
  <2>2. UNCHANGED <<own, client, manual>>
    BY <1>0, <1>2, TurnFrame
  <2> QED
    BY <1>0, <2>1, <2>2 DEF own, manual, Gen
<1>3. ASSUME NEW g \in Gen, EndQuery(g) PROVE SerialInv'
  BY <1>0, <1>3 DEF EndQuery, manual, Gen
<1>4. CASE KickLen
  BY <1>4 DEF KickLen, own, runs, manual, Gen
<1>5. CASE KickTry
  <2>1. CASE IsBusy \/ closing
    BY <1>5, <2>1 DEF KickTry, own, runs, manual, Gen
  <2>2. CASE ~(IsBusy \/ closing)
    <3>1. ~queryActive /\ ~compacting /\ BeginLocked({})
      BY <1>5, <2>2 DEF KickTry, IsBusy
    <3>2. \A g \in Gen : ~Live(g)
      BY <1>0, <3>1 DEF Gen
    <3> QED
      BY <1>0, <1>5, <3>1, <3>2 DEF KickTry, BeginLocked, manual, Gen
  <2> QED
    BY <2>1, <2>2
<1>6. ASSUME NEW i \in Item, Submit(i) PROVE SerialInv'
  BY <1>0, <1>6 DEF Submit, ReadBusy, DispatchGate, Query, EnqueueAttachment,
                    RemoveAttachment, own, runs, manual, Gen
<1>7. CASE Compact
  <2>1. CASE BeginCompact
    BY <2>1 DEF BeginCompact, IsBusy, runs, Gen
  <2>2. CASE ReadHistory \/ FinishSummary
    BY <2>2 DEF ReadHistory, FinishSummary, own, runs, Gen
  <2>3. CASE EndCompact
    BY <2>3 DEF EndCompact, runs, Gen
  <2> QED
    BY <1>7, <2>1, <2>2, <2>3 DEF Compact
<1>8. CASE Abort \/ Close \/ CloseJoin \/ UNCHANGED vars
  BY <1>8 DEF Abort, Close, CloseJoin, vars, own, runs, manual, Gen
<1> QED
  BY <1>1, <1>2, <1>3, <1>4, <1>5, <1>6, <1>7, <1>8 DEF Next, Run

\* The serial invariant holds in every reachable state where no query takes over.
LEMMA SerialAlways ==
  ASSUME Direct = {} PROVE Spec => [](Ownership /\ SerialInv)
<1>1. Init => SerialInv
  BY DEF Init, SerialInv, Gen
<1>2. Ownership /\ SerialInv /\ [Next]_vars => SerialInv'
  BY SerialStep
<1> QED
  BY <1>1, <1>2, OwnershipAlways, PTL DEF Spec

\* Without a client that asks first and queries later, one run or one
\* compaction has the engine at a time.
THEOREM SerialExclusive ==
  ASSUME Direct = {} PROVE Spec => []Exclusive
<1>1. Ownership /\ SerialInv => Exclusive
  <2> SUFFICES ASSUME Ownership, SerialInv PROVE Exclusive
    OBVIOUS
  <2>1. SingleLoop
    BY DEF SerialInv, SingleLoop
  <2>2. ASSUME compacting, NEW g \in Gen, Live(g) PROVE FALSE
    BY <2>2 DEF SerialInv, Ownership, BusyIffOwned, TypeOK, Live, Gen
  <2> QED
    BY <2>1, <2>2 DEF Exclusive
<1> QED
  BY <1>1, SerialAlways, PTL

-----------------------------------------------------------------------------
(* In such an engine the conversation is complete and answered.            *)

\* Summaries are of the whole history, since nobody else appends while they
\* are made; and from the request on, what is attached has been sent, but for
\* what the unaddressed flag announces.
ConversationInv ==
  /\ lost = {}
  /\ compactor = "summarising" => compactSnap = history
  /\ \A g \in Gen :
       /\ pc[g] \in {"autosum", "resum"} => snap[g] = history
       /\ pc[g] \in {"llm", "resum", "final"} => history \subseteq sent
       /\ pc[g] = "check" => unaddressed \/ history \subseteq sent

\* A step of the turn loop loses nothing of the conversation.
LEMMA ConversationTurn ==
  ASSUME TypeOK, SerialInv, ConversationInv, queryActive, NEW g \in Gen, Turn(g)
  PROVE  ConversationInv'
<1> USE DEF ConversationInv, Goto, Frame, own, manual, conversation
<1>0. /\ g = activeGen
      /\ compactor = "idle"
      /\ pc \in [Gen -> PC] /\ snap \in [Gen -> SUBSET Item]
      /\ \A h \in Gen : h # g => pc[h] \in {"done", "dropped"}
  BY TurnFrame DEF SerialInv, Live, TypeOK, Body
<1> USE DEF Gen
<1>1. CASE StartRun(g)
  BY <1>0, <1>1 DEF StartRun
<1>2. CASE LoopHead(g)
  BY <1>0, <1>2 DEF LoopHead
<1>3. CASE AutoCompact(g)
  BY <1>0, <1>3 DEF AutoCompact, Swap
<1>4. CASE SendRequest(g)
  BY <1>0, <1>4 DEF SendRequest
<1>5. CASE CallFails(g)
  BY <1>0, <1>5 DEF CallFails
<1>6. CASE StartRecovery(g)
  BY <1>0, <1>6 DEF StartRecovery
<1>7. CASE Recover(g)
  BY <1>0, <1>7 DEF Recover, Swap
<1>8. CASE ContinueTruncated(g)
  BY <1>0, <1>8 DEF ContinueTruncated
<1>9. CASE RespondFinal(g)
  BY <1>0, <1>9 DEF RespondFinal
<1>10. CASE RespondTools(g)
  BY <1>0, <1>10 DEF RespondTools
<1>11. CASE StopHookBlocks(g)
  BY <1>0, <1>11 DEF StopHookBlocks
<1>12. CASE TerminalDrain(g)
  BY <1>0, <1>12 DEF TerminalDrain, DrainUser
<1>13. CASE Terminal(g)
  BY <1>0, <1>13 DEF Terminal
<1>14. CASE ToolsDone(g)
  BY <1>0, <1>14 DEF ToolsDone, DrainUser
<1>15. CASE Boundary(g)
  BY <1>0, <1>15 DEF Boundary
<1> QED
  BY <1>1, <1>2, <1>3, <1>4, <1>5, <1>6, <1>7, <1>8, <1>9, <1>10, <1>11, <1>12,
     <1>13, <1>14, <1>15 DEF Turn

\* No step loses anything of the conversation, where no query takes over.
LEMMA ConversationStep ==
  ASSUME Direct = {}
  PROVE  Ownership /\ SerialInv /\ ConversationInv /\ [Next]_vars => ConversationInv'
<1> SUFFICES ASSUME Ownership, SerialInv, ConversationInv, [Next]_vars
             PROVE  ConversationInv'
  OBVIOUS
<1>0. /\ TypeOK /\ pc \in [Gen -> PC]
      /\ (queryActive <=> (activeGen > 0 /\ pc[activeGen] # "done"))
  BY DEF Ownership, BusyIffOwned, TypeOK
<1> USE DEF ConversationInv
<1>1. ASSUME NEW g \in Gen, GoRun(g) PROVE ConversationInv'
  BY <1>0, <1>1 DEF GoRun, own, manual, conversation, Gen
<1>2. ASSUME NEW g \in Gen, Turn(g) PROVE ConversationInv'
  <2>1. queryActive
    BY <1>0, <1>2, TurnFrame DEF SerialInv, Live, Body, TypeOK, Gen
  <2> QED
    BY <1>0, <1>2, <2>1, ConversationTurn
<1>3. ASSUME NEW g \in Gen, EndQuery(g) PROVE ConversationInv'
  BY <1>0, <1>3 DEF EndQuery, manual, conversation, Gen
<1>4. ASSUME UNCHANGED <<conversation, manual>>,
             \/ UNCHANGED <<activeGen, runs>>
             \/ BeginLocked({})
      PROVE  ConversationInv'
  BY <1>0, <1>4 DEF BeginLocked, runs, manual, conversation, Gen
<1>5. CASE KickLen \/ KickTry
  BY <1>4, <1>5 DEF KickLen, KickTry, own
<1>6. ASSUME NEW i \in Item, Submit(i) PROVE ConversationInv'
  BY <1>4, <1>6 DEF SerialInv, Submit, ReadBusy, DispatchGate, Query, EnqueueAttachment,
                    RemoveAttachment, own
<1>7. CASE Compact
  <2>1. CASE BeginCompact \/ EndCompact
    BY <2>1 DEF BeginCompact, EndCompact, conversation, runs, Gen
  <2>2. CASE ReadHistory
    BY <2>2 DEF ReadHistory, conversation, own, runs, Gen
  <2>3. CASE FinishSummary
    <3>1. history' = history /\ lost' = {}
      BY <2>3 DEF FinishSummary, Swap
    <3> QED
      BY <2>3, <3>1 DEF FinishSummary, own, runs, Gen
  <2> QED
    BY <1>7, <2>1, <2>2, <2>3 DEF Compact
<1>8. CASE Abort \/ Close
  BY <1>8 DEF Abort, Close, conversation, manual, Gen
<1>9. CASE CloseJoin \/ UNCHANGED vars
  BY <1>4, <1>9 DEF CloseJoin, vars, own
<1> QED
  BY <1>1, <1>2, <1>3, <1>5, <1>6, <1>7, <1>8, <1>9 DEF Next, Run

\* The conversation invariant holds in every reachable state where no query takes over.
LEMMA ConversationAlways ==
  ASSUME Direct = {} PROVE Spec => []ConversationInv
<1>1. Init => ConversationInv
  BY DEF Init, ConversationInv, Gen
<1>2. Ownership /\ SerialInv /\ ConversationInv /\ [Next]_vars => ConversationInv'
  BY ConversationStep
<1> QED
  BY <1>1, <1>2, SerialAlways, PTL DEF Spec

\* No compaction, manual or the loop's own, drops a message it did not read.
THEOREM SerialNothingLost ==
  ASSUME Direct = {} PROVE Spec => []NothingLost
<1>1. ConversationInv => NothingLost
  BY DEF ConversationInv, NothingLost
<1> QED
  BY <1>1, ConversationAlways, PTL

\* A run only ends by answering when the model has seen everything attached.
THEOREM SerialEndsAnswered ==
  ASSUME Direct = {} PROVE Spec => EndsAnswered
<1>1. ConversationInv /\ TypeOK /\ [Next]_vars =>
        [\A g \in Gen : pc[g] = "check" /\ pc'[g] = "exit" => history \subseteq sent]_vars
  <2> SUFFICES ASSUME ConversationInv, TypeOK, Next, NEW g \in Gen,
                      pc[g] = "check", pc'[g] = "exit", unaddressed
               PROVE  FALSE
    BY DEF ConversationInv
  <2>0. pc \in [Gen -> PC]
    BY DEF TypeOK
  <2>1. ASSUME NEW h \in Gen, Run(h) PROVE FALSE
    <3>1. CASE h = g
      BY <2>0, <2>1, <3>1
      DEF Run, GoRun, EndQuery, Turn, Goto, StartRun, LoopHead, AutoCompact, SendRequest,
          CallFails, StartRecovery, Recover, ContinueTruncated, RespondFinal, RespondTools,
          StopHookBlocks, TerminalDrain, Terminal, ToolsDone, Boundary
    <3>2. CASE h # g
      <4>1. \E label : pc' = [pc EXCEPT ![h] = label]
        BY <2>1, TurnFrame DEF Run, GoRun, EndQuery
      <4> QED
        BY <2>0, <3>2, <4>1
    <3> QED
      BY <3>1, <3>2
  <2>2. ASSUME NEW question, BeginLocked(question) PROVE FALSE
    BY <2>2 DEF BeginLocked, Gen, TypeOK
  <2>3. ASSUME UNCHANGED pc PROVE FALSE
    BY <2>3
  <2> QED
    BY <2>1, <2>2, <2>3
    DEF Next, KickLen, KickTry, Submit, ReadBusy, DispatchGate, Query, EnqueueAttachment,
        RemoveAttachment, Compact, BeginCompact, ReadHistory, FinishSummary, EndCompact,
        Abort, Close, CloseJoin, runs
<1> QED
  BY <1>1, ConversationAlways, TypeCorrect, PTL DEF EndsAnswered, Spec

-----------------------------------------------------------------------------
(* The ownership state implements the lock with takeover.                  *)

\* Every step maps to a step of the lock with takeover, or to a stutter.
LEMMA LockStep ==
  Ownership /\ [Next]_vars => [Lock!LockNext]_(Lock!lockVars)
<1> SUFFICES ASSUME Ownership, [Next]_vars
             PROVE  Lock!LockNext \/ UNCHANGED Lock!lockVars
  OBVIOUS
<1> USE DEF Lock!LockNext, Lock!lockVars
<1>0. /\ TypeOK /\ activeGen \in Nat
      /\ (queryActive <=> (activeGen > 0 /\ pc[activeGen] # "done"))
      /\ (activeCancel # 0 => activeCancel = activeGen /\ queryActive)
  BY DEF Ownership, BusyIffOwned, OwnerAbortable, TypeOK
<1>1. ASSUME UNCHANGED own PROVE UNCHANGED Lock!lockVars
  BY <1>1 DEF own
<1>2. ASSUME NEW question, BeginLocked(question) PROVE Lock!Acquire
  BY <1>0, <1>2 DEF BeginLocked, Lock!Acquire
<1>3. ASSUME NEW g \in Gen, Run(g) PROVE Lock!LockNext \/ UNCHANGED Lock!lockVars
  <2>1. CASE GoRun(g)
    BY <1>1, <2>1 DEF GoRun
  <2>2. CASE Turn(g)
    BY <1>0, <1>1, <2>2, TurnFrame
  <2>3. CASE EndQuery(g) /\ g = activeGen
    BY <1>0, <2>3 DEF EndQuery, Lock!Release, Gen
  <2>4. CASE EndQuery(g) /\ g # activeGen
    BY <2>4 DEF EndQuery
  <2> QED
    BY <1>3, <2>1, <2>2, <2>3, <2>4 DEF Run
<1>4. CASE KickLen \/ KickTry
  BY <1>1, <1>2, <1>4 DEF KickLen, KickTry
<1>5. ASSUME NEW i \in Item, Submit(i) PROVE Lock!LockNext \/ UNCHANGED Lock!lockVars
  BY <1>1, <1>2, <1>5 DEF Submit, ReadBusy, DispatchGate, Query, EnqueueAttachment,
                          RemoveAttachment
<1>6. CASE Compact
  BY <1>6 DEF Compact, BeginCompact, ReadHistory, FinishSummary, EndCompact, own
<1>7. CASE Abort
  BY <1>7 DEF Abort, Lock!Interrupt
<1>8. CASE Close
  BY <1>8 DEF Close, Lock!Seal
<1>9. CASE CloseJoin \/ UNCHANGED vars
  BY <1>1, <1>9 DEF CloseJoin, vars
<1> QED
  BY <1>3, <1>4, <1>5, <1>6, <1>7, <1>8, <1>9 DEF Next

\* Tokens, busy flag and cancel handle together are a lock that a newer owner
\* may take over and that a superseded owner can no longer release.
THEOREM OwnershipIsALock == Spec => ImplementsLock
<1>1. Init => Lock!LockInit
  BY DEF Init, Lock!LockInit
<1> QED
  BY <1>1, LockStep, OwnershipAlways, PTL DEF Spec, ImplementsLock, Lock!LockSpec

-----------------------------------------------------------------------------
(* The queue and its drains implement the mailbox.                         *)

\* What the conversation has taken in, summarised away or not.
Taken == history \cup lost

\* An item is in the queue or in the conversation and not in both; one that is
\* not submitted yet, or was taken back, is in neither and is nobody's
\* question; a question bypasses the queue; and a summary is of items the
\* conversation has.
MailInv ==
  /\ attachments \cap Taken = {}
  /\ \A i \in Item : client[i] # "sent" =>
       i \notin attachments \cup Taken /\ \A g \in Gen : i \notin ask[g]
  /\ \A g \in Gen :
       /\ ask[g] \cap attachments = {}
       /\ ask[g] = {} \/ \E i \in Item : ask[g] = {i}
       /\ snap[g] \subseteq Taken
  /\ compactSnap \subseteq Taken

\* A swap changes which items the summary names, not which the conversation
\* has taken in.
LEMMA SwapTakes ==
  ASSUME NEW S, S \subseteq Taken, Swap(S)
  PROVE  Taken' = Taken
BY DEF Swap, Taken

\* A step of the turn loop attaches exactly what it takes out of the queue, or
\* the run's own question; and every summary stays one of attached items.
LEMMA TurnTakes ==
  ASSUME TypeOK, MailInv, NEW g \in Gen, Turn(g)
  PROVE  /\ \/ Taken' = Taken \cup (attachments \ attachments')
            \/ attachments' = attachments /\ Taken' = Taken \cup ask[g]
         /\ attachments' \subseteq attachments
         /\ \A h \in Gen : snap'[h] \subseteq Taken'
<1>0. /\ snap \in [Gen -> SUBSET Item] /\ attachments' \subseteq attachments
      /\ \A h \in Gen : snap[h] \subseteq Taken
      /\ history \subseteq Taken
  BY TurnFrame DEF TypeOK, MailInv, Taken
<1> DEFINE Result ==
      /\ \/ Taken' = Taken \cup (attachments \ attachments')
         \/ attachments' = attachments /\ Taken' = Taken \cup ask[g]
      /\ \A h \in Gen : snap'[h] \subseteq Taken'
<1>1. ASSUME UNCHANGED <<attachments, history, lost, snap>> PROVE Result
  BY <1>0, <1>1 DEF Taken
<1>2. CASE StartRun(g)
  <2>1. UNCHANGED <<lost, snap>>
    BY <1>2 DEF StartRun
  <2>2. \/ history' = history \cup ask[g] /\ attachments' = attachments
        \/ history' = history \cup attachments /\ attachments' = {}
    BY <1>2 DEF StartRun
  <2>3. \/ attachments' = attachments /\ Taken' = Taken \cup ask[g]
        \/ Taken' = Taken \cup (attachments \ attachments')
    BY <2>1, <2>2 DEF Taken
  <2>4. Taken \subseteq Taken'
    BY <2>3
  <2> QED
    BY <1>0, <2>1, <2>3, <2>4
<1>3. CASE LoopHead(g)
  <2>1. UNCHANGED <<attachments, history, lost>> /\ Taken' = Taken
    BY <1>3 DEF LoopHead, Taken
  <2>2. snap' = snap \/ snap' = [snap EXCEPT ![g] = history]
    BY <1>3 DEF LoopHead
  <2> QED
    BY <1>0, <2>1, <2>2
<1>4. CASE AutoCompact(g) \/ Recover(g)
  <2>1. UNCHANGED attachments /\ snap' = [snap EXCEPT ![g] = {}]
    BY <1>4 DEF AutoCompact, Recover
  <2>2. Swap(snap[g]) \/ UNCHANGED <<history, lost>>
    BY <1>4 DEF AutoCompact, Recover
  <2>3. Taken' = Taken
    BY <1>0, <2>2, SwapTakes DEF Taken
  <2> QED
    BY <1>0, <2>1, <2>3
<1>5. CASE StartRecovery(g)
  <2>1. UNCHANGED <<attachments, history, lost>> /\ Taken' = Taken
    BY <1>5 DEF StartRecovery, conversation, Taken
  <2>2. snap' = [snap EXCEPT ![g] = history]
    BY <1>5 DEF StartRecovery
  <2> QED
    BY <1>0, <2>1, <2>2
<1>6. CASE SendRequest(g) \/ CallFails(g) \/ ContinueTruncated(g) \/ RespondFinal(g)
  BY <1>1, <1>6 DEF SendRequest, CallFails, ContinueTruncated, RespondFinal, conversation
<1>7. CASE RespondTools(g) \/ StopHookBlocks(g) \/ Terminal(g)
  BY <1>1, <1>7 DEF RespondTools, StopHookBlocks, Terminal, conversation
<1>8. ASSUME attachments' = attachments \ UserItem,
             history' = history \cup (attachments \cap UserItem),
             UNCHANGED <<lost, snap>>
      PROVE  Result
  <2>1. Taken' = Taken \cup (attachments \cap UserItem)
    BY <1>8 DEF Taken
  <2>2. attachments \ attachments' = attachments \cap UserItem
    BY <1>8
  <2> QED
    BY <1>0, <1>8, <2>1, <2>2
<1>9. CASE TerminalDrain(g)
  BY <1>8, <1>9 DEF TerminalDrain, DrainUser
<1>10. CASE ToolsDone(g)
  BY <1>1, <1>8, <1>10 DEF ToolsDone, DrainUser, conversation
<1>11. CASE Boundary(g)
  <2>1. Taken' = Taken \cup (attachments \ Later) /\ UNCHANGED snap
    BY <1>11 DEF Boundary, Taken
  <2>2. attachments \ attachments' = attachments \ Later
    BY <1>11 DEF Boundary
  <2> QED
    BY <1>0, <2>1, <2>2
<1>12. Result
  BY <1>2, <1>3, <1>4, <1>5, <1>6, <1>7, <1>9, <1>10, <1>11 DEF Turn
<1> QED
  BY <1>0, <1>12

\* The mailbox invariant needs nothing of a step that leaves the queue, the
\* conversation, the runs' questions and the submissions alone.
LEMMA MailFrame ==
  ASSUME MailInv,
         UNCHANGED <<attachments, history, lost, client, activeGen, ask, snap, compactSnap>>
  PROVE  MailInv'
BY DEF MailInv, Taken, Gen

\* A new run asks nothing, or something that was neither queued nor attached.
LEMMA MailBegin ==
  ASSUME TypeOK, MailInv, NEW question \in SUBSET Item, BeginLocked(question),
         UNCHANGED <<attachments, history, lost, compactSnap>>,
         \/ question = {} /\ UNCHANGED client
         \/ \E i \in Item : /\ question = {i} /\ client[i] # "sent"
                            /\ client' = [client EXCEPT ![i] = "sent"]
  PROVE  MailInv'
<1>0. activeGen \in Nat /\ client \in [Item -> ClientState]
  BY DEF TypeOK
<1>1. /\ activeGen' = activeGen + 1
      /\ ask' = [h \in 1..activeGen + 1 |-> IF h \in Gen THEN ask[h] ELSE question]
      /\ snap' = [h \in 1..activeGen + 1 |-> IF h \in Gen THEN snap[h] ELSE {}]
  BY DEF BeginLocked
<1>2. /\ Gen' = 1..activeGen + 1
      /\ \A h \in Gen' : ask'[h] = (IF h \in Gen THEN ask[h] ELSE question)
      /\ \A h \in Gen' : snap'[h] = (IF h \in Gen THEN snap[h] ELSE {})
  BY <1>1 DEF Gen
<1>3. question \cap attachments = {} /\ (question = {} \/ \E i \in Item : question = {i})
  BY DEF MailInv
<1>4. Taken' = Taken /\ attachments' = attachments /\ compactSnap' = compactSnap
  BY DEF Taken
<1>5. \A h \in Gen' :
        /\ ask'[h] \cap attachments' = {}
        /\ ask'[h] = {} \/ \E i \in Item : ask'[h] = {i}
        /\ snap'[h] \subseteq Taken'
  BY <1>2, <1>3, <1>4 DEF MailInv
<1>6. ASSUME NEW j \in Item, client'[j] # "sent"
      PROVE  j \notin attachments' \cup Taken' /\ \A h \in Gen' : j \notin ask'[h]
  <2>1. client[j] # "sent" /\ j \notin question
    BY <1>0, <1>6
  <2> QED
    BY <1>2, <1>4, <2>1 DEF MailInv
<1> QED
  BY <1>4, <1>5, <1>6 DEF MailInv

\* No step breaks the mailbox invariant.
LEMMA MailStep == TypeOK /\ MailInv /\ [Next]_vars => MailInv'
<1> SUFFICES ASSUME TypeOK, MailInv, [Next]_vars PROVE MailInv'
  OBVIOUS
<1>0. client \in [Item -> ClientState] /\ ask \in [Gen -> SUBSET Item]
  BY DEF TypeOK
<1>1. ASSUME NEW g \in Gen, GoRun(g) \/ EndQuery(g) PROVE MailInv'
  BY <1>1, MailFrame DEF GoRun, EndQuery, own, conversation, manual
<1>2. ASSUME NEW g \in Gen, Turn(g) PROVE MailInv'
  <2>1. UNCHANGED <<activeGen, ask, client, compactSnap>>
    BY <1>2, TurnFrame DEF own, manual
  <2>2. /\ \/ Taken' = Taken \cup (attachments \ attachments')
           \/ attachments' = attachments /\ Taken' = Taken \cup ask[g]
        /\ attachments' \subseteq attachments
        /\ \A h \in Gen : snap'[h] \subseteq Taken'
    BY <1>2, TurnTakes
  <2>3. attachments' \cap Taken' = {}
    BY <2>2 DEF MailInv
  <2>4. ASSUME NEW j \in Item, client[j] # "sent"
        PROVE  j \notin attachments' \cup Taken' /\ \A h \in Gen : j \notin ask[h]
    BY <2>2, <2>4 DEF MailInv
  <2>5. compactSnap \subseteq Taken'
    BY <2>2 DEF MailInv
  <2>6. \A h \in Gen : /\ ask[h] \cap attachments' = {}
                       /\ ask[h] = {} \/ \E i \in Item : ask[h] = {i}
    BY <2>2 DEF MailInv
  <2>7. Gen' = Gen
    BY <2>1 DEF Gen
  <2> QED
    BY <2>1, <2>2, <2>3, <2>4, <2>5, <2>6, <2>7 DEF MailInv
<1>3. CASE KickLen
  BY <1>3, MailFrame DEF KickLen, own, conversation, runs, manual
<1>4. CASE KickTry
  <2>1. CASE IsBusy \/ closing
    BY <1>4, <2>1, MailFrame DEF KickTry, own, conversation, runs, manual
  <2>2. CASE ~(IsBusy \/ closing)
    BY <1>4, <2>2, MailBegin DEF KickTry, conversation, manual
  <2> QED
    BY <2>1, <2>2
<1>5. ASSUME NEW i \in Item, Submit(i) PROVE MailInv'
  <2>1. CASE Query(i) /\ ~closing
    <3>1. BeginLocked({i}) /\ UNCHANGED <<attachments, history, lost, compactSnap>>
      BY <2>1 DEF Query, conversation, manual
    <3>2. client[i] # "sent" /\ client' = [client EXCEPT ![i] = "sent"]
      BY <2>1 DEF Query
    <3> QED
      BY <3>1, <3>2, MailBegin
  <2>2. ASSUME UNCHANGED <<attachments, history, lost, activeGen, ask, snap, compactSnap>>,
               client[i] # "sent", NEW state, client' = [client EXCEPT ![i] = state]
        PROVE  MailInv'
    BY <1>0, <2>2 DEF MailInv, Taken, Gen
  <2>3. CASE Query(i) /\ closing
    BY <2>2, <2>3 DEF Query, own, conversation, runs, manual
  <2>4. CASE ReadBusy(i) \/ DispatchGate(i)
    <3>1. /\ client[i] # "sent"
          /\ \E state : client' = [client EXCEPT ![i] = state]
      BY <2>4 DEF ReadBusy, DispatchGate
    <3> QED
      BY <2>2, <2>4, <3>1 DEF ReadBusy, DispatchGate, own, conversation, runs, manual
  <2>5. CASE EnqueueAttachment(i)
    <3>1. /\ client[i] # "sent" /\ client' = [client EXCEPT ![i] = "sent"]
          /\ attachments' = attachments \cup {i}
          /\ UNCHANGED <<history, lost, activeGen, ask, snap, compactSnap>>
      BY <2>5 DEF EnqueueAttachment, own, conversation, runs, manual
    <3>2. i \notin Taken /\ \A g \in Gen : i \notin ask[g]
      BY <3>1 DEF MailInv
    <3>3. \A j \in Item : client'[j] # "sent" => j # i /\ client[j] # "sent"
      BY <1>0, <3>1
    <3>4. Taken' = Taken /\ Gen' = Gen
      BY <3>1 DEF Taken, Gen
    <3> QED
      BY <3>1, <3>2, <3>3, <3>4 DEF MailInv
  <2>6. CASE RemoveAttachment(i)
    <3>1. /\ i \in attachments /\ client' = [client EXCEPT ![i] = "removed"]
          /\ attachments' = attachments \ {i}
          /\ UNCHANGED <<history, lost, activeGen, ask, snap, compactSnap>>
      BY <2>6 DEF RemoveAttachment, own, conversation, runs, manual
    <3>2. i \notin Taken /\ \A g \in Gen : i \notin ask[g]
      BY <3>1 DEF MailInv
    <3>3. \A j \in Item : client'[j] # "sent" => j = i \/ client[j] # "sent"
      BY <1>0, <3>1
    <3>4. Taken' = Taken /\ Gen' = Gen
      BY <3>1 DEF Taken, Gen
    <3> QED
      BY <3>1, <3>2, <3>3, <3>4 DEF MailInv
  <2> QED
    BY <1>5, <2>1, <2>3, <2>4, <2>5, <2>6 DEF Submit
<1>6. CASE Compact
  <2>1. CASE BeginCompact \/ EndCompact
    BY <2>1, MailFrame DEF BeginCompact, EndCompact, conversation, runs
  <2>2. CASE ReadHistory
    BY <2>2 DEF ReadHistory, own, conversation, runs, Gen, MailInv, Taken
  <2>3. CASE FinishSummary
    <3>1. Taken' = Taken
      BY <2>3, SwapTakes DEF FinishSummary, Taken, MailInv
    <3> QED
      BY <2>3, <3>1 DEF FinishSummary, own, runs, Gen, MailInv
  <2> QED
    BY <1>6, <2>1, <2>2, <2>3 DEF Compact
<1>7. CASE Abort \/ Close \/ CloseJoin \/ UNCHANGED vars
  BY <1>7, MailFrame DEF Abort, Close, CloseJoin, vars, own, conversation, runs, manual
<1> QED
  BY <1>1, <1>2, <1>3, <1>4, <1>5, <1>6, <1>7 DEF Next, Run

\* The mailbox invariant holds in every reachable state.
LEMMA MailAlways == Spec => []MailInv
<1>1. Init => MailInv
  BY DEF Init, MailInv, Taken, Gen
<1> QED
  BY <1>1, MailStep, TypeCorrect, PTL DEF Spec

\* An item's place in the mailbox.
Place(i) ==
  IF i \in attachments THEN "queued"
  ELSE IF i \in Taken THEN "attached"
  ELSE IF client[i] = "removed" THEN "takenBack"
  ELSE "absent"

\* The mailbox does not see a step that changes no item's place.
LEMMA BoxStutter ==
  ASSUME UNCHANGED <<attachments, Taken, closing>>,
         \A i \in Item : client'[i] = "removed" <=> client[i] = "removed"
  PROVE  UNCHANGED Box!boxVars
BY DEF Box!boxVars, Taken

\* What a run attaches, it attaches in the mailbox.
LEMMA BoxAttach ==
  ASSUME MailInv, NEW S, S \subseteq Item, UNCHANGED <<client, closing>>,
         attachments' = attachments \ S, Taken' = Taken \cup S,
         \/ S \subseteq attachments
         \/ \E i \in Item : S = {i} /\ client[i] = "sent" /\ i \notin attachments
  PROVE  Box!BoxNext \/ UNCHANGED Box!boxVars
<1>1. CASE S \subseteq Taken
  <2>1. Taken' = Taken /\ attachments' = attachments
    BY <1>1 DEF MailInv
  <2> QED
    BY <2>1, BoxStutter
<1>2. CASE ~(S \subseteq Taken)
  <2>1. S # {}
    BY <1>2
  <2>2. [i \in Item |-> Place(i)]' =
          [i \in Item |-> IF i \in S THEN "attached" ELSE Place(i)]
    BY DEF Place
  <2>3. \/ S \subseteq {i \in Item : Place(i) = "queued"}
        \/ \E i \in {j \in Item : Place(j) = "absent"} : S = {i}
    BY <1>2 DEF Place
  <2>4. Box!Attach(S)
    BY <2>1, <2>2, <2>3 DEF Box!Attach, Box!In, Place, Taken
  <2> QED
    BY <2>4 DEF Box!BoxNext
<1> QED
  BY <1>1, <1>2

\* Every step maps to a step of the mailbox, or to a stutter.
LEMMA BoxStep ==
  TypeOK /\ MailInv /\ [Next]_vars => [Box!BoxNext]_(Box!boxVars)
<1> SUFFICES ASSUME TypeOK, MailInv, [Next]_vars
             PROVE  Box!BoxNext \/ UNCHANGED Box!boxVars
  OBVIOUS
<1>0. client \in [Item -> ClientState] /\ attachments \subseteq Item
  BY DEF TypeOK
<1>1. ASSUME UNCHANGED <<attachments, history, lost, closing>>,
             \A i \in Item : client'[i] = "removed" <=> client[i] = "removed"
      PROVE  UNCHANGED Box!boxVars
  BY <1>1, BoxStutter DEF Taken
<1>2. ASSUME NEW g \in Gen, Run(g) PROVE Box!BoxNext \/ UNCHANGED Box!boxVars
  <2>1. CASE GoRun(g) \/ EndQuery(g)
    BY <1>1, <2>1 DEF GoRun, EndQuery, own, conversation
  <2>2. CASE Turn(g)
    <3>1. /\ \/ Taken' = Taken \cup (attachments \ attachments')
             \/ attachments' = attachments /\ Taken' = Taken \cup ask[g]
          /\ attachments' \subseteq attachments
          /\ UNCHANGED <<client, closing>>
      BY <2>2, TurnTakes, TurnFrame DEF own
    <3>2. CASE Taken' = Taken \cup (attachments \ attachments')
      <4>1. attachments' = attachments \ (attachments \ attachments')
        BY <3>1
      <4> QED
        BY <1>0, <3>1, <3>2, <4>1, BoxAttach
    <3>3. CASE attachments' = attachments /\ Taken' = Taken \cup ask[g]
      <4>1. CASE ask[g] = {}
        BY <3>1, <3>3, <4>1, BoxStutter
      <4>2. CASE ask[g] # {}
        <5>1. PICK i \in Item : ask[g] = {i}
          BY <4>2 DEF MailInv
        <5>2. client[i] = "sent" /\ i \notin attachments
          BY <5>1 DEF MailInv
        <5> QED
          BY <3>1, <3>3, <5>1, <5>2, BoxAttach
      <4> QED
        BY <4>1, <4>2
    <3> QED
      BY <3>1, <3>2, <3>3
  <2> QED
    BY <1>2, <2>1, <2>2 DEF Run
<1>3. CASE KickLen
  BY <1>1, <1>3 DEF KickLen, own, conversation
<1>4. CASE KickTry
  BY <1>1, <1>4 DEF KickTry, own, conversation, BeginLocked
<1>5. ASSUME NEW i \in Item, Submit(i) PROVE Box!BoxNext \/ UNCHANGED Box!boxVars
  <2>1. CASE ReadBusy(i) \/ DispatchGate(i) \/ Query(i)
    <3>1. /\ client[i] # "removed"
          /\ \E state : state # "removed" /\ client' = [client EXCEPT ![i] = state]
      BY <2>1 DEF ReadBusy, DispatchGate, Query
    <3>2. \A j \in Item : client'[j] = "removed" <=> client[j] = "removed"
      BY <1>0, <3>1
    <3> QED
      BY <1>1, <2>1, <3>2 DEF ReadBusy, DispatchGate, Query, BeginLocked, own, conversation
  <2>2. CASE EnqueueAttachment(i)
    <3>1. /\ client[i] \in {"enqueue", "new"} /\ client' = [client EXCEPT ![i] = "sent"]
          /\ attachments' = attachments \cup {i}
          /\ UNCHANGED <<history, lost, closing>>
      BY <2>2 DEF EnqueueAttachment, own, conversation
    <3>2. Place(i) = "absent" /\ Taken' = Taken
      BY <3>1 DEF MailInv, Place, Taken
    <3>3. [j \in Item |-> Place(j)]' = [[j \in Item |-> Place(j)] EXCEPT ![i] = "queued"]
      BY <1>0, <3>1, <3>2 DEF Place
    <3>4. Box!Put(i)
      BY <3>1, <3>2, <3>3 DEF Box!Put, Place, Taken
    <3> QED
      BY <3>4 DEF Box!BoxNext
  <2>3. CASE RemoveAttachment(i)
    <3>1. /\ i \in attachments /\ i \in UserItem /\ client' = [client EXCEPT ![i] = "removed"]
          /\ attachments' = attachments \ {i}
          /\ UNCHANGED <<history, lost, closing>>
      BY <2>3 DEF RemoveAttachment, own, conversation
    <3>2. Place(i) = "queued" /\ Taken' = Taken /\ i \notin Taken
      BY <3>1 DEF MailInv, Place, Taken
    <3>3. [j \in Item |-> Place(j)]' = [[j \in Item |-> Place(j)] EXCEPT ![i] = "takenBack"]
      BY <1>0, <3>1, <3>2 DEF Place
    <3>4. Box!TakeBack(i)
      BY <3>1, <3>2, <3>3 DEF Box!TakeBack, Place, Taken
    <3> QED
      BY <3>4 DEF Box!BoxNext
  <2> QED
    BY <1>5, <2>1, <2>2, <2>3 DEF Submit
<1>6. CASE Compact
  <2>1. CASE BeginCompact \/ ReadHistory \/ EndCompact
    BY <1>1, <2>1 DEF BeginCompact, ReadHistory, EndCompact, own, conversation
  <2>2. CASE FinishSummary
    <3>1. Taken' = Taken
      BY <2>2, SwapTakes DEF FinishSummary, Taken, MailInv
    <3> QED
      BY <2>2, <3>1, BoxStutter DEF FinishSummary, own
  <2> QED
    BY <1>6, <2>1, <2>2 DEF Compact
<1>7. CASE Abort \/ CloseJoin \/ UNCHANGED vars
  BY <1>1, <1>7 DEF Abort, CloseJoin, vars, own, conversation
<1>8. CASE Close
  <2>1. ~closing /\ closing' = TRUE /\ UNCHANGED <<attachments, history, lost, client>>
    BY <1>8 DEF Close, conversation
  <2>2. Box!Shut
    BY <2>1 DEF Box!Shut
  <2> QED
    BY <2>2 DEF Box!BoxNext
<1> QED
  BY <1>2, <1>3, <1>4, <1>5, <1>6, <1>7, <1>8 DEF Next

\* The attachment queue with its drains and the queries that bypass it is the
\* mailbox: an item is queued once, and attached or taken back once, also when
\* queries take the engine over and compactions swap its history.
THEOREM QueueIsAMailbox == Spec => Box!BoxSafety
<1>1. Init => Box!BoxInit
  BY DEF Init, Box!BoxInit
<1> QED
  BY <1>1, BoxStep, MailAlways, TypeCorrect, PTL DEF Spec, Box!BoxSafety
=============================================================================
