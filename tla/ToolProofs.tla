----------------------------- MODULE ToolProofs -----------------------------
(***************************************************************************)
(* Proofs about the two modules of running tools, which share no state:    *)
(* ToolExecutor, for any tools, rules and number of calls, and             *)
(* BackgroundJobs, for any number of calls of Kill.                        *)
(***************************************************************************)
EXTENDS ToolExecutor, BackgroundJobs, TLAPS, SequenceTheorems, WellFoundedInduction

-----------------------------------------------------------------------------
(* ToolExecutor.  Two lemmas say what a step does to the calls: CallStep   *)
(* for a step of one call's goroutine, QueueStep for a pass over the       *)
(* queue.  Every invariant is then shown from them.                        *)

\* A call whose goroutine is past its last step has a result.
Answers == \A i \in DOMAIN calls : Completed(i) => calls[i].result # "none"

\* After a failed Bash no call of its response is under way past the abort check.
CalledOff ==
  \A i \in DOMAIN calls :
     calls[i].executor \in errored => calls[i].pc \in {"queued", "check", "pump", "over"}

\* A call belongs to an executor that was made, and a call of an unknown tool is over.
Current ==
  \A i \in DOMAIN calls :
     /\ calls[i].executor \in 1..executor
     /\ calls[i].kind \in Unknown => calls[i].pc = "over"

IInv ==
  /\ TypeOK /\ Current /\ Answers /\ ConflictsInOrder /\ AskedOnce /\ CalledOff
  /\ AllAnswered /\ NothingForgotten

\* A call's goroutine at work, without the queue pass at its end.
Work(i) ==
  Check(i) \/ TakeAskMu(i) \/ AskCancelled(i) \/ PreToolUse(i) \/ Report(i)
  \/ Return(i) \/ Answer(i)

\* Call i alone changes: it goes on to another place, or ends with a result.
Touches(i) ==
  /\ calls' \in Seq(Call) /\ Len(calls') = Len(calls)
  /\ \A j \in DOMAIN calls : j # i => calls'[j] = calls[j]
  /\ calls'[i].kind = calls[i].kind /\ calls'[i].executor = calls[i].executor
  /\ calls'[i].pc \in {"askWait", "ask", "hook", "call", "after", "pump"}
  /\ calls'[i].pc = "pump" => calls'[i].result # "none"

\* Replacing call i by a record that is further on touches call i.
LEMMA Replaced ==
  ASSUME TypeOK, NEW i \in DOMAIN calls, NEW e \in Call, calls' = [calls EXCEPT ![i] = e],
         e.kind = calls[i].kind, e.executor = calls[i].executor,
         e.pc \in {"askWait", "ask", "hook", "call", "after", "pump"},
         e.pc = "pump" => e.result # "none"
  PROVE  Touches(i)
<1>1. DOMAIN calls = 1..Len(calls)
  BY LenProperties DEF TypeOK
<1> QED
  BY <1>1, ExceptSeq DEF TypeOK, Touches

\* Move, Finish and the write of CallSucceeds are such replacements.
LEMMA Moved ==
  ASSUME TypeOK, NEW i \in DOMAIN calls,
         \/ \E pc \in {"askWait", "ask", "hook", "call", "after"} : Move(i, pc)
         \/ \E result \in {"answer", "rejected"} : Finish(i, result)
         \/ calls' = [calls EXCEPT ![i].pc = "after", ![i].wrote = TRUE]
  PROVE  Touches(i)
<1>1. calls[i] \in Call
  BY ElementOfSeq, LenProperties DEF TypeOK
<1>2. ASSUME NEW pc \in {"askWait", "ask", "hook", "call", "after"}, Move(i, pc)
      PROVE  Touches(i)
  <2> DEFINE e == [calls[i] EXCEPT !.pc = pc]
  <2>1. e \in Call /\ e.kind = calls[i].kind /\ e.executor = calls[i].executor /\ e.pc = pc
    BY <1>1 DEF Call, PC
  <2>2. calls' = [calls EXCEPT ![i] = e]
    BY <1>2 DEF Move
  <2> HIDE DEF e
  <2> QED
    BY <2>1, <2>2, Replaced
<1>3. ASSUME NEW result \in {"answer", "rejected"}, Finish(i, result)
      PROVE  Touches(i)
  <2> DEFINE e == [calls[i] EXCEPT !.pc = "pump", !.result = result]
  <2>1. /\ e \in Call /\ e.kind = calls[i].kind /\ e.executor = calls[i].executor
        /\ e.pc = "pump" /\ e.result = result
    BY <1>1 DEF Call, PC, Result
  <2>2. calls' = [calls EXCEPT ![i] = e]
    BY <1>3 DEF Finish
  <2> HIDE DEF e
  <2> QED
    BY <2>1, <2>2, Replaced
<1>4. CASE calls' = [calls EXCEPT ![i].pc = "after", ![i].wrote = TRUE]
  <2> DEFINE e == [calls[i] EXCEPT !.pc = "after", !.wrote = TRUE]
  <2>1. e \in Call /\ e.kind = calls[i].kind /\ e.executor = calls[i].executor /\ e.pc = "after"
    BY <1>1 DEF Call, PC
  <2>2. calls' = [calls EXCEPT ![i] = e]
    BY <1>4
  <2> HIDE DEF e
  <2> QED
    BY <2>1, <2>2, Replaced
<1> QED
  BY <1>2, <1>3, <1>4

\* Where they leave the call.
LEMMA Went ==
  ASSUME TypeOK, NEW i \in DOMAIN calls
  PROVE  /\ \A pc : Move(i, pc) => calls'[i].pc = pc
         /\ \A result : Finish(i, result) => calls'[i].pc = "pump"
         /\ calls' = [calls EXCEPT ![i].pc = "after", ![i].wrote = TRUE] => calls'[i].pc = "after"
<1>1. calls[i] \in Call
  BY ElementOfSeq, LenProperties DEF TypeOK
<1>2. ASSUME NEW pc, Move(i, pc) PROVE calls'[i].pc = pc
  <2>1. calls'[i] = [calls[i] EXCEPT !.pc = pc]
    BY <1>2 DEF Move
  <2> QED
    BY <1>1, <2>1 DEF Call
<1>3. ASSUME NEW result, Finish(i, result) PROVE calls'[i].pc = "pump"
  <2>1. calls'[i] = [calls[i] EXCEPT !.pc = "pump", !.result = result]
    BY <1>3 DEF Finish
  <2> QED
    BY <1>1, <2>1 DEF Call
<1>4. ASSUME calls' = [calls EXCEPT ![i].pc = "after", ![i].wrote = TRUE]
      PROVE  calls'[i].pc = "after"
  <2>1. calls'[i] = [calls[i] EXCEPT !.pc = "after", !.wrote = TRUE]
    BY <1>4
  <2> QED
    BY <1>1, <2>1 DEF Call
<1> QED
  BY <1>2, <1>3, <1>4

\* A step of one call's goroutine, up to the queue pass at its end, touches that call
\* alone, and the call was executing.
LEMMA CallStep ==
  ASSUME TypeOK, NEW i \in 1..MaxTools, Work(i)
  PROVE  i \in DOMAIN calls /\ Executing(i) /\ Touches(i) /\ UNCHANGED control
<1>1. i \in DOMAIN calls /\ Executing(i) /\ UNCHANGED control
  BY DEF Work, Check, TakeAskMu, AskCancelled, PreToolUse, Report, Return, Answer, CallFails,
         CallPanics, CallSucceeds, ToolError, At, Executing
<1>2. \/ \E pc \in {"askWait", "ask", "hook", "call", "after"} : Move(i, pc)
      \/ \E result \in {"answer", "rejected"} : Finish(i, result)
      \/ calls' = [calls EXCEPT ![i].pc = "after", ![i].wrote = TRUE]
  <2>1. CASE Check(i)
    BY <2>1 DEF Check, AbortReason
  <2>2. CASE TakeAskMu(i) \/ AskCancelled(i) \/ PreToolUse(i) \/ Answer(i)
    BY <2>2 DEF TakeAskMu, AskCancelled, PreToolUse, Answer
  <2>3. CASE Report(i) \/ Return(i)
    BY <2>3 DEF Report, Return, CallFails, CallPanics, CallSucceeds, ToolError
  <2> QED
    BY <2>1, <2>2, <2>3 DEF Work
<1> QED
  BY <1>1, <1>2, Moved

\* What a pass over the queue of executor x does to every call: it starts the calls it
\* may, and the call i whose goroutine runs it, if one does, is over.
LEMMA QueueStep ==
  ASSUME TypeOK, NEW x, NEW i, ProcessQueue(x, i)
  PROVE  /\ calls' \in Seq(Call) /\ Len(calls') = Len(calls) /\ DOMAIN calls' = DOMAIN calls
         /\ \A j \in DOMAIN calls :
              /\ calls'[j].kind = calls[j].kind /\ calls'[j].executor = calls[j].executor
              /\ calls'[j].result = calls[j].result
              /\ calls'[j].pc = IF j = i THEN "over"
                                ELSE IF j \in Startable(x) THEN "check" ELSE calls[j].pc
<1>1. DOMAIN calls = 1..Len(calls) /\ Len(calls) \in Nat /\ \A j \in DOMAIN calls : calls[j] \in Call
  BY LenProperties, ElementOfSeq DEF TypeOK
<1>2. \A j \in DOMAIN calls : [calls[j] EXCEPT !.pc = "over"] \in Call
                              /\ [calls[j] EXCEPT !.pc = "check"] \in Call
  BY <1>1 DEF Call, PC
<1>3. calls' \in [1..Len(calls) -> Call]
  BY <1>1, <1>2 DEF ProcessQueue
<1>4. calls' \in Seq(Call) /\ Len(calls') = Len(calls) /\ DOMAIN calls' = DOMAIN calls
  BY <1>1, <1>3
<1>5. ASSUME NEW j \in DOMAIN calls
      PROVE  /\ calls'[j].kind = calls[j].kind /\ calls'[j].executor = calls[j].executor
             /\ calls'[j].result = calls[j].result
             /\ calls'[j].pc = IF j = i THEN "over"
                               ELSE IF j \in Startable(x) THEN "check" ELSE calls[j].pc
  BY <1>1, <1>5 DEF ProcessQueue, Call
<1> QED
  BY <1>4, <1>5

\* What AddTool does to the calls: one more, queued, or answered at once if its name is
\* unknown.
LEMMA AddStep ==
  ASSUME TypeOK, NEW kind \in Kind \cup Unknown, AddTool(kind)
  PROVE  /\ calls' \in Seq(Call) /\ Len(calls') = Len(calls) + 1
         /\ Len(calls) + 1 <= MaxTools
         /\ \A j \in DOMAIN calls : calls'[j] = calls[j]
         /\ DOMAIN calls' = DOMAIN calls \cup {Len(calls) + 1} /\ Len(calls) + 1 \notin DOMAIN calls
         /\ calls'[Len(calls) + 1].kind = kind /\ calls'[Len(calls) + 1].executor = executor
         /\ IF kind \in Unknown
              THEN calls'[Len(calls) + 1].pc = "over" /\ calls'[Len(calls) + 1].result = "answer"
              ELSE calls'[Len(calls) + 1].pc = "queued" /\ engine' = "add"
<1> DEFINE e == [kind |-> kind, executor |-> executor, wrote |-> FALSE,
                 pc |-> IF kind \in Unknown THEN "over" ELSE "queued",
                 result |-> IF kind \in Unknown THEN "answer" ELSE "none"]
<1>1. e \in Call
  BY DEF Call, PC, Result, TypeOK
<1>2. e.kind = kind /\ e.executor = executor
      /\ e.pc = (IF kind \in Unknown THEN "over" ELSE "queued")
      /\ e.result = (IF kind \in Unknown THEN "answer" ELSE "none")
  OBVIOUS
<1>3. calls' = Append(calls, e) /\ Len(calls) < MaxTools
      /\ engine' = IF kind \in Unknown THEN "stream" ELSE "add"
  BY DEF AddTool
<1> HIDE DEF e
<1>4. Len(calls) \in Nat /\ DOMAIN calls = 1..Len(calls) /\ calls \in Seq(Call) /\ MaxTools \in Nat
  BY LenProperties, BoundAssumption DEF TypeOK
<1>5. /\ calls' \in Seq(Call) /\ Len(calls') = Len(calls) + 1
      /\ \A j \in DOMAIN calls : calls'[j] = calls[j]
      /\ calls'[Len(calls) + 1] = e /\ DOMAIN calls' = 1..Len(calls) + 1
  BY <1>1, <1>3, <1>4
<1> QED
  BY <1>2, <1>3, <1>4, <1>5

-----------------------------------------------------------------------------
(* Types.                                                                  *)

\* The steps of the engine that leave the calls alone.
Alone ==
  StreamBreaks \/ StreamAborted \/ StreamDone \/ Collect \/ NextResponse \/ QueryAborted \/ Abort

\* Every step is a call's, a pass over the queue, an AddTool, or leaves the calls alone.
LEMMA Cases ==
  ASSUME [Next]_vars
  PROVE  \/ \E i \in 1..MaxTools : Work(i) \/ Pump(i)
         \/ \E kind \in Kind \cup Unknown : AddTool(kind)
         \/ PumpAdded \/ Alone \/ UNCHANGED vars
BY DEF Next, Engine, Proceed, Return, Work, Alone

\* What the steps that leave the calls alone do to the rest.
LEMMA AloneStep ==
  ASSUME TypeOK, Alone
  PROVE  /\ UNCHANGED <<calls, errored, always>>
         /\ executor' \in {executor, executor + 1} /\ executor' \in 1..MaxExecutors
         /\ discarded' \subseteq 1..executor' /\ aborted' \subseteq 1..executor'
         /\ discarded \subseteq discarded' /\ aborted \subseteq aborted'
         /\ \/ engine' = engine /\ executor' = executor
            \/ engine # "add" /\ engine' \in {"stream", "wait", "retry", "collected", "idle"}
         /\ answered' \subseteq DOMAIN calls
<1>1. /\ executor \in 1..MaxExecutors /\ executor \in Nat /\ MaxExecutors \in Nat
      /\ discarded \subseteq 1..executor /\ aborted \subseteq 1..executor
      /\ answered \subseteq DOMAIN calls
  BY BoundAssumption DEF TypeOK
<1>2. CASE StreamBreaks \/ StreamAborted
  <2>1. PICK to \in {"retry", "idle"} : StreamEnds(to)
    BY <1>2 DEF StreamBreaks, StreamAborted
  <2> QED
    BY <1>1, <2>1 DEF StreamEnds, Discard
<1>3. CASE StreamDone
  BY <1>1, <1>3 DEF StreamDone
<1>4. CASE QueryAborted
  BY <1>1, <1>4 DEF QueryAborted
<1>5. CASE Abort
  BY <1>1, <1>5 DEF Abort
<1>6. CASE Collect
  BY <1>1, <1>6 DEF Collect, Of
<1>7. CASE NextResponse
  <2>1. executor < MaxExecutors /\ executor' = executor + 1 /\ engine' = "stream"
        /\ answered' = {} /\ engine # "add" /\ UNCHANGED <<calls, discarded, errored, aborted, always>>
    BY <1>7 DEF NextResponse
  <2> QED
    BY <1>1, <2>1
<1> QED
  BY <1>2, <1>3, <1>4, <1>5, <1>6, <1>7 DEF Alone

\* The types, and that every call belongs to an executor already made, at the start.
LEMMA TypeInit == Init => TypeOK /\ Current
<1> SUFFICES ASSUME Init PROVE TypeOK /\ Current
  OBVIOUS
<1>1. calls \in Seq(Call) /\ Len(calls) = 0 /\ DOMAIN calls = {}
  BY EmptySeq DEF Init
<1> QED
  BY <1>1, BoundAssumption DEF Init, TypeOK, Current

\* Every step keeps them.
LEMMA TypeStep == TypeOK /\ Current /\ [Next]_vars => TypeOK' /\ Current'
<1> SUFFICES ASSUME TypeOK, Current, [Next]_vars PROVE TypeOK' /\ Current'
  OBVIOUS
<1>0. DOMAIN calls = 1..Len(calls) /\ Len(calls) \in Nat /\ MaxTools \in Nat
      /\ \A j \in DOMAIN calls : calls[j] \in Call
  BY LenProperties, ElementOfSeq, BoundAssumption DEF TypeOK
<1>1. ASSUME NEW i \in 1..MaxTools, Work(i) PROVE TypeOK' /\ Current'
  <2>1. /\ i \in DOMAIN calls /\ Executing(i) /\ Touches(i) /\ UNCHANGED control
    BY <1>1, CallStep
  <2>2. calls' \in Seq(Call) /\ Len(calls') = Len(calls) /\ DOMAIN calls' = DOMAIN calls
    BY <2>1, <1>0, LenProperties DEF Touches
  <2>3. calls[i].executor \in 1..executor /\ calls[i].kind \in Kind
    BY <2>1, <1>0 DEF Current, Executing, Call
  <2>4. errored' \subseteq 1..executor /\ always' \subseteq (1..executor) \X Kind
    BY <1>1, <2>3 DEF Work, Check, TakeAskMu, AskCancelled, PreToolUse, Report, Return, Answer,
       CallFails, CallPanics, CallSucceeds, ToolError, TypeOK
  <2>5. TypeOK'
    BY <2>1, <2>2, <2>4 DEF TypeOK, control
  <2>6. Current'
    BY <2>1, <2>2, <2>3, KindAssumption DEF Current, Touches, control
  <2> QED
    BY <2>5, <2>6
<1>2. ASSUME NEW i \in 1..MaxTools, Pump(i) PROVE TypeOK' /\ Current'
  <2>1. ProcessQueue(calls[i].executor, i) /\ UNCHANGED <<control, errored, always>>
    BY <1>2 DEF Pump
  <2>2. /\ calls' \in Seq(Call) /\ Len(calls') = Len(calls) /\ DOMAIN calls' = DOMAIN calls
        /\ \A j \in DOMAIN calls :
              /\ calls'[j].kind = calls[j].kind /\ calls'[j].executor = calls[j].executor
              /\ calls'[j].pc = IF j = i THEN "over"
                                ELSE IF j \in Startable(calls[i].executor) THEN "check"
                                ELSE calls[j].pc
    BY <2>1, QueueStep
  <2>3. TypeOK'
    BY <2>1, <2>2 DEF TypeOK, control
  <2>4. Current'
    BY <2>1, <2>2 DEF Current, control, Startable
  <2> QED
    BY <2>3, <2>4
<1>3. ASSUME NEW kind \in Kind \cup Unknown, AddTool(kind) PROVE TypeOK' /\ Current'
  <2>1. UNCHANGED <<executor, discarded, errored, aborted, always, answered>>
        /\ engine' \in {"stream", "add"}
    BY <1>3 DEF AddTool
  <2>2. TypeOK'
    <3>1. calls' \in Seq(Call) /\ Len(calls') <= MaxTools /\ answered' \subseteq DOMAIN calls'
      <4>1. calls' \in Seq(Call) /\ Len(calls') = Len(calls) + 1 /\ Len(calls) + 1 <= MaxTools
            /\ DOMAIN calls' = DOMAIN calls \cup {Len(calls) + 1}
        BY <1>3, AddStep
      <4> QED
        BY <2>1, <4>1 DEF TypeOK
    <3> QED
      BY <2>1, <3>1 DEF TypeOK
  <2>3. Current'
    BY <1>3, <2>1, AddStep DEF Current, TypeOK
  <2> QED
    BY <2>2, <2>3
<1>4. CASE PumpAdded
  <2>1. ProcessQueue(executor, 0) /\ engine' = "stream"
        /\ UNCHANGED <<executor, discarded, errored, aborted, always, answered>>
    BY <1>4 DEF PumpAdded
  <2>2. /\ calls' \in Seq(Call) /\ Len(calls') = Len(calls) /\ DOMAIN calls' = DOMAIN calls
        /\ \A j \in DOMAIN calls :
              /\ calls'[j].kind = calls[j].kind /\ calls'[j].executor = calls[j].executor
              /\ calls'[j].pc = IF j = 0 THEN "over"
                                ELSE IF j \in Startable(executor) THEN "check" ELSE calls[j].pc
    BY <2>1, QueueStep
  <2>3. TypeOK'
    BY <2>1, <2>2 DEF TypeOK
  <2>4. Current'
    BY <2>1, <2>2, <1>0 DEF Current, Startable
  <2> QED
    BY <2>3, <2>4
<1>5. CASE Alone
  <2>1. TypeOK'
    <3>1. executor \in Nat /\ executor' \in {executor, executor + 1}
      BY <1>5, AloneStep, BoundAssumption DEF TypeOK
    <3>2. 1..executor \subseteq 1..executor'
      BY <3>1
    <3>3. errored' \subseteq 1..executor' /\ always' \subseteq (1..executor') \X Kind
      BY <1>5, <3>2, AloneStep DEF TypeOK
    <3> QED
      BY <1>5, <3>3, AloneStep DEF TypeOK
  <2>2. Current'
    BY <1>5, AloneStep DEF Current, TypeOK
  <2> QED
    BY <2>1, <2>2
<1>6. CASE UNCHANGED vars
  BY <1>6 DEF vars, TypeOK, Current
<1> QED
  BY <1>1, <1>2, <1>3, <1>4, <1>5, <1>6, Cases

-----------------------------------------------------------------------------
(* The queue.                                                              *)

\* Call j keeps its tool and its executor, stays completed once it is, and is started by
\* a pass over the queue alone.
Evolves(j) ==
  /\ j \in DOMAIN calls'
  /\ calls'[j].kind = calls[j].kind /\ calls'[j].executor = calls[j].executor
  /\ calls[j].pc \in {"pump", "over"} => calls'[j].pc \in {"pump", "over"}
  /\ calls'[j].pc # "queued" => calls[j].pc # "queued" \/ \E x : j \in Startable(x)

\* Every step lets every call evolve.
LEMMA Evolution ==
  ASSUME TypeOK, [Next]_vars, NEW j \in DOMAIN calls
  PROVE  Evolves(j)
<1>0. DOMAIN calls = 1..Len(calls) /\ Len(calls) \in Nat
  BY LenProperties DEF TypeOK
<1>1. ASSUME NEW i \in 1..MaxTools, Work(i) PROVE Evolves(j)
  <2>1. i \in DOMAIN calls /\ Executing(i) /\ Touches(i)
    BY <1>1, CallStep
  <2>2. DOMAIN calls' = DOMAIN calls
    BY <2>1, <1>0, LenProperties DEF Touches
  <2> QED
    BY <2>1, <2>2 DEF Touches, Executing, Evolves
<1>2. ASSUME NEW i \in 1..MaxTools, Pump(i) PROVE Evolves(j)
  <2>1. ProcessQueue(calls[i].executor, i) /\ calls[i].pc = "pump"
    BY <1>2 DEF Pump, At
  <2> QED
    BY <2>1, QueueStep DEF Evolves, Startable
<1>3. ASSUME NEW kind \in Kind \cup Unknown, AddTool(kind) PROVE Evolves(j)
  BY <1>3, AddStep DEF Evolves
<1>4. CASE PumpAdded
  <2>1. ProcessQueue(executor, 0) /\ j # 0
    BY <1>4, <1>0 DEF PumpAdded
  <2> QED
    BY <2>1, QueueStep DEF Evolves, Startable
<1>5. CASE Alone
  BY <1>5, AloneStep DEF Evolves
<1>6. CASE UNCHANGED vars
  BY <1>6 DEF vars, Evolves
<1> QED
  BY <1>1, <1>2, <1>3, <1>4, <1>5, <1>6, Cases

\* The calls that are new after a step: one that AddTool has added, queued unless its
\* tool is unknown.
LEMMA Newcomer ==
  ASSUME TypeOK, [Next]_vars, NEW j \in DOMAIN calls' \ DOMAIN calls
  PROVE  /\ \A i \in DOMAIN calls : i < j
         /\ calls'[j].pc = "queued" \/ (calls'[j].kind \in Unknown /\ calls'[j].pc = "over")
         /\ calls'[j].result # "none" \/ calls'[j].pc = "queued"
         /\ \A i \in DOMAIN calls' \ DOMAIN calls : i = j
<1>0. DOMAIN calls = 1..Len(calls) /\ Len(calls) \in Nat
  BY LenProperties DEF TypeOK
<1>1. ASSUME NEW i \in 1..MaxTools, Work(i) PROVE FALSE
  <2>1. calls' \in Seq(Call) /\ Len(calls') = Len(calls)
    BY <1>1, CallStep DEF Touches
  <2>2. DOMAIN calls' = 1..Len(calls')
    BY <2>1, LenProperties
  <2> QED
    BY <1>0, <2>1, <2>2
<1>2. ASSUME NEW i \in 1..MaxTools, Pump(i) PROVE FALSE
  <2>1. ProcessQueue(calls[i].executor, i)
    BY <1>2 DEF Pump
  <2>2. DOMAIN calls' = DOMAIN calls
    BY <2>1, QueueStep
  <2> QED
    BY <2>2
<1>3. ~PumpAdded
  <2>1. ProcessQueue(executor, 0) => DOMAIN calls' = DOMAIN calls
    BY QueueStep
  <2> QED
    BY <2>1 DEF PumpAdded
<1>4. ~Alone
  <2>1. Alone => calls' = calls
    BY AloneStep
  <2> QED
    BY <2>1
<1>7. ~UNCHANGED vars
  BY DEF vars
<1>5. PICK kind \in Kind \cup Unknown : AddTool(kind)
  BY <1>1, <1>2, <1>3, <1>4, <1>7, Cases
<1>6. j = Len(calls) + 1 /\ DOMAIN calls' \ DOMAIN calls = {j}
  BY <1>5, AddStep
<1>8. calls'[j].kind = kind
      /\ IF kind \in Unknown THEN calls'[j].pc = "over" /\ calls'[j].result = "answer"
                            ELSE calls'[j].pc = "queued"
  <2>1. /\ calls'[Len(calls) + 1].kind = kind
        /\ IF kind \in Unknown
             THEN calls'[Len(calls) + 1].pc = "over" /\ calls'[Len(calls) + 1].result = "answer"
             ELSE calls'[Len(calls) + 1].pc = "queued" /\ engine' = "add"
    BY <1>5, AddStep
  <2> QED
    BY <1>6, <2>1
<1>9. \A i \in DOMAIN calls : i < j
  BY <1>0, <1>6
<1>10. \A i \in DOMAIN calls' \ DOMAIN calls : i = j
  BY <1>6
<1> QED
  BY <1>8, <1>9, <1>10

\* Conflicting calls keep their order: a pass starts no call that conflicts with one
\* executing, or with one queued before it, so all that is left before it has completed.
LEMMA OrderStep ==
  ASSUME TypeOK, Current, ConflictsInOrder, [Next]_vars
  PROVE  ConflictsInOrder'
<1> SUFFICES ASSUME NEW i \in DOMAIN calls', NEW j \in DOMAIN calls', i < j,
                    calls'[i].executor = calls'[j].executor,
                    {calls'[i].kind, calls'[j].kind} \subseteq Kind,
                    Conflict(i, j)', calls'[j].pc # "queued"
             PROVE  calls'[i].pc \in {"pump", "over"}
  BY DEF ConflictsInOrder, Started, Completed
<1>1. j \in DOMAIN calls
  BY Newcomer, KindAssumption
<1>2. i \in DOMAIN calls
  <2>1. i \in Int /\ j \in Int
    BY <1>1, LenProperties, TypeStep DEF TypeOK
  <2> QED
    BY <1>1, <2>1, Newcomer
<1>3. Evolves(i) /\ Evolves(j)
  BY <1>1, <1>2, Evolution
<1>4. Conflict(i, j) /\ calls[i].executor = calls[j].executor
      /\ {calls[i].kind, calls[j].kind} \subseteq Kind
  BY <1>3 DEF Evolves, Conflict
<1>5. CASE calls[j].pc # "queued"
  BY <1>1, <1>2, <1>3, <1>4, <1>5 DEF ConflictsInOrder, Started, Completed, Evolves
<1>6. CASE \E x : j \in Startable(x)
  <2>1. ~Executing(i) /\ calls[i].pc # "queued"
    BY <1>2, <1>4, <1>6 DEF Startable, Of
  <2> QED
    BY <1>3, <2>1 DEF Executing, Evolves
<1> QED
  BY <1>3, <1>5, <1>6 DEF Evolves

-----------------------------------------------------------------------------
(* Results and dialogs.                                                    *)

\* A completed call has its result.
LEMMA AnswersStep ==
  ASSUME TypeOK, Answers, [Next]_vars
  PROVE  Answers'
<1> USE DEF Answers, Completed
<1>0. DOMAIN calls = 1..Len(calls) /\ Len(calls) \in Nat
  BY LenProperties DEF TypeOK
<1>1. ASSUME NEW i \in 1..MaxTools, Work(i) PROVE Answers'
  <2>1. /\ i \in DOMAIN calls /\ Touches(i)
    BY <1>1, CallStep
  <2>2. DOMAIN calls' = DOMAIN calls
    BY <2>1, <1>0, LenProperties DEF Touches
  <2> QED
    BY <2>1, <2>2 DEF Touches
<1>2. ASSUME NEW i \in 1..MaxTools, Pump(i) PROVE Answers'
  <2>1. ProcessQueue(calls[i].executor, i) /\ calls[i].pc = "pump"
    BY <1>2 DEF Pump, At
  <2> QED
    BY <2>1, QueueStep
<1>3. ASSUME NEW kind \in Kind \cup Unknown, AddTool(kind) PROVE Answers'
  BY <1>3, AddStep
<1>4. CASE PumpAdded
  <2>1. ProcessQueue(executor, 0) /\ 0 \notin DOMAIN calls
    BY <1>4, <1>0 DEF PumpAdded
  <2> QED
    BY <2>1, QueueStep
<1>5. CASE Alone
  BY <1>5, AloneStep
<1>6. CASE UNCHANGED vars
  BY <1>6 DEF vars
<1> QED
  BY <1>1, <1>2, <1>3, <1>4, <1>5, <1>6, Cases

\* ExecuteAll leaves no call of its response unanswered unless it was aborted.
LEMMA AnsweredStep ==
  ASSUME TypeOK, Answers, AllAnswered, [Next]_vars
  PROVE  AllAnswered'
<1> USE DEF AllAnswered, Of
<1>0. DOMAIN calls = 1..Len(calls) /\ Len(calls) \in Nat
  BY LenProperties DEF TypeOK
<1>1. ASSUME NEW i \in 1..MaxTools, Work(i) PROVE AllAnswered'
  <2>1. i \in DOMAIN calls /\ Touches(i) /\ UNCHANGED control
    BY <1>1, CallStep
  <2>2. DOMAIN calls' = DOMAIN calls
    BY <2>1, <1>0, LenProperties DEF Touches
  <2> QED
    BY <2>1, <2>2 DEF Touches, control
<1>2. ASSUME NEW i \in 1..MaxTools, Pump(i) PROVE AllAnswered'
  <2>1. ProcessQueue(calls[i].executor, i) /\ UNCHANGED control
    BY <1>2 DEF Pump
  <2> QED
    BY <2>1, QueueStep DEF control
<1>3. ASSUME NEW kind \in Kind \cup Unknown, AddTool(kind) PROVE AllAnswered'
  BY <1>3 DEF AddTool
<1>4. CASE PumpAdded
  BY <1>4 DEF PumpAdded
<1>5. CASE Collect
  BY <1>5 DEF Collect, Answers
<1>6. CASE StreamBreaks \/ StreamAborted \/ StreamDone \/ NextResponse \/ QueryAborted
  BY <1>6 DEF StreamBreaks, StreamAborted, StreamEnds, StreamDone, NextResponse, QueryAborted
<1>7. CASE Abort
  BY <1>7 DEF Abort
<1>8. CASE UNCHANGED vars
  BY <1>8 DEF vars
<1> QED
  BY <1>1, <1>2, <1>3, <1>4, <1>5, <1>6, <1>7, <1>8, Cases DEF Alone

\* A dialog is opened under askMu, for a tool that was not allowed for always, and the
\* only answer given while it is open is its own.
LEMMA AskStep ==
  ASSUME TypeOK, AskedOnce, [Next]_vars
  PROVE  AskedOnce'
<1> USE DEF AskedOnce, At, Of
<1>0. DOMAIN calls = 1..Len(calls) /\ Len(calls) \in Nat
  BY LenProperties DEF TypeOK
<1>1. ASSUME NEW i \in 1..MaxTools, Work(i) PROVE AskedOnce'
  <2>1. i \in DOMAIN calls /\ Touches(i)
    BY <1>1, CallStep
  <2>2. DOMAIN calls' = DOMAIN calls
    BY <2>1, <1>0, LenProperties DEF Touches
  <2>3. calls[i] \in Call
    BY <2>1, ElementOfSeq, <1>0 DEF TypeOK
  <2>4. /\ always' = always \/ (At(i, "ask") /\ calls'[i].pc # "ask"
                                /\ always' = always \cup {<<calls[i].executor, calls[i].kind>>})
        /\ calls'[i].pc = "ask" =>
             /\ always' = always /\ <<calls[i].executor, calls[i].kind>> \notin always
             /\ \A j \in Of(calls[i].executor) : calls[j].pc # "ask"
    <3>0. /\ \A pc : Move(i, pc) => calls'[i].pc = pc
          /\ \A result : Finish(i, result) => calls'[i].pc = "pump"
          /\ calls' = [calls EXCEPT ![i].pc = "after", ![i].wrote = TRUE]
             => calls'[i].pc = "after"
      BY <2>1, Went
    <3>1. CASE Check(i)
      BY <3>0, <3>1 DEF Check
    <3>2. CASE TakeAskMu(i)
      BY <3>0, <3>2 DEF TakeAskMu
    <3>3. CASE AskCancelled(i) \/ PreToolUse(i)
      BY <3>0, <3>3 DEF AskCancelled, PreToolUse
    <3>4. CASE Answer(i)
      BY <3>0, <3>4 DEF Answer
    <3>5. CASE Report(i) \/ Return(i)
      BY <3>0, <3>5 DEF Report, Return, CallFails, CallPanics, CallSucceeds, ToolError
    <3> QED
      BY <1>1, <3>1, <3>2, <3>3, <3>4, <3>5 DEF Work
  <2>5. \A j \in DOMAIN calls :
          /\ j # i => calls'[j] = calls[j]
          /\ calls'[j].kind = calls[j].kind /\ calls'[j].executor = calls[j].executor
    BY <2>1 DEF Touches
  <2>6. ASSUME NEW j \in DOMAIN calls, calls'[j].pc = "ask",
               NEW k \in DOMAIN calls, calls[k].executor = calls[j].executor, calls'[k].pc = "ask"
        PROVE  j = k
    <3>1. CASE j = i \/ k = i
      BY <2>1, <2>4, <2>5, <2>6, <3>1
    <3>2. CASE j # i /\ k # i
      BY <2>5, <2>6, <3>2
    <3> QED
      BY <3>1, <3>2
  <2>7. ASSUME NEW j \in DOMAIN calls, calls'[j].pc = "ask"
        PROVE  <<calls[j].executor, calls[j].kind>> \notin always'
    <3>1. CASE j = i
      BY <2>4, <2>7, <3>1
    <3>2. CASE j # i
      <4>1. calls[j].pc = "ask" /\ <<calls[j].executor, calls[j].kind>> \notin always
        BY <2>5, <2>7, <3>2
      <4>2. At(i, "ask") => calls[j].executor # calls[i].executor
        BY <2>1, <3>2, <4>1
      <4> QED
        BY <2>4, <4>1, <4>2
    <3> QED
      BY <3>1, <3>2
  <2> QED
    BY <2>2, <2>5, <2>6, <2>7
<1>2. ASSUME NEW i \in 1..MaxTools, Pump(i) PROVE AskedOnce'
  <2>1. ProcessQueue(calls[i].executor, i) /\ always' = always
    BY <1>2 DEF Pump
  <2> QED
    BY <2>1, QueueStep
<1>3. ASSUME NEW kind \in Kind \cup Unknown, AddTool(kind) PROVE AskedOnce'
  <2>1. always' = always
    BY <1>3 DEF AddTool
  <2> QED
    BY <1>3, <2>1, AddStep
<1>4. CASE PumpAdded
  <2>1. ProcessQueue(executor, 0) /\ always' = always
    BY <1>4 DEF PumpAdded
  <2> QED
    BY <2>1, QueueStep
<1>5. CASE Alone
  BY <1>5, AloneStep
<1>6. CASE UNCHANGED vars
  BY <1>6 DEF vars
<1> QED
  BY <1>1, <1>2, <1>3, <1>4, <1>5, <1>6, Cases

-----------------------------------------------------------------------------
(* Siblings of a failed Bash.                                              *)

\* A call under way of an executor already called off can only end, and the one step
\* that calls an executor off is the end of a Bash.
LEMMA BashStep ==
  ASSUME TypeOK, CalledOff, NEW i \in 1..MaxTools, Work(i)
  PROVE  /\ calls[i].executor \in errored => calls'[i].pc = "pump"
         /\ \/ errored' = errored
            \/ /\ errored' = errored \cup {calls[i].executor}
               /\ calls[i].kind \in Bash /\ calls'[i].pc = "pump"
<1>1. i \in DOMAIN calls /\ Executing(i)
  BY CallStep
<1>2. calls[i].executor \in errored => calls[i].pc = "check"
  BY <1>1 DEF CalledOff, Executing
<1>3. /\ \A pc : Move(i, pc) => calls'[i].pc = pc
      /\ \A result : Finish(i, result) => calls'[i].pc = "pump"
  BY <1>1, Went
<1>4. CASE Check(i)
  BY <1>3, <1>4 DEF Check, AbortReason
<1>5. CASE TakeAskMu(i) \/ AskCancelled(i) \/ PreToolUse(i) \/ Answer(i)
  BY <1>2, <1>5 DEF TakeAskMu, AskCancelled, PreToolUse, Answer, At
<1>6. CASE Report(i) \/ Return(i)
  BY <1>2, <1>3, <1>6 DEF Report, Return, CallFails, CallPanics, CallSucceeds, ToolError, At
<1> QED
  BY <1>4, <1>5, <1>6 DEF Work

\* A Bash conflicts with every call of its response, so while it runs the earlier ones
\* have completed and the later ones are queued: its failure finds nobody in t.Call.
LEMMA CalledOffStep ==
  ASSUME TypeOK, Current, ConflictsInOrder, CalledOff, [Next]_vars
  PROVE  CalledOff'
<1> USE DEF CalledOff
<1>0. DOMAIN calls = 1..Len(calls) /\ Len(calls) \in Nat
      /\ \A j \in DOMAIN calls : calls[j] \in Call
  BY LenProperties, ElementOfSeq DEF TypeOK
<1>1. ASSUME NEW i \in 1..MaxTools, Work(i) PROVE CalledOff'
  <2>1. i \in DOMAIN calls /\ Executing(i) /\ Touches(i)
    BY <1>1, CallStep
  <2>2. DOMAIN calls' = DOMAIN calls
    BY <2>1, <1>0, LenProperties DEF Touches
  <2>3. /\ calls[i].executor \in errored => calls'[i].pc = "pump"
        /\ \/ errored' = errored
           \/ /\ errored' = errored \cup {calls[i].executor}
              /\ calls[i].kind \in Bash /\ calls'[i].pc = "pump"
    BY <1>1, BashStep
  <2>4. ASSUME NEW j \in DOMAIN calls, j # i, calls[j].executor = calls[i].executor,
               calls[i].kind \in Bash
        PROVE  calls[j].pc \in {"queued", "pump", "over"}
    <3>1. CASE calls[j].kind \in Unknown
      BY <3>1 DEF Current
    <3>2. CASE calls[j].kind \in Kind
      <4>1. Conflict(i, j) /\ Conflict(j, i) /\ {calls[i].kind, calls[j].kind} \subseteq Kind
        BY <2>4, <3>2, KindAssumption DEF Conflict
      <4>2. i < j \/ j < i
        BY <1>0, <2>1, <2>4
      <4>3. CASE i < j
        <5>1. ~Completed(i)
          BY <2>1 DEF Executing, Completed
        <5> QED
          BY <2>1, <2>4, <4>1, <4>3, <5>1 DEF ConflictsInOrder, Started
      <4>4. CASE j < i
        <5>1. Started(i)
          BY <2>1 DEF Executing, Started
        <5>2. Completed(j)
          BY <2>1, <2>4, <4>1, <4>4, <5>1 DEF ConflictsInOrder
        <5> QED
          BY <5>2 DEF Completed
      <4> QED
        BY <4>2, <4>3, <4>4
    <3> QED
      BY <1>0, <2>4, <3>1, <3>2 DEF Call
  <2> QED
    BY <2>1, <2>2, <2>3, <2>4 DEF Touches
<1>2. ASSUME NEW i \in 1..MaxTools, Pump(i) PROVE CalledOff'
  <2>1. ProcessQueue(calls[i].executor, i) /\ errored' = errored
    BY <1>2 DEF Pump
  <2> QED
    BY <2>1, QueueStep
<1>3. ASSUME NEW kind \in Kind \cup Unknown, AddTool(kind) PROVE CalledOff'
  <2>1. errored' = errored
    BY <1>3 DEF AddTool
  <2> QED
    BY <1>3, <2>1, AddStep
<1>4. CASE PumpAdded
  <2>1. ProcessQueue(executor, 0) /\ errored' = errored
    BY <1>4 DEF PumpAdded
  <2> QED
    BY <2>1, QueueStep
<1>5. CASE Alone
  BY <1>5, AloneStep
<1>6. CASE UNCHANGED vars
  BY <1>6 DEF vars
<1> QED
  BY <1>1, <1>2, <1>3, <1>4, <1>5, <1>6, Cases

\* Hence no call enters t.Call once its response is called off.
LEMMA SiblingStep ==
  ASSUME TypeOK, CalledOff, [Next]_vars, NEW i \in DOMAIN calls,
         calls[i].executor \in errored, calls'[i].pc = "call"
  PROVE  At(i, "call")
<1>0. calls[i].pc \in {"queued", "check", "pump", "over"}
  BY DEF CalledOff
<1>1. ASSUME NEW j \in 1..MaxTools, Work(j) PROVE FALSE
  <2>1. Touches(j) /\ (calls[j].executor \in errored => calls'[j].pc = "pump")
    BY <1>1, CallStep, BashStep
  <2> QED
    BY <1>0, <2>1 DEF Touches
<1>2. ASSUME NEW j \in 1..MaxTools, Pump(j) PROVE FALSE
  <2>1. ProcessQueue(calls[j].executor, j)
    BY <1>2 DEF Pump
  <2> QED
    BY <1>0, <2>1, QueueStep
<1>3. ASSUME NEW kind \in Kind \cup Unknown, AddTool(kind) PROVE FALSE
  BY <1>0, <1>3, AddStep
<1>4. ~PumpAdded
  <2>1. ProcessQueue(executor, 0) => FALSE
    BY <1>0, QueueStep
  <2> QED
    BY <2>1 DEF PumpAdded
<1>5. ~Alone
  BY <1>0, AloneStep
<1>6. ~UNCHANGED vars
  BY <1>0 DEF vars
<1> QED
  BY <1>1, <1>2, <1>3, <1>4, <1>5, <1>6, Cases

-----------------------------------------------------------------------------
(* The queue is always looked at again.                                    *)

\* A non-empty set of natural numbers has a least one.
LEMMA Least ==
  ASSUME NEW S, S \subseteq Nat, S # {}
  PROVE  \E m \in S : \A n \in S : m <= n
<1> DEFINE R == OpToRel(<, Nat)
<1>1. \E m \in S : \A n \in S : <<n, m>> \notin R
  BY NatLessThanWellFounded, WFMin
<1>2. \A n, m \in Nat : n < m => <<n, m>> \in R
  BY DEF OpToRel
<1> HIDE DEF R
<1>3. PICK m \in S : \A n \in S : <<n, m>> \notin R
  BY <1>1
<1>4. ASSUME NEW n \in S PROVE m <= n
  <2>1. n \in Nat /\ m \in Nat /\ ~(n < m)
    BY <1>2, <1>3
  <2> QED
    BY <2>1
<1> QED
  BY <1>4

\* After a pass that leaves a call of the executor queued, one is executing: the first
\* queued call is started unless a call that executes forbids it.
LEMMA PassLeavesOne ==
  ASSUME TypeOK, NEW x, NEW i, ProcessQueue(x, i), i \in DOMAIN calls => calls[i].pc = "pump",
         NEW j \in Of(x), calls'[j].pc = "queued"
  PROVE  \E k \in Of(x) : calls'[k].pc \notin {"queued", "over"}
<1> DEFINE Q == {q \in Of(x) : calls[q].pc = "queued"}
<1>0. DOMAIN calls \subseteq Nat
  BY LenProperties DEF TypeOK
<1>1. \A k \in DOMAIN calls :
        calls'[k].pc = IF k = i THEN "over" ELSE IF k \in Startable(x) THEN "check" ELSE calls[k].pc
  BY QueueStep
<1>2. Q \subseteq Nat /\ j \in Q
  BY <1>0, <1>1 DEF Of
<1>3. PICK m \in Q : \A n \in Q : m <= n
  <2>1. Q # {}
    BY <1>2
  <2> HIDE DEF Q
  <2> QED
    BY <1>2, <2>1, Least
<1>4. CASE m \in Startable(x)
  <2>1. m \in Of(x) /\ m \in DOMAIN calls /\ m # i
    BY <1>3 DEF Of
  <2> QED
    BY <1>1, <1>4, <2>1
<1>5. CASE m \notin Startable(x)
  <2>1. \A k \in Of(x) : ~(k < m /\ calls[k].pc = "queued")
    BY <1>0, <1>3 DEF Of
  <2>2. PICK k \in Of(x) : Executing(k)
    BY <1>3, <1>5, <2>1 DEF Startable
  <2>3. k \in DOMAIN calls /\ k # i /\ k \notin Startable(x) /\ calls[k].pc \notin {"queued", "over"}
    BY <2>2 DEF Of, Executing, Startable
  <2> QED
    BY <1>1, <2>3
<1> QED
  BY <1>4, <1>5

\* A step keeps somebody who will look at each queued call.
LEMMA ForgottenStep ==
  ASSUME TypeOK, NothingForgotten, [Next]_vars
  PROVE  NothingForgotten'
<1> SUFFICES ASSUME NEW j \in DOMAIN calls', calls'[j].pc = "queued"
             PROVE  \/ \E k \in DOMAIN calls' : calls'[k].executor = calls'[j].executor
                                                /\ calls'[k].pc \notin {"queued", "over"}
                    \/ engine' = "add" /\ calls'[j].executor = executor'
  BY DEF NothingForgotten, Of
<1> DEFINE Kept == \/ \E k \in DOMAIN calls' : calls'[k].executor = calls'[j].executor
                                               /\ calls'[k].pc \notin {"queued", "over"}
                   \/ engine' = "add" /\ calls'[j].executor = executor'
<1>0. DOMAIN calls = 1..Len(calls) /\ Len(calls) \in Nat
  BY LenProperties DEF TypeOK
<1>10. ASSUME j \in DOMAIN calls, calls[j].pc = "queued"
       PROVE  \/ \E k \in DOMAIN calls : calls[k].executor = calls[j].executor
                                         /\ calls[k].pc \notin {"queued", "over"}
              \/ engine = "add" /\ calls[j].executor = executor
  BY <1>10 DEF NothingForgotten, Of
<1>1. ASSUME NEW i \in 1..MaxTools, Work(i) PROVE Kept
  <2>1. i \in DOMAIN calls /\ Touches(i) /\ UNCHANGED control
    BY <1>1, CallStep
  <2>2. DOMAIN calls' = DOMAIN calls
    BY <2>1, <1>0, LenProperties DEF Touches
  <2>3. calls[j].pc = "queued" /\ calls'[j] = calls[j]
    BY <2>1, <2>2 DEF Touches
  <2> QED
    BY <1>10, <2>1, <2>2, <2>3 DEF Touches, control
<1>2. ASSUME NEW x, NEW i, ProcessQueue(x, i), i \in DOMAIN calls => At(i, "pump") /\ i \in Of(x),
             engine = "add" => (engine' = "add" /\ executor' = executor) \/ x = executor
      PROVE  Kept
  <2>1. /\ DOMAIN calls' = DOMAIN calls
        /\ \A k \in DOMAIN calls :
             /\ calls'[k].executor = calls[k].executor
             /\ calls'[k].pc = IF k = i THEN "over"
                               ELSE IF k \in Startable(x) THEN "check" ELSE calls[k].pc
    BY <1>2, QueueStep
  <2>2. CASE j \in Of(x)
    <3>1. \E k \in Of(x) : calls'[k].pc \notin {"queued", "over"}
      BY <1>2, <2>2, PassLeavesOne DEF At
    <3> QED
      BY <2>1, <2>2, <3>1 DEF Of
  <2>3. CASE j \notin Of(x)
    <3>1. calls[j].pc = "queued" /\ calls[j].executor # x
      BY <2>1, <2>3 DEF Of
    <3>2. \A k \in DOMAIN calls : calls[k].executor = calls[j].executor => calls'[k].pc = calls[k].pc
      BY <1>2, <2>1, <3>1 DEF Of, Startable
    <3> QED
      BY <1>2, <1>10, <2>1, <3>1, <3>2
  <2> QED
    BY <2>2, <2>3
<1>3. ASSUME NEW i \in 1..MaxTools, Pump(i) PROVE Kept
  <2>1. ProcessQueue(calls[i].executor, i) /\ At(i, "pump") /\ UNCHANGED control
    BY <1>3 DEF Pump
  <2> QED
    BY <1>2, <2>1 DEF At, Of, control
<1>4. CASE PumpAdded
  <2>1. ProcessQueue(executor, 0) /\ 0 \notin DOMAIN calls
    BY <1>0, <1>4 DEF PumpAdded
  <2> QED
    BY <1>2, <2>1
<1>5. ASSUME NEW kind \in Kind \cup Unknown, AddTool(kind) PROVE Kept
  <2>1. engine # "add" /\ executor' = executor
    BY <1>5 DEF AddTool
  <2>2. CASE j \in DOMAIN calls
    BY <1>5, <1>10, <2>1, <2>2, AddStep
  <2>3. CASE j \notin DOMAIN calls
    BY <1>5, <2>1, <2>3, AddStep
  <2> QED
    BY <2>2, <2>3
<1>6. CASE Alone
  BY <1>6, <1>10, AloneStep
<1>7. CASE UNCHANGED vars
  BY <1>7, <1>10 DEF vars
<1> QED
  BY <1>1, <1>3, <1>4, <1>5, <1>6, <1>7, Cases

-----------------------------------------------------------------------------
(* A pass over the queue.                                                  *)

\* Whether call i may join the calls in busy, as canExecuteTool has it.
MayJoin(i, busy) ==
  \/ busy = {}
  \/ /\ calls[i].kind \in Safe
     /\ \A k \in busy : /\ calls[k].kind \in Safe
                        /\ <<calls[k].kind, calls[i].kind>> \notin SameFile

\* What the loop of Pass makes of call i.
PassBody(x, i, sofar) ==
  IF sofar.ended \/ i \notin Of(x) \/ calls[i].pc # "queued" THEN sofar
  ELSE IF MayJoin(i, {k \in Of(x) : Executing(k)} \cup sofar.started)
         THEN [sofar EXCEPT !.started = @ \cup {i}]
         ELSE [sofar EXCEPT !.ended = calls[i].kind \notin Safe]

\* What the loop has found when it is past call i: the startable calls so far, and
\* whether an unsafe call it could not start has ended it.
Blocking(x, k) == calls[k].pc = "queued" /\ calls[k].kind \notin Safe /\ k \notin Startable(x)
PassTo(x, i) ==
  [started |-> {j \in Startable(x) : j <= i},
   ended   |-> \E k \in Of(x) : k <= i /\ Blocking(x, k)]

\* A call that conflicts with a waiting call ahead of it conflicts with what that call
\* waits for: an unsafe call conflicts with everything, and calls on one file share it.
\* Hence, while nothing has ended the loop, a call may join if it is startable.
LEMMA JoinIsStartable ==
  ASSUME TypeOK, NEW x, NEW i \in Of(x), calls[i].pc = "queued",
         \A k \in Of(x) : k < i => ~Blocking(x, k),
         NEW busy, busy = {k \in Of(x) : Executing(k)} \cup {j \in Startable(x) : j < i}
  PROVE  MayJoin(i, busy) <=> i \in Startable(x)
<1>0. /\ i \in Nat /\ DOMAIN calls \subseteq Nat /\ Of(x) \subseteq DOMAIN calls
      /\ Startable(x) \subseteq Of(x) /\ busy \subseteq Of(x) /\ i \notin busy
  BY LenProperties DEF TypeOK, Of, Startable, Executing
<1>1. MayJoin(i, busy) <=> \A k \in busy : ~Conflict(k, i)
  BY DEF MayJoin, Conflict
<1>2. \A k \in Of(x) : Conflict(k, i) <=> Conflict(i, k)
  BY KindAssumption DEF Conflict
<1>3. ASSUME i \in Startable(x) PROVE \A k \in busy : ~Conflict(k, i)
  BY <1>0, <1>2, <1>3 DEF Startable
<1>4. ASSUME i \notin Startable(x), \A k \in busy : ~Conflict(k, i) PROVE FALSE
  <2> DEFINE W == {k \in Of(x) : k < i /\ calls[k].pc = "queued" /\ Conflict(k, i)}
  <2>1. W # {}
    BY <1>2, <1>4 DEF Startable
  <2>2. PICK w \in W : \A k \in W : w <= k
    <3>1. W \subseteq Nat
      BY <1>0
    <3> HIDE DEF W
    <3> QED
      BY <2>1, <3>1, Least
  <2>3. w \in Of(x) /\ w \in Nat /\ w < i /\ calls[w].pc = "queued" /\ Conflict(w, i)
    BY <1>0, <2>2
  <2>4. w \notin Startable(x)
    BY <1>4, <2>3
  <2>5. calls[w].kind \in Safe
    BY <2>3, <2>4 DEF Blocking
  <2>6. PICK b \in Of(x) : Conflict(b, w) /\ (Executing(b) \/ (b < w /\ calls[b].pc = "queued"))
    BY <2>3, <2>4, KindAssumption DEF Startable, Conflict
  <2>7. Conflict(b, i)
    BY <2>3, <2>5, <2>6, KindAssumption DEF Conflict
  <2>8. ~Executing(b)
    BY <1>4, <2>6, <2>7
  <2>9. b < w /\ calls[b].pc = "queued" /\ b < i /\ b \in Nat
    BY <1>0, <2>3, <2>6, <2>8
  <2>10. b \in W
    BY <2>6, <2>7, <2>9
  <2>11. w <= b
    BY <2>2, <2>10
  <2> QED
    BY <2>3, <2>9, <2>11
<1> QED
  BY <1>1, <1>3, <1>4

\* The loop goes from PassTo to PassTo.
LEMMA PassGoes ==
  ASSUME TypeOK, NEW x, NEW i \in 1..Len(calls)
  PROVE  PassTo(x, i) = PassBody(x, i, PassTo(x, i - 1))
<1>0. /\ Len(calls) \in Nat /\ DOMAIN calls = 1..Len(calls) /\ i \in Nat /\ i - 1 \in Nat
      /\ Of(x) \subseteq 1..Len(calls) /\ Startable(x) \subseteq Of(x)
  BY LenProperties DEF TypeOK, Of, Startable
<1>1. \A j \in 1..Len(calls) : /\ (j <= i <=> j <= i - 1 \/ j = i)
                               /\ (j <= i - 1 <=> j < i)
  BY <1>0
<1> DEFINE S(n) == {j \in Startable(x) : j <= n}
           D(n) == \E k \in Of(x) : k <= n /\ Blocking(x, k)
<1>2. PassTo(x, i) = [started |-> S(i), ended |-> D(i)]
      /\ PassTo(x, i - 1) = [started |-> S(i - 1), ended |-> D(i - 1)]
  BY DEF PassTo
<1>3. /\ i \in Startable(x) => S(i) = S(i - 1) \cup {i}
      /\ i \notin Startable(x) => S(i) = S(i - 1)
      /\ S(i - 1) = {j \in Startable(x) : j < i}
  BY <1>0, <1>1
<1>4. D(i) <=> D(i - 1) \/ (i \in Of(x) /\ Blocking(x, i))
  BY <1>0, <1>1
<1>5. D(i - 1) => i \notin Startable(x)
  BY <1>0, <1>1 DEF Startable, Blocking, Conflict
<1>6. ~D(i - 1) => \A k \in Of(x) : k < i => ~Blocking(x, k)
  BY <1>0, <1>1
<1>7. i \in Startable(x) => i \in Of(x) /\ calls[i].pc = "queued"
  BY DEF Startable
<1> HIDE DEF S, D
<1>8. CASE D(i - 1) \/ i \notin Of(x) \/ calls[i].pc # "queued"
  <2>1. S(i) = S(i - 1)
    BY <1>3, <1>5, <1>7, <1>8
  <2>2. D(i) <=> D(i - 1)
    BY <1>4, <1>8 DEF Blocking
  <2>3. D(i) = D(i - 1)
    BY <2>2 DEF D
  <2>4. PassBody(x, i, PassTo(x, i - 1)) = PassTo(x, i - 1)
    BY <1>2, <1>8 DEF PassBody
  <2> QED
    BY <1>2, <2>1, <2>3, <2>4
<1>9. CASE ~D(i - 1) /\ i \in Of(x) /\ calls[i].pc = "queued"
  <2> DEFINE busy == {k \in Of(x) : Executing(k)} \cup S(i - 1)
  <2>1. MayJoin(i, busy) <=> i \in Startable(x)
    BY <1>3, <1>6, <1>9, JoinIsStartable
  <2> HIDE DEF busy
  <2>2. PassBody(x, i, PassTo(x, i - 1)) =
          IF MayJoin(i, busy) THEN [started |-> S(i - 1) \cup {i}, ended |-> D(i - 1)]
          ELSE [started |-> S(i - 1), ended |-> calls[i].kind \notin Safe]
    <3> DEFINE P == [started |-> S(i - 1), ended |-> D(i - 1)]
    <3>1. P.started = S(i - 1) /\ P.ended = D(i - 1)
      OBVIOUS
    <3>2. [P EXCEPT !.started = S(i - 1) \cup {i}]
            = [started |-> S(i - 1) \cup {i}, ended |-> D(i - 1)]
      <4> DEFINE s == S(i - 1)
                 e == D(i - 1)
                 r == S(i - 1) \cup {i}
      <4>1. P = [started |-> s, ended |-> e]
        OBVIOUS
      <4> HIDE DEF s, e, r, P
      <4>2. [P EXCEPT !.started = r] = [started |-> r, ended |-> e]
        BY <4>1
      <4> QED
        BY <4>2 DEF r, e
    <3>3. [P EXCEPT !.ended = calls[i].kind \notin Safe]
            = [started |-> S(i - 1), ended |-> calls[i].kind \notin Safe]
      <4> DEFINE s == S(i - 1)
                 e == D(i - 1)
                 r == calls[i].kind \notin Safe
      <4>1. P = [started |-> s, ended |-> e]
        OBVIOUS
      <4> HIDE DEF s, e, r, P
      <4>2. [P EXCEPT !.ended = r] = [started |-> s, ended |-> r]
        BY <4>1
      <4> QED
        BY <4>2 DEF s, r
    <3> HIDE DEF P
    <3>4. PassBody(x, i, P) =
            IF MayJoin(i, busy) THEN [P EXCEPT !.started = S(i - 1) \cup {i}]
            ELSE [P EXCEPT !.ended = calls[i].kind \notin Safe]
      <4>1. ~(P.ended \/ i \notin Of(x) \/ calls[i].pc # "queued")
        BY <1>9, <3>1
      <4>2. {k \in Of(x) : Executing(k)} \cup P.started = busy
        BY <3>1 DEF busy
      <4> QED
        BY <3>1, <4>1, <4>2 DEF PassBody
    <3> QED
      BY <1>2, <3>2, <3>3, <3>4 DEF P
  <2>3. CASE i \in Startable(x)
    <3>1. D(i) <=> D(i - 1)
      BY <1>4, <2>3 DEF Blocking
    <3>2. D(i) = D(i - 1)
      BY <3>1 DEF D
    <3> QED
      BY <1>2, <1>3, <2>1, <2>2, <2>3, <3>2
  <2>4. CASE i \notin Startable(x)
    <3>1. D(i) <=> calls[i].kind \notin Safe
      BY <1>4, <1>9, <2>4 DEF Blocking
    <3>2. D(i) = (calls[i].kind \notin Safe)
      BY <3>1 DEF D
    <3> QED
      BY <1>2, <1>3, <2>1, <2>2, <2>4, <3>2
  <2> QED
    BY <2>3, <2>4
<1> QED
  BY <1>8, <1>9

\* Induction up to a number, for a property given as a set.
LEMMA UpTo ==
  ASSUME NEW n \in Nat, NEW S, 0 \in S, \A i \in 1..n : i - 1 \in S => i \in S
  PROVE  \A i \in 0..n : i \in S
<1> DEFINE Bad == (0..n) \ S
<1>1. SUFFICES ASSUME Bad # {} PROVE FALSE
  OBVIOUS
<1>2. PICK m \in Bad : \A k \in Bad : m <= k
  <2>1. Bad \subseteq Nat
    OBVIOUS
  <2> HIDE DEF Bad
  <2> QED
    BY <1>1, <2>1, Least
<1>3. m \in 1..n /\ m - 1 \in 0..n /\ m - 1 < m
  BY <1>2
<1> QED
  BY <1>2, <1>3

\* The pass of the code starts exactly the startable calls, whatever the queue holds.
LEMMA PassStarts ==
  ASSUME TypeOK, NEW x
  PROVE  Pass(x) = Startable(x)
<1> DEFINE n == Len(calls)
           empty == [started |-> {}, ended |-> FALSE]
           E(g) == [i \in 0..n |-> IF i = 0 THEN empty ELSE PassBody(x, i, g[i - 1])]
           loop == CHOOSE g : g = E(g)
           f == [i \in 0..n |-> PassTo(x, i)]
<1>0. /\ n \in Nat /\ DOMAIN calls = 1..n /\ Of(x) \subseteq 1..n /\ Startable(x) \subseteq 1..n
  BY LenProperties DEF TypeOK, Of, Startable
<1>1. PassTo(x, 0) = empty
  <2>1. {j \in Startable(x) : j <= 0} = {}
    BY <1>0
  <2>2. (\E k \in Of(x) : k <= 0 /\ Blocking(x, k)) <=> FALSE
    BY <1>0
  <2> QED
    BY <2>1, <2>2 DEF PassTo
<1>2. PassTo(x, n).started = Startable(x)
  <2>1. {j \in Startable(x) : j <= n} = Startable(x)
    BY <1>0
  <2> QED
    BY <2>1 DEF PassTo
<1>3. Pass(x) = loop[n].started
  BY DEF Pass, PassBody, MayJoin
<1> HIDE DEF n, empty
<1>4. \A i \in 1..n : PassTo(x, i) = PassBody(x, i, PassTo(x, i - 1))
  BY PassGoes DEF n
<1>5. f = E(f)
  <2>1. \A i \in 0..n : i = 0 \/ (i \in 1..n /\ i - 1 \in 0..n)
    BY <1>0
  <2>2. \A i \in 0..n : f[i] = PassTo(x, i)
    OBVIOUS
  <2>3. \A i \in 0..n : f[i] = IF i = 0 THEN empty ELSE PassBody(x, i, f[i - 1])
    BY <1>1, <1>4, <2>1, <2>2
  <2>4. f = [i \in 0..n |-> f[i]]
    OBVIOUS
  <2> HIDE DEF f
  <2> QED
    BY <2>3, <2>4
<1>6. loop = E(loop)
  <2> HIDE DEF E, f
  <2> QED
    BY <1>5
<1> HIDE DEF loop, f
<1>7. \A i \in 0..n : loop[i] = IF i = 0 THEN empty ELSE PassBody(x, i, loop[i - 1])
  BY <1>6
<1> HIDE DEF E
<1>8. loop[n] = PassTo(x, n)
  <2> DEFINE S == {i \in 0..n : loop[i] = PassTo(x, i)}
  <2>1. 0 \in S
    BY <1>0, <1>1, <1>7
  <2>2. ASSUME NEW i \in 1..n, i - 1 \in S PROVE i \in S
    <3>1. i \in 0..n /\ i # 0
      BY <1>0
    <3> QED
      BY <1>4, <1>7, <2>2, <3>1
  <2>3. \A i \in 0..n : i \in S
    <3> HIDE DEF S
    <3> QED
      BY <1>0, <2>1, <2>2, UpTo
  <2>4. n \in 0..n
    BY <1>0
  <2> QED
    BY <2>3, <2>4
<1> QED
  BY <1>2, <1>3, <1>8

-----------------------------------------------------------------------------
(* The theorems.                                                           *)

\* The invariant holds at the start.
LEMMA Start == Init => IInv
<1> SUFFICES ASSUME Init PROVE IInv
  OBVIOUS
<1>1. DOMAIN calls = {} /\ engine = "stream"
  BY EmptySeq DEF Init
<1> QED
  BY <1>1, TypeInit
  DEF IInv, Answers, ConflictsInOrder, AskedOnce, CalledOff, AllAnswered, NothingForgotten

\* Every step keeps it.
LEMMA InvStep == IInv /\ [Next]_vars => IInv'
BY TypeStep, AnswersStep, OrderStep, AskStep, CalledOffStep, AnsweredStep, ForgottenStep DEF IInv

LEMMA Always == Spec => []IInv
<1> QED
  BY Start, InvStep, PTL DEF Spec

\* The model's state has its types, for any tools, executors and calls.
THEOREM TypeCorrect == Spec => []TypeOK
<1>1. IInv => TypeOK
  BY DEF IInv
<1> QED
  BY <1>1, Always, PTL

\* Calls of one response that may not overlap run one after the other, in the order the
\* model asked for them, whatever is safe and whichever files are shared
\* (canExecuteTool, processQueue).
THEOREM Ordered == Spec => []ConflictsInOrder
<1>1. IInv => ConflictsInOrder
  BY DEF IInv
<1> QED
  BY <1>1, Always, PTL

\* One dialog at a time in a response, and none for what the user has allowed for always
\* (askUser).
THEOREM OneDialog == Spec => []AskedOnce
<1>1. IInv => AskedOnce
  BY DEF IInv
<1> QED
  BY <1>1, Always, PTL

\* Unless the user aborts, ExecuteAll has an answer for every call of its response.
THEOREM EveryCallAnswered == Spec => []AllAnswered
<1>1. IInv => AllAnswered
  BY DEF IInv
<1> QED
  BY <1>1, Always, PTL

\* A queued call always has somebody who will run the queue (AddTool, the clean-up of
\* executeTool).
THEOREM NothingLeftQueued == Spec => []NothingForgotten
<1>1. IInv => NothingForgotten
  BY DEF IInv
<1> QED
  BY <1>1, Always, PTL

\* Once a Bash call has failed, no call of its response enters t.Call (emitToolError).
THEOREM SiblingsStop == Spec => SiblingsCalledOff
<1>1. IInv /\ [Next]_vars
      => [\A i \in DOMAIN calls :
            calls[i].executor \in errored /\ calls'[i].pc = "call" => At(i, "call")]_vars
  BY SiblingStep DEF IInv
<1> QED
  BY <1>1, Always, PTL DEF Spec, SiblingsCalledOff

\* A pass of processQueue starts every queued call that conflicts with nothing executing
\* and nothing queued ahead of it, and no other (processQueue, canExecuteTool).
THEOREM PassStartsStartable == Spec => []PassIsStartable
<1>1. IInv => PassIsStartable
  BY PassStarts DEF IInv, PassIsStartable
<1> QED
  BY <1>1, Always, PTL

-----------------------------------------------------------------------------
(* BackgroundJobs.  The inductive invariant has three parts: who holds     *)
(* job.mu across the wait for the watchdog (Holding), who has ended the    *)
(* job and how far its reports have come (Story), and what the watchdog    *)
(* may still do (Watched).                                                 *)

Actor == Killer \cup {Runner}

\* a has ended the job and is on the way through its reports.
Reports(a) == place[a] \in {"emit", "emitOnly", "notify"}

\* job.mu is kept by who waits for the watchdog, and the job has not ended then.
Holding ==
  /\ \A a \in Actor : place[a] = "stop" <=> holder = a
  /\ ~Free => ~Ended

\* A job that has not ended has not been reported as ended; one actor reports it, first
\* the event and then the notification.
Story ==
  /\ ~Ended => Sent({"terminated"} \cup Terminal) = {}
  /\ Ended => notified
  /\ \A a \in Actor :
       /\ Reports(a) => Ended
       /\ place[a] \in {"emit", "emitOnly"} => Sent({"terminated"} \cup Terminal) = {}
       /\ place[a] = "notify" => Sent({"terminated"}) # {} /\ Sent(Terminal) = {}
  /\ \A a, b \in Actor : Reports(a) /\ Reports(b) => a = b

\* The watchdog reports no stall of an ended job, and one that is neither to be
\* cancelled nor being waited for has not been started.
Watched ==
  /\ watchdog = "notify" => ~Ended
  /\ watchdog # "none" /\ ~cancelStall => ~Free \/ Ended

\* The goroutine is idle until it is started.
Fresh == spawner # "gone" => place[Runner] = "idle"

JobInv == JobTypeOK /\ Fresh /\ Holding /\ Story /\ Watched /\ EndsOnce /\ EventFirst /\ NoStallAfterEnd

\* What appending a message to sent does to the places of a set of messages.
LEMMA SentAppend ==
  ASSUME JobTypeOK, NEW m \in Message, sent' = Append(sent, m)
  PROVE  /\ sent' \in Seq(Message)
         /\ \A M \in SUBSET Message :
              Sent(M)' = Sent(M) \cup (IF m \in M THEN {Len(sent) + 1} ELSE {})
         /\ \A M \in SUBSET Message : Sent(M) \subseteq 1..Len(sent)
BY DEF JobTypeOK, Sent

\* The invariant holds at the start.
LEMMA JobStart == JobInit => JobInv
<1> SUFFICES ASSUME JobInit PROVE JobInv
  OBVIOUS
<1> USE NameAssumption DEF JobInit, stall, outside
<1>1. JobTypeOK
  <2>1. place \in [Killer \cup {Runner} -> {"idle"}]
    OBVIOUS
  <2>2. sent \in Seq(Message)
    OBVIOUS
  <2> QED
    BY <2>1, <2>2 DEF JobTypeOK, Terminal, Place
<1>2. \A M \in SUBSET Message : Sent(M) = {}
  BY DEF Sent
<1>3. {"terminated"} \cup Terminal \in SUBSET Message /\ {"terminated"} \in SUBSET Message
      /\ {"stall"} \in SUBSET Message /\ Terminal \in SUBSET Message
  BY DEF Message
<1> QED
  BY <1>1, <1>2, <1>3 DEF JobInv, Fresh, Holding, Story, Watched, EndsOnce, EventFirst,
     NoStallAfterEnd, Reports, Actor, Free, Ended, Terminal

\* A step that neither reports, nor ends the job, nor takes job.mu keeps the story.
LEMMA Quiet ==
  ASSUME JobInv, UNCHANGED <<sent, status, holder>>, notified => notified',
         \A a \in Actor : place'[a] = place[a] \/ place'[a] \notin {"stop", "emit", "emitOnly", "notify"},
         \A a \in Actor : place[a] = "stop" => place'[a] = "stop"
  PROVE  Holding' /\ Story' /\ EndsOnce' /\ EventFirst' /\ NoStallAfterEnd'
<1>1. \A M : Sent(M)' = Sent(M)
  BY DEF Sent
<1>2. Holding'
  BY DEF JobInv, Holding, Free, Ended, Terminal
<1>3. Story'
  BY <1>1 DEF JobInv, Story, Reports, Ended, Terminal
<1>4. EndsOnce' /\ EventFirst' /\ NoStallAfterEnd'
  BY <1>1 DEF JobInv, EndsOnce, EventFirst, NoStallAfterEnd, Terminal
<1> QED
  BY <1>2, <1>3, <1>4

\* Every step keeps every type.
LEMMA JobTypeStep == JobInv /\ [JobNext]_jobVars => JobTypeOK'
<1> SUFFICES ASSUME JobInv, [JobNext]_jobVars PROVE JobTypeOK'
  OBVIOUS
<1> JobTypeOK /\ Story /\ {"started", "terminated", "stall"} \cup Terminal \subseteq Message
  BY DEF JobInv, Message
<1> USE DEF jobVars, stall, outside
<1>1. ASSUME NEW m \in Message, sent' = Append(sent, m) PROVE sent' \in Seq(Message)
  BY <1>1, SentAppend
<1>2. ASSUME NEW a \in Actor, NEW how \in How(a), End(a, how),
             UNCHANGED <<outside, pid, stall, sent>>
      PROVE  JobTypeOK'
  BY <1>2 DEF JobTypeOK, End, How, Actor, Terminal, Place
<1>3. ASSUME NEW a \in Actor, FinishJob(a), UNCHANGED <<outside, pid, sent>> PROVE JobTypeOK'
  <2>1. CASE Ended
    BY <1>3, <2>1 DEF JobTypeOK, FinishJob, Actor, Place
  <2>2. CASE ~Ended /\ cancelStall
    <3>1. place' \in [Actor -> Place] /\ holder' = a
      BY <1>3, <2>2 DEF JobTypeOK, FinishJob, Actor, Place
    <3>2. cancelStall' \in BOOLEAN /\ cancelled' \in BOOLEAN
          /\ UNCHANGED <<outside, process, pid, watchdog, status, notified, sent>>
      BY <1>3, <2>2 DEF FinishJob, Cancel
    <3> QED
      BY <3>1, <3>2 DEF JobTypeOK, Actor
  <2>3. CASE ~Ended /\ ~cancelStall
    BY <1>2, <1>3, <2>3 DEF FinishJob
  <2> QED
    BY <2>1, <2>2, <2>3
<1>4. CASE Register \/ StartStallWatchdog \/ Go
  <2>1. place' \in [Actor -> Place]
    BY <1>4 DEF JobTypeOK, Register, StartStallWatchdog, Go, Actor, Place
  <2>2. CASE Register
    BY <2>1, <2>2 DEF JobTypeOK, Register, Actor
  <2>3. CASE StartStallWatchdog
    BY <2>1, <2>3 DEF JobTypeOK, StartStallWatchdog, Actor
  <2>4. CASE Go
    BY <2>1, <2>4 DEF JobTypeOK, Go, Actor
  <2> QED
    BY <1>4, <2>2, <2>3, <2>4
<1>5. CASE EmitStarted
  <2>1. sent' \in Seq(Message)
    BY <1>1, <1>5 DEF EmitStarted
  <2> QED
    BY <1>5, <2>1 DEF JobTypeOK, EmitStarted
<1>6. CASE StartProcess \/ RecordPID \/ ProcessReaped
  <2>1. place' \in [Actor -> Place]
    BY <1>6 DEF JobTypeOK, StartProcess, RecordPID, ProcessReaped, Actor, Place
  <2>2. CASE StartProcess
    BY <2>1, <2>2 DEF JobTypeOK, StartProcess, Actor
  <2>3. CASE RecordPID
    BY <2>1, <2>3 DEF JobTypeOK, RecordPID, Actor
  <2>4. CASE ProcessReaped
    BY <2>1, <2>4 DEF JobTypeOK, ProcessReaped, Actor
  <2> QED
    BY <1>6, <2>2, <2>3, <2>4
<1>7. CASE Complete
  BY <1>3, <1>7 DEF Complete, Actor
<1>8. CASE WatchdogStops \/ StallCallback \/ StallDetected \/ ProcessExits
  <2>1. CASE WatchdogStops
    BY <2>1 DEF JobTypeOK, WatchdogStops
  <2>2. CASE StallCallback
    BY <2>2 DEF JobTypeOK, StallCallback
  <2>3. CASE StallDetected
    BY <2>3 DEF JobTypeOK, StallDetected
  <2>4. CASE ProcessExits
    BY <2>4 DEF JobTypeOK, ProcessExits
  <2> QED
    BY <1>8, <2>1, <2>2, <2>3, <2>4
<1>9. CASE NotifyStall
  <2>1. sent' \in Seq(Message)
    BY <1>1, <1>9 DEF NotifyStall
  <2> QED
    BY <1>9, <2>1 DEF JobTypeOK, NotifyStall
<1>10. ASSUME NEW a \in Actor, Stopped(a) PROVE JobTypeOK'
  BY <1>2, <1>10 DEF Stopped
<1>11. ASSUME NEW a \in Actor, EmitTerminated(a) PROVE JobTypeOK'
  <2>1. sent' \in Seq(Message)
    BY <1>1, <1>11 DEF EmitTerminated
  <2> QED
    BY <1>11, <2>1 DEF JobTypeOK, EmitTerminated, Actor, Place
<1>12. ASSUME NEW a \in Actor, Notify(a) PROVE JobTypeOK'
  <2>1. status \in Message
    BY <1>12 DEF Notify, Story, Reports, Ended
  <2>2. sent' \in Seq(Message)
    BY <1>1, <1>12, <2>1 DEF Notify
  <2> QED
    BY <1>12, <2>2 DEF JobTypeOK, Notify, Actor, Place
<1>13. ASSUME NEW k \in Killer, Kill(k) PROVE JobTypeOK'
  BY <1>3, <1>13 DEF Kill, Actor
<1>14. CASE Wait \/ WaitReturns \/ CleanupCompleted \/ UNCHANGED jobVars
  <2>1. CASE Wait
    BY <2>1 DEF JobTypeOK, Wait
  <2>2. CASE WaitReturns
    BY <2>2 DEF JobTypeOK, WaitReturns
  <2>3. CASE CleanupCompleted
    <3>1. listed' \in BOOLEAN /\ UNCHANGED <<spawner, process, pid, place, holder>>
          /\ UNCHANGED <<stall, status, notified, waiter, sent>>
      BY <2>3 DEF CleanupCompleted
    <3> QED
      BY <3>1 DEF JobTypeOK
  <2>4. CASE UNCHANGED jobVars
    BY <2>4 DEF JobTypeOK
  <2> QED
    BY <1>14, <2>1, <2>2, <2>3, <2>4
<1> QED
  BY <1>4, <1>5, <1>6, <1>7, <1>8, <1>9, <1>10, <1>11, <1>12, <1>13, <1>14
  DEF JobNext, Spawn, Run, Watch, Conclude, Actor

\* Ending the job, by whoever holds job.mu or finds it free, with no stall on its way out.
LEMMA EndKeeps ==
  ASSUME JobInv, NEW a \in Actor, NEW how \in How(a), End(a, how), ~Ended,
         Free \/ holder = a, place[a] # "stop" => Free, watchdog # "notify",
         UNCHANGED <<sent, stall>>
  PROVE  Holding' /\ Story' /\ Watched' /\ EndsOnce' /\ EventFirst' /\ NoStallAfterEnd'
<1> USE DEF JobInv, End, stall
<1>1. Ended'
  BY DEF How, Ended, Terminal
<1>2. \A M : Sent(M)' = Sent(M)
  BY DEF Sent
<1>3. place'[a] \in {"emit", "emitOnly"}
      /\ \A b \in Actor \ {a} : place'[b] = place[b]
  BY DEF JobTypeOK, Actor
<1>4. Free'
  BY DEF Free
<1>5. \A b \in Actor : holder = b => b = a
  BY NameAssumption DEF Free, Actor
<1>6. \A b \in Actor : place'[b] # "stop"
  BY <1>3, <1>5 DEF Holding
<1>7. Holding'
  BY <1>4, <1>6, NameAssumption DEF Holding, Free, Actor
<1>8. \A b \in Actor : ~Reports(b)
  BY DEF Story
<1>9. Story'
  BY <1>1, <1>2, <1>3, <1>8 DEF Story, Reports, Terminal
<1>10. Watched'
  BY <1>1 DEF Watched
<1>11. EndsOnce' /\ EventFirst' /\ NoStallAfterEnd'
  BY <1>2 DEF EndsOnce, EventFirst, NoStallAfterEnd, Terminal
<1> QED
  BY <1>7, <1>9, <1>10, <1>11

\* Complete and Kill up to their wait, or to the end where there is no watchdog.
LEMMA FinishKeeps ==
  ASSUME JobInv, NEW a \in Actor, FinishJob(a), UNCHANGED sent,
         place[a] \notin {"stop", "emit", "emitOnly", "notify"}
  PROVE  Holding' /\ Story' /\ Watched' /\ EndsOnce' /\ EventFirst' /\ NoStallAfterEnd'
<1>1. CASE Ended
  <2>1. Holding' /\ Story' /\ EndsOnce' /\ EventFirst' /\ NoStallAfterEnd'
    BY <1>1, Quiet DEF FinishJob, JobInv, JobTypeOK, Actor, stall
  <2>2. Watched'
    BY <1>1 DEF FinishJob, JobInv, Watched, Free, Ended, Terminal, stall
  <2> QED
    BY <2>1, <2>2
<1>2. CASE ~Ended /\ cancelStall
  <2> USE <1>2 DEF FinishJob, Cancel, JobInv
  <2>1. \A M : Sent(M)' = Sent(M)
    BY DEF Sent
  <2>2. place'[a] = "stop" /\ \A b \in Actor \ {a} : place'[b] = place[b]
    BY DEF JobTypeOK, Actor
  <2>3. ~Free' /\ ~Ended'
    BY NameAssumption DEF Free, Actor, Ended, Terminal
  <2>4. \A b \in Actor : place[b] # "stop"
    BY NameAssumption DEF Holding, Free, Actor
  <2>5. Holding'
    BY <2>2, <2>3, <2>4 DEF Holding
  <2>6. Story'
    BY <2>1, <2>2, <2>3 DEF Story, Reports, Terminal
  <2>7. Watched'
    BY <2>3 DEF Watched
  <2>8. EndsOnce' /\ EventFirst' /\ NoStallAfterEnd'
    BY <2>1 DEF EndsOnce, EventFirst, NoStallAfterEnd, Terminal
  <2> QED
    BY <2>5, <2>6, <2>7, <2>8
<1>3. CASE ~Ended /\ ~cancelStall
  <2>1. watchdog = "none"
    BY <1>3 DEF FinishJob, JobInv, Watched
  <2> QED
    BY <1>3, <2>1, EndKeeps DEF FinishJob
<1> QED
  BY <1>1, <1>2, <1>3

\* EmitStarted and NotifyStall: a message that is no report of the end.
LEMMA OtherSent ==
  ASSUME JobInv, NEW m \in {"started", "stall"}, sent' = Append(sent, m),
         m = "stall" => ~Ended, UNCHANGED <<place, status, holder, notified>>
  PROVE  Holding' /\ Story' /\ EndsOnce' /\ EventFirst' /\ NoStallAfterEnd'
<1> USE DEF JobInv
<1>1. m \in Message /\ {"terminated"} \cup Terminal \in SUBSET Message /\ Terminal \in SUBSET Message
      /\ {"terminated"} \in SUBSET Message /\ {"stall"} \in SUBSET Message
  BY DEF Message
<1>append. \A M \in SUBSET Message :
         Sent(M)' = Sent(M) \cup (IF m \in M THEN {Len(sent) + 1} ELSE {})
  <2>1. m \in Message
    BY <1>1
  <2>2. sent' = Append(sent, m)
    OBVIOUS
  <2> QED
    BY <2>1, <2>2, SentAppend
<1>2. /\ Sent({"terminated"} \cup Terminal)' = Sent({"terminated"} \cup Terminal)
      /\ Sent({"terminated"})' = Sent({"terminated"}) /\ Sent(Terminal)' = Sent(Terminal)
  <2>1. \A M \in SUBSET Message : m \notin M => Sent(M)' = Sent(M)
    BY <1>append
  <2>2. m \notin {"terminated"} \cup Terminal
    BY DEF Terminal
  <2> QED
    BY <1>1, <2>1, <2>2
<1>3. Holding'
  BY DEF Holding, Free, Ended, Terminal
<1>4. Story'
  BY <1>2 DEF Story, Reports, Ended, Terminal
<1>5. EndsOnce' /\ EventFirst'
  BY <1>2 DEF EndsOnce, EventFirst
<1>6. NoStallAfterEnd'
  <2>1. CASE m = "stall"
    <3>1. Sent({"terminated"}) \subseteq Sent({"terminated"} \cup Terminal)
      BY DEF Sent
    <3>2. Sent({"terminated"}) = {}
      BY <2>1, <3>1 DEF Story
    <3> QED
      BY <1>2, <3>2 DEF NoStallAfterEnd
  <2>2. CASE m = "started"
    <3>1. Sent({"stall"})' = Sent({"stall"})
      BY <1>append, <1>1, <2>2
    <3> QED
      BY <1>2, <3>1 DEF NoStallAfterEnd
  <2> QED
    BY <2>1, <2>2
<1> QED
  BY <1>3, <1>4, <1>5, <1>6

\* The event and the notification of the end.
LEMMA EndSent ==
  ASSUME JobInv, NEW a \in Actor, EmitTerminated(a) \/ Notify(a)
  PROVE  Holding' /\ Story' /\ EndsOnce' /\ EventFirst' /\ NoStallAfterEnd'
<1> USE DEF JobInv
<1> DEFINE end == {"terminated"} \cup Terminal
<1>1. end \in SUBSET Message /\ Terminal \in SUBSET Message
      /\ {"terminated"} \in SUBSET Message /\ {"stall"} \in SUBSET Message
  BY DEF Message
<1>2. UNCHANGED <<status, holder, notified>> /\ Ended /\ ~(place[a] = "stop")
      /\ \A b \in Actor \ {a} : place'[b] = place[b] /\ ~Reports(b)
  BY DEF EmitTerminated, Notify, stall, outside, JobTypeOK, Actor, Story, Reports
<1>3. Holding'
  <2>1. place'[a] # "stop"
    BY DEF EmitTerminated, Notify, JobTypeOK, Actor
  <2> QED
    BY <1>2, <2>1 DEF Holding, Free, Ended, Terminal
<1>4. /\ \A i \in Sent(end) : i \in 1..Len(sent)
      /\ Sent({"terminated"}) \subseteq Sent(end) /\ Sent(Terminal) \subseteq Sent(end)
      /\ \A i \in Sent({"stall"}) : i \in 1..Len(sent)
      /\ Len(sent) \in Nat
  BY <1>1, SentAppend DEF Sent, JobTypeOK
<1>5. CASE EmitTerminated(a)
  <2> USE <1>5
  <2>1. "terminated" \in Message /\ sent' = Append(sent, "terminated")
    BY DEF EmitTerminated, Message
  <2>2. /\ Sent({"terminated"})' = Sent({"terminated"}) \cup {Len(sent) + 1}
        /\ Sent(Terminal)' = Sent(Terminal) /\ Sent({"stall"})' = Sent({"stall"})
    <3>1. \A M \in SUBSET Message :
            Sent(M)' = Sent(M) \cup (IF "terminated" \in M THEN {Len(sent) + 1} ELSE {})
      BY <2>1, SentAppend
    <3> QED
      BY <1>1, <3>1 DEF Terminal
  <2>3. Sent({"terminated"}) = {} /\ Sent(Terminal) = {}
    BY <1>4 DEF EmitTerminated, Story
  <2>4. place'[a] \in {"notify", "over"}
    BY DEF EmitTerminated, JobTypeOK, Actor
  <2>5. Story'
    BY <1>2, <2>2, <2>3, <2>4 DEF Story, Reports, Ended, Terminal
  <2>6. EndsOnce' /\ EventFirst'
    BY <2>2, <2>3 DEF EndsOnce, EventFirst
  <2>7. NoStallAfterEnd'
    BY <1>4, <2>2, <2>3 DEF NoStallAfterEnd
  <2> QED
    BY <1>3, <2>5, <2>6, <2>7
<1>6. CASE Notify(a)
  <2> USE <1>6
  <2>1. status \in Terminal /\ status \in Message /\ sent' = Append(sent, status)
    BY <1>1, <1>2 DEF Notify, Ended
  <2>2. /\ Sent({"terminated"})' = Sent({"terminated"})
        /\ Sent(Terminal)' = Sent(Terminal) \cup {Len(sent) + 1}
        /\ Sent({"stall"})' = Sent({"stall"})
    <3>1. \A M \in SUBSET Message :
            Sent(M)' = Sent(M) \cup (IF status \in M THEN {Len(sent) + 1} ELSE {})
      BY <2>1, SentAppend
    <3>2. status \notin {"terminated", "stall"}
      BY <2>1 DEF Terminal
    <3> QED
      BY <1>1, <2>1, <3>1, <3>2
  <2>3. Sent({"terminated"}) # {} /\ Sent(Terminal) = {}
    BY DEF Notify, Story
  <2>4. place'[a] = "over"
    BY DEF Notify, JobTypeOK, Actor
  <2>5. Story'
    BY <1>2, <2>4 DEF Story, Reports, Ended, Terminal
  <2>6. EndsOnce' /\ NoStallAfterEnd'
    BY <2>2, <2>3 DEF EndsOnce, NoStallAfterEnd
  <2>7. EventFirst'
    <3>1. PICK j \in Sent({"terminated"}) : j \in 1..Len(sent)
      BY <1>4, <2>3
    <3>2. j < Len(sent) + 1
      BY <1>4, <3>1
    <3> QED
      BY <2>2, <2>3, <3>1, <3>2 DEF EventFirst
  <2> QED
    BY <1>3, <2>5, <2>6, <2>7
<1> QED
  BY <1>5, <1>6

\* No step but Go moves the goroutine of a job that is still being spawned.
LEMMA FreshStep == JobInv /\ [JobNext]_jobVars => Fresh'
<1> SUFFICES ASSUME JobInv, [JobNext]_jobVars PROVE Fresh'
  OBVIOUS
<1> USE DEF jobVars, stall, outside, JobInv
<1>1. CASE Spawn
  BY <1>1 DEF Spawn, Register, EmitStarted, StartStallWatchdog, Go, Fresh
<1>2. CASE Run
  BY <1>2 DEF Run, StartProcess, RecordPID, ProcessReaped, Complete, Fresh
<1>3. CASE Watch \/ StallDetected \/ ProcessExits \/ Wait \/ WaitReturns \/ CleanupCompleted
           \/ UNCHANGED jobVars
  BY <1>3 DEF Watch, WatchdogStops, StallCallback, NotifyStall, StallDetected, ProcessExits, Wait,
     WaitReturns, CleanupCompleted, Fresh
<1>4. ASSUME NEW a \in Actor, Conclude(a) PROVE Fresh'
  <2>1. place[a] \in {"stop", "emit", "emitOnly", "notify"} /\ UNCHANGED spawner
    BY <1>4 DEF Conclude, Stopped, EmitTerminated, Notify
  <2>2. \A b \in Actor \ {a} : place'[b] = place[b]
    BY <1>4 DEF Conclude, Stopped, End, EmitTerminated, Notify, JobTypeOK, Actor
  <2> QED
    BY <2>1, <2>2 DEF Fresh, Actor
<1>5. ASSUME NEW k \in Killer, Kill(k) PROVE Fresh'
  <2>1. place'[Runner] = place[Runner] /\ UNCHANGED spawner
    BY <1>5, NameAssumption DEF Kill, FinishJob, End, JobTypeOK
  <2> QED
    BY <2>1 DEF Fresh
<1> QED
  BY <1>1, <1>2, <1>3, <1>4, <1>5 DEF JobNext, Actor

\* Every step keeps the invariant.
LEMMA JobInvStep == JobInv /\ [JobNext]_jobVars => JobInv'
<1> SUFFICES ASSUME JobInv, [JobNext]_jobVars
             PROVE  Holding' /\ Story' /\ Watched' /\ EndsOnce' /\ EventFirst' /\ NoStallAfterEnd'
  BY JobTypeStep, FreshStep DEF JobInv
<1> USE DEF jobVars, stall, outside
<1> JobTypeOK /\ Watched /\ Story
  BY DEF JobInv
<1>1. CASE Register \/ Go \/ StartProcess \/ RecordPID \/ ProcessReaped
  <2>1. /\ \A a \in Actor : place'[a] = place[a] \/ place'[a] \notin {"stop", "emit", "emitOnly", "notify"}
        /\ \A a \in Actor : place[a] = "stop" => place'[a] = "stop"
    <3>1. place[Runner] # "stop" \/ place' = place
      BY <1>1 DEF Register, Go, StartProcess, RecordPID, ProcessReaped, JobInv, Fresh
    <3> QED
      BY <1>1, <3>1 DEF Register, Go, StartProcess, RecordPID, ProcessReaped, JobTypeOK, Actor
  <2>2. UNCHANGED <<sent, status, holder, notified, stall>>
    BY <1>1 DEF Register, Go, StartProcess, RecordPID, ProcessReaped
  <2>3. Watched'
    BY <2>2 DEF Watched, Free, Ended, Terminal
  <2> QED
    BY <2>1, <2>2, <2>3, Quiet
<1>2. CASE StartStallWatchdog \/ WatchdogStops \/ StallCallback \/ StallDetected
  <2>1. UNCHANGED <<sent, status, holder, place>> /\ (notified => notified')
    BY <1>2 DEF StartStallWatchdog, WatchdogStops, StallCallback, StallDetected
  <2>2. Watched'
    BY <1>2 DEF StartStallWatchdog, WatchdogStops, StallCallback, StallDetected, Watched, Story,
       Free, Ended, Terminal
  <2> QED
    BY <2>1, <2>2, Quiet
<1>3. CASE ProcessExits \/ Wait \/ WaitReturns \/ CleanupCompleted \/ UNCHANGED jobVars
  <2>1. UNCHANGED <<sent, status, holder, place, notified, stall>>
    BY <1>3 DEF ProcessExits, Wait, WaitReturns, CleanupCompleted
  <2>2. Watched'
    BY <2>1 DEF Watched, Free, Ended, Terminal
  <2> QED
    BY <2>1, <2>2, Quiet
<1>4. CASE EmitStarted
  BY <1>4, OtherSent DEF EmitStarted, Watched, Free, Ended, Terminal
<1>5. CASE NotifyStall
  BY <1>5, OtherSent DEF NotifyStall, Watched, Free, Ended, Terminal
<1>6. ASSUME NEW a \in Actor, EmitTerminated(a) \/ Notify(a)
      PROVE  Holding' /\ Story' /\ Watched' /\ EndsOnce' /\ EventFirst' /\ NoStallAfterEnd'
  <2>1. Watched'
    BY <1>6 DEF EmitTerminated, Notify, Watched, Free, Ended, Terminal
  <2> QED
    BY <1>6, <2>1, EndSent
<1>7. ASSUME NEW a \in Actor, Stopped(a)
      PROVE  Holding' /\ Story' /\ Watched' /\ EndsOnce' /\ EventFirst' /\ NoStallAfterEnd'
  <2>1. holder = a /\ ~Ended
    BY <1>7, NameAssumption DEF Stopped, JobInv, Holding, Free, Actor
  <2> QED
    BY <1>7, <2>1, EndKeeps DEF Stopped
<1>8. CASE Complete
  BY <1>8, FinishKeeps DEF Complete, Actor
<1>9. ASSUME NEW k \in Killer, Kill(k)
      PROVE  Holding' /\ Story' /\ Watched' /\ EndsOnce' /\ EventFirst' /\ NoStallAfterEnd'
  BY <1>9, FinishKeeps DEF Kill, Actor
<1> QED
  BY <1>1, <1>2, <1>3, <1>4, <1>5, <1>6, <1>7, <1>8, <1>9
  DEF JobNext, Spawn, Run, Watch, Conclude, Actor

\* The invariant holds in every reachable state.
LEMMA JobAlways == JobSpec => []JobInv
BY JobStart, JobInvStep, PTL DEF JobSpec

\* Every variable keeps its type, however many calls of Kill there are.
THEOREM JobTypeCorrect == JobSpec => []JobTypeOK
BY JobAlways, PTL DEF JobInv

\* However many calls of Kill race with Complete, the job ends once: done is closed
\* once, and the panel and the engine hear of one end at most.
THEOREM OneEnd == JobSpec => []EndsOnce
BY JobAlways, PTL DEF JobInv

\* The engine never hears of the end before the panel has.
THEOREM PanelFirst == JobSpec => []EventFirst
BY JobAlways, PTL DEF JobInv

\* No stall is reported of a job that has been reported as ended.
THEOREM StallsBeforeEnd == JobSpec => []NoStallAfterEnd
BY JobAlways, PTL DEF JobInv
=============================================================================
