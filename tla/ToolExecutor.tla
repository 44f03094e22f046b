---------------------------- MODULE ToolExecutor ----------------------------
(***************************************************************************)
(* The streaming tool executor of pkg/engine/runTools.go and the engine    *)
(* that feeds it: tools start while the response that asks for them still  *)
(* streams, run together where they may, and are called off by a failed    *)
(* Bash, a broken stream (Discard) or the user (Abort).                    *)
(*                                                                         *)
(* Every response has an executor of its own; executors are numbered in    *)
(* the order they are made and a tool call remembers its executor.  A call *)
(* is a goroutine whose pc covers Status and the place in executeTool:     *)
(*   queued    StatusQueued                                                *)
(*   check     started, before the abort check and the permission rules    *)
(*   askWait   waiting for askMu         ask   its dialog is open          *)
(*   hook      in PreToolUse             call  in t.Call                   *)
(*   after     t.Call has succeeded      over  the goroutine is gone       *)
(*   pump      resultBlocks is set and done closed, processQueue is due    *)
(*                                                                         *)
(* Of a result the model keeps whether it is the user's rejection; errors  *)
(* and synthetic errors of other kinds are answers like any other.         *)
(***************************************************************************)
EXTENDS Naturals, Sequences, FiniteSets

CONSTANTS
  Kind,         \* the tools of toolMap, one kind for each file edited
  Bash,         \* kinds whose errors cancel their siblings; none is concurrency-safe
  Safe,         \* kinds whose IsConcurrencySafe is true
  SameFile,     \* pairs of kinds that edit or write the same file
  Block,        \* kinds whose InterruptBehavior is InterruptBlock
  Asked,        \* kinds a permission rule asks the user about
  Unknown,      \* names that are not in toolMap
  Overlap,      \* whether a response may start while calls of an earlier one run
  MaxTools,     \* bound: tool calls
  MaxExecutors  \* bound: executors

ASSUME KindAssumption ==
  /\ Bash \subseteq Kind /\ Safe \subseteq Kind /\ Block \subseteq Kind
  /\ Asked \subseteq Kind /\ Unknown \cap Kind = {}
  /\ SameFile \subseteq Kind \X Kind
  /\ \A pair \in SameFile : <<pair[2], pair[1]>> \in SameFile
  /\ \A one, two \in SameFile : one[2] = two[1] => <<one[1], two[2]>> \in SameFile
  /\ Bash \cap Safe = {}

ASSUME BoundAssumption ==
  Overlap \in BOOLEAN /\ MaxTools \in Nat /\ MaxExecutors \in Nat \ {0}

VARIABLES
  calls,      \* the tool calls of all executors, in the order they were added
  executor,   \* the current executor
  engine,     \* where callLLM and runTurns are
  discarded,  \* executors that were discarded
  errored,    \* executors one of whose Bash calls failed
  aborted,    \* executors whose query's context is cancelled
  always,     \* <<executor, kind>> the user allowed for always
  answered    \* calls whose result the latest ExecuteAll has collected

vars == <<calls, executor, engine, discarded, errored, aborted, always, answered>>
control == <<executor, engine, discarded, aborted, answered>>

PC == {"queued", "check", "askWait", "ask", "hook", "call", "after", "pump", "over"}
Result == {"none", "answer", "rejected"}

Call == [kind : Kind \cup Unknown, executor : 1..MaxExecutors, pc : PC, result : Result,
         wrote : BOOLEAN]

Init ==
  /\ calls = <<>> /\ executor = 1 /\ engine = "stream"
  /\ discarded = {} /\ errored = {} /\ aborted = {} /\ always = {} /\ answered = {}

Of(x) == {i \in DOMAIN calls : calls[i].executor = x}
At(i, pc) == i \in DOMAIN calls /\ calls[i].pc = pc
Executing(i) == calls[i].pc \notin {"queued", "pump", "over"}
Completed(i) == calls[i].pc \in {"pump", "over"}
Started(i) == calls[i].pc # "queued"

\* siblingCtx is done: cancelled itself, or by rootCtx above it.
Cancelled(x) == x \in discarded \cup errored \cup aborted

-----------------------------------------------------------------------------
(* The queue: canExecuteTool and processQueue.                             *)

\* Two calls that may not overlap.
Conflict(i, j) ==
  \/ calls[i].kind \notin Safe \/ calls[j].kind \notin Safe
  \/ <<calls[i].kind, calls[j].kind>> \in SameFile

\* Mutants of the pass: a blocked unsafe call does not stop it; edits of one file overlap.
StartableNoBreak(x) ==
  {j \in Of(x) :
     /\ calls[j].pc = "queued"
     /\ \A i \in Of(x) : Executing(i) => ~Conflict(i, j)
     /\ \A i \in Of(x) :
          i < j /\ calls[i].pc = "queued" => ~Conflict(i, j) \/ \E k \in Of(x) : Executing(k)}
StartableSafeOnly(x) ==
  {j \in Of(x) :
     /\ calls[j].pc = "queued"
     /\ \A i \in Of(x) :
          Executing(i) \/ (i < j /\ calls[i].pc = "queued") => {calls[i].kind, calls[j].kind} \subseteq Safe}

\* What one pass over the queue starts: the queued calls that conflict with
\* none that executes and with none queued before them.  (An earlier queued
\* call in conflict with j is either started by this pass, and then j is
\* refused, or refused for a reason that j meets too: PassIsStartable.)
Startable(x) ==
  {j \in Of(x) :
     /\ calls[j].pc = "queued"
     /\ \A i \in Of(x) : Executing(i) => ~Conflict(i, j)
     /\ \A i \in Of(x) : i < j /\ calls[i].pc = "queued" => ~Conflict(i, j)}

\* processQueue, run by call i's goroutine when it ends or by AddTool (i = 0).
ProcessQueue(x, i) ==
  calls' = [j \in DOMAIN calls |->
              IF j = i THEN [calls[j] EXCEPT !.pc = "over"]
              ELSE IF j \in Startable(x) THEN [calls[j] EXCEPT !.pc = "check"]
              ELSE calls[j]]

-----------------------------------------------------------------------------
(* The goroutine of one call: executeTool.                                 *)

Move(i, pc) == calls' = [calls EXCEPT ![i].pc = pc]

\* resultBlocks is set; the deferred clean-up sets StatusCompleted and closes done.
Finish(i, result) == calls' = [calls EXCEPT ![i].pc = "pump", ![i].result = result]

\* Mutant: siblings of a failed Bash are not called off.
AbortReasonNotSibling(i) ==
  LET x == calls[i].executor
  IN  CASE x \in discarded -> "answer"
        [] x \in aborted \ discarded /\ calls[i].kind \notin Block -> "rejected"
        [] OTHER -> "none"

\* getAbortReason, as the synthetic result it leads to: the fallback's or the
\* sibling's before the user's.
AbortReason(i) ==
  LET x == calls[i].executor
  IN  CASE x \in discarded \cup errored -> "answer"
        [] x \in aborted \ (discarded \cup errored) /\ calls[i].kind \notin Block -> "rejected"
        [] OTHER -> "none"

\* The abort check, then the rules: a rule or a PermissionRequest hook denies,
\* the user has to be asked, or the call is allowed.  The question about the tool
\* and the one about its content are one dialog here, and a content rule that
\* denies after it is among the refusals of PreToolUse.
Check(i) ==
  /\ At(i, "check")
  /\ IF AbortReason(i) # "none" THEN Finish(i, AbortReason(i))
     ELSE \/ Finish(i, "answer")
          \/ Move(i, IF calls[i].kind \in Asked THEN "askWait" ELSE "hook")
  /\ UNCHANGED <<control, errored, always>>

\* askUser has askMu: an earlier allow-always answers, or the dialog opens.
TakeAskMu(i) ==
  /\ At(i, "askWait")
  /\ \A j \in Of(calls[i].executor) : calls[j].pc # "ask"
  /\ Move(i, IF <<calls[i].executor, calls[i].kind>> \in always THEN "hook" ELSE "ask")
  /\ UNCHANGED <<control, errored, always>>

\* The user answers the dialog.
Answer(i) ==
  /\ At(i, "ask")
  /\ \/ Finish(i, "rejected") /\ UNCHANGED always
     \/ Move(i, "hook") /\ UNCHANGED always
     \/ Move(i, "hook") /\ always' = always \cup {<<calls[i].executor, calls[i].kind>>}
  /\ UNCHANGED <<control, errored>>

\* Mutant: the dialog does not watch siblingCtx.
AskCancelledByRoot(i) ==
  /\ At(i, "ask") /\ calls[i].executor \in aborted
  /\ Finish(i, "rejected")
  /\ UNCHANGED <<control, errored, always>>

\* rootCtx or siblingCtx is done: the dialog counts as denied.
AskCancelled(i) ==
  /\ At(i, "ask") /\ Cancelled(calls[i].executor)
  /\ Finish(i, "rejected")
  /\ UNCHANGED <<control, errored, always>>

\* PreToolUse blocks, or Discard has come in between; or t.Call is entered.
PreToolUse(i) ==
  /\ At(i, "hook")
  /\ \/ Finish(i, "answer")
     \/ calls[i].executor \notin discarded /\ Move(i, "call")
  /\ UNCHANGED <<control, errored, always>>

\* emitToolError: whatever the error, after an abort the result is the user's
\* rejection; and a Bash error calls the siblings off.
ToolError(i) ==
  LET x == calls[i].executor
  IN  /\ Finish(i, IF x \in aborted THEN "rejected" ELSE "answer")
      /\ errored' = IF calls[i].kind \in Bash THEN errored \cup {x} ELSE errored
      /\ UNCHANGED <<control, always>>

CallFails(i) == At(i, "call") /\ ToolError(i)

\* A panic is answered by the recovery and calls nobody off.
CallPanics(i) ==
  /\ At(i, "call") /\ Finish(i, "answer")
  /\ UNCHANGED <<control, errored, always>>

\* The call has done its work; no tool that edits a file looks at its context.
CallSucceeds(i) ==
  /\ At(i, "call")
  /\ calls' = [calls EXCEPT ![i].pc = "after", ![i].wrote = TRUE]
  /\ UNCHANGED <<control, errored, always>>

\* The abort check after the call.
Report(i) ==
  /\ At(i, "after")
  /\ IF Cancelled(calls[i].executor) /\ calls[i].kind \notin Block THEN ToolError(i)
     ELSE Finish(i, "answer") /\ UNCHANGED <<control, errored, always>>

\* The rest of the clean-up: processQueue.
Pump(i) ==
  /\ At(i, "pump") /\ ProcessQueue(calls[i].executor, i)
  /\ UNCHANGED <<control, errored, always>>

\* What the goroutine does by itself; what t.Call does when it returns.
Proceed(i) ==
  Check(i) \/ TakeAskMu(i) \/ AskCancelled(i) \/ PreToolUse(i) \/ Report(i)
  \/ Pump(i)
Return(i) == CallFails(i) \/ CallPanics(i) \/ CallSucceeds(i)

-----------------------------------------------------------------------------
(* The engine: callLLM, callLLMWithRetry and runTurns.                     *)

\* A block of the response is complete: AddTool.
AddTool(kind) ==
  /\ engine = "stream" /\ Len(calls) < MaxTools
  /\ calls' = Append(calls,
       [kind |-> kind, executor |-> executor, wrote |-> FALSE,
        pc |-> IF kind \in Unknown THEN "over" ELSE "queued",
        result |-> IF kind \in Unknown THEN "answer" ELSE "none"])
  /\ engine' = IF kind \in Unknown THEN "stream" ELSE "add"
  /\ UNCHANGED <<executor, discarded, errored, aborted, always, answered>>

PumpAdded ==
  /\ engine = "add" /\ ProcessQueue(executor, 0)
  /\ engine' = "stream"
  /\ UNCHANGED <<executor, discarded, errored, aborted, always, answered>>

Discard == discarded' = discarded \cup {executor}

\* The stream breaks, or the abort is seen while it lasts or right after it.
StreamEnds(to) ==
  /\ engine = "stream"
  /\ Discard
  /\ engine' = to
  /\ UNCHANGED <<calls, executor, errored, aborted, always, answered>>
StreamBreaks == StreamEnds("retry") \/ StreamEnds("idle")
StreamAborted == executor \in aborted /\ StreamEnds("idle")

\* The response is complete and asks for tools: ExecuteAll.
StreamDone ==
  /\ engine = "stream" /\ Of(executor) # {} /\ executor \notin aborted
  /\ engine' = "wait"
  /\ UNCHANGED <<calls, executor, discarded, errored, aborted, always, answered>>

\* Mutants of ExecuteAll: it waits for what executes, not for what is queued; it
\* never gives up on a call.
CollectIdle ==
  /\ engine = "wait"
  /\ \A i \in Of(executor) : ~Executing(i) \/ executor \in aborted
  /\ answered' = {i \in Of(executor) : calls[i].result # "none"}
  /\ engine' = "collected"
  /\ UNCHANGED <<calls, executor, discarded, errored, aborted, always>>
CollectAll ==
  /\ engine = "wait"
  /\ \A i \in Of(executor) : Completed(i)
  /\ answered' = {i \in Of(executor) : calls[i].result # "none"}
  /\ engine' = "collected"
  /\ UNCHANGED <<calls, executor, discarded, errored, aborted, always>>

\* ExecuteAll collects once every call is done; after an abort it gives each call
\* another 100 ms and takes what there is.
Collect ==
  /\ engine = "wait"
  /\ \A i \in Of(executor) : Completed(i) \/ executor \in aborted
  /\ answered' = {i \in Of(executor) : calls[i].result # "none"}
  /\ engine' = "collected"
  /\ UNCHANGED <<calls, executor, discarded, errored, aborted, always>>

\* The next response: of the same query after a retry or a turn, or of the next
\* query, whose context is a new one.  Nobody waits for the calls of a discarded or
\* aborted response; a run may leave the overlap out, for executors share nothing.
NextResponse ==
  /\ executor < MaxExecutors
  /\ \/ engine = "idle"
     \/ engine \in {"retry", "collected"} /\ executor \notin aborted
  /\ Overlap \/ \A i \in DOMAIN calls : At(i, "over")
  /\ executor' = executor + 1 /\ engine' = "stream"
  /\ answered' = {}
  /\ UNCHANGED <<calls, discarded, errored, aborted, always>>

\* The post-tool abort check, or the abort during the back-off.
QueryAborted ==
  /\ engine \in {"retry", "collected"} /\ executor \in aborted
  /\ engine' = "idle"
  /\ UNCHANGED <<calls, executor, discarded, errored, aborted, always, answered>>

\* The user aborts the query: the calls of its latest response are cancelled (those
\* of earlier responses are done or discarded).
Abort ==
  /\ engine # "idle" /\ executor \notin aborted
  /\ aborted' = aborted \cup {executor}
  /\ UNCHANGED <<calls, executor, engine, discarded, errored, always, answered>>

-----------------------------------------------------------------------------
Engine ==
  PumpAdded \/ StreamBreaks \/ StreamAborted \/ StreamDone \/ Collect \/ NextResponse
  \/ QueryAborted \/ \E kind \in Kind \cup Unknown : AddTool(kind)

Next ==
  \/ \E i \in 1..MaxTools : Proceed(i) \/ Return(i) \/ Answer(i)
  \/ Engine
  \/ Abort

Spec == Init /\ [][Next]_vars

\* Goroutines are scheduled and the grace period ends.  A call may never return
\* and the user may never answer.
FairSpec ==
  /\ Spec
  /\ \A i \in 1..MaxTools : WF_vars(Proceed(i))
  /\ WF_vars(PumpAdded) /\ WF_vars(Collect)

-----------------------------------------------------------------------------
(* Properties.                                                             *)

TypeOK ==
  /\ calls \in Seq(Call) /\ Len(calls) <= MaxTools
  /\ executor \in 1..MaxExecutors
  /\ engine \in {"stream", "add", "wait", "retry", "collected", "idle"}
  /\ discarded \subseteq 1..executor /\ errored \subseteq 1..executor
  /\ aborted \subseteq 1..executor
  /\ always \subseteq (1..executor) \X Kind
  /\ answered \subseteq DOMAIN calls

\* Calls of one response that may not overlap run one after the other, in the order
\* the model asked for them: an unsafe call is a barrier, and the edits and writes of
\* one file keep their order.  (canExecuteTool's invariant and processQueue's break.)
ConflictsInOrder ==
  \A i, j \in DOMAIN calls :
     /\ i < j /\ calls[i].executor = calls[j].executor
     /\ {calls[i].kind, calls[j].kind} \subseteq Kind
     /\ Conflict(i, j) /\ Started(j)
     => Completed(i)

\* The pass over the queue as the code has it: in insertion order, each queued call
\* is started if nothing that executes forbids it, and a blocked unsafe call ends it.
Pass(x) ==
  LET mayStart(i, busy) ==
        \/ busy = {}
        \/ /\ calls[i].kind \in Safe
           /\ \A k \in busy : /\ calls[k].kind \in Safe
                              /\ <<calls[k].kind, calls[i].kind>> \notin SameFile
      loop[i \in 0..Len(calls)] ==
        IF i = 0 THEN [started |-> {}, ended |-> FALSE]
        ELSE LET sofar == loop[i - 1]
                 busy == {k \in Of(x) : Executing(k)} \cup sofar.started
             IN  IF sofar.ended \/ i \notin Of(x) \/ calls[i].pc # "queued" THEN sofar
                 ELSE IF mayStart(i, busy) THEN [sofar EXCEPT !.started = @ \cup {i}]
                 ELSE [sofar EXCEPT !.ended = calls[i].kind \notin Safe]
  IN  loop[Len(calls)].started

\* The queue's rule and its loop agree: a pass starts every call that conflicts with
\* nothing ahead of it, and no other.
PassIsStartable == \A x \in 1..executor : Pass(x) = Startable(x)

\* A queued call is never forgotten: some call of its executor will run the queue when
\* it ends, or AddTool is about to.  (processQueue after add and after completion.)
NothingForgotten ==
  \A j \in DOMAIN calls :
     calls[j].pc = "queued" =>
        \/ \E i \in Of(calls[j].executor) : calls[i].pc \notin {"queued", "over"}
        \/ engine = "add" /\ calls[j].executor = executor

\* ExecuteAll answers every call the response asked for, unless the user aborted: the
\* next request would be refused with a tool_use that has no tool_result.
AllAnswered ==
  engine = "collected" /\ executor \notin aborted => Of(executor) \subseteq answered

\* One dialog at a time, and none for what the user has allowed for always.
\* (askUser's comment: the cache is read under askMu.)
AskedOnce ==
  \A i \in DOMAIN calls :
     At(i, "ask") =>
        /\ <<calls[i].executor, calls[i].kind>> \notin always
        /\ \A j \in Of(calls[i].executor) \ {i} : ~At(j, "ask")

\* Once a Bash call has failed no call of its response enters t.Call any more.
\* (emitToolError: Bash errors cancel siblings.)
SiblingsCalledOff ==
  [][\A i \in DOMAIN calls :
        calls[i].executor \in errored /\ calls'[i].pc = "call" => At(i, "call")]_vars

\* An abort ends the wait for tools, whatever the calls and the user do.
\* (ExecuteAll: skip rather than blocking forever.)
AbortEndsWait == engine = "wait" /\ executor \in aborted ~> engine # "wait"

\* Every call comes to its end, unless a call of its response does not return or its
\* dialog is open, and a dialog of a response called off does not stay open.
ComesToEnd ==
  \A i \in 1..MaxTools :
     []<>(\/ i \notin DOMAIN calls
          \/ At(i, "over")
          \/ \E j \in Of(calls[i].executor) :
               At(j, "call") \/ (At(j, "ask") /\ ~Cancelled(calls[j].executor)))

\* What userRejectMessage tells the model of a rejected call: if it was a file edit,
\* the file was not written.
RejectedWroteNothing ==
  \A i \in DOMAIN calls :
     <<calls[i].kind, calls[i].kind>> \in SameFile /\ calls[i].result = "rejected"
     => ~calls[i].wrote
=============================================================================
