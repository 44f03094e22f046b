--------------------------- MODULE BackgroundJobs ---------------------------
(***************************************************************************)
(* One background command of pkg/tool/bash (background.go, stall.go): the  *)
(* tool that spawns it, the goroutine that runs its process, the stall     *)
(* watchdog, and whoever kills it, waits for it or cleans it up.  Jobs     *)
(* share nothing but the registry's map.                                   *)
(*                                                                         *)
(* Every step under job.mu is one action.  Kill and Complete alone keep    *)
(* job.mu across a wait: cancelStall returns when the watchdog is gone,    *)
(* so they have a place ("stop") of their own there.  What a job dispatches *)
(* (lifecycle events and notifications to the engine) is kept in `sent`,   *)
(* in order.                                                               *)
(***************************************************************************)
EXTENDS Naturals, Sequences

CONSTANTS
  Killer,   \* calls of Kill: the Job tool, the panels of the two front ends
  Runner,   \* the job's own goroutine
  Nobody    \* nobody holds job.mu

ASSUME NameAssumption == Runner \notin Killer /\ Nobody \notin Killer \cup {Runner}

VARIABLES
  spawner,    \* where the tool that spawns the job is
  process,    \* the command: none, live or dead
  pid,        \* job.PID is recorded
  place,      \* where the goroutine and the calls of Kill are
  holder,     \* who holds job.mu across a wait
  watchdog,   \* where the stall watchdog is
  cancelStall,\* job.cancelStall # nil
  cancelled,  \* the watchdog is told to stop
  status,     \* job.Status
  notified,   \* job.Notified
  listed,     \* the registry's map has the job
  waiter,     \* where a call of Wait is
  sent        \* what the job has dispatched

stall == <<watchdog, cancelStall, cancelled>>
outside == <<spawner, listed, waiter>>
jobVars == <<spawner, process, pid, place, holder, stall, status, notified, listed, waiter, sent>>

Terminal == {"completed", "failed", "killed"}
Free == holder = Nobody
Ended == status \in Terminal

\* A command is spawned in the background, or has run in the foreground until its
\* timeout and is handed over.
JobInit ==
  /\ spawner = "register"
  /\ \/ process = "none" /\ pid = FALSE
     \/ process = "live" /\ pid = TRUE
  /\ place = [a \in Killer \cup {Runner} |-> "idle"]
  /\ holder = Nobody
  /\ watchdog = "none" /\ cancelStall = FALSE /\ cancelled = FALSE
  /\ status = "running" /\ notified = FALSE
  /\ listed = FALSE /\ waiter = "idle" /\ sent = <<>>

-----------------------------------------------------------------------------
(* Spawn and startStallWatchdog, one after the other, then the goroutine:  *)
(* spawnBackground and transitionToBackground.                             *)

Register ==
  /\ spawner = "register"
  /\ listed' = TRUE /\ spawner' = "emit"
  /\ UNCHANGED <<process, pid, place, holder, stall, status, notified, waiter, sent>>

EmitStarted ==
  /\ spawner = "emit" /\ Free
  /\ sent' = Append(sent, "started") /\ spawner' = "watch"
  /\ UNCHANGED <<process, pid, place, holder, stall, status, notified, listed, waiter>>

StartStallWatchdog ==
  /\ spawner = "watch" /\ Free
  /\ watchdog' = "watch" /\ cancelStall' = TRUE
  /\ spawner' = "go"
  /\ UNCHANGED <<process, pid, place, holder, cancelled, status, notified, listed, waiter, sent>>

Go ==
  /\ spawner = "go"
  /\ spawner' = "gone" /\ place' = [place EXCEPT ![Runner] = IF pid THEN "wait" ELSE "start"]
  /\ UNCHANGED <<process, pid, holder, stall, status, notified, listed, waiter, sent>>

-----------------------------------------------------------------------------
(* The end of a job: Complete and Kill.                                    *)

\* The part of both after the watchdog is stopped: the status, done is closed, and
\* job.mu is given back.  Kill reaches the process by the PID it finds.
End(a, how) ==
  /\ status' = how /\ notified' = TRUE /\ holder' = Nobody
  /\ process' = IF a \in Killer /\ pid THEN "dead" ELSE process
  /\ place' = [place EXCEPT ![a] = IF a = Runner /\ notified THEN "emitOnly" ELSE "emit"]

How(a) == IF a = Runner THEN {"completed", "failed"} ELSE {"killed"}

\* Mutant: the watchdog is not told to stop.
CancelSilently == cancelStall' = FALSE /\ UNCHANGED <<watchdog, cancelled>>

\* cancelStall, up to its wait for the watchdog.
Cancel == cancelStall' = FALSE /\ cancelled' = TRUE /\ UNCHANGED watchdog

\* Mutant: a job that has ended is ended again.
FinishAgain(a) ==
  /\ Free
  /\ IF cancelStall
     THEN /\ Cancel /\ holder' = a /\ place' = [place EXCEPT ![a] = "stop"]
          /\ UNCHANGED <<process, status, notified>>
     ELSE \E how \in How(a) : End(a, how) /\ UNCHANGED stall

\* Complete, or Kill of a job in the map: a job that has ended is left alone; the
\* watchdog is cancelled first if there is one.
FinishJob(a) ==
  /\ Free
  /\ IF Ended
     THEN place' = [place EXCEPT ![a] = "over"] /\ UNCHANGED <<process, holder, stall, status, notified>>
     ELSE IF cancelStall
     THEN /\ Cancel /\ holder' = a /\ place' = [place EXCEPT ![a] = "stop"]
          /\ UNCHANGED <<process, status, notified>>
     ELSE \E how \in How(a) : End(a, how) /\ UNCHANGED stall

Complete ==
  /\ place[Runner] = "complete" /\ FinishJob(Runner)
  /\ UNCHANGED <<outside, pid, sent>>

Kill(k) ==
  /\ place[k] = "idle" /\ listed /\ FinishJob(k)
  /\ UNCHANGED <<outside, pid, sent>>

\* Mutant: cancelStall does not wait for the watchdog.
NotStopped(a) ==
  /\ place[a] = "stop"
  /\ \E how \in How(a) : End(a, how)
  /\ UNCHANGED <<outside, pid, stall, sent>>

\* cancelStall returns.
Stopped(a) ==
  /\ place[a] = "stop" /\ watchdog = "gone"
  /\ \E how \in How(a) : End(a, how)
  /\ UNCHANGED <<outside, pid, stall, sent>>

EmitTerminated(a) ==
  /\ place[a] \in {"emit", "emitOnly"} /\ Free
  /\ sent' = Append(sent, "terminated")
  /\ place' = [place EXCEPT ![a] = IF @ = "emit" THEN "notify" ELSE "over"]
  /\ UNCHANGED <<outside, process, pid, holder, stall, status, notified>>

Notify(a) ==
  /\ place[a] = "notify"
  /\ sent' = Append(sent, status)
  /\ place' = [place EXCEPT ![a] = "over"]
  /\ UNCHANGED <<outside, process, pid, holder, stall, status, notified>>

-----------------------------------------------------------------------------
(* The goroutine and its process.                                          *)

\* The command starts, or cannot be started.
StartProcess ==
  /\ place[Runner] = "start"
  /\ \/ process' = "live" /\ place' = [place EXCEPT ![Runner] = "record"]
     \/ UNCHANGED process /\ place' = [place EXCEPT ![Runner] = "complete"]
  /\ UNCHANGED <<outside, pid, holder, stall, status, notified, sent>>

RecordPID ==
  /\ place[Runner] = "record" /\ Free
  /\ pid' = TRUE /\ place' = [place EXCEPT ![Runner] = "wait"]
  /\ UNCHANGED <<outside, process, holder, stall, status, notified, sent>>

\* The command ends by itself or at its timeout.
ProcessExits ==
  /\ process = "live" /\ process' = "dead"
  /\ UNCHANGED <<outside, pid, place, holder, stall, status, notified, sent>>

ProcessReaped ==
  /\ place[Runner] = "wait" /\ process = "dead"
  /\ place' = [place EXCEPT ![Runner] = "complete"]
  /\ UNCHANGED <<outside, process, pid, holder, stall, status, notified, sent>>

-----------------------------------------------------------------------------
(* The watchdog.                                                           *)

\* The output has stopped at a prompt: the callback is about to be called.
StallDetected ==
  /\ watchdog = "watch" /\ ~cancelled /\ process # "none"
  /\ watchdog' = "callback"
  /\ UNCHANGED <<outside, process, pid, place, holder, cancelStall, cancelled, status, notified, sent>>

WatchdogStops ==
  /\ watchdog = "watch" /\ cancelled
  /\ watchdog' = "gone"
  /\ UNCHANGED <<outside, process, pid, place, holder, cancelStall, cancelled, status, notified, sent>>

\* The callback takes job.mu: the stall is reported unless the job was.
StallCallback ==
  /\ watchdog = "callback" /\ Free
  /\ notified' = TRUE
  /\ watchdog' = IF notified THEN "gone" ELSE "notify"
  /\ UNCHANGED <<outside, process, pid, place, holder, cancelStall, cancelled, status, sent>>

NotifyStall ==
  /\ watchdog = "notify"
  /\ sent' = Append(sent, "stall") /\ watchdog' = "gone"
  /\ UNCHANGED <<outside, process, pid, place, holder, cancelStall, cancelled, status, notified>>

-----------------------------------------------------------------------------
(* The registry's other callers.                                           *)

Wait ==
  /\ waiter = "idle" /\ listed /\ waiter' = "wait"
  /\ UNCHANGED <<spawner, process, pid, place, holder, stall, status, notified, listed, sent>>

WaitReturns ==
  /\ waiter = "wait" /\ Ended /\ Free /\ waiter' = "returned"
  /\ UNCHANGED <<spawner, process, pid, place, holder, stall, status, notified, listed, sent>>

\* The time an ended job is kept has passed.
CleanupCompleted ==
  /\ listed /\ Ended /\ listed' = FALSE
  /\ UNCHANGED <<spawner, process, pid, place, holder, stall, status, notified, waiter, sent>>

-----------------------------------------------------------------------------
Spawn == Register \/ EmitStarted \/ StartStallWatchdog \/ Go
Conclude(a) == Stopped(a) \/ EmitTerminated(a) \/ Notify(a)
Run == StartProcess \/ RecordPID \/ ProcessReaped \/ Complete
Watch == WatchdogStops \/ StallCallback \/ NotifyStall

JobNext ==
  \/ Spawn \/ Run \/ Watch \/ StallDetected \/ ProcessExits
  \/ \E a \in Killer \cup {Runner} : Conclude(a)
  \/ \E k \in Killer : Kill(k)
  \/ Wait \/ WaitReturns \/ CleanupCompleted

JobSpec == JobInit /\ [][JobNext]_jobVars

\* Goroutines are scheduled; a command may run for ever, nobody need kill it, and its
\* output may never stop at a prompt.
FairJobSpec ==
  /\ JobSpec
  /\ WF_jobVars(Spawn) /\ WF_jobVars(Run) /\ WF_jobVars(Watch) /\ WF_jobVars(WaitReturns)
  /\ \A a \in Killer \cup {Runner} : WF_jobVars(Conclude(a))

-----------------------------------------------------------------------------
(* Properties.                                                             *)

Place ==
  {"idle", "start", "record", "wait", "complete", "stop", "emit", "emitOnly", "notify", "over"}
Message == {"started", "terminated", "stall"} \cup Terminal

JobTypeOK ==
  /\ spawner \in {"register", "emit", "watch", "go", "gone"}
  /\ process \in {"none", "live", "dead"} /\ pid \in BOOLEAN
  /\ place \in [Killer \cup {Runner} -> Place]
  /\ holder \in Killer \cup {Runner, Nobody}
  /\ watchdog \in {"none", "watch", "callback", "notify", "gone"}
  /\ cancelStall \in BOOLEAN /\ cancelled \in BOOLEAN
  /\ status \in Terminal \cup {"running"} /\ notified \in BOOLEAN
  /\ listed \in BOOLEAN /\ waiter \in {"idle", "wait", "returned"}
  /\ sent \in Seq(Message)

Sent(messages) == {i \in DOMAIN sent : sent[i] \in messages}

\* However Kill, Kill and Complete fall together, the job ends once: one job_terminated,
\* one notification of its end at most.  (Ending twice would close done twice.)
EndsOnce ==
  /\ \A i, j \in Sent({"terminated"}) : i = j
  /\ \A i, j \in Sent(Terminal) : i = j

\* The notification of the end never overtakes job_terminated: it may start a query
\* whose events the panel must see later.  (Kill's and Complete's comments.)
EventFirst == \A i \in Sent(Terminal) : \E j \in Sent({"terminated"}) : j < i

\* A job is not reported as waiting for input once it has been reported as ended.
\* (cancelStall returns when the watchdog is gone.)
NoStallAfterEnd == \A i \in Sent({"stall"}), j \in Sent({"terminated"}) : i < j

\* A command that has ended is reported, unless the watchdog was entering its callback
\* when it was cancelled.
EndsUnlessStalling ==
  \/ <>(watchdog = "callback" /\ cancelled)
  \/ (process = "dead" ~> Ended)

\* What Wait's comment says: it returns when the job completes, is killed or fails.
WaitEnds == waiter = "wait" /\ process = "dead" ~> waiter = "returned"

\* What Kill's comment says: the process of a killed job is killed.
KilledIsDead == status = "killed" => process # "live"
=============================================================================
