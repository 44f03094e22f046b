------------------------------- MODULE Journal -------------------------------
(***************************************************************************)
(* What a session's history promises.  live is the conversation the engine *)
(* works on, durable the one a restart would show.  They move apart only   *)
(* by speaking and by rewinding, and every write to durable makes it equal *)
(* to live again: a restart never shows a mixture of two histories.        *)
(***************************************************************************)
EXTENDS Naturals, Sequences, SequencesExt

VARIABLES live, durable

vars == <<live, durable>>

Init == live = <<>> /\ durable = <<>>

\* New messages, in memory only.
Say == IsStrictPrefix(live, live') /\ UNCHANGED durable

\* The whole of live reaches the disk.
Sync == durable' = live /\ UNCHANGED live

\* Two markers replace a head of live, in memory and on disk at once.
Compact ==
    /\ Len(live') >= 2
    /\ \E k \in 1..Len(live) + 1 :
           SubSeq(live', 3, Len(live')) = SubSeq(live, k, Len(live))
    /\ durable' = live'

\* The conversation is cut back; the disk learns of it with the next Sync.
Rewind == IsStrictPrefix(live', live) /\ UNCHANGED durable

\* The process dies and reads its history back.
Crash == live' = durable /\ UNCHANGED durable

Next == Say \/ Sync \/ Compact \/ Rewind \/ Crash

Spec == Init /\ [][Next]_vars
=============================================================================
