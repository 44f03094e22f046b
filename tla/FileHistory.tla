---------------------------- MODULE FileHistory ----------------------------
(***************************************************************************)
(* The file history of pkg/filehistory/tracker.go, with the engine that    *)
(* feeds it and rewinds by it.  A snapshot is made when a query's turns    *)
(* start: under the id of the user's message, which for a forked skill is  *)
(* after the skill's sub-agent has worked, and for queued notices is the   *)
(* id of an earlier message.  An Edit or a Write backs its file up before  *)
(* it writes; a rewind puts the files back to what they were at a message. *)
(*                                                                         *)
(* A text of a file is the number of the write that made it, 0 for what    *)
(* was there at first, Gone for no file.  A backup is named by file and    *)
(* version alone, so that a version used twice overwrites a backup.  An    *)
(* entry whose name is empty, for a file that did not exist, is not named. *)
(***************************************************************************)
EXTENDS Naturals, Sequences

CONSTANTS
  File,         \* the files worked on
  Gone,         \* the text of a file that does not exist
  Nobody,       \* no message: an empty MessageID, currentTurnMsgID or RewindResult
  Unreadable,   \* files of which a copy may fail
  MaxSnapshots, \* MAX_SNAPSHOTS
  MaxMessage,   \* bound: user messages
  MaxWrites,    \* bound: writes to files
  MaxEvents     \* bound: everything but queries and edits that go well, together

ASSUME FileHistoryAssumption ==
  /\ MaxSnapshots \in Nat \ {0} /\ MaxMessage \in Nat
  /\ MaxWrites \in Nat /\ MaxEvents \in Nat
  /\ Unreadable \subseteq File
  /\ Gone \notin Nat /\ Nobody \notin Nat

VARIABLES
  disk,       \* the text of every file
  backup,     \* the backup directory: <<file, version>> -> text
  snapshots,  \* state.Snapshots
  tracked,    \* state.TrackedFiles
  talk,       \* the user messages in the conversation
  turn,       \* currentTurnMsgID
  phase,      \* "idle", "skill" while a forked skill's sub-agent runs, "turns"
  editing,    \* files between TrackEdit and the write of the tool
  stored,     \* what the writer and PersistNewMessages have put into the database
  result,     \* the latest RewindResult about files, until something else happens
  \* History, for the properties only:
  writes,     \* the writes so far, each with its file and whose it is
  messages,   \* user messages so far
  events,     \* failures, rewinds, restarts, skills, notices and the like so far
  was,        \* message -> the files and writes when it was asked, and what its snapshot missed
  late,       \* messages a snapshot of which was made after their query had begun
  adrift      \* files the agent works on that have been without a backup

tracker == <<snapshots, tracked>>
chat == <<talk, turn, phase, editing>>
ghosts == <<writes, was, late>>
counts == <<messages, events>>
vars == <<disk, backup, tracker, chat, stored, result, ghosts, counts, adrift>>

Text == Nat \cup {Gone}
Write == [file : File, agent : BOOLEAN]
NoResult == [message |-> Nobody, ok |-> FALSE]
\* Nothing for nobody; the snapshot a tracker starts with.
Empty == [x \in {} |-> x]
Blank == [message |-> Nobody, entries |-> Empty]

Init ==
  /\ disk \in [File -> {0, Gone}]
  /\ backup = Empty /\ snapshots = <<Blank>> /\ tracked = {}
  /\ talk = <<>> /\ turn = Nobody /\ phase = "idle" /\ editing = {}
  /\ stored = [snapshots |-> <<Blank>>, tracked |-> {}, talk |-> <<>>]
  /\ result = NoResult
  /\ writes = <<>> /\ messages = 0 /\ events = 0 /\ was = <<>> /\ late = {} /\ adrift = {}

Event == events < MaxEvents /\ events' = events + 1
Failing(files) == IF files = {} THEN UNCHANGED events ELSE Event

-----------------------------------------------------------------------------
(* The tracker.                                                            *)

\* The entries of the most recent snapshot.
Latest(s) == IF s = <<>> THEN Empty ELSE s[Len(s)].entries

\* A mutant: a file that has changed is backed up over its latest backup.
NextVersionSame(f) == IF f \in DOMAIN Latest(snapshots) THEN Latest(snapshots)[f].version ELSE 1

\* The version of the next backup of f.
NextVersion(f) == IF f \in DOMAIN Latest(snapshots) THEN Latest(snapshots)[f].version + 1 ELSE 1

EntryOf(f, version) == [version |-> version, named |-> disk[f] # Gone, text |-> disk[f]]

\* Whether entry e of f names a backup that is there.
Kept(f, e) == e.named /\ <<f, e.version>> \in DOMAIN backup

\* The backup directory after files fs have been copied, f to version v[f].
Copy(fs, v) ==
  LET new == {<<f, v[f]>> : f \in {g \in fs : disk[g] # Gone}}
  IN [n \in DOMAIN backup \cup new |-> IF n \in new THEN disk[n[1]] ELSE backup[n]]

\* Files without a backup that could undo what the agent does to them.
Unbacked(s, t, w) ==
  {f \in t \cup {w[n].file : n \in {k \in 1..Len(w) : w[k].agent}} : f \notin DOMAIN Latest(s)}

\* TrackEdit fails without a snapshot or a copy; it does nothing twice in a turn.
Backs(f) == turn # Nobody /\ snapshots # <<>> /\ f \notin DOMAIN Latest(snapshots)

TrackEdit(f) ==
  /\ phase # "idle" /\ f \notin editing
  /\ editing' = editing \cup {f}
  /\ \/ /\ Backs(f)
        /\ backup' = Copy({f}, [g \in {f} |-> 1])
        /\ tracked' = tracked \cup {f}
        /\ snapshots' = [snapshots EXCEPT ![Len(snapshots)].entries =
             [g \in DOMAIN @ \cup {f} |-> IF g = f THEN EntryOf(f, 1) ELSE @[g]]]
        /\ UNCHANGED events
     \/ /\ IF Backs(f) THEN f \in Unreadable /\ Event ELSE UNCHANGED events
        /\ UNCHANGED <<backup, tracked, snapshots>>
  /\ UNCHANGED <<disk, talk, turn, phase, stored, ghosts, messages, adrift>> /\ result' = NoResult

\* Whether f is still what its latest entry has kept.
Unchanged(f) ==
  /\ f \in DOMAIN Latest(snapshots) /\ disk[f] # Gone
  /\ Kept(f, Latest(snapshots)[f]) /\ backup[<<f, Latest(snapshots)[f].version>>] = disk[f]

\* The entries of a new snapshot; files whose copy fails keep the entry they have.
Entries(failed) ==
  [f \in (tracked \ failed) \cup (failed \cap DOMAIN Latest(snapshots)) |->
     IF f \in failed \/ Unchanged(f) THEN Latest(snapshots)[f] ELSE EntryOf(f, NextVersion(f))]

Evict(s) == IF Len(s) > MaxSnapshots THEN SubSeq(s, Len(s) - MaxSnapshots + 1, Len(s)) ELSE s

MakeSnapshot(m, failed) ==
  IF snapshots = <<>> THEN UNCHANGED <<backup, snapshots>> ELSE
  /\ backup' = Copy({f \in tracked \ failed : ~Unchanged(f)}, [f \in tracked |-> NextVersion(f)])
  /\ snapshots' = Evict(Append(snapshots, [message |-> m, entries |-> Entries(failed)]))

\* The latest snapshot of m, 0 when there is none.
FindLast(m) ==
  LET at == {i \in 1..Len(snapshots) : snapshots[i].message = m}
  IN IF at = {} THEN 0 ELSE CHOOSE i \in at : \A j \in at : j <= i

\* A mutant: a file without an entry in snapshot i is restored by its latest one.
TargetLatest(f, i) ==
  IF f \in DOMAIN snapshots[i].entries THEN {snapshots[i].entries[f]}
  ELSE {Latest(snapshots)[g] : g \in {f} \cap DOMAIN Latest(snapshots)}

\* The entry that restores f to snapshot i: its own, else the first there is, else none.
Target(f, i) ==
  LET first == {j \in 1..Len(snapshots) : /\ f \in DOMAIN snapshots[j].entries
                                          /\ snapshots[j].entries[f].version = 1}
  IN IF f \in DOMAIN snapshots[i].entries THEN {snapshots[i].entries[f]}
     ELSE {snapshots[j].entries[f] : j \in {j \in first : \A k \in first : j <= k}}

\* What the file is restored to; a file stays as it is when its backup is missing.
Restored(f, i) ==
  LET kept == {e \in Target(f, i) : Kept(f, e)}
  IN IF \E e \in Target(f, i) : ~e.named THEN Gone
     ELSE IF kept # {} THEN backup[<<f, (CHOOSE e \in kept : TRUE).version>>] ELSE disk[f]

ApplySnapshot(i) == disk' = [f \in File |-> IF f \in tracked THEN Restored(f, i) ELSE disk[f]]

\* A missing backup is an error, whatever the file holds.
Applies(i) == \A f \in tracked : \A e \in Target(f, i) : e.named => Kept(f, e)

HasChangesAtMessage(m) ==
  FindLast(m) # 0 /\ \E f \in tracked : \E e \in Target(f, FindLast(m)) :
    IF e.named THEN Kept(f, e) => disk[f] # backup[<<f, e.version>>] ELSE disk[f] # Gone

\* The first snapshot of m and those after it go.
TruncateSnapshotsFrom(m) ==
  \E n \in 0..Len(snapshots) :
    /\ \A i \in 1..n : snapshots[i].message # m
    /\ n < Len(snapshots) => snapshots[n + 1].message = m
    /\ snapshots' = SubSeq(snapshots, 1, n)

-----------------------------------------------------------------------------
(* The engine.                                                             *)

\* The turns of a query start: the conversation is stored, then a snapshot, then its state.
StartTurns(m, failed) ==
  /\ phase' = "turns"
  /\ IF m = Nobody
     THEN /\ stored' = [stored EXCEPT !.talk = talk']
          /\ UNCHANGED <<backup, snapshots>>
     ELSE /\ MakeSnapshot(m, failed)
          /\ stored' = [snapshots |-> snapshots', tracked |-> tracked, talk |-> talk']
  /\ result' = NoResult
  /\ adrift' = adrift \cup Unbacked(snapshots', tracked, writes)
  /\ UNCHANGED <<disk, tracked, editing, writes>>

\* A message of the user joins the conversation.
Ask(missed) ==
  /\ phase = "idle" /\ messages < MaxMessage
  /\ messages' = messages + 1 /\ turn' = messages + 1
  /\ talk' = Append(talk, messages + 1)
  /\ was' = Append(was, [files |-> disk, writes |-> Len(writes), missed |-> missed])

Query == \E failed \in SUBSET Unreadable :
  Ask(failed) /\ Failing(failed) /\ StartTurns(messages + 1, failed) /\ UNCHANGED late

\* A forked skill: its sub-agent, with its own turn id but this tracker, works before the turns.
RunSkill ==
  /\ Event /\ Ask({}) /\ phase' = "skill" /\ result' = NoResult
  /\ UNCHANGED <<disk, backup, tracker, editing, stored, writes, late, adrift>>

SkillDone == \E failed \in SUBSET Unreadable :
  /\ phase = "skill" /\ editing = {} /\ Failing(failed)
  /\ UNCHANGED <<talk, turn, messages, was>>
  /\ StartTurns(turn, failed) /\ late' = late \cup {turn}

\* Queued notices start turns of their own, under the id of the latest message.
ProcessAttachments == \E failed \in SUBSET Unreadable :
  /\ phase = "idle" /\ Event
  /\ UNCHANGED <<talk, turn, messages, was>>
  /\ StartTurns(turn, failed) /\ late' = late \cup ({turn} \ {Nobody})

EndQuery ==
  /\ phase # "idle" /\ phase' = "idle" /\ editing' = {} /\ result' = NoResult
  /\ UNCHANGED <<disk, backup, tracker, talk, turn, stored, ghosts, counts, adrift>>

\* The tool writes the file it has (or should have) backed up.
WriteFile(f) ==
  /\ f \in editing /\ Len(writes) < MaxWrites
  /\ editing' = editing \ {f}
  /\ writes' = Append(writes, [file |-> f, agent |-> TRUE])
  /\ disk' = [disk EXCEPT ![f] = Len(writes)']
  /\ adrift' = adrift \cup Unbacked(snapshots, tracked, writes')
  /\ UNCHANGED <<backup, tracker, talk, turn, phase, stored, counts, was, late>>
  /\ result' = NoResult

\* The user, a shell command or another program writes or deletes a file.
ByHand(f) ==
  /\ Event /\ Len(writes) < MaxWrites
  /\ writes' = Append(writes, [file |-> f, agent |-> FALSE])
  /\ \E text \in {Len(writes)', Gone} : disk' = [disk EXCEPT ![f] = text]
  /\ UNCHANGED <<backup, tracker, chat, stored, messages, was, late, adrift>>
  /\ result' = NoResult

\* The conversation up to the k-th message, which goes with what follows it.
Before(k) == SubSeq(talk, 1, k - 1)

\* The files are restored to message m by the latest snapshot under its id.
RestoreFiles(m) ==
  IF FindLast(m) = 0
  THEN result' = [message |-> m, ok |-> FALSE] /\ UNCHANGED disk
  ELSE ApplySnapshot(FindLast(m)) /\ result' = [message |-> m, ok |-> Applies(FindLast(m))]

\* Code and conversation: offered when files differ; after an abort without being offered.
RewindAll(k) ==
  /\ phase = "idle" /\ Event /\ (HasChangesAtMessage(talk[k]) \/ k = Len(talk))
  /\ RestoreFiles(talk[k]) /\ talk' = Before(k)
  /\ UNCHANGED <<backup, tracker, turn, phase, editing, stored, ghosts, messages, adrift>>

RewindFilesOnly(k) ==
  /\ phase = "idle" /\ Event /\ HasChangesAtMessage(talk[k])
  /\ RestoreFiles(talk[k])
  /\ UNCHANGED <<backup, tracker, chat, stored, ghosts, messages, adrift>>

\* The conversation alone: the snapshots go, the tracked files and the database stay.
RewindMessagesOnly(k) ==
  /\ phase = "idle" /\ Event
  /\ talk' = Before(k) /\ TruncateSnapshotsFrom(talk[k]) /\ result' = NoResult
  /\ adrift' = adrift \cup Unbacked(snapshots', tracked, writes)
  /\ UNCHANGED <<disk, backup, tracked, turn, phase, editing, stored, ghosts, messages>>

\* Another instance starts and removes the backup directories of the day before.
CleanupOldBackups ==
  /\ Event /\ backup # Empty /\ backup' = Empty /\ result' = NoResult
  /\ UNCHANGED <<disk, tracker, chat, stored, ghosts, messages, adrift>>

\* The program ends, or dies, and the session is resumed.
Restart ==
  /\ Event
  /\ snapshots' = stored.snapshots /\ tracked' = stored.tracked /\ talk' = stored.talk
  /\ turn' = Nobody /\ phase' = "idle" /\ editing' = {} /\ result' = NoResult
  /\ adrift' = adrift \cup Unbacked(snapshots', tracked \cup tracked', writes)
  /\ UNCHANGED <<disk, backup, stored, ghosts, messages>>

Next ==
  \/ Query \/ RunSkill \/ SkillDone \/ ProcessAttachments \/ EndQuery
  \/ \E f \in File : TrackEdit(f) \/ WriteFile(f) \/ ByHand(f)
  \/ \E k \in 1..Len(talk) : RewindAll(k) \/ RewindFilesOnly(k) \/ RewindMessagesOnly(k)
  \/ CleanupOldBackups \/ Restart

Spec == Init /\ [][Next]_vars

-----------------------------------------------------------------------------
(* Properties.                                                             *)

Entry == [version : Nat, named : BOOLEAN, text : Text]
Snapshot == [message : Nat \cup {Nobody}, entries : UNION {[fs -> Entry] : fs \in SUBSET File}]

TypeOK ==
  /\ disk \in [File -> Text]
  /\ DOMAIN backup \subseteq File \X Nat /\ backup \in [DOMAIN backup -> Text]
  /\ snapshots \in Seq(Snapshot) /\ tracked \subseteq File
  /\ talk \in Seq(Nat) /\ turn \in Nat \cup {Nobody}
  /\ phase \in {"idle", "skill", "turns"} /\ editing \subseteq File
  /\ stored \in [snapshots : Seq(Snapshot), tracked : SUBSET File, talk : Seq(Nat)]
  /\ result \in [message : Nat \cup {Nobody}, ok : BOOLEAN]
  /\ writes \in Seq(Write) /\ messages \in Nat /\ events \in Nat
  /\ was \in Seq([files : [File -> Text], writes : Nat, missed : SUBSET File])
  /\ late \subseteq Nat \cup {Nobody} /\ adrift \subseteq File

\* The backup an entry names holds what the file was when the entry was made, in the snapshots
\* in memory and in those a restart would load, although backups are shared and their names
\* come back: no later version is written over one that is still needed.  Backups removed by
\* another instance are missed, not mistaken.  (MakeSnapshot: backup files are shared.)
BackupsHold ==
  \A s \in {snapshots, stored.snapshots} : \A i \in 1..Len(s) :
    \A f \in DOMAIN s[i].entries \ adrift :
      LET e == s[i].entries[f] IN Kept(f, e) => backup[<<f, e.version>>] = e.text

\* A rewind that reports no error leaves a file as it was when the message was asked, and where
\* others have written to it since, at least without the agent's text, after any rewinds,
\* truncations, evictions and restarts.  (Rewind can then restore files to before edits.)  Not
\* so, as README.md says, for a message with a later snapshot of its own id, for a file whose
\* copy failed, and for a file whose backup was never stored or has been truncated away.
RewindUndoes ==
  result.ok /\ result.message \notin late =>
    LET then == was[result.message]
    IN  \A f \in File \ (adrift \cup then.missed) :
          LET since == {n \in (then.writes + 1)..Len(writes) : writes[n].file = f}
          IN  IF \A n \in since : writes[n].agent THEN disk[f] = then.files[f]
              ELSE \A n \in since : disk[f] = n => ~writes[n].agent
=============================================================================
