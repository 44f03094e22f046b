------------------------------- MODULE History -------------------------------
(***************************************************************************)
(* A session's history in two places: e.messages, which the turn loop and  *)
(* the user edit, and the message table it is swept into by a cursor       *)
(* (src/pkg/engine).  Appends, sweeps, compactions, rewinds, forks and     *)
(* crashes interleave as runTurns and its callers let them.                *)
(*                                                                         *)
(* An assistant message stands for itself and its tool results, which      *)
(* reach e.messages before the next persist point.  "injected" is a user   *)
(* row nobody typed as a prompt: a queued message, a job notice, a         *)
(* continuation, hook feedback or a reminder.  The boundary message        *)
(* buildResultMessages makes has no uuid in memory (None); the summary and *)
(* the kept messages keep theirs.                                          *)
(***************************************************************************)
EXTENDS Transcript

CONSTANTS
    MaxId,      \* messages made in one behaviour (a bound)
    Budget      \* how often each of Rare, and any of them, may happen (bounds)

Rare == {"rewind", "compact", "fork", "crash", "fail", "any"}

ASSUME HistoryAssumption ==
    /\ MaxId \in Nat
    /\ Budget \in [Rare -> Nat]

VARIABLES
    rows,        \* the message table of the session the engine is on
    messages,    \* e.messages
    cursor,      \* e.lastPersistedIdx
    forkParent,  \* e.forkParentUUID
    phase,       \* where runTurns is
    nextId,      \* ids handed out so far, plus one
    left,        \* what is left of Budget
    rewound,     \* history variable: ids a rewind has cut off
    strayed      \* history variable: memory and table have parted (README, section 6), by
                 \* a rewind to the first, already stored message,
                 \* a compaction that finds nothing but counts unstored messages as stored,
                 \* a compaction that is not recorded,
                 \* a compaction while a rewind's fork point waits for the next persist
                 \*     and is not the newest message, or
                 \* a fork of a table with dead branches or a boundary that kept nothing

past == <<rewound, strayed>>
vars == <<rows, messages, cursor, forkParent, phase, nextId, left, past>>
stored == <<rows, cursor, forkParent>>

Phases == {"idle", "entry", "head", "llm", "recover", "boundary", "exit"}

Rows == [id : 1..MaxId, parent : 0..MaxId, kind : Kinds,
         seg : {NoSeg, Stale} \cup (1..MaxId) \X (1..MaxId) \X (1..MaxId)]
Messages == [id : 0..MaxId, kind : Kinds]

TypeOK ==
    /\ rows \in Seq(Rows) /\ \A i, j \in DOMAIN rows : rows[i].id = rows[j].id => i = j
    /\ messages \in Seq(Messages)
    /\ cursor \in 0..Len(messages)
    /\ forkParent \in 0..MaxId
    /\ phase \in Phases
    /\ nextId \in 1..MaxId + 1
    /\ left \in [Rare -> Nat]
    /\ rewound \subseteq 1..MaxId /\ strayed \in BOOLEAN

Init ==
    /\ rows = <<>> /\ messages = <<>> /\ cursor = 0 /\ forkParent = None
    /\ phase = "idle" /\ nextId = 1 /\ left = Budget /\ rewound = {} /\ strayed = FALSE

Spend(what) ==
    /\ left[what] > 0 /\ left["any"] > 0
    /\ left' = [left EXCEPT ![what] = @ - 1, !["any"] = @ - 1]

\* Append the kinds of ks with fresh ids.
AppendNew(ks) ==
    /\ nextId + Len(ks) - 1 <= MaxId
    /\ messages' = messages \o [i \in DOMAIN ks |-> Message(nextId + i - 1, ks[i])]
    /\ nextId' = nextId + Len(ks)

Go(from, to) == phase = from /\ phase' = to

-----------------------------------------------------------------------------
(* Sweeping: PersistNewMessages                                            *)

\* A mutant of the sweep: the fork point ignored.
PersistIgnoresFork ==
    /\ Len(messages) > cursor
    /\ rows' = AppendMessages(rows, SubSeq(messages, cursor + 1, Len(messages)), None)
    /\ forkParent' = None /\ cursor' = Len(messages) /\ UNCHANGED left

SweepNothing == Len(messages) <= cursor /\ UNCHANGED <<stored, left>>

SweepStores ==
    /\ Len(messages) > cursor
    /\ rows' = AppendMessages(rows, SubSeq(messages, cursor + 1, Len(messages)), forkParent)
    /\ forkParent' = None
    /\ cursor' = Len(messages)
    /\ UNCHANGED left

SweepFails == Len(messages) > cursor /\ Spend("fail") /\ UNCHANGED stored

PersistNewMessages == SweepNothing \/ SweepStores \/ SweepFails

\* The persist points of runTurns: query entry, turn boundary, query exit.
Persist(from, to) ==
    /\ Go(from, to)
    /\ PersistNewMessages
    /\ UNCHANGED <<messages, nextId, past>>

PersistEntry == Persist("entry", "head")
PersistBoundary == Persist("boundary", "head")
PersistExit == Persist("exit", "idle")

-----------------------------------------------------------------------------
(* Compacting: runCompact and applyCompactResult                           *)

\* A group starts at every assistant message; the tail kept starts at a group start.
GroupStarts == {1} \cup {i \in DOMAIN messages : messages[i].kind = "assistant"}

\* No fork point waits, or the next message will be linked behind what it names.
ForkPointKept(kept) == forkParent = None \/ (kept # <<>> /\ forkParent = Last(kept).id)

\* The result replaces e.messages and the whole of it counts as persisted, whether
\* RecordCompact succeeded or not.
Replace(kept) ==
    LET b == Message(nextId, "boundary")
        s == Message(nextId + 1, "summary")
    IN  /\ nextId + 1 <= MaxId
        /\ nextId' = nextId + 2
        /\ \/ /\ rows' = RecordCompact(rows, b, s, kept)
              /\ strayed' = (strayed \/ ~ForkPointKept(kept))
           \/ UNCHANGED rows /\ strayed' = TRUE
        /\ messages' = <<Message(None, "boundary"), s>> \o kept
        /\ cursor' = Len(messages')

KeepTail ==
    \E k \in GroupStarts \ {1} : Replace(SubSeq(messages, k, Len(messages)))

KeepNothing ==
    /\ GroupStarts = {1} /\ Len(messages) > 1
    /\ Replace(<<>>)

Noop ==
    /\ cursor' = Len(messages)
    /\ strayed' = (strayed \/ cursor # Len(messages))
    /\ UNCHANGED <<rows, messages, nextId>>

Compact ==
    /\ messages # <<>>
    /\ Spend("compact")
    /\ KeepTail \/ KeepNothing \/ Noop
    /\ UNCHANGED <<forkParent, rewound>>

AutoCompact == Go("head", "llm") /\ Compact
ReactiveCompact == Go("llm", "head") /\ Compact
RecoverCompact == Go("recover", "head") /\ Compact
ManualCompact == Go("idle", "idle") /\ Compact

-----------------------------------------------------------------------------
(* The turn loop                                                           *)

\* Query: the user's message joins the history before the loop starts.
Ask ==
    /\ Go("idle", "entry")
    /\ AppendNew(<<"user">>)
    /\ UNCHANGED <<stored, left, past>>

\* An idle engine drains job notices and runs on them.
ProcessAttachments ==
    /\ Go("idle", "entry")
    /\ AppendNew(<<"injected">>)
    /\ UNCHANGED <<stored, left, past>>

\* No compaction is due, or it failed.
CallLLM ==
    /\ Go("head", "llm")
    /\ UNCHANGED <<rows, messages, cursor, forkParent, nextId, left, past>>

\* One response joins the history, followed by what else was added before control
\* reached `to`.  Truncated and blocked responses, and responses with unread
\* messages, go back to the head without passing a persist point.
Respond(to, ks) ==
    /\ Go("llm", to)
    /\ AppendNew(ks)
    /\ UNCHANGED <<stored, left, past>>

RunTools == Respond("boundary", <<"assistant">>)
            \/ Respond("boundary", <<"assistant", "injected">>)
ContinueTurn == Respond("head", <<"assistant", "injected">>)
\* A broken stream leaves its half of a response in the history; the call is retried.
PartialResponse == Respond("llm", <<"assistant">>)
WindowExceeded == Respond("recover", <<"assistant">>)
\* The final answer; or an abort while the tools ran or half the response was in.
Finish == Respond("exit", <<"assistant">>)

\* The compaction after a truncated response failed: it is the final one.
RecoverFails ==
    /\ Go("recover", "exit")
    /\ UNCHANGED <<rows, messages, cursor, forkParent, nextId, left, past>>

\* MessagesAfterAreOnlySynthetic: an aborted query has produced no answer.  What is left
\* of a response may be empty or thinking only; a tool_result follows a call, which is
\* content, and whatever else is injected is content itself.
OnlySynthetic(i) ==
    /\ messages[i].kind = "user"
    /\ \A j \in DOMAIN messages : j > i => messages[j].kind = "assistant"

\* Abort seen at the head of the loop, or a call that failed or was aborted at once.
AbortEarly ==
    /\ phase \in {"head", "llm"}
    /\ phase' = "exit"
    /\ UNCHANGED <<rows, messages, cursor, forkParent, nextId, left, past>>

-----------------------------------------------------------------------------
(* Rewinding, forking, restarting                                          *)

\* A mutant: the fork point not taken.
RewindForksNowhere(i) ==
    /\ messages[i].kind = "user"
    /\ messages' = SubSeq(messages, 1, i - 1)
    /\ cursor' = IF i - 1 < cursor THEN i - 1 ELSE cursor
    /\ rewound' = rewound \cup IdsOf(SubSeq(messages, i, Len(messages)))
    /\ strayed' = (strayed \/ (i = 1 /\ cursor > 0))
    /\ UNCHANGED forkParent

\* RewindToScoped at the prompt messages[i].
RewindTo(i) ==
    /\ messages[i].kind = "user"
    /\ messages' = SubSeq(messages, 1, i - 1)
    /\ IF i - 1 < cursor
       THEN forkParent' = (IF i > 1 THEN messages[i - 1].id ELSE None) /\ cursor' = i - 1
       ELSE UNCHANGED <<forkParent, cursor>>
    /\ rewound' = rewound \cup IdsOf(SubSeq(messages, i, Len(messages)))
    /\ strayed' = (strayed \/ (i = 1 /\ cursor > 0))

Rewind ==
    /\ Go("idle", "idle") /\ Spend("rewind")
    /\ \E i \in DOMAIN messages : RewindTo(i)
    /\ UNCHANGED <<rows, nextId>>

\* Inside the query_end event of an abort that got no answer, before the exit persist.
AutoRewind ==
    /\ Go("exit", "exit") /\ Spend("rewind")
    /\ \E i \in DOMAIN messages : OnlySynthetic(i) /\ RewindTo(i)
    /\ UNCHANGED <<rows, nextId>>

\* Neither a dead branch nor a boundary that kept nothing: what the linear copy keeps.
ForkIsClean ==
    LET bs == {i \in DOMAIN rows : rows[i].kind = "boundary"}
    IN  /\ rewound \cap IdsOf(rows) = {}
        /\ \A b \in bs : (\A c \in bs : c <= b) => rows[b].seg # NoSeg

\* The engine moves on to its copy and reads it back.
ForkSession ==
    /\ Go("idle", "idle") /\ Spend("fork")
    /\ strayed' = (strayed \/ ~ForkIsClean)
    /\ rows' = CopyToFork(rows)
    /\ messages' = ToEngine(LoadChain(rows'))
    /\ cursor' = Len(messages')
    /\ forkParent' = None
    /\ UNCHANGED <<nextId, rewound>>

\* The process is killed anywhere and comes back through SwitchSession.  A rewind
\* that had not reached the table is undone with it.
Restart ==
    /\ phase' = "idle" /\ Spend("crash")
    /\ messages' = ToEngine(LoadChain(rows))
    /\ cursor' = Len(messages')
    /\ forkParent' = None
    /\ rewound' = rewound \ IdsOf(messages')
    /\ UNCHANGED <<rows, nextId, strayed>>

-----------------------------------------------------------------------------
Next ==
    \/ Ask \/ ProcessAttachments \/ CallLLM
    \/ PersistEntry \/ PersistBoundary \/ PersistExit
    \/ AutoCompact \/ ReactiveCompact \/ RecoverCompact \/ ManualCompact
    \/ RunTools \/ PartialResponse \/ ContinueTurn \/ WindowExceeded \/ RecoverFails \/ Finish
    \/ AbortEarly
    \/ Rewind \/ AutoRewind \/ ForkSession \/ Restart

Spec == Init /\ [][Next]_vars

-----------------------------------------------------------------------------
(* Properties                                                              *)

\* A message as a reader of the conversation sees it: the boundary has a uuid only
\* once it is reloaded.
Shape(ms) ==
    [i \in DOMAIN ms |-> <<IF ms[i].kind = "boundary" THEN None ELSE ms[i].id, ms[i].kind>>]

\* The swept part of e.messages is what the table holds on the chain the next write
\* will extend: the chain a reload shows or, while a rewind's fork point is waiting,
\* the chain down to the fork point.  (PersistNewMessages, RecordCompact,
\* RewindToScoped and BuildConversationChain agree on where the conversation is.)
SweptIsChain ==
    ~strayed =>
    LET chain == IF forkParent = None THEN LoadChain(rows)
                 ELSE ChainOf(LoadMessages(rows), forkParent)
    IN  With(chain, Shape) = Shape(SubSeq(messages, 1, cursor))

\* Following parents never comes back to a row already seen, whatever else went wrong.
\* (walkToRoot's cycle detection is never needed.)
Acyclic ==
    \A i \in DOMAIN rows :
        LET path == PathTo(rows, rows[i].id)
        IN  RowOf(rows, Head(path)).parent \notin ToSet(path)

\* Once a rewound conversation has been continued and stored, a reload does not show
\* what was cut off.  (LoadChainMessages skips dead branches from rewinds.)
DeadBranchesSkipped ==
    (~strayed /\ forkParent = None /\ cursor > 0 /\ cursor = Len(messages))
        => IdsOf(LoadChain(rows)) \cap rewound = {}

\* The pair (conversation in memory, conversation a restart would show) behaves like
\* the abstract journal, until they have parted: what is durable is never a mixture of
\* two histories.
Journaled == INSTANCE Journal WITH live <- Shape(messages),
                                   durable <- With(LoadChain(rows), Shape)
ImplementsJournal ==
    /\ Journaled!Init
    /\ [][strayed' \/ UNCHANGED <<rows, messages>> \/ [Journaled!Next]_(Journaled!vars)]_vars
=============================================================================
