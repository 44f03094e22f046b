----------------------------- MODULE Transcript -----------------------------
(***************************************************************************)
(* The message table of one session, as the short-term store               *)
(* (src/pkg/memory/short) writes and reads it.                             *)
(*                                                                         *)
(* The table is a sequence: position is the seq column.  A row is          *)
(* [id, parent, kind, seg]: its uuid, its parent_uuid, what it is, and for *)
(* a boundary the preserved segment <<head, anchor, tail>> of its          *)
(* compactMetadata.                                                        *)
(* Ids are handed out in the order messages are made, so created_at in     *)
(* whole seconds, which is what findLeafMessage compares, is               *)
(* id \div PerSecond.                                                      *)
(***************************************************************************)
EXTENDS Integers, Sequences, SequencesExt

CONSTANT PerSecond      \* messages created within one wall-clock second

ASSUME PerSecondAssumption == PerSecond \in Nat \ {0}

None   == 0             \* the empty uuid
Gone   == -1            \* a uuid of another session: no row here has it
NoSeg  == <<>>          \* compactMetadata without a preservedSegment
Stale  == <<Gone, Gone, Gone>>

Kinds == {"user", "injected", "assistant", "boundary", "summary"}

IdsOf(s) == {s[i].id : i \in DOMAIN s}
RowOf(rs, u) == rs[CHOOSE i \in DOMAIN rs : rs[i].id = u]
Message(u, kind) == [id |-> u, kind |-> kind]
RowFrom(m, parent) ==
    [id |-> m.id, parent |-> parent, kind |-> m.kind, seg |-> NoSeg]

-----------------------------------------------------------------------------
(* Writing                                                                 *)

LastChainUUID(rs) == IF rs = <<>> THEN None ELSE Last(rs).id

\* One message of a batch: a known uuid is skipped but still becomes the parent
\* of the next one; a compact boundary starts a chain of its own.
AppendOne(acc, m) ==
    [rows |-> IF m.id \in IdsOf(acc.rows) THEN acc.rows
              ELSE Append(acc.rows,
                          RowFrom(m, IF m.kind = "boundary" THEN None ELSE acc.last)),
     last |-> m.id]

\* AppendMessages, and AppendMessagesWithForkPoint when fork names a row.
AppendMessages(rs, ms, fork) ==
    LET acc[n \in 0..Len(ms)] ==
            IF n = 0
            THEN [rows |-> rs, last |-> IF fork # None THEN fork ELSE LastChainUUID(rs)]
            ELSE AppendOne(acc[n - 1], ms[n])
    IN  acc[Len(ms)].rows

\* The rows whose uuids are not among us, in their order.
Without(rs, us) ==
    LET rest[n \in 0..Len(rs)] ==
            IF n = 0 THEN <<>>
            ELSE IF rs[n].id \in us THEN rest[n - 1] ELSE Append(rest[n - 1], rs[n])
    IN  rest[Len(rs)]

\* Mutant of the annotation: the anchor PartialCompact wrote is not moved to the summary.
SegmentAnchoredAtBoundary(b, s, kept) ==
    IF kept = <<>> THEN NoSeg ELSE <<Head(kept).id, b.id, Last(kept).id>>

\* The segment PartialCompact annotates, re-anchored at the summary by RecordCompact.
Segment(b, s, kept) ==
    IF kept = <<>> THEN NoSeg ELSE <<Head(kept).id, s.id, Last(kept).id>>

\* Mutant: each kept message but the first chained to itself.
RecordCompactOffByOne(rs, b, s, kept) ==
    LET others == Without(rs, IdsOf(kept))
        chained == [i \in DOMAIN kept |->
                       RowFrom(kept[i], IF i = 1 THEN s.id ELSE kept[i].id)]
    IN  others \o << [RowFrom(b, None) EXCEPT !.seg = Segment(b, s, kept)],
                     RowFrom(s, b.id) >> \o chained

\* Boundary, summary and kept messages in one transaction; INSERT OR REPLACE moves
\* a kept row that was already stored behind the boundary.
RecordCompact(rs, b, s, kept) ==
    LET others == Without(rs, IdsOf(kept))
        chained == [i \in DOMAIN kept |->
                       RowFrom(kept[i], IF i = 1 THEN s.id ELSE kept[i - 1].id)]
    IN  others \o << [RowFrom(b, None) EXCEPT !.seg = Segment(b, s, kept)],
                     RowFrom(s, b.id) >> \o chained

\* ForkSession copies every row in seq order under fresh uuids, chained one behind
\* the other.  The renaming is not modelled, only what it breaks: the uuids inside
\* a boundary's segment still name the parent session's rows.
CopyToFork(rs) ==
    [i \in DOMAIN rs |->
        [rs[i] EXCEPT !.parent = IF i = 1 THEN None ELSE rs[i - 1].id,
                      !.seg = IF @ = NoSeg THEN NoSeg ELSE Stale]]

-----------------------------------------------------------------------------
(* Reading                                                                 *)

\* F(v), with v evaluated once.
With(v, F(_)) == CHOOSE r \in {F(x) : x \in {v}} : TRUE

\* The uuids from the root down to u: parents are followed until a row has none,
\* names one that is not there, or names one already seen.
PathTo(rs, u) ==
    LET parent == [v \in IdsOf(rs) |-> RowOf(rs, v).parent]
        Longer(path) == LET p == parent[Head(path)]
                        IN  IF p \in DOMAIN parent \ ToSet(path) THEN <<p>> \o path ELSE path
        up[n \in 0..Len(rs)] == IF n = 0 THEN <<u>> ELSE With(up[n - 1], Longer)
    IN  up[Len(rs)]

\* Relink the segment of the boundary at position b so that it starts behind the anchor,
\* then drop the rows before the boundary that are not preserved.
Relink(rs, b, preserved) ==
    LET head   == rs[b].seg[1]
        anchor == rs[b].seg[2]
        tail   == rs[b].seg[3]
        Relinked(r) == CASE r.id = head -> [r EXCEPT !.parent = anchor]
                         [] r.id # head /\ r.parent = anchor -> [r EXCEPT !.parent = tail]
                         [] OTHER -> r
        linked == [i \in DOMAIN rs |-> Relinked(rs[i])]
    IN  Without(SubSeq(linked, 1, b - 1), IdsOf(rs) \ preserved)
        \o SubSeq(linked, b, Len(linked))

\* A walk from tail that misses head leaves the table as it is; a segment whose rows
\* are gone preserves nothing.
ApplyRelinks(rs, b) ==
    LET head == rs[b].seg[1]
        tail == rs[b].seg[3]
        Preserved(walk) == {walk[i] : i \in {j \in DOMAIN walk : \E k \in 1..j : walk[k] = head}}
        Along(walk) == IF head \in ToSet(walk) THEN Relink(rs, b, Preserved(walk)) ELSE rs
    IN  IF {head, tail} \subseteq IdsOf(rs) THEN With(PathTo(rs, tail), Along)
        ELSE Relink(rs, b, {})

\* Only the newest boundary can relink, and only if it carries a segment.
LoadMessages(rs) ==
    LET bs == {i \in DOMAIN rs : rs[i].kind = "boundary"}
        b  == CHOOSE i \in bs : \A j \in bs : j <= i
    IN  IF bs = {} \/ rs[b].seg = NoSeg THEN rs ELSE ApplyRelinks(rs, b)

\* A row that is nobody's parent, the newest by second and then by seq.
LeafIndex(rs) ==
    LET leaves == {i \in DOMAIN rs : \A j \in DOMAIN rs : rs[j].parent # rs[i].id}
        second(i) == rs[i].id \div PerSecond
    IN  CHOOSE i \in leaves :
            \A j \in leaves : second(j) < second(i) \/ (second(j) = second(i) /\ j <= i)

\* The rows from the root down to u.
ChainOf(rs, u) ==
    LET Rows(path) == [i \in DOMAIN path |-> RowOf(rs, path[i])]
    IN  With(PathTo(rs, u), Rows)

\* LoadChainMessages: what a restart, a switch or a fork reads back.
LoadChain(rs) ==
    LET FromLeaf(loaded) == ChainOf(loaded, loaded[LeafIndex(loaded)].id)
    IN  IF rs = <<>> THEN <<>> ELSE With(LoadMessages(rs), FromLeaf)

ToEngine(rs) ==
    [i \in DOMAIN rs |-> [id |-> rs[i].id, kind |-> rs[i].kind]]
=============================================================================
