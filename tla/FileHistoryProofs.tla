------------------------- MODULE FileHistoryProofs -------------------------
(***************************************************************************)
(* What FileHistory.tla keeps true for any files, bounds and failures.     *)
(* The invariant FileInv says how the lists of snapshots, in memory and in *)
(* the database, go with the names the next backups will have; UndoInv,    *)
(* which rests on it, says of both lists that every message they know can  *)
(* be rewound to.                                                          *)
(***************************************************************************)
EXTENDS FileHistory, SequenceTheorems, WellFoundedInduction, TLAPS

\* A file stays in the snapshots once it is there, with versions that never fall.
Grows(s) ==
  \A i, j \in 1..Len(s) : i <= j =>
    \A f \in DOMAIN s[i].entries :
      /\ f \in DOMAIN s[j].entries
      /\ s[i].entries[f].version <= s[j].entries[f].version

\* The backups b of list s hold what its entries say, files a aside.
Truth(s, b, a) ==
  \A i \in 1..Len(s) : \A f \in DOMAIN s[i].entries \ a :
    LET e == s[i].entries[f]
    IN  e.named /\ <<f, e.version>> \in DOMAIN b => b[<<f, e.version>>] = e.text

\* All the files of list s are among t.
Within(s, t) == \A i \in 1..Len(s) : DOMAIN s[i].entries \subseteq t

\* Files of the database's snapshots, which a restart brings back, are still backed up in memory.
Linked ==
  \A i \in 1..Len(stored.snapshots) :
    DOMAIN stored.snapshots[i].entries \subseteq DOMAIN Latest(snapshots) \cup adrift

FileInv ==
  /\ TypeOK
  /\ Grows(snapshots) /\ Grows(stored.snapshots)
  /\ Truth(snapshots, backup, adrift) /\ Truth(stored.snapshots, backup, adrift)
  /\ Within(snapshots, tracked) /\ Within(stored.snapshots, stored.tracked)
  /\ stored.tracked \subseteq tracked
  /\ Linked

\* The two parts of FileInv: the lists with their backups, and the types of the rest.
ListsOK ==
  /\ DOMAIN backup \subseteq File \X Nat /\ backup \in [DOMAIN backup -> Text]
  /\ snapshots \in Seq(Snapshot) /\ tracked \subseteq File
  /\ stored \in [snapshots : Seq(Snapshot), tracked : SUBSET File, talk : Seq(Nat)]
  /\ adrift \subseteq File
  /\ Grows(snapshots) /\ Grows(stored.snapshots)
  /\ Truth(snapshots, backup, adrift) /\ Truth(stored.snapshots, backup, adrift)
  /\ Within(snapshots, tracked) /\ Within(stored.snapshots, stored.tracked)
  /\ stored.tracked \subseteq tracked
  /\ Linked

RestOK ==
  /\ disk \in [File -> Text]
  /\ talk \in Seq(Nat) /\ turn \in Nat \cup {Nobody}
  /\ phase \in {"idle", "skill", "turns"} /\ editing \subseteq File
  /\ result \in [message : Nat \cup {Nobody}, ok : BOOLEAN]
  /\ writes \in Seq(Write) /\ messages \in Nat /\ events \in Nat
  /\ was \in Seq([files : [File -> Text], writes : Nat, missed : SUBSET File])
  /\ late \subseteq Nat \cup {Nobody}

-----------------------------------------------------------------------------
(* Lists of snapshots.                                                     *)

\* The entries of a snapshot in a list have the types they should.
LEMMA EntriesType ==
  ASSUME NEW s \in Seq(Snapshot), NEW i \in 1..Len(s)
  PROVE  /\ s[i].entries \in UNION {[fs -> Entry] : fs \in SUBSET File}
         /\ DOMAIN s[i].entries \subseteq File
         /\ \A f \in DOMAIN s[i].entries : s[i].entries[f] \in Entry
<1>1. s[i] \in Snapshot
  BY ElementOfSeq
<1>2. s[i].entries \in UNION {[fs -> Entry] : fs \in SUBSET File}
  BY <1>1 DEF Snapshot
<1>3. PICK fs \in SUBSET File : s[i].entries \in [fs -> Entry]
  BY <1>2
<1> QED BY <1>2, <1>3

\* So do the latest ones, of which an empty list has none.
LEMMA LatestType ==
  ASSUME NEW s \in Seq(Snapshot)
  PROVE  /\ DOMAIN Latest(s) \subseteq File
         /\ \A f \in DOMAIN Latest(s) : Latest(s)[f] \in Entry
         /\ s # <<>> => Len(s) \in 1..Len(s) /\ Latest(s) = s[Len(s)].entries
<1>1. CASE s = <<>>
  BY <1>1 DEF Latest, Empty
<1>2. CASE s # <<>>
  <2>1. Len(s) \in 1..Len(s)
    BY <1>2, EmptySeq, LenProperties
  <2> QED BY <1>2, <2>1, EntriesType DEF Latest
<1> QED BY <1>1, <1>2

\* What the latest snapshot does not have, no snapshot has; and no version is above its own.
LEMMA GrowsToLatest ==
  ASSUME NEW s \in Seq(Snapshot), Grows(s), NEW i \in 1..Len(s), NEW f \in DOMAIN s[i].entries
  PROVE  f \in DOMAIN Latest(s) /\ s[i].entries[f].version <= Latest(s)[f].version
<1>1. s # <<>> /\ Len(s) \in 1..Len(s) /\ i <= Len(s)
  BY LenProperties, EmptySeq
<1>2. Latest(s) = s[Len(s)].entries
  BY <1>1 DEF Latest
<1> QED BY <1>1, <1>2 DEF Grows

\* What a part of a list keeps of it.
LEMMA SubSeqKeeps ==
  ASSUME NEW s \in Seq(Snapshot), NEW m \in Nat \ {0}, NEW n \in 0..Len(s),
         NEW t, s = <<>> \/ Grows(s), Within(s, t)
  PROVE  /\ SubSeq(s, m, n) \in Seq(Snapshot)
         /\ Grows(SubSeq(s, m, n)) /\ Within(SubSeq(s, m, n), t)
         /\ \A b, a : Truth(s, b, a) => Truth(SubSeq(s, m, n), b, a)
         /\ n = Len(s) /\ m <= n => Latest(SubSeq(s, m, n)) = Latest(s)
<1> DEFINE u == SubSeq(s, m, n)
<1>1. Len(s) \in Nat /\ \A i \in m..n : i \in 1..Len(s) /\ s[i] \in Snapshot
  BY LenProperties, ElementOfSeq
<1>2. /\ u \in Seq(Snapshot)
      /\ Len(u) = IF m <= n THEN n - m + 1 ELSE 0
      /\ \A i \in 1..(n - m + 1) : u[i] = s[m + i - 1]
  BY <1>1, SubSeqProperties
<1> HIDE DEF u
<1>3. \A i \in 1..Len(u) : m + i - 1 \in 1..Len(s) /\ u[i] = s[m + i - 1]
  BY <1>1, <1>2
<1>4. Grows(u)
  <2>1. CASE s = <<>>
    BY <2>1, <1>1, <1>3 DEF Grows
  <2>2. CASE Grows(s)
    <3> SUFFICES ASSUME NEW i \in 1..Len(u), NEW j \in 1..Len(u), i <= j,
                        NEW f \in DOMAIN u[i].entries
                 PROVE  /\ f \in DOMAIN u[j].entries
                        /\ u[i].entries[f].version <= u[j].entries[f].version
      BY DEF Grows
    <3> DEFINE k == m + i - 1
               l == m + j - 1
    <3>1. k \in 1..Len(s) /\ l \in 1..Len(s) /\ u[i] = s[k] /\ u[j] = s[l]
      BY <1>3
    <3>2. k <= l
      BY <1>1, <1>2
    <3> HIDE DEF k, l
    <3> QED BY <2>2, <3>1, <3>2 DEF Grows
  <2> QED BY <2>1, <2>2
<1>5. Within(u, t)
  BY <1>3 DEF Within
<1>6. \A b, a : Truth(s, b, a) => Truth(u, b, a)
  <2> SUFFICES ASSUME NEW b, NEW a, Truth(s, b, a), NEW i \in 1..Len(u)
               PROVE  \A f \in DOMAIN u[i].entries \ a :
                        LET e == u[i].entries[f]
                        IN  e.named /\ <<f, e.version>> \in DOMAIN b => b[<<f, e.version>>] = e.text
    BY DEF Truth
  <2> DEFINE k == m + i - 1
  <2>1. k \in 1..Len(s) /\ u[i] = s[k]
    BY <1>3
  <2> HIDE DEF k
  <2> QED BY <2>1 DEF Truth
<1>7. n = Len(s) /\ m <= n => Latest(u) = Latest(s)
  <2> SUFFICES ASSUME n = Len(s), m <= n PROVE Latest(u) = Latest(s)
    OBVIOUS
  <2>1. Len(u) = n - m + 1 /\ Len(u) \in 1..Len(u) /\ m + Len(u) - 1 = Len(s)
    BY <1>1, <1>2
  <2>2. u[Len(u)] = s[Len(s)]
    BY <1>3, <2>1
  <2>3. u # <<>> /\ s # <<>>
    BY <2>1, <1>1, EmptySeq
  <2> QED BY <2>2, <2>3 DEF Latest
<1> QED BY <1>2, <1>4, <1>5, <1>6, <1>7 DEF u

\* A list keeps growing when the new snapshot has the files of the latest, at no lower versions.
LEMMA AppendKeeps ==
  ASSUME NEW s \in Seq(Snapshot), s # <<>>, Grows(s), NEW t, Within(s, t),
         NEW x \in Snapshot, DOMAIN x.entries \subseteq t,
         \A f \in DOMAIN Latest(s) :
           f \in DOMAIN x.entries /\ Latest(s)[f].version <= x.entries[f].version
  PROVE  /\ Append(s, x) \in Seq(Snapshot) /\ Len(Append(s, x)) = Len(s) + 1
         /\ Grows(Append(s, x)) /\ Within(Append(s, x), t)
         /\ Latest(Append(s, x)) = x.entries
<1> DEFINE u == Append(s, x)
<1>1. /\ Len(s) \in Nat /\ u \in Seq(Snapshot) /\ Len(u) = Len(s) + 1 /\ u # <<>>
      /\ u[Len(u)] = x /\ \A i \in 1..Len(s) : u[i] = s[i]
  BY LenProperties, AppendProperties, EmptySeq
<1> HIDE DEF u
<1>2. Grows(u)
  <2> SUFFICES ASSUME NEW i \in 1..Len(u), NEW j \in 1..Len(u), i <= j,
                      NEW f \in DOMAIN u[i].entries
               PROVE  /\ f \in DOMAIN u[j].entries
                      /\ u[i].entries[f].version <= u[j].entries[f].version
    BY DEF Grows
  <2>1. CASE j # Len(u)
    <3>1. i \in 1..Len(s) /\ j \in 1..Len(s) /\ u[i] = s[i] /\ u[j] = s[j]
      BY <1>1, <2>1
    <3> QED BY <3>1 DEF Grows
  <2>2. CASE j = Len(u) /\ i # Len(u)
    <3>1. i \in 1..Len(s) /\ u[i] = s[i] /\ u[j] = x
      BY <1>1, <2>2
    <3>2. f \in DOMAIN Latest(s) /\ s[i].entries[f].version <= Latest(s)[f].version
      BY <3>1, GrowsToLatest
    <3>3. s[i].entries[f] \in Entry /\ Latest(s)[f] \in Entry
      BY <3>1, <3>2, EntriesType, LatestType
    <3>4. f \in DOMAIN x.entries /\ Latest(s)[f].version <= x.entries[f].version
      BY <3>2
    <3>5. u[Len(u)] \in Snapshot /\ Len(u) \in 1..Len(u)
      BY <1>1
    <3>6. x.entries[f] \in Entry
      BY <3>4, <3>5, <1>1, EntriesType
    <3>7. \A p, q, r \in Nat : p <= q /\ q <= r => p <= r
      OBVIOUS
    <3>8. /\ s[i].entries[f].version \in Nat /\ Latest(s)[f].version \in Nat
          /\ x.entries[f].version \in Nat
      BY <3>3, <3>6 DEF Entry
    <3>9. s[i].entries[f].version <= x.entries[f].version
      BY <3>2, <3>4, <3>7, <3>8
    <3> QED BY <3>1, <3>4, <3>9
  <2>3. CASE i = j
    <3>1. u[i].entries[f] \in Entry
      BY <1>1, EntriesType
    <3>2. u[i].entries[f].version \in Nat
      BY <3>1 DEF Entry
    <3> QED BY <2>3, <3>2
  <2> QED BY <2>1, <2>2, <2>3
<1>3. Within(u, t)
  <2> SUFFICES ASSUME NEW i \in 1..Len(u) PROVE DOMAIN u[i].entries \subseteq t
    BY DEF Within
  <2>1. CASE i = Len(u)
    BY <1>1, <2>1
  <2>2. CASE i # Len(u)
    <3>1. i \in 1..Len(s)
      BY <1>1, <2>2
    <3> QED BY <1>1, <3>1 DEF Within
  <2> QED BY <2>1, <2>2
<1>4. Latest(u) = x.entries
  BY <1>1 DEF Latest
<1> QED BY <1>1, <1>2, <1>3, <1>4 DEF u

\* Entries that are true stay so while files are set adrift.
LEMMA TruthMono ==
  ASSUME NEW s, NEW b, NEW a, NEW c, a \subseteq c, Truth(s, b, a)
  PROVE  Truth(s, b, c)
BY DEF Truth

-----------------------------------------------------------------------------
(* Copies.                                                                 *)

\* What a round of copies writes, and that it touches no other name.
LEMMA CopyKeeps ==
  ASSUME TypeOK, NEW fs \in SUBSET File, NEW v, \A f \in fs : v[f] \in Nat
  PROVE  /\ DOMAIN Copy(fs, v) \subseteq File \X Nat
         /\ Copy(fs, v) \in [DOMAIN Copy(fs, v) -> Text]
         /\ \A f \in fs : disk[f] # Gone => Copy(fs, v)[<<f, v[f]>>] = disk[f]
         /\ \A f \in File, k \in Nat : (f \in fs => k # v[f]) =>
              /\ <<f, k>> \in DOMAIN Copy(fs, v) => <<f, k>> \in DOMAIN backup
              /\ <<f, k>> \in DOMAIN backup => Copy(fs, v)[<<f, k>>] = backup[<<f, k>>]
<1> DEFINE gs == {g \in fs : disk[g] # Gone}
           new == {<<f, v[f]>> : f \in gs}
           c == Copy(fs, v)
<1>1. /\ DOMAIN backup \subseteq File \X Nat /\ backup \in [DOMAIN backup -> Text]
      /\ disk \in [File -> Text]
  BY DEF TypeOK
<1>2. c = [n \in DOMAIN backup \cup new |-> IF n \in new THEN disk[n[1]] ELSE backup[n]]
  BY DEF Copy
<1>3. \A n \in new : n \in File \X Nat /\ n[1] \in gs /\ n = <<n[1], v[n[1]]>>
  OBVIOUS
<1>4. \A f \in gs : <<f, v[f]>> \in new
  OBVIOUS
<1> HIDE DEF c, new
<1>5. DOMAIN c \subseteq File \X Nat
  BY <1>1, <1>2, <1>3
<1>6. c \in [DOMAIN c -> Text]
  <2> SUFFICES ASSUME NEW n \in DOMAIN c PROVE c[n] \in Text
    BY <1>2
  <2>1. CASE n \in new
    <3>1. n[1] \in File
      BY <1>3, <2>1
    <3> QED BY <1>1, <1>2, <2>1, <3>1
  <2>2. CASE n \notin new
    BY <1>1, <1>2, <2>2
  <2> QED BY <2>1, <2>2
<1>7. \A f \in fs : disk[f] # Gone => c[<<f, v[f]>>] = disk[f]
  BY <1>2, <1>4
<1>8. ASSUME NEW f \in File, NEW k \in Nat, f \in fs => k # v[f]
      PROVE  /\ <<f, k>> \in DOMAIN c => <<f, k>> \in DOMAIN backup
             /\ <<f, k>> \in DOMAIN backup => c[<<f, k>>] = backup[<<f, k>>]
  <2>1. <<f, k>> \notin new
    BY <1>3, <1>8
  <2> QED BY <1>2, <2>1
<1> QED BY <1>5, <1>6, <1>7, <1>8 DEF c

\* A copy that succeeds holds what the file is.
LEMMA CopyHolds ==
  ASSUME TypeOK, NEW fs \in SUBSET File, NEW v, \A f \in fs : v[f] \in Nat,
         NEW g \in fs, disk[g] # Gone
  PROVE  Copy(fs, v)[<<g, v[g]>>] = disk[g]
<1>1. \A f \in fs : disk[f] # Gone => Copy(fs, v)[<<f, v[f]>>] = disk[f]
  BY CopyKeeps, Zenon
<1> QED BY <1>1

\* An entry whose name is not copied to stays true.
LEMMA TruthKept ==
  ASSUME TypeOK, NEW s \in Seq(Snapshot), NEW a, Truth(s, backup, a),
         NEW fs \in SUBSET File, NEW v, \A f \in fs : v[f] \in Nat,
         \A i \in 1..Len(s) : \A f \in DOMAIN s[i].entries \ a :
           f \in fs => s[i].entries[f].version # v[f]
  PROVE  Truth(s, Copy(fs, v), a)
<1> SUFFICES ASSUME NEW i \in 1..Len(s), NEW f \in DOMAIN s[i].entries \ a,
                    s[i].entries[f].named,
                    <<f, s[i].entries[f].version>> \in DOMAIN Copy(fs, v)
             PROVE  Copy(fs, v)[<<f, s[i].entries[f].version>>] = s[i].entries[f].text
  BY DEF Truth
<1> DEFINE k == s[i].entries[f].version
<1>1. f \in File /\ s[i].entries[f] \in Entry
  BY EntriesType
<1>2. k \in Nat
  BY <1>1 DEF Entry
<1>3. f \in fs => k # v[f]
  OBVIOUS
<1>4. <<f, k>> \in DOMAIN backup /\ Copy(fs, v)[<<f, k>>] = backup[<<f, k>>]
  BY <1>1, <1>2, <1>3, CopyKeeps
<1>5. backup[<<f, k>>] = s[i].entries[f].text
  BY <1>4 DEF Truth
<1> QED BY <1>4, <1>5

\* The entry of a file that is backed up now.
LEMMA EntryType ==
  ASSUME TypeOK, NEW f \in File, NEW n \in Nat
  PROVE  EntryOf(f, n) \in Entry
<1>1. disk[f] \in Text
  BY DEF TypeOK
<1>2. (disk[f] # Gone) \in BOOLEAN
  OBVIOUS
<1> QED BY <1>1, <1>2 DEF EntryOf, Entry

\* The next version is above the latest one, so that it is none of those in the list.
LEMMA NextVersionType ==
  ASSUME TypeOK, NEW f
  PROVE  /\ NextVersion(f) \in Nat
         /\ f \in DOMAIN Latest(snapshots) =>
              /\ Latest(snapshots)[f].version \in Nat
              /\ Latest(snapshots)[f].version <= NextVersion(f)
              /\ \A k \in Nat : k <= Latest(snapshots)[f].version => k # NextVersion(f)
<1>1. snapshots \in Seq(Snapshot)
  BY DEF TypeOK
<1>2. f \in DOMAIN Latest(snapshots) => Latest(snapshots)[f] \in Entry
  BY <1>1, LatestType
<1>3. f \in DOMAIN Latest(snapshots) => Latest(snapshots)[f].version \in Nat
  BY <1>2 DEF Entry
<1> QED BY <1>3 DEF NextVersion

\* What evicting the oldest snapshot keeps.
LEMMA EvictKeeps ==
  ASSUME NEW s \in Seq(Snapshot), s # <<>>, Grows(s), NEW t, Within(s, t)
  PROVE  /\ Evict(s) \in Seq(Snapshot) /\ Grows(Evict(s)) /\ Within(Evict(s), t)
         /\ \A b, a : Truth(s, b, a) => Truth(Evict(s), b, a)
<1>1. Len(s) \in Nat /\ MaxSnapshots \in Nat \ {0}
  BY LenProperties, FileHistoryAssumption
<1>2. CASE Len(s) > MaxSnapshots
  <2>1. Len(s) - MaxSnapshots + 1 \in Nat \ {0} /\ Len(s) \in 0..Len(s)
    BY <1>1, <1>2
  <2> QED BY <1>2, <2>1, SubSeqKeeps DEF Evict
<1>3. CASE ~(Len(s) > MaxSnapshots)
  BY <1>3 DEF Evict
<1> QED BY <1>2, <1>3

-----------------------------------------------------------------------------
(* The steps of the tracker.                                               *)

\* The entries of a new snapshot: the latest ones, or new ones under the next version.
LEMMA NewEntries ==
  ASSUME FileInv, snapshots # <<>>, NEW m \in Nat \cup {Nobody}, NEW failed
  PROVE  /\ [message |-> m, entries |-> Entries(failed)] \in Snapshot
         /\ DOMAIN Entries(failed) \subseteq tracked
         /\ DOMAIN Latest(snapshots) \subseteq DOMAIN Entries(failed)
         /\ \A f \in DOMAIN Entries(failed) :
              \/ /\ f \in failed \/ Unchanged(f)
                 /\ f \in DOMAIN Latest(snapshots) /\ Entries(failed)[f] = Latest(snapshots)[f]
              \/ /\ f \notin failed /\ ~Unchanged(f)
                 /\ Entries(failed)[f] = EntryOf(f, NextVersion(f))
<1> DEFINE old == Latest(snapshots)
           ds == (tracked \ failed) \cup (failed \cap DOMAIN old)
           x == [message |-> m, entries |-> Entries(failed)]
<1>0. TypeOK /\ snapshots \in Seq(Snapshot) /\ tracked \subseteq File
  BY DEF FileInv, TypeOK
<1>1. TypeOK /\ snapshots \in Seq(Snapshot) /\ tracked \subseteq File /\ DOMAIN old \subseteq tracked
      /\ \A f \in DOMAIN old : old[f] \in Entry
  BY <1>0, LatestType DEF FileInv, Within
<1>2. /\ DOMAIN Entries(failed) = ds /\ ds \subseteq tracked
      /\ \A f \in ds : Entries(failed)[f] =
           IF f \in failed \/ Unchanged(f) THEN old[f] ELSE EntryOf(f, NextVersion(f))
      /\ Entries(failed) = [f \in ds |-> Entries(failed)[f]]
  BY <1>1 DEF Entries
<1>3. \A f \in ds : f \in failed \/ Unchanged(f) => f \in DOMAIN old
  BY DEF Unchanged
<1>4. DOMAIN old \subseteq ds
  BY <1>1
<1> HIDE DEF old, ds
<1>5. ASSUME NEW f \in ds PROVE Entries(failed)[f] \in Entry
  <2>1. CASE f \in failed \/ Unchanged(f)
    BY <1>1, <1>2, <1>3, <2>1
  <2>2. CASE ~(f \in failed \/ Unchanged(f))
    <3>1. f \in File /\ NextVersion(f) \in Nat
      BY <1>1, <1>2, NextVersionType
    <3>2. EntryOf(f, NextVersion(f)) \in Entry
      BY <1>1, <3>1, EntryType
    <3> QED BY <1>2, <2>2, <3>2
  <2> QED BY <2>1, <2>2
<1>6. ds \in SUBSET File /\ Entries(failed) \in [ds -> Entry]
  BY <1>1, <1>2, <1>5
<1>7. Entries(failed) \in UNION {[gs -> Entry] : gs \in SUBSET File}
  BY <1>6
<1>8. x \in Snapshot
  BY <1>7 DEF Snapshot
<1> QED BY <1>2, <1>3, <1>4, <1>8 DEF old

\* A new snapshot keeps the list growing, and its entries and those before it true.
LEMMA MakeSnapshotKeeps ==
  ASSUME FileInv, NEW m \in Nat \cup {Nobody}, NEW failed \in SUBSET Unreadable,
         MakeSnapshot(m, failed)
  PROVE  /\ DOMAIN backup' \subseteq File \X Nat /\ backup' \in [DOMAIN backup' -> Text]
         /\ snapshots' \in Seq(Snapshot) /\ Grows(snapshots')
         /\ Truth(snapshots', backup', adrift) /\ Within(snapshots', tracked)
<1>1. TypeOK /\ snapshots \in Seq(Snapshot) /\ tracked \subseteq File
  BY DEF FileInv, TypeOK
<1>2. CASE snapshots = <<>>
  BY <1>2 DEF MakeSnapshot, FileInv, TypeOK
<1>3. CASE snapshots # <<>>
  <2> DEFINE old == Latest(snapshots)
             fs == {f \in tracked \ failed : ~Unchanged(f)}
             v == [f \in tracked |-> NextVersion(f)]
             x == [message |-> m, entries |-> Entries(failed)]
             w == Append(snapshots, x)
  <2>1. backup' = Copy(fs, v) /\ snapshots' = Evict(w)
    BY <1>3 DEF MakeSnapshot
  <2>2. /\ fs \in SUBSET File /\ \A f \in fs : v[f] \in Nat
        /\ \A f \in fs : v[f] = NextVersion(f)
    BY <1>1, NextVersionType
  <2>3. /\ DOMAIN old \subseteq tracked /\ \A f \in DOMAIN old : old[f] \in Entry
        /\ Len(snapshots) \in 1..Len(snapshots) /\ old = snapshots[Len(snapshots)].entries
    BY <1>1, <1>3, LatestType DEF FileInv, Within
  <2>4. /\ x \in Snapshot /\ DOMAIN x.entries \subseteq tracked /\ DOMAIN old \subseteq DOMAIN x.entries
        /\ \A f \in DOMAIN x.entries :
             \/ f \in DOMAIN old /\ x.entries[f] = old[f]
             \/ f \in fs /\ x.entries[f] = EntryOf(f, NextVersion(f))
    BY <1>3, NewEntries
  <2> HIDE DEF fs, v, old
  <2>5. \A f : EntryOf(f, NextVersion(f)).version = NextVersion(f)
    BY DEF EntryOf
  <2>6. ASSUME NEW f \in DOMAIN old
        PROVE  f \in DOMAIN x.entries /\ old[f].version <= x.entries[f].version
    <3> HIDE DEF x
    <3>1. old[f].version \in Nat
      BY <2>3 DEF Entry
    <3> QED BY <1>1, <2>4, <2>5, <3>1, NextVersionType DEF old
  <2> HIDE DEF x
  <2>7. /\ w \in Seq(Snapshot) /\ Len(w) = Len(snapshots) + 1
        /\ Grows(w) /\ Within(w, tracked)
    BY <1>1, <1>3, <2>4, <2>6, AppendKeeps DEF FileInv, old
  <2>8. Truth(snapshots, Copy(fs, v), adrift)
    <3>1. ASSUME NEW i \in 1..Len(snapshots), NEW f \in DOMAIN snapshots[i].entries
          PROVE  snapshots[i].entries[f].version # NextVersion(f)
      <4>1. f \in DOMAIN old /\ snapshots[i].entries[f].version <= old[f].version
        BY <1>1, GrowsToLatest DEF FileInv, old
      <4>2. snapshots[i].entries[f] \in Entry
        BY <1>1, EntriesType
      <4>3. snapshots[i].entries[f].version \in Nat
        BY <4>2 DEF Entry
      <4> QED BY <1>1, <4>1, <4>3, NextVersionType DEF old
    <3>2. Truth(snapshots, backup, adrift)
      BY DEF FileInv
    <3> QED BY <1>1, <2>2, <3>1, <3>2, TruthKept
  <2>9. Truth(w, Copy(fs, v), adrift)
    <3> SUFFICES ASSUME NEW i \in 1..Len(w), NEW f \in DOMAIN w[i].entries \ adrift,
                        w[i].entries[f].named,
                        <<f, w[i].entries[f].version>> \in DOMAIN Copy(fs, v)
                 PROVE  Copy(fs, v)[<<f, w[i].entries[f].version>>] = w[i].entries[f].text
      BY DEF Truth
    <3>1. Len(snapshots) \in Nat
      BY <2>3
    <3>2. CASE i # Len(w)
      <4>1. i \in 1..Len(snapshots)
        BY <2>7, <3>1, <3>2
      <4>2. w[i] = snapshots[i]
        BY <1>1, <2>4, <4>1, AppendProperties
      <4> QED BY <2>8, <4>1, <4>2 DEF Truth
    <3>3. CASE i = Len(w)
      <4>1. w[i] = x
        BY <1>1, <2>4, <2>7, <3>3, AppendProperties
      <4>2. CASE f \in DOMAIN old /\ x.entries[f] = old[f]
        BY <2>3, <2>8, <4>1, <4>2 DEF Truth
      <4>3. CASE f \in fs /\ x.entries[f] = EntryOf(f, NextVersion(f))
        <5>1. w[i].entries[f] = EntryOf(f, NextVersion(f))
          BY <4>1, <4>3
        <5>2. EntryOf(f, NextVersion(f)).named
          BY <5>1
        <5>3. disk[f] # Gone
          BY <5>2, Zenon DEF EntryOf
        <5>4. Copy(fs, v)[<<f, v[f]>>] = disk[f]
          BY <1>1, <2>2, <4>3, <5>3, CopyHolds
        <5> QED BY <2>2, <4>3, <5>1, <5>4 DEF EntryOf
      <4> QED BY <2>4, <4>1, <4>2, <4>3
    <3> QED BY <3>2, <3>3
  <2>10. w # <<>>
    BY <2>3, <2>7, EmptySeq
  <2>11. /\ Evict(w) \in Seq(Snapshot) /\ Grows(Evict(w)) /\ Within(Evict(w), tracked)
         /\ Truth(Evict(w), Copy(fs, v), adrift)
    BY <2>7, <2>9, <2>10, EvictKeeps
  <2>12. /\ DOMAIN Copy(fs, v) \subseteq File \X Nat
         /\ Copy(fs, v) \in [DOMAIN Copy(fs, v) -> Text]
    BY <1>1, <2>2, CopyKeeps
  <2> QED BY <2>1, <2>11, <2>12
<1> QED BY <1>2, <1>3

\* FileInv is its two parts.
LEMMA TwoParts ==
  /\ FileInv => ListsOK /\ RestOK
  /\ ListsOK /\ RestOK => FileInv
BY DEF FileInv, TypeOK, ListsOK, RestOK

\* Files without a backup are files, and among them all tracked ones the snapshot does not have.
LEMMA UnbackedType ==
  ASSUME NEW s, NEW t \in SUBSET File, NEW w \in Seq(Write)
  PROVE  Unbacked(s, t, w) \subseteq File /\ t \ DOMAIN Latest(s) \subseteq Unbacked(s, t, w)
<1>1. ASSUME NEW n \in 1..Len(w) PROVE w[n].file \in File
  <2>1. w[n] \in Write
    BY ElementOfSeq
  <2> QED BY <2>1 DEF Write
<1> QED BY <1>1 DEF Unbacked

\* A backup before an edit is one under a name that no entry has.
LEMMA TrackEditKeeps ==
  ASSUME FileInv, NEW f \in File, TrackEdit(f)
  PROVE  ListsOK'
<1>1. TypeOK /\ ListsOK /\ snapshots \in Seq(Snapshot)
  BY TwoParts DEF FileInv, TypeOK
<1>2. CASE UNCHANGED <<backup, tracked, snapshots>>
  BY <1>1, <1>2 DEF ListsOK, TrackEdit, Linked
<1>3. CASE ~ UNCHANGED <<backup, tracked, snapshots>>
  <2> DEFINE n == Len(snapshots)
             old == Latest(snapshots)
             v == [g \in {f} |-> 1]
             new == [g \in DOMAIN old \cup {f} |-> IF g = f THEN EntryOf(f, 1) ELSE old[g]]
  <2>1. /\ Backs(f) /\ backup' = Copy({f}, v) /\ tracked' = tracked \cup {f}
        /\ snapshots' = [snapshots EXCEPT ![n].entries =
             [g \in DOMAIN @ \cup {f} |-> IF g = f THEN EntryOf(f, 1) ELSE @[g]]]
        /\ UNCHANGED <<stored, adrift>>
    BY <1>3 DEF TrackEdit
  <2>2. snapshots # <<>> /\ f \notin DOMAIN old
    BY <2>1 DEF Backs
  <2>3. /\ n \in 1..n /\ old = snapshots[n].entries
        /\ DOMAIN old \subseteq File /\ \A g \in DOMAIN old : old[g] \in Entry
    BY <1>1, <2>2, LatestType
  <2>4. n \in Nat /\ DOMAIN snapshots = 1..n /\ \A i \in 1..n : snapshots[i] \in Snapshot
    BY <1>1, LenProperties, ElementOfSeq
  <2> HIDE DEF n, old
  <2>5. snapshots' = [snapshots EXCEPT ![n] = [snapshots[n] EXCEPT !.entries = new]]
    BY <2>1, <2>3, <2>4
  <2>6. /\ EntryOf(f, 1) \in Entry /\ DOMAIN new = DOMAIN old \cup {f} /\ new[f] = EntryOf(f, 1)
        /\ \A g \in DOMAIN old : new[g] = old[g]
    BY <1>1, <2>2, EntryType
  <2>7. \A g \in DOMAIN new : new[g] \in Entry
    BY <2>3, <2>6
  <2>8. new \in UNION {[gs -> Entry] : gs \in SUBSET File}
    <3>1. DOMAIN old \cup {f} \in SUBSET File /\ new \in [DOMAIN old \cup {f} -> Entry]
      BY <2>3, <2>6, <2>7
    <3> QED BY <3>1
  <2> HIDE DEF new
  <2>9. [snapshots[n] EXCEPT !.entries = new] \in Snapshot
    BY <2>3, <2>4, <2>8 DEF Snapshot
  <2>10. /\ snapshots' \in Seq(Snapshot) /\ Len(snapshots') = n
         /\ \A i \in 1..n : i # n => snapshots'[i] = snapshots[i]
         /\ snapshots'[n].entries = new
    BY <1>1, <2>3, <2>4, <2>5, <2>9, ExceptSeq DEF n, Snapshot
  <2>11. Latest(snapshots') = new
    BY <2>3, <2>10, EmptySeq DEF Latest
  <2>12. \A i \in 1..n : \A g \in DOMAIN snapshots[i].entries :
           g \in DOMAIN old /\ g # f /\ snapshots[i].entries[g].version <= old[g].version
    BY <1>1, <2>2, GrowsToLatest DEF FileInv, n, old
  <2>13. Grows(snapshots')
    <3> SUFFICES ASSUME NEW i \in 1..n, NEW j \in 1..n, i <= j,
                        NEW g \in DOMAIN snapshots'[i].entries
                 PROVE  /\ g \in DOMAIN snapshots'[j].entries
                        /\ snapshots'[i].entries[g].version <= snapshots'[j].entries[g].version
      BY <2>10 DEF Grows
    <3>1. CASE j # n
      <4>1. i # n
        BY <2>4, <3>1
      <4>2. snapshots'[i] = snapshots[i] /\ snapshots'[j] = snapshots[j] /\ Grows(snapshots)
        BY <2>10, <3>1, <4>1 DEF FileInv
      <4> QED BY <4>2 DEF Grows, n
    <3>2. CASE j = n /\ i # n
      <4>1. snapshots'[i] = snapshots[i] /\ snapshots'[j].entries = new
        BY <2>10, <3>2
      <4>2. g \in DOMAIN old /\ snapshots[i].entries[g].version <= old[g].version
        BY <2>12, <4>1
      <4> QED BY <2>6, <4>1, <4>2
    <3>3. CASE j = n /\ i = n
      <4>1. snapshots'[i].entries = new /\ snapshots'[j].entries = new
        BY <2>10, <3>3
      <4>2. new[g].version \in Nat
        BY <2>7, <4>1 DEF Entry
      <4> QED BY <4>1, <4>2
    <3> QED BY <3>1, <3>2, <3>3
  <2>14. /\ {f} \in SUBSET File /\ \A g \in {f} : v[g] \in Nat /\ v[g] = 1
    OBVIOUS
  <2> HIDE DEF v
  <2>15. Truth(snapshots, backup', adrift)
    <3>1. Truth(snapshots, backup, adrift)
      BY DEF FileInv
    <3>2. \A i \in 1..Len(snapshots) : \A g \in DOMAIN snapshots[i].entries : g \notin {f}
      BY <2>12 DEF n
    <3> QED BY <1>1, <2>1, <2>14, <3>1, <3>2, TruthKept
  <2>16. Truth(snapshots', backup', adrift)
    <3> SUFFICES ASSUME NEW i \in 1..n, NEW g \in DOMAIN snapshots'[i].entries \ adrift,
                        snapshots'[i].entries[g].named,
                        <<g, snapshots'[i].entries[g].version>> \in DOMAIN backup'
                 PROVE  backup'[<<g, snapshots'[i].entries[g].version>>]
                          = snapshots'[i].entries[g].text
      BY <2>10 DEF Truth
    <3>1. CASE i # n
      BY <2>10, <2>15, <3>1 DEF Truth, n
    <3>2. CASE i = n /\ g # f
      <4>1. g \in DOMAIN old /\ snapshots'[i].entries[g] = snapshots[n].entries[g]
        BY <2>3, <2>6, <2>10, <3>2
      <4> QED BY <2>3, <2>15, <4>1 DEF Truth, n
    <3>3. CASE i = n /\ g = f
      <4>1. snapshots'[i].entries[g] = EntryOf(f, 1)
        BY <2>6, <2>10, <3>3
      <4>2. EntryOf(f, 1).named
        BY <4>1
      <4>3. disk[f] # Gone
        BY <4>2, Zenon DEF EntryOf
      <4>4. Copy({f}, v)[<<f, v[f]>>] = disk[f]
        BY <1>1, <2>14, <4>3, CopyHolds
      <4>5. EntryOf(f, 1).version = 1 /\ EntryOf(f, 1).text = disk[f]
        BY DEF EntryOf
      <4> QED BY <2>1, <2>14, <3>3, <4>1, <4>4, <4>5
    <3> QED BY <3>1, <3>2, <3>3
  <2>17. Truth(stored.snapshots, backup', adrift)
    <3>1. Truth(stored.snapshots, backup, adrift) /\ stored.snapshots \in Seq(Snapshot)
      BY DEF FileInv, TypeOK
    <3>2. \A i \in 1..Len(stored.snapshots) :
            \A g \in DOMAIN stored.snapshots[i].entries \ adrift : g \notin {f}
      BY <2>2 DEF FileInv, Linked, old
    <3> QED BY <1>1, <2>1, <2>14, <3>1, <3>2, TruthKept
  <2>18. Within(snapshots', tracked')
    <3> SUFFICES ASSUME NEW i \in 1..n PROVE DOMAIN snapshots'[i].entries \subseteq tracked'
      BY <2>10 DEF Within
    <3>1. DOMAIN snapshots[i].entries \subseteq tracked /\ DOMAIN snapshots[n].entries \subseteq tracked
      BY <2>3 DEF FileInv, Within, n
    <3>2. CASE i # n
      BY <2>1, <2>10, <3>1, <3>2
    <3>3. CASE i = n
      BY <2>1, <2>3, <2>6, <2>10, <3>1, <3>3
    <3> QED BY <3>2, <3>3
  <2>19. Linked'
    <3>1. DOMAIN Latest(snapshots) \subseteq DOMAIN Latest(snapshots')
      BY <2>6, <2>11 DEF old
    <3> QED BY <2>1, <3>1 DEF FileInv, Linked
  <2>20. DOMAIN backup' \subseteq File \X Nat /\ backup' \in [DOMAIN backup' -> Text]
    BY <1>1, <2>1, <2>14, CopyKeeps
  <2>21. tracked' \subseteq File /\ stored'.tracked \subseteq tracked' /\ stored' = stored
    BY <1>1, <2>1 DEF ListsOK
  <2> QED BY <1>1, <2>1, <2>10, <2>13, <2>16, <2>17, <2>18, <2>19, <2>20, <2>21 DEF ListsOK
<1> QED BY <1>2, <1>3

\* The start of turns makes what is stored the same as what is in memory.
LEMMA StartTurnsKeeps ==
  ASSUME FileInv, NEW m \in Nat \cup {Nobody}, NEW failed \in SUBSET Unreadable,
         StartTurns(m, failed), talk' \in Seq(Nat)
  PROVE  ListsOK'
<1>1. ListsOK /\ RestOK
  BY TwoParts
<1>2. /\ UNCHANGED <<tracked, writes>> /\ tracked \in SUBSET File /\ writes \in Seq(Write)
      /\ adrift' = adrift \cup Unbacked(snapshots', tracked, writes)
  BY <1>1 DEF ListsOK, RestOK, StartTurns
<1>3. adrift' \subseteq File /\ adrift \subseteq adrift'
  BY <1>1, <1>2, UnbackedType DEF ListsOK
<1>4. CASE m = Nobody
  <2>1. /\ UNCHANGED <<backup, snapshots>>
        /\ stored' = [stored EXCEPT !.talk = talk']
    BY <1>4 DEF StartTurns
  <2>2. /\ stored'.snapshots = stored.snapshots /\ stored'.tracked = stored.tracked
        /\ stored' \in [snapshots : Seq(Snapshot), tracked : SUBSET File, talk : Seq(Nat)]
    BY <1>1, <2>1 DEF ListsOK
  <2>3. Truth(snapshots, backup, adrift') /\ Truth(stored.snapshots, backup, adrift')
    BY <1>1, <1>3, TruthMono DEF ListsOK
  <2>4. Linked'
    BY <1>1, <1>3, <2>1, <2>2 DEF ListsOK, Linked
  <2> QED BY <1>1, <1>2, <1>3, <2>1, <2>2, <2>3, <2>4 DEF ListsOK
<1>5. CASE m # Nobody
  <2>1. MakeSnapshot(m, failed)
        /\ stored' = [snapshots |-> snapshots', tracked |-> tracked, talk |-> talk']
    BY <1>5 DEF StartTurns
  <2>2. /\ DOMAIN backup' \subseteq File \X Nat /\ backup' \in [DOMAIN backup' -> Text]
        /\ snapshots' \in Seq(Snapshot) /\ Grows(snapshots')
        /\ Truth(snapshots', backup', adrift) /\ Within(snapshots', tracked)
    BY <2>1, MakeSnapshotKeeps
  <2>3. /\ stored'.snapshots = snapshots' /\ stored'.tracked = tracked
        /\ stored' \in [snapshots : Seq(Snapshot), tracked : SUBSET File, talk : Seq(Nat)]
    BY <1>2, <2>1, <2>2
  <2>4. Truth(snapshots', backup', adrift')
    BY <1>3, <2>2, TruthMono
  <2>5. Linked'
    BY <2>2, <2>3, GrowsToLatest DEF Linked
  <2> QED BY <1>2, <1>3, <2>2, <2>3, <2>4, <2>5 DEF ListsOK
<1> QED BY <1>4, <1>5

\* What the other steps, which copy nothing, need of the lists.
LEMMA SameBackups ==
  ASSUME ListsOK, backup' = backup, UNCHANGED stored,
         snapshots' \in Seq(Snapshot), Grows(snapshots'), Truth(snapshots', backup, adrift),
         tracked' \in SUBSET File, Within(snapshots', tracked'), stored.tracked \subseteq tracked',
         adrift \subseteq adrift', adrift' \subseteq File,
         stored.tracked \ DOMAIN Latest(snapshots') \subseteq adrift' \/ UNCHANGED snapshots
  PROVE  ListsOK'
<1>1. Truth(snapshots', backup', adrift')
  BY TruthMono
<1>2. Truth(stored'.snapshots, backup', adrift')
  BY TruthMono DEF ListsOK
<1>3. Linked'
  BY DEF ListsOK, Within, Linked
<1> QED BY <1>1, <1>2, <1>3 DEF ListsOK

\* A file is restored to a text.
LEMMA RestoredType ==
  ASSUME TypeOK, NEW f \in File, NEW i
  PROVE  Restored(f, i) \in Text
<1> DEFINE kept == {e \in Target(f, i) : Kept(f, e)}
           e == CHOOSE e \in kept : TRUE
<1>1. disk[f] \in Text /\ Gone \in Text /\ backup \in [DOMAIN backup -> Text]
  BY DEF TypeOK, Text
<1>2. kept # {} => e \in kept
  OBVIOUS
<1>3. kept # {} => <<f, e.version>> \in DOMAIN backup
  BY <1>2 DEF Kept
<1>4. Restored(f, i) = IF \E g \in Target(f, i) : ~g.named THEN Gone
                       ELSE IF kept # {} THEN backup[<<f, e.version>>] ELSE disk[f]
  BY DEF Restored
<1> HIDE DEF kept, e
<1> QED BY <1>1, <1>3, <1>4

\* So are all of them.
LEMMA RestoreFilesType ==
  ASSUME TypeOK, NEW m \in Nat, RestoreFiles(m)
  PROVE  disk' \in [File -> Text] /\ result' \in [message : Nat \cup {Nobody}, ok : BOOLEAN]
<1>1. disk \in [File -> Text]
  BY DEF TypeOK
<1>2. CASE FindLast(m) = 0
  <2>1. result' = [message |-> m, ok |-> FALSE] /\ disk' = disk
    BY <1>2, Zenon DEF RestoreFiles
  <2> QED BY <1>1, <2>1
<1>3. CASE FindLast(m) # 0
  <2>1. disk' = [f \in File |-> IF f \in tracked THEN Restored(f, FindLast(m)) ELSE disk[f]]
    BY <1>3 DEF RestoreFiles, ApplySnapshot
  <2> DEFINE r(f) == Restored(f, FindLast(m))
  <2>0. \A f \in File : r(f) \in Text
    BY RestoredType
  <2> HIDE DEF r
  <2>2. disk' \in [File -> Text]
    <3>1. disk' = [f \in File |-> IF f \in tracked THEN r(f) ELSE disk[f]]
      BY <2>1 DEF r
    <3> QED BY <1>1, <2>0, <3>1
  <2>3. result' = [message |-> m, ok |-> Applies(FindLast(m))]
    BY <1>3 DEF RestoreFiles
  <2>4. Applies(FindLast(m)) \in BOOLEAN
    BY DEF Applies
  <2> QED BY <2>2, <2>3, <2>4
<1> QED BY <1>2, <1>3

\* What a new message adds to has the type it had.
LEMMA AskType ==
  ASSUME RestOK, NEW missed \in SUBSET File, Ask(missed)
  PROVE  /\ messages' \in Nat /\ turn' \in Nat /\ talk' \in Seq(Nat)
         /\ was' \in Seq([files : [File -> Text], writes : Nat, missed : SUBSET File])
<1>1. messages + 1 \in Nat
  BY DEF RestOK
<1>2. [files |-> disk, writes |-> Len(writes), missed |-> missed]
        \in [files : [File -> Text], writes : Nat, missed : SUBSET File]
  BY LenProperties DEF RestOK
<1>3. talk' \in Seq(Nat)
  BY <1>1, AppendProperties DEF RestOK, Ask
<1>4. was' \in Seq([files : [File -> Text], writes : Nat, missed : SUBSET File])
  BY <1>2, AppendProperties DEF RestOK, Ask
<1> QED BY <1>1, <1>3, <1>4 DEF Ask

\* The counter of events stays a number.
LEMMA EventType ==
  ASSUME events \in Nat
  PROVE  /\ Event => events' \in Nat
         /\ \A fs : Failing(fs) => events' \in Nat
BY DEF Event, Failing

\* What is left of a conversation is one.
LEMMA BeforeType ==
  ASSUME talk \in Seq(Nat), NEW k \in 1..Len(talk)
  PROVE  Before(k) \in Seq(Nat) /\ talk[k] \in Nat
<1>1. Len(talk) \in Nat
  BY LenProperties
<1>2. \A i \in 1..(k - 1) : talk[i] \in Nat
  BY <1>1, ElementOfSeq
<1>3. 1 \in Int /\ k - 1 \in Int
  BY <1>1
<1>4. SubSeq(talk, 1, k - 1) \in Seq(Nat)
  BY <1>2, <1>3, SubSeqProperties
<1> QED BY <1>4, ElementOfSeq DEF Before

-----------------------------------------------------------------------------
(* Every step.                                                             *)

\* Nothing is a result.
LEMMA NoResultType == NoResult \in [message : Nat \cup {Nobody}, ok : BOOLEAN]
BY DEF NoResult

\* The lists at the start.
LEMMA InitInv == Init => FileInv
<1> SUFFICES ASSUME Init PROVE FileInv
  OBVIOUS
<1> DEFINE s == <<Blank>>
<1>1. DOMAIN Empty = {} /\ Empty \in [{} -> Entry]
  BY DEF Empty
<1>2. Blank \in Snapshot
  <2>1. Empty \in UNION {[fs -> Entry] : fs \in SUBSET File}
    BY <1>1
  <2> QED BY <2>1 DEF Blank, Snapshot
<1>3. s \in Seq(Snapshot) /\ Len(s) = 1 /\ s[1].entries = Empty
  BY <1>2 DEF Blank
<1>4. \A i \in 1..Len(s) : DOMAIN s[i].entries = {}
  BY <1>1, <1>3
<1>5. /\ Grows(s) /\ \A b, a, t : Truth(s, b, a) /\ Within(s, t)
  BY <1>4 DEF Grows, Truth, Within
<1>6. /\ snapshots = s /\ tracked = {} /\ backup = Empty /\ adrift = {}
      /\ stored = [snapshots |-> s, tracked |-> {}, talk |-> <<>>]
  BY DEF Init
<1> HIDE DEF s
<1>7. <<>> \in Seq(Nat)
  OBVIOUS
<1>8. DOMAIN backup = {} /\ backup \in [DOMAIN backup -> Text]
  BY <1>1, <1>6
<1>9. Linked
  BY <1>4, <1>6 DEF Linked
<1>10. ListsOK
  BY <1>3, <1>5, <1>6, <1>7, <1>8, <1>9 DEF ListsOK
<1>11. RestOK
  <2>1. disk \in [File -> Text]
    BY DEF Init, Text
  <2>2. <<>> \in Seq(Write)
        /\ <<>> \in Seq([files : [File -> Text], writes : Nat, missed : SUBSET File])
    OBVIOUS
  <2> QED BY <1>7, <2>1, <2>2, NoResultType DEF Init, RestOK
<1> QED BY <1>10, <1>11, TwoParts

\* No step breaks the lists.
LEMMA StepInv == FileInv /\ [Next]_vars => FileInv'
<1> SUFFICES ASSUME FileInv, [Next]_vars PROVE FileInv'
  OBVIOUS
<1> USE NoResultType
<1>1. ListsOK /\ RestOK /\ TypeOK /\ Unreadable \subseteq File /\ File \subseteq File
  BY TwoParts, FileHistoryAssumption DEF FileInv
<1> SUFFICES ListsOK' /\ RestOK'
  BY PTL, TwoParts
<1>2. CASE Query
  <2>1. PICK failed \in SUBSET Unreadable :
          /\ Ask(failed) /\ Failing(failed) /\ StartTurns(messages + 1, failed) /\ UNCHANGED late
    BY <1>2 DEF Query
  <2>2. messages + 1 \in Nat /\ failed \in SUBSET File
    BY <1>1 DEF RestOK
  <2>3. /\ messages' \in Nat /\ turn' \in Nat /\ talk' \in Seq(Nat)
        /\ was' \in Seq([files : [File -> Text], writes : Nat, missed : SUBSET File])
    BY <1>1, <2>1, <2>2, AskType
  <2>4. ListsOK'
    BY <2>1, <2>2, <2>3, StartTurnsKeeps
  <2>5. events' \in Nat
    BY <1>1, <2>1, EventType DEF RestOK
  <2> QED BY <1>1, <2>1, <2>3, <2>4, <2>5 DEF RestOK, StartTurns
<1>3. CASE RunSkill
  <2>1. /\ Ask({}) /\ phase' = "skill" /\ result' = NoResult /\ events' \in Nat
        /\ UNCHANGED <<disk, backup, tracker, editing, stored, writes, late, adrift>>
    BY <1>1, <1>3, EventType DEF RestOK, RunSkill
  <2>2. /\ messages' \in Nat /\ turn' \in Nat /\ talk' \in Seq(Nat)
        /\ was' \in Seq([files : [File -> Text], writes : Nat, missed : SUBSET File])
    BY <1>1, <2>1, AskType
  <2>3. ListsOK'
    BY <1>1, <2>1 DEF ListsOK, tracker, Linked
  <2> QED BY <1>1, <2>1, <2>2, <2>3 DEF RestOK
<1>4. CASE SkillDone
  <2>1. PICK failed \in SUBSET Unreadable :
          /\ phase = "skill" /\ editing = {} /\ Failing(failed)
          /\ UNCHANGED <<talk, turn, messages, was>>
          /\ StartTurns(turn, failed) /\ late' = late \cup {turn}
    BY <1>4 DEF SkillDone
  <2>2. turn \in Nat \cup {Nobody} /\ talk' \in Seq(Nat) /\ events' \in Nat
    BY <1>1, <2>1, EventType DEF RestOK
  <2>3. ListsOK'
    BY <2>1, <2>2, StartTurnsKeeps
  <2> QED BY <1>1, <2>1, <2>2, <2>3 DEF RestOK, StartTurns
<1>5. CASE ProcessAttachments
  <2>1. PICK failed \in SUBSET Unreadable :
          /\ phase = "idle" /\ Event
          /\ UNCHANGED <<talk, turn, messages, was>>
          /\ StartTurns(turn, failed) /\ late' = late \cup ({turn} \ {Nobody})
    BY <1>5 DEF ProcessAttachments
  <2>2. turn \in Nat \cup {Nobody} /\ talk' \in Seq(Nat) /\ events' \in Nat
    BY <1>1, <2>1, EventType DEF RestOK
  <2>3. ListsOK'
    BY <2>1, <2>2, StartTurnsKeeps
  <2> QED BY <1>1, <2>1, <2>2, <2>3 DEF RestOK, StartTurns
<1>6. CASE EndQuery
  <2>1. ListsOK'
    BY <1>1, <1>6 DEF ListsOK, EndQuery, tracker, Linked
  <2> QED BY <1>1, <1>6, <2>1 DEF RestOK, EndQuery, ghosts, counts
<1>7. ASSUME NEW f \in File, TrackEdit(f) PROVE ListsOK' /\ RestOK'
  <2>1. ListsOK'
    BY <1>7, TrackEditKeeps
  <2>2. events' \in Nat
    BY <1>1, <1>7, EventType DEF TrackEdit, RestOK
  <2> QED BY <1>1, <1>7, <2>1, <2>2 DEF RestOK, TrackEdit, ghosts
<1>8. ASSUME NEW f \in File, WriteFile(f) PROVE ListsOK' /\ RestOK'
  <2>1. [file |-> f, agent |-> TRUE] \in Write
    BY DEF Write
  <2>2. writes' \in Seq(Write) /\ Len(writes') \in Nat
    BY <1>1, <1>8, <2>1, AppendProperties, LenProperties DEF RestOK, WriteFile
  <2>3. disk' \in [File -> Text]
    BY <1>1, <1>8, <2>2 DEF RestOK, WriteFile, Text
  <2>4. adrift' \subseteq File /\ adrift \subseteq adrift'
    BY <1>1, <1>8, <2>2, UnbackedType DEF ListsOK, WriteFile
  <2>5. UNCHANGED <<backup, snapshots, tracked, stored, talk, turn, phase, messages, events, was, late>>
    BY <1>8 DEF WriteFile, tracker, counts
  <2>6. ListsOK'
    BY <1>1, <2>4, <2>5, SameBackups DEF ListsOK
  <2> QED BY <1>1, <1>8, <2>2, <2>3, <2>5, <2>6 DEF RestOK, WriteFile
<1>9. ASSUME NEW f \in File, ByHand(f) PROVE ListsOK' /\ RestOK'
  <2>1. [file |-> f, agent |-> FALSE] \in Write
    BY DEF Write
  <2>2. writes' \in Seq(Write) /\ Len(writes') \in Nat /\ events' \in Nat
    BY <1>1, <1>9, <2>1, AppendProperties, LenProperties, EventType DEF RestOK, ByHand
  <2>3. PICK text \in {Len(writes'), Gone} : disk' = [disk EXCEPT ![f] = text]
    BY <1>9 DEF ByHand
  <2>4. disk' \in [File -> Text]
    BY <1>1, <2>2, <2>3 DEF RestOK, Text
  <2>5. UNCHANGED <<backup, snapshots, tracked, stored, adrift, talk, turn, phase, editing, messages,
                    was, late>>
    BY <1>9 DEF ByHand, tracker, chat
  <2>6. ListsOK'
    BY <1>1, <2>5 DEF ListsOK, Linked
  <2> QED BY <1>1, <1>9, <2>2, <2>4, <2>5, <2>6 DEF RestOK, ByHand
<1>10. ASSUME NEW k \in 1..Len(talk), RewindAll(k) \/ RewindFilesOnly(k)
       PROVE  ListsOK' /\ RestOK'
  <2>1. Before(k) \in Seq(Nat) /\ talk[k] \in Nat
    BY <1>1, BeforeType DEF RestOK
  <2>2. /\ RestoreFiles(talk[k]) /\ Event /\ talk' \in {talk, Before(k)}
        /\ UNCHANGED <<backup, snapshots, tracked, stored, adrift, turn, phase, editing, writes, was,
                       late, messages>>
    BY <1>10 DEF RewindAll, RewindFilesOnly, tracker, chat, ghosts
  <2>3. disk' \in [File -> Text] /\ result' \in [message : Nat \cup {Nobody}, ok : BOOLEAN]
    BY <1>1, <2>1, <2>2, RestoreFilesType
  <2>4. events' \in Nat /\ talk' \in Seq(Nat)
    BY <1>1, <2>1, <2>2, EventType DEF RestOK
  <2>5. ListsOK'
    BY <1>1, <2>2 DEF ListsOK, Linked
  <2> QED BY <1>1, <2>2, <2>3, <2>4, <2>5 DEF RestOK
<1>11. ASSUME NEW k \in 1..Len(talk), RewindMessagesOnly(k) PROVE ListsOK' /\ RestOK'
  <2>1. Before(k) \in Seq(Nat) /\ events' \in Nat
    BY <1>1, <1>11, BeforeType, EventType DEF RestOK, RewindMessagesOnly
  <2>2. /\ TruncateSnapshotsFrom(talk[k]) /\ talk' = Before(k) /\ result' = NoResult
        /\ adrift' = adrift \cup Unbacked(snapshots', tracked, writes)
        /\ UNCHANGED <<disk, backup, tracked, turn, phase, editing, stored, writes, was, late, messages>>
    BY <1>11 DEF RewindMessagesOnly, ghosts
  <2>3. PICK n \in 0..Len(snapshots) : snapshots' = SubSeq(snapshots, 1, n)
    BY <2>2 DEF TruncateSnapshotsFrom
  <2>4. /\ snapshots' \in Seq(Snapshot) /\ Grows(snapshots') /\ Within(snapshots', tracked)
        /\ Truth(snapshots', backup, adrift)
    <3>1. /\ snapshots \in Seq(Snapshot) /\ Grows(snapshots) /\ Within(snapshots, tracked)
          /\ Truth(snapshots, backup, adrift) /\ 1 \in Nat \ {0}
      BY <1>1 DEF ListsOK
    <3> QED BY <2>3, <3>1, SubSeqKeeps
  <2>5. /\ adrift' \subseteq File /\ adrift \subseteq adrift'
        /\ tracked \ DOMAIN Latest(snapshots') \subseteq adrift'
    BY <1>1, <2>2, UnbackedType DEF ListsOK, RestOK
  <2>6. ListsOK'
    BY <1>1, <2>2, <2>4, <2>5, SameBackups DEF ListsOK
  <2> QED BY <1>1, <2>1, <2>2, <2>6 DEF RestOK
<1>12. CASE CleanupOldBackups
  <2>1. /\ backup' = Empty /\ result' = NoResult /\ events' \in Nat
        /\ UNCHANGED <<disk, snapshots, tracked, talk, turn, phase, editing, stored, writes, was, late,
                       messages, adrift>>
    BY <1>1, <1>12, EventType DEF CleanupOldBackups, RestOK, tracker, chat, ghosts
  <2>2. DOMAIN backup' = {} /\ backup' \in [DOMAIN backup' -> Text]
    BY <2>1 DEF Empty
  <2>3. \A s, a : Truth(s, backup', a)
    BY <2>2 DEF Truth
  <2>4. ListsOK'
    BY <1>1, <2>1, <2>2, <2>3 DEF ListsOK, Linked
  <2> QED BY <1>1, <2>1, <2>4 DEF RestOK
<1>13. CASE Restart
  <2>1. /\ snapshots' = stored.snapshots /\ tracked' = stored.tracked /\ talk' = stored.talk
        /\ turn' = Nobody /\ phase' = "idle" /\ editing' = {} /\ result' = NoResult
        /\ adrift' = adrift \cup Unbacked(snapshots', tracked \cup tracked', writes)
        /\ UNCHANGED <<disk, backup, stored, writes, was, late, messages>> /\ events' \in Nat
    BY <1>1, <1>13, EventType DEF Restart, RestOK, ghosts
  <2>2. /\ stored.snapshots \in Seq(Snapshot) /\ stored.tracked \in SUBSET File
        /\ stored.talk \in Seq(Nat) /\ tracked \cup stored.tracked \in SUBSET File
    BY <1>1 DEF ListsOK
  <2>3. /\ adrift' \subseteq File /\ adrift \subseteq adrift'
        /\ (tracked \cup tracked') \ DOMAIN Latest(snapshots') \subseteq adrift'
    BY <1>1, <2>1, <2>2, UnbackedType DEF ListsOK, RestOK
  <2>4. ListsOK'
    BY <1>1, <2>1, <2>2, <2>3, SameBackups DEF ListsOK
  <2> QED BY <1>1, <2>1, <2>2, <2>4 DEF RestOK
<1>14. CASE UNCHANGED vars
  BY <1>1, <1>14 DEF vars, tracker, chat, ghosts, counts, ListsOK, RestOK, Linked
<1> QED
  BY <1>2, <1>3, <1>4, <1>5, <1>6, <1>7, <1>8, <1>9, <1>10, <1>11, <1>12, <1>13, <1>14 DEF Next

-----------------------------------------------------------------------------
(* The theorems.                                                           *)

\* FileInv holds in every execution: versions never fall along a list, entries are true to their
\* backups, and what is stored is still backed up in memory (state.Snapshots, tracker.go).
THEOREM FileInvariant == Spec => []FileInv
BY InitInv, StepInv, PTL DEF Spec

\* Every variable of the file history keeps its type, in every execution, for any files, bounds
\* and copies that fail (tracker.go: State, Snapshot, Backup).
THEOREM TypeCorrect == Spec => []TypeOK
<1>1. FileInv => TypeOK
  BY DEF FileInv
<1> QED BY <1>1, FileInvariant, PTL

\* The backup an entry names holds the text the file had when the entry was made, in memory and
\* after any restart: the version of a new backup is above those of every retained snapshot, so
\* that no name still in use is written again (MakeSnapshot and TrackEdit, tracker.go).
THEOREM BackupsAreTrue == Spec => []BackupsHold
<1>1. FileInv => BackupsHold
  <2> SUFFICES ASSUME FileInv, NEW s \in {snapshots, stored.snapshots}, NEW i \in 1..Len(s),
                      NEW f \in DOMAIN s[i].entries \ adrift, Kept(f, s[i].entries[f])
               PROVE  backup[<<f, s[i].entries[f].version>>] = s[i].entries[f].text
    BY DEF BackupsHold
  <2>1. Truth(s, backup, adrift)
    BY DEF FileInv
  <2> QED BY <2>1 DEF Truth, Kept
<1> QED BY <1>1, FileInvariant, PTL

-----------------------------------------------------------------------------
(* What a rewind restores.                                                 *)

\* A message asked: the files and writes of then, and what its snapshot missed.
Asked == [files : [File -> Text], writes : Nat, missed : SUBSET File]

\* The texts that the writes w, and what was there before them, can have left.
Texts(w) == 0..Len(w) \cup {Gone}

\* The writes to f since message m of history h.
Since(h, w, m, f) == {n \in (h[m].writes + 1)..Len(w) : w[n].file = f}

\* Text t of f is what a rewind to m owes the user: what the file was then, or, where others
\* have written to it since, at least no text of the agent's.
Fit(h, w, m, f, t) ==
  /\ \A n \in Since(h, w, m, f) : t = n => ~w[n].agent
  /\ (\A n \in Since(h, w, m, f) : w[n].agent) => t = h[m].files[f]

\* Snapshots are made under messages that were asked.
Titled(s, h) == \A i \in 1..Len(s) : s[i].message \in 1..Len(h) \cup {Nobody}

\* Versions start at one, a text is one that was written, no file is what has no name.
Plain(s, w) ==
  \A i \in 1..Len(s) : \A f \in DOMAIN s[i].entries :
    /\ s[i].entries[f].version >= 1
    /\ s[i].entries[f].text \in Texts(w)
    /\ s[i].entries[f].named <=> s[i].entries[f].text # Gone

\* The entries of a message's own snapshot undo what came after it.
Own(s, h, w, a, l) ==
  \A i \in 1..Len(s) : s[i].message \notin l \cup {Nobody} =>
    \A f \in DOMAIN s[i].entries \ (a \cup h[s[i].message].missed) :
      Fit(h, w, s[i].message, f, s[i].entries[f].text)

\* So do the first backups of the files that a snapshot does not have ...
First(s, h, w, a) ==
  \A i, j \in 1..Len(s) : s[i].message # Nobody =>
    \A f \in DOMAIN s[j].entries \ (a \cup DOMAIN s[i].entries) :
      s[j].entries[f].version = 1 => Fit(h, w, s[i].message, f, s[j].entries[f].text)

\* ... and those are there, after it, if a later snapshot has the file.
Begins(s, a) ==
  \A i, j \in 1..Len(s) : i < j =>
    \A f \in DOMAIN s[j].entries \ (a \cup DOMAIN s[i].entries) :
      \E k \in (i + 1)..j : f \in DOMAIN s[k].entries /\ s[k].entries[f].version = 1

Faithful(s, h, w, a, l) ==
  Titled(s, h) /\ Plain(s, w) /\ Own(s, h, w, a, l) /\ First(s, h, w, a) /\ Begins(s, a)

\* An earlier message is not concerned by another one.
LEMMA FitAsk ==
  ASSUME NEW h \in Seq(Asked), NEW x \in Asked, NEW w, NEW m \in 1..Len(h), NEW f, NEW t,
         Fit(h, w, m, f, t)
  PROVE  Fit(Append(h, x), w, m, f, t)
<1>1. Append(h, x)[m] = h[m]
  BY AppendProperties
<1> QED BY <1>1 DEF Fit, Since

\* A text written before is not the text of the next write, to f or to another file.
LEMMA FitWrite ==
  ASSUME NEW h \in Seq(Asked), NEW w \in Seq(Write), NEW x \in Write, NEW m \in 1..Len(h), NEW f,
         NEW t, Fit(h, w, m, f, t), x.file = f => t \in Texts(w)
  PROVE  Fit(h, Append(w, x), m, f, t)
<1> DEFINE v == Append(w, x)
<1>1. /\ Len(w) \in Nat /\ Len(v) = Len(w) + 1 /\ v[Len(w) + 1] = x
      /\ \A n \in 1..Len(w) : v[n] = w[n]
  BY LenProperties, AppendProperties
<1>2. h[m] \in Asked
  BY ElementOfSeq
<1>3. h[m].writes \in Nat
  BY <1>2 DEF Asked
<1> HIDE DEF v
<1>4. \A n \in Since(h, v, m, f) : n \in Since(h, w, m, f) \/ (n = Len(w) + 1 /\ x.file = f)
  BY <1>1, <1>3 DEF Since
<1>5. \A n \in Since(h, w, m, f) : n \in Since(h, v, m, f) /\ v[n] = w[n]
  BY <1>1, <1>3 DEF Since
<1>6. x.file = f => t # Len(w) + 1
  BY <1>1, FileHistoryAssumption DEF Texts
<1> QED BY <1>4, <1>5, <1>6 DEF Fit, v

\* A list stays faithful while files are set adrift and messages get late ...
LEMMA FaithfulLess ==
  ASSUME NEW s, NEW h, NEW w, NEW a, NEW l, NEW a2, NEW l2, a \subseteq a2, l \subseteq l2,
         Faithful(s, h, w, a, l)
  PROVE  Faithful(s, h, w, a2, l2)
<1>1. Own(s, h, w, a2, l2)
  BY DEF Faithful, Own
<1>2. First(s, h, w, a2)
  BY DEF Faithful, First
<1>3. Begins(s, a2)
  BY DEF Faithful, Begins
<1> QED BY <1>1, <1>2, <1>3 DEF Faithful

\* ... messages are asked ...
LEMMA FaithfulAsk ==
  ASSUME NEW s, NEW h \in Seq(Asked), NEW x \in Asked, NEW w, NEW a, NEW l,
         Faithful(s, h, w, a, l)
  PROVE  Faithful(s, Append(h, x), w, a, l)
<1> DEFINE g == Append(h, x)
<1>1. Len(h) \in Nat /\ Len(g) = Len(h) + 1 /\ \A m \in 1..Len(h) : g[m] = h[m]
  BY LenProperties, AppendProperties
<1>2. \A m \in 1..Len(h) : \A f, t : Fit(h, w, m, f, t) => Fit(g, w, m, f, t)
  BY FitAsk
<1> HIDE DEF g
<1>3. Titled(s, g)
  <2>1. \A m \in 1..Len(h) \cup {Nobody} : m \in 1..Len(g) \cup {Nobody}
    BY <1>1
  <2> QED BY <2>1 DEF Faithful, Titled
<1>4. Own(s, g, w, a, l)
  <2> SUFFICES ASSUME NEW i \in 1..Len(s), s[i].message \notin l \cup {Nobody},
                      NEW f \in DOMAIN s[i].entries \ (a \cup g[s[i].message].missed)
               PROVE  Fit(g, w, s[i].message, f, s[i].entries[f].text)
    BY DEF Own
  <2>1. s[i].message \in 1..Len(h)
    BY DEF Faithful, Titled
  <2>2. g[s[i].message] = h[s[i].message]
    BY <1>1, <2>1
  <2>3. Fit(h, w, s[i].message, f, s[i].entries[f].text)
    BY <2>2 DEF Faithful, Own
  <2> QED BY <1>2, <2>1, <2>3
<1>5. First(s, g, w, a)
  <2> SUFFICES ASSUME NEW i \in 1..Len(s), NEW j \in 1..Len(s), s[i].message # Nobody,
                      NEW f \in DOMAIN s[j].entries \ (a \cup DOMAIN s[i].entries),
                      s[j].entries[f].version = 1
               PROVE  Fit(g, w, s[i].message, f, s[j].entries[f].text)
    BY DEF First
  <2>1. s[i].message \in 1..Len(h)
    BY DEF Faithful, Titled
  <2>2. Fit(h, w, s[i].message, f, s[j].entries[f].text)
    BY DEF Faithful, First
  <2> QED BY <1>2, <2>1, <2>2
<1> QED BY <1>3, <1>4, <1>5 DEF Faithful, g

\* ... and files are written.
LEMMA FaithfulWrite ==
  ASSUME NEW s, NEW h \in Seq(Asked), NEW w \in Seq(Write), NEW x \in Write, NEW a, NEW l,
         Faithful(s, h, w, a, l)
  PROVE  Faithful(s, h, Append(w, x), a, l)
<1> DEFINE v == Append(w, x)
<1>1. Len(w) \in Nat /\ Len(v) = Len(w) + 1
  BY LenProperties, AppendProperties
<1>2. \A m \in 1..Len(h) : \A f : \A t \in Texts(w) : Fit(h, w, m, f, t) => Fit(h, v, m, f, t)
  BY FitWrite
<1> HIDE DEF v
<1>3. \A t \in Texts(w) : t \in Texts(v)
  BY <1>1 DEF Texts
<1>4. Plain(s, v)
  BY <1>3 DEF Faithful, Plain
<1>5. \A i \in 1..Len(s) : \A f \in DOMAIN s[i].entries : s[i].entries[f].text \in Texts(w)
  BY DEF Faithful, Plain
<1>6. \A i \in 1..Len(s) : s[i].message # Nobody => s[i].message \in 1..Len(h)
  BY DEF Faithful, Titled
<1>7. Own(s, h, v, a, l)
  BY <1>2, <1>5, <1>6 DEF Faithful, Own
<1>8. First(s, h, v, a)
  BY <1>2, <1>5, <1>6 DEF Faithful, First
<1> QED BY <1>4, <1>7, <1>8 DEF Faithful, v

\* A part of a faithful list is faithful.
LEMMA FaithfulPart ==
  ASSUME NEW s \in Seq(Snapshot), NEW m \in Nat \ {0}, NEW n \in 0..Len(s),
         NEW h, NEW w, NEW a, NEW l, Faithful(s, h, w, a, l)
  PROVE  Faithful(SubSeq(s, m, n), h, w, a, l)
<1> DEFINE u == SubSeq(s, m, n)
<1>1. Len(s) \in Nat /\ \A i \in m..n : i \in 1..Len(s) /\ s[i] \in Snapshot
  BY LenProperties, ElementOfSeq
<1>2. /\ Len(u) = IF m <= n THEN n - m + 1 ELSE 0
      /\ \A i \in 1..(n - m + 1) : u[i] = s[m + i - 1]
  BY <1>1, SubSeqProperties
<1> HIDE DEF u
<1>3. \A i \in 1..Len(u) : m + i - 1 \in 1..Len(s) /\ u[i] = s[m + i - 1]
  BY <1>1, <1>2
<1>4. Titled(u, h)
  BY <1>3 DEF Faithful, Titled
<1>5. Plain(u, w)
  <2> SUFFICES ASSUME NEW i \in 1..Len(u), NEW f \in DOMAIN u[i].entries
               PROVE  /\ u[i].entries[f].version >= 1
                      /\ u[i].entries[f].text \in Texts(w)
                      /\ u[i].entries[f].named <=> u[i].entries[f].text # Gone
    BY DEF Plain
  <2>1. PICK k \in 1..Len(s) : u[i] = s[k]
    BY <1>3
  <2> QED BY <2>1 DEF Faithful, Plain
<1>6. Own(u, h, w, a, l)
  <2> SUFFICES ASSUME NEW i \in 1..Len(u), u[i].message \notin l \cup {Nobody},
                      NEW f \in DOMAIN u[i].entries \ (a \cup h[u[i].message].missed)
               PROVE  Fit(h, w, u[i].message, f, u[i].entries[f].text)
    BY DEF Own
  <2>1. PICK k \in 1..Len(s) : u[i] = s[k]
    BY <1>3
  <2> QED BY <2>1 DEF Faithful, Own
<1>7. First(u, h, w, a)
  <2> SUFFICES ASSUME NEW i \in 1..Len(u), NEW j \in 1..Len(u), u[i].message # Nobody,
                      NEW f \in DOMAIN u[j].entries \ (a \cup DOMAIN u[i].entries),
                      u[j].entries[f].version = 1
               PROVE  Fit(h, w, u[i].message, f, u[j].entries[f].text)
    BY DEF First
  <2>1. PICK k \in 1..Len(s) : u[i] = s[k]
    BY <1>3
  <2>2. PICK p \in 1..Len(s) : u[j] = s[p]
    BY <1>3
  <2> QED BY <2>1, <2>2 DEF Faithful, First
<1>8. Begins(u, a)
  <2> SUFFICES ASSUME NEW i \in 1..Len(u), NEW j \in 1..Len(u), i < j,
                      NEW f \in DOMAIN u[j].entries \ (a \cup DOMAIN u[i].entries)
               PROVE  \E k \in (i + 1)..j :
                        f \in DOMAIN u[k].entries /\ u[k].entries[f].version = 1
    BY DEF Begins
  <2> DEFINE p == m + i - 1
             q == m + j - 1
  <2>1. p \in 1..Len(s) /\ q \in 1..Len(s) /\ u[i] = s[p] /\ u[j] = s[q]
    BY <1>3
  <2>2. p < q
    BY <1>1, <1>2
  <2>3. PICK k \in (p + 1)..q : f \in DOMAIN s[k].entries /\ s[k].entries[f].version = 1
    <3> HIDE DEF p, q
    <3> QED BY <2>1, <2>2 DEF Faithful, Begins
  <2>4. /\ m \in Int /\ i \in Int /\ j \in Int /\ k \in Int /\ Len(u) \in Int
        /\ 1 <= i /\ j <= Len(u) /\ m + i - 1 + 1 <= k /\ k <= m + j - 1
    BY <1>1, <1>2, <2>3
  <2>5. /\ k - m + 1 \in Int /\ i + 1 <= k - m + 1 /\ k - m + 1 <= j
        /\ 1 <= k - m + 1 /\ k - m + 1 <= Len(u) /\ m + (k - m + 1) - 1 = k
    BY <2>4
  <2>6. k - m + 1 \in (i + 1)..j /\ k - m + 1 \in 1..Len(u)
    BY <2>4, <2>5
  <2>7. u[k - m + 1] = s[k]
    BY <1>3, <2>5, <2>6
  <2> QED BY <2>3, <2>6, <2>7
<1> QED BY <1>4, <1>5, <1>6, <1>7, <1>8 DEF Faithful, u

\* A new snapshot keeps a list faithful, if it undoes what comes after its message and has, of the
\* files not adrift, no other first backups than the latest snapshot has.
LEMMA FaithfulAppend ==
  ASSUME NEW s \in Seq(Snapshot), s # <<>>, Grows(s), NEW h, NEW w, NEW a, NEW l,
         Faithful(s, h, w, a, l), NEW x \in Snapshot,
         x.message \in 1..Len(h) \cup {Nobody},
         \A f \in DOMAIN x.entries :
           /\ x.entries[f].version >= 1
           /\ x.entries[f].text \in Texts(w)
           /\ x.entries[f].named <=> x.entries[f].text # Gone,
         x.message \notin l \cup {Nobody} =>
           \A f \in DOMAIN x.entries \ (a \cup h[x.message].missed) :
             Fit(h, w, x.message, f, x.entries[f].text),
         DOMAIN Latest(s) \subseteq DOMAIN x.entries,
         \A f \in DOMAIN x.entries \ a :
           /\ f \in DOMAIN Latest(s)
           /\ x.entries[f] = Latest(s)[f] \/ x.entries[f].version # 1
  PROVE  Faithful(Append(s, x), h, w, a, l)
<1> DEFINE u == Append(s, x)
           n == Len(s)
<1>1. /\ n \in Nat /\ Len(u) = n + 1 /\ u[n + 1] = x /\ \A i \in 1..n : u[i] = s[i]
  BY LenProperties, AppendProperties
<1>2. n \in 1..n /\ Latest(s) = s[n].entries
  BY LatestType
<1>3. \A i \in 1..n : DOMAIN s[i].entries \subseteq DOMAIN x.entries
  BY GrowsToLatest
<1> HIDE DEF u, n
<1>4. \A i \in 1..(n + 1) : i \in 1..n \/ i = n + 1
  BY <1>1
<1>5. Titled(u, h)
  BY <1>1, <1>4 DEF Faithful, Titled, n
<1>6. Plain(u, w)
  <2> SUFFICES ASSUME NEW i \in 1..Len(u), NEW f \in DOMAIN u[i].entries
               PROVE  /\ u[i].entries[f].version >= 1
                      /\ u[i].entries[f].text \in Texts(w)
                      /\ u[i].entries[f].named <=> u[i].entries[f].text # Gone
    BY DEF Plain
  <2>1. CASE i \in 1..n
    BY <1>1, <2>1 DEF Faithful, Plain, n
  <2>2. CASE i = n + 1
    BY <1>1, <2>2
  <2> QED BY <1>1, <1>4, <2>1, <2>2
<1>7. Own(u, h, w, a, l)
  <2> SUFFICES ASSUME NEW i \in 1..Len(u), u[i].message \notin l \cup {Nobody},
                      NEW f \in DOMAIN u[i].entries \ (a \cup h[u[i].message].missed)
               PROVE  Fit(h, w, u[i].message, f, u[i].entries[f].text)
    BY DEF Own
  <2>1. CASE i \in 1..n
    BY <1>1, <2>1 DEF Faithful, Own, n
  <2>2. CASE i = n + 1
    BY <1>1, <2>2
  <2> QED BY <1>1, <1>4, <2>1, <2>2
<1>8. First(u, h, w, a)
  <2> SUFFICES ASSUME NEW i \in 1..Len(u), NEW j \in 1..Len(u), u[i].message # Nobody,
                      NEW f \in DOMAIN u[j].entries \ (a \cup DOMAIN u[i].entries),
                      u[j].entries[f].version = 1
               PROVE  Fit(h, w, u[i].message, f, u[j].entries[f].text)
    BY DEF First
  <2>1. i \in 1..n /\ u[i] = s[i]
    <3>1. i # n + 1
      BY <1>1, <1>3, <1>4
    <3> QED BY <1>1, <1>4, <3>1
  <2>2. CASE j \in 1..n
    BY <1>1, <2>1, <2>2 DEF Faithful, First, n
  <2>3. CASE j = n + 1
    <3>1. u[j] = x /\ f \in DOMAIN x.entries \ a /\ f \notin DOMAIN s[i].entries
      BY <1>1, <2>1, <2>3
    <3>2. f \in DOMAIN s[n].entries /\ s[n].entries[f] = x.entries[f]
      BY <1>2, <3>1
    <3> QED BY <1>2, <2>1, <3>1, <3>2 DEF Faithful, First, n
  <2> QED BY <1>1, <1>4, <2>2, <2>3
<1>9. Begins(u, a)
  <2> SUFFICES ASSUME NEW i \in 1..Len(u), NEW j \in 1..Len(u), i < j,
                      NEW f \in DOMAIN u[j].entries \ (a \cup DOMAIN u[i].entries)
               PROVE  \E k \in (i + 1)..j :
                        f \in DOMAIN u[k].entries /\ u[k].entries[f].version = 1
    BY DEF Begins
  <2>1. i \in 1..n /\ u[i] = s[i]
    BY <1>1, <1>4
  <2>2. CASE j \in 1..n
    <3>1. PICK k \in (i + 1)..j : f \in DOMAIN s[k].entries /\ s[k].entries[f].version = 1
      BY <1>1, <2>1, <2>2 DEF Faithful, Begins, n
    <3>2. k \in 1..n
      BY <1>1, <2>2
    <3> QED BY <1>1, <3>1, <3>2
  <2>3. CASE j = n + 1
    <3>1. f \in DOMAIN s[n].entries /\ f \notin DOMAIN s[i].entries /\ f \notin a
      BY <1>1, <1>2, <2>1, <2>3
    <3>2. i < n
      BY <1>2, <2>1, <3>1
    <3>3. PICK k \in (i + 1)..n : f \in DOMAIN s[k].entries /\ s[k].entries[f].version = 1
      BY <1>2, <2>1, <3>1, <3>2 DEF Faithful, Begins, n
    <3>4. k \in 1..n /\ k \in (i + 1)..j
      BY <1>1, <2>3
    <3> QED BY <1>1, <3>3, <3>4
  <2> QED BY <1>1, <1>4, <2>2, <2>3
<1> QED BY <1>5, <1>6, <1>7, <1>8, <1>9 DEF Faithful, u

\* So does the first backup of a file in the latest snapshot, if the file is fit to be restored
\* for every message.
LEMMA FaithfulEdit ==
  ASSUME NEW s \in Seq(Snapshot), s # <<>>, Grows(s), NEW h, NEW w, NEW a, NEW l,
         Faithful(s, h, w, a, l),
         NEW f, f \notin DOMAIN Latest(s), NEW e, e.version = 1, e.text \in Texts(w),
         e.named <=> e.text # Gone,
         f \notin a => \A m \in 1..Len(h) : Fit(h, w, m, f, e.text),
         NEW u, Len(u) = Len(s), \A i \in 1..Len(s) : i # Len(s) => u[i] = s[i],
         u[Len(s)].message = s[Len(s)].message,
         DOMAIN u[Len(s)].entries = DOMAIN Latest(s) \cup {f},
         u[Len(s)].entries[f] = e,
         \A g \in DOMAIN Latest(s) : u[Len(s)].entries[g] = Latest(s)[g]
  PROVE  Faithful(u, h, w, a, l)
<1> DEFINE n == Len(s)
<1>1. n \in Nat /\ n \in 1..n /\ Latest(s) = s[n].entries
  BY LatestType, LenProperties
<1>2. \A i \in 1..n : f \notin DOMAIN s[i].entries
  BY GrowsToLatest
<1> HIDE DEF n
<1>3. ASSUME NEW i \in 1..n
      PROVE  /\ u[i].message = s[i].message
             /\ DOMAIN s[i].entries \subseteq DOMAIN u[i].entries
             /\ \A g \in DOMAIN u[i].entries :
                  \/ g \in DOMAIN s[i].entries /\ u[i].entries[g] = s[i].entries[g]
                  \/ i = n /\ g = f /\ u[i].entries[g] = e
  BY <1>1 DEF n
<1>4. Titled(u, h)
  BY <1>3 DEF Faithful, Titled, n
<1>5. Plain(u, w)
  <2> SUFFICES ASSUME NEW i \in 1..n, NEW g \in DOMAIN u[i].entries
               PROVE  /\ u[i].entries[g].version >= 1
                      /\ u[i].entries[g].text \in Texts(w)
                      /\ u[i].entries[g].named <=> u[i].entries[g].text # Gone
    BY DEF Plain, n
  <2>1. CASE g \in DOMAIN s[i].entries /\ u[i].entries[g] = s[i].entries[g]
    BY <2>1 DEF Faithful, Plain, n
  <2>2. CASE u[i].entries[g] = e
    BY <2>2
  <2> QED BY <1>3, <2>1, <2>2
<1>6. \A i \in 1..n : s[i].message # Nobody => s[i].message \in 1..Len(h)
  BY DEF Faithful, Titled, n
<1>7. Own(u, h, w, a, l)
  <2> SUFFICES ASSUME NEW i \in 1..n, u[i].message \notin l \cup {Nobody},
                      NEW g \in DOMAIN u[i].entries \ (a \cup h[u[i].message].missed)
               PROVE  Fit(h, w, u[i].message, g, u[i].entries[g].text)
    BY DEF Own, n
  <2>1. CASE g \in DOMAIN s[i].entries /\ u[i].entries[g] = s[i].entries[g]
    BY <1>3, <2>1 DEF Faithful, Own, n
  <2>2. CASE g = f /\ u[i].entries[g] = e
    BY <1>3, <1>6, <2>2
  <2> QED BY <1>3, <2>1, <2>2
<1>8. First(u, h, w, a)
  <2> SUFFICES ASSUME NEW i \in 1..n, NEW j \in 1..n, u[i].message # Nobody,
                      NEW g \in DOMAIN u[j].entries \ (a \cup DOMAIN u[i].entries),
                      u[j].entries[g].version = 1
               PROVE  Fit(h, w, u[i].message, g, u[j].entries[g].text)
    BY DEF First, n
  <2>1. u[i].message = s[i].message /\ g \notin DOMAIN s[i].entries
    BY <1>3
  <2>2. CASE g \in DOMAIN s[j].entries /\ u[j].entries[g] = s[j].entries[g]
    BY <2>1, <2>2 DEF Faithful, First, n
  <2>3. CASE g = f /\ u[j].entries[g] = e
    BY <1>6, <2>1, <2>3
  <2> QED BY <1>3, <2>2, <2>3
<1>9. Begins(u, a)
  <2> SUFFICES ASSUME NEW i \in 1..n, NEW j \in 1..n, i < j,
                      NEW g \in DOMAIN u[j].entries \ (a \cup DOMAIN u[i].entries)
               PROVE  \E k \in (i + 1)..j :
                        g \in DOMAIN u[k].entries /\ u[k].entries[g].version = 1
    BY DEF Begins, n
  <2>1. CASE g \in DOMAIN s[j].entries
    <3>1. g \notin DOMAIN s[i].entries
      BY <1>3
    <3>2. PICK k \in (i + 1)..j : g \in DOMAIN s[k].entries /\ s[k].entries[g].version = 1
      BY <2>1, <3>1 DEF Faithful, Begins, n
    <3>3. k \in 1..n
      BY <1>1
    <3>4. g # f
      BY <1>2, <3>2, <3>3
    <3> QED BY <1>3, <3>2, <3>3, <3>4
  <2>2. CASE g = f /\ u[j].entries[g] = e
    <3>1. j \in (i + 1)..j
      BY <1>1
    <3> QED BY <2>2, <3>1
  <2> QED BY <1>3, <2>1, <2>2
<1> QED BY <1>4, <1>5, <1>7, <1>8, <1>9 DEF Faithful

-----------------------------------------------------------------------------
(* The invariant of rewinding.                                             *)

\* Every file of the agent's that the latest snapshot does not have is adrift.
Backed == Unbacked(snapshots, tracked, writes) \subseteq adrift

\* A file that is not the agent's is still fit to be left as it is.
Pristine ==
  \A f \in File \ (adrift \cup tracked) : \A m \in 1..Len(was) : Fit(was, writes, m, f, disk[f])

Counted ==
  /\ messages = Len(was) /\ turn \in 1..Len(was) \cup {Nobody}
  /\ \A m \in 1..Len(was) : was[m].writes <= Len(writes)

\* Files and backups hold texts that were written.
Written ==
  /\ \A f \in File : disk[f] \in Texts(writes)
  /\ \A n \in DOMAIN backup : backup[n] \in Texts(writes)

UndoInv ==
  /\ Faithful(snapshots, was, writes, adrift, late)
  /\ Faithful(stored.snapshots, was, writes, adrift, late)
  /\ Backed /\ Pristine /\ Counted /\ Written

RewindInv == FileInv /\ UndoInv

\* What FileInv says of the types, for use below.
LEMMA RestTypes ==
  ASSUME FileInv
  PROVE  /\ snapshots \in Seq(Snapshot) /\ stored.snapshots \in Seq(Snapshot)
         /\ was \in Seq(Asked) /\ writes \in Seq(Write) /\ Len(writes) \in Nat /\ Len(was) \in Nat
         /\ \A m \in 1..Len(was) : was[m].writes \in Nat
         /\ disk \in [File -> Text] /\ adrift \subseteq File /\ tracked \subseteq File
         /\ stored.tracked \subseteq tracked
         /\ DOMAIN Latest(snapshots) \subseteq tracked
         /\ DOMAIN Latest(stored.snapshots) \subseteq stored.tracked
<1>1. /\ snapshots \in Seq(Snapshot) /\ stored.snapshots \in Seq(Snapshot)
      /\ was \in Seq(Asked) /\ writes \in Seq(Write)
      /\ disk \in [File -> Text] /\ adrift \subseteq File /\ tracked \subseteq File
      /\ stored.tracked \subseteq tracked
      /\ Within(snapshots, tracked) /\ Within(stored.snapshots, stored.tracked)
  BY DEF FileInv, TypeOK, Asked
<1>2. Len(writes) \in Nat /\ Len(was) \in Nat
  BY <1>1, LenProperties
<1>3. ASSUME NEW m \in 1..Len(was) PROVE was[m].writes \in Nat
  <2>1. was[m] \in Asked
    BY <1>1, ElementOfSeq
  <2> QED BY <2>1 DEF Asked
<1>4. ASSUME NEW s \in Seq(Snapshot), NEW t, Within(s, t) PROVE DOMAIN Latest(s) \subseteq t
  <2>1. CASE s = <<>>
    BY <2>1 DEF Latest, Empty
  <2>2. CASE s # <<>>
    BY <1>4, <2>2, LatestType DEF Within
  <2> QED BY <2>1, <2>2
<1> QED BY <1>1, <1>2, <1>3, <1>4

\* What is tracked and not adrift, the latest snapshot has.
LEMMA BackedHas ==
  ASSUME Backed, NEW f \in tracked \ adrift
  PROVE  f \in DOMAIN Latest(snapshots)
BY DEF Backed, Unbacked

\* Copies hold texts that were written.
LEMMA CopyTexts ==
  ASSUME FileInv, Written, NEW fs \in SUBSET File, NEW v
  PROVE  \A n \in DOMAIN Copy(fs, v) : Copy(fs, v)[n] \in Texts(writes)
<1> DEFINE new == {<<f, v[f]>> : f \in {g \in fs : disk[g] # Gone}}
<1>1. \A n \in new : n[1] \in File
  OBVIOUS
<1>2. Copy(fs, v) = [n \in DOMAIN backup \cup new |-> IF n \in new THEN disk[n[1]] ELSE backup[n]]
  BY DEF Copy
<1> HIDE DEF new
<1> QED BY <1>1, <1>2 DEF Written

\* A snapshot made of the files as message m may have them back keeps the list faithful.
LEMMA SnapshotFaithful ==
  ASSUME FileInv, Backed, Written, NEW h \in Seq(Asked), NEW l,
         Faithful(snapshots, h, writes, adrift, l),
         NEW m \in 1..Len(h), NEW failed \in SUBSET Unreadable, MakeSnapshot(m, failed),
         m \notin l => \A f \in File \ (adrift \cup h[m].missed) :
                         f \notin failed /\ Fit(h, writes, m, f, disk[f])
  PROVE  /\ Faithful(snapshots', h, writes, adrift, l)
         /\ \A n \in DOMAIN backup' : backup'[n] \in Texts(writes)
<1>1. /\ TypeOK /\ snapshots \in Seq(Snapshot) /\ tracked \subseteq File /\ m \in Nat
      /\ Truth(snapshots, backup, adrift) /\ (snapshots = <<>> \/ Grows(snapshots))
      /\ Within(snapshots, tracked)
  BY RestTypes, LenProperties DEF FileInv
<1>2. CASE snapshots = <<>>
  BY <1>2 DEF MakeSnapshot, Written
<1>3. CASE snapshots # <<>>
  <2> DEFINE old == Latest(snapshots)
             fs == {f \in tracked \ failed : ~Unchanged(f)}
             v == [f \in tracked |-> NextVersion(f)]
             x == [message |-> m, entries |-> Entries(failed)]
             w == Append(snapshots, x)
  <2>1. backup' = Copy(fs, v) /\ snapshots' = Evict(w)
    BY <1>3 DEF MakeSnapshot
  <2>2. \A n \in DOMAIN backup' : backup'[n] \in Texts(writes)
    <3>1. fs \in SUBSET File
      BY <1>1
    <3> HIDE DEF fs, v
    <3> QED BY <2>1, <3>1, CopyTexts
  <2>3. /\ x \in Snapshot /\ x.message = m /\ x.entries = Entries(failed)
        /\ DOMAIN x.entries \subseteq tracked /\ DOMAIN old \subseteq DOMAIN x.entries
        /\ \A f \in DOMAIN x.entries :
             \/ /\ f \in failed \/ Unchanged(f)
                /\ f \in DOMAIN old /\ x.entries[f] = old[f]
             \/ f \notin failed /\ x.entries[f] = EntryOf(f, NextVersion(f))
    BY <1>1, <1>3, NewEntries
  <2>4. /\ Len(snapshots) \in 1..Len(snapshots) /\ old = snapshots[Len(snapshots)].entries
        /\ \A f \in DOMAIN old : old[f] \in Entry
    BY <1>1, <1>3, LatestType
  <2> HIDE DEF fs, v, x, old
  <2>5. \A f \in DOMAIN old : old[f].version \in Nat
    BY <2>4 DEF Entry
  <2>6. ASSUME NEW f \in DOMAIN old
        PROVE  /\ old[f].version >= 1 /\ old[f].text \in Texts(writes)
               /\ old[f].named <=> old[f].text # Gone
    BY <2>4 DEF Faithful, Plain
  <2>7. ASSUME NEW f PROVE NextVersion(f) >= 1 /\ (f \in DOMAIN old => NextVersion(f) # 1)
    BY <2>5, <2>6 DEF NextVersion, old
  <2>8. ASSUME NEW f \in File
        PROVE  LET e == EntryOf(f, NextVersion(f))
               IN  /\ e.version = NextVersion(f) /\ e.text = disk[f] /\ e.text \in Texts(writes)
                   /\ e.named <=> e.text # Gone
    BY DEF EntryOf, Written
  <2>9. ASSUME NEW f \in DOMAIN x.entries
        PROVE  /\ x.entries[f].version >= 1
               /\ x.entries[f].text \in Texts(writes)
               /\ x.entries[f].named <=> x.entries[f].text # Gone
    <3>1. f \in File
      BY <1>1, <2>3
    <3>2. CASE f \in DOMAIN old /\ x.entries[f] = old[f]
      BY <2>6, <3>2
    <3>3. CASE x.entries[f] = EntryOf(f, NextVersion(f))
      BY <2>7, <2>8, <3>1, <3>3
    <3> QED BY <2>3, <3>2, <3>3
  <2>10. ASSUME m \notin l, NEW f \in DOMAIN x.entries \ (adrift \cup h[m].missed)
         PROVE  Fit(h, writes, m, f, x.entries[f].text)
    <3>1. f \in File /\ f \notin failed /\ Fit(h, writes, m, f, disk[f])
      BY <1>1, <2>3, <2>10
    <3>2. CASE Unchanged(f) /\ f \in DOMAIN old /\ x.entries[f] = old[f]
      <4>1. old[f].named /\ <<f, old[f].version>> \in DOMAIN backup
            /\ backup[<<f, old[f].version>>] = disk[f]
        BY <3>2 DEF Unchanged, Kept, old
      <4>2. old[f].text = disk[f]
        BY <1>1, <2>4, <3>2, <4>1 DEF Truth
      <4> QED BY <3>1, <3>2, <4>2
    <3>3. CASE x.entries[f] = EntryOf(f, NextVersion(f))
      BY <2>8, <3>1, <3>3
    <3> QED BY <2>3, <3>1, <3>2, <3>3
  <2>11. ASSUME NEW f \in DOMAIN x.entries \ adrift
         PROVE  /\ f \in DOMAIN old
                /\ x.entries[f] = old[f] \/ x.entries[f].version # 1
    <3>1. f \in File /\ f \in DOMAIN old
      BY <1>1, <2>3, BackedHas DEF old
    <3>2. CASE x.entries[f] = EntryOf(f, NextVersion(f))
      <4>1. x.entries[f].version = NextVersion(f)
        BY <2>8, <3>1, <3>2
      <4> QED BY <2>7, <3>1, <4>1
    <3> QED BY <2>3, <3>1, <3>2
  <2>12. Faithful(w, h, writes, adrift, l)
    <3>1. Grows(snapshots)
      BY <1>1, <1>3
    <3> QED BY <1>1, <1>3, <2>3, <2>9, <2>10, <2>11, <3>1, FaithfulAppend DEF old
  <2>13. w \in Seq(Snapshot) /\ Len(w) \in Nat /\ MaxSnapshots \in Nat \ {0}
    BY <1>1, <2>3, AppendProperties, LenProperties, FileHistoryAssumption
  <2> HIDE DEF w
  <2>14. Faithful(Evict(w), h, writes, adrift, l)
    <3>1. CASE Len(w) > MaxSnapshots
      <4>1. Len(w) - MaxSnapshots + 1 \in Nat \ {0} /\ Len(w) \in 0..Len(w)
        BY <2>13, <3>1
      <4> QED BY <2>12, <2>13, <3>1, <4>1, FaithfulPart DEF Evict
    <3>2. CASE ~(Len(w) > MaxSnapshots)
      BY <2>12, <3>2 DEF Evict
    <3> QED BY <3>1, <3>2
  <2> QED BY <2>1, <2>2, <2>14
<1> QED BY <1>2, <1>3

\* So does the start of turns, for the list in memory and for the one it stores.
LEMMA TurnsFaithful ==
  ASSUME FileInv, Backed, Written, NEW h \in Seq(Asked), NEW l,
         Faithful(snapshots, h, writes, adrift, l),
         Faithful(stored.snapshots, h, writes, adrift, l),
         NEW m \in 1..Len(h) \cup {Nobody}, NEW failed \in SUBSET Unreadable, StartTurns(m, failed),
         m \notin l \cup {Nobody} => \A f \in File \ (adrift \cup h[m].missed) :
                                       f \notin failed /\ Fit(h, writes, m, f, disk[f])
  PROVE  /\ Faithful(snapshots', h, writes, adrift', l)
         /\ Faithful(stored'.snapshots, h, writes, adrift', l)
         /\ Backed' /\ Written'
         /\ adrift \subseteq adrift' /\ UNCHANGED <<disk, tracked, writes>>
<1>1. /\ adrift' = adrift \cup Unbacked(snapshots', tracked, writes)
      /\ UNCHANGED <<disk, tracked, writes>>
  BY DEF StartTurns
<1>2. Backed' /\ adrift \subseteq adrift'
  BY <1>1 DEF Backed
<1>3. CASE m = Nobody
  <2>1. UNCHANGED <<backup, snapshots>> /\ stored' = [stored EXCEPT !.talk = talk']
    BY <1>3 DEF StartTurns
  <2>2. stored'.snapshots = stored.snapshots
    BY <2>1 DEF FileInv, TypeOK
  <2>3. Written'
    BY <1>1, <2>1 DEF Written
  <2> QED BY <1>1, <1>2, <2>1, <2>2, <2>3, FaithfulLess
<1>4. CASE m # Nobody
  <2>1. MakeSnapshot(m, failed)
        /\ stored' = [snapshots |-> snapshots', tracked |-> tracked, talk |-> talk']
    BY <1>4 DEF StartTurns
  <2>2. m \in 1..Len(h)
        /\ (m \notin l => \A f \in File \ (adrift \cup h[m].missed) :
                            f \notin failed /\ Fit(h, writes, m, f, disk[f]))
    BY <1>4
  <2>3. /\ Faithful(snapshots', h, writes, adrift, l)
        /\ \A n \in DOMAIN backup' : backup'[n] \in Texts(writes)
    BY <2>1, <2>2, SnapshotFaithful
  <2>4. Faithful(snapshots', h, writes, adrift', l)
    BY <1>2, <2>3, FaithfulLess
  <2>5. stored'.snapshots = snapshots'
    BY <2>1
  <2>6. Written'
    BY <1>1, <2>3 DEF Written
  <2> QED BY <1>1, <1>2, <2>4, <2>5, <2>6
<1> QED BY <1>3, <1>4

-----------------------------------------------------------------------------
(* The steps that keep it.                                                 *)

\* A message asked has no writes after it.
LEMMA Asking ==
  ASSUME RewindInv, NEW missed \in SUBSET File, Ask(missed)
  PROVE  LET m == messages + 1
         IN  /\ was' \in Seq(Asked) /\ m \in 1..Len(was') /\ m # Nobody
             /\ Faithful(snapshots, was', writes, adrift, late)
             /\ Faithful(stored.snapshots, was', writes, adrift, late)
             /\ was'[m].missed = missed /\ \A f \in File : Fit(was', writes, m, f, disk[f])
             /\ \A f \in File \ (adrift \cup tracked) : \A i \in 1..Len(was') :
                  Fit(was', writes, i, f, disk[f])
             /\ messages' = Len(was') /\ turn' = m
             /\ \A i \in 1..Len(was') : was'[i].writes <= Len(writes)
<1> DEFINE x == [files |-> disk, writes |-> Len(writes), missed |-> missed]
           h == Append(was, x)
           m == Len(was) + 1
<1>1. /\ FileInv /\ Pristine /\ Counted
      /\ Faithful(snapshots, was, writes, adrift, late)
      /\ Faithful(stored.snapshots, was, writes, adrift, late)
  BY DEF RewindInv, UndoInv
<1>2. /\ was \in Seq(Asked) /\ Len(writes) \in Nat /\ Len(was) \in Nat
      /\ disk \in [File -> Text]
  BY <1>1, RestTypes
<1>3. was' = h /\ messages' = m /\ turn' = m /\ messages + 1 = m
  BY <1>1 DEF Ask, Counted
<1>4. x \in Asked
  BY <1>2 DEF Asked
<1>5. /\ h \in Seq(Asked) /\ Len(h) = m /\ h[m] = x /\ m \in 1..Len(h)
      /\ \A i \in 1..Len(was) : h[i] = was[i]
  BY <1>2, <1>4, AppendProperties
<1>6. m # Nobody
  BY <1>2, FileHistoryAssumption
<1>7. /\ Faithful(snapshots, h, writes, adrift, late)
      /\ Faithful(stored.snapshots, h, writes, adrift, late)
  BY <1>1, <1>2, <1>4, FaithfulAsk
<1>8. \A f \in File : Fit(h, writes, m, f, disk[f])
  <2>1. h[m].writes = Len(writes) /\ h[m].files = disk
    BY <1>5
  <2>2. \A f : Since(h, writes, m, f) = {}
    BY <1>2, <2>1 DEF Since
  <2> QED BY <2>1, <2>2 DEF Fit
<1>9. h[m].missed = missed /\ h[m].writes = Len(writes)
  BY <1>5
<1>10. \A i \in 1..Len(was) : \A f, t : Fit(was, writes, i, f, t) => Fit(h, writes, i, f, t)
  BY <1>2, <1>4, FitAsk
<1>11. \A i \in 1..m : i = m \/ i \in 1..Len(was)
  BY <1>2
<1> HIDE DEF h, m, x
<1>12. ASSUME NEW f \in File \ (adrift \cup tracked), NEW i \in 1..Len(h)
       PROVE  Fit(h, writes, i, f, disk[f])
  <2>1. CASE i \in 1..Len(was)
    BY <1>1, <1>10, <2>1 DEF Pristine
  <2> QED BY <1>5, <1>8, <1>11, <2>1
<1>13. ASSUME NEW i \in 1..Len(h) PROVE h[i].writes <= Len(writes)
  BY <1>1, <1>2, <1>5, <1>9, <1>11 DEF Counted
<1> QED BY <1>3, <1>5, <1>6, <1>7, <1>8, <1>9, <1>12, <1>13

\* A query makes its snapshot of the files as its message found them.
LEMMA QueryUndo ==
  ASSUME RewindInv, Query
  PROVE  UndoInv'
<1> DEFINE m == messages + 1
<1>1. PICK failed \in SUBSET Unreadable :
        Ask(failed) /\ StartTurns(m, failed) /\ UNCHANGED late
  BY DEF Query
<1>2. FileInv /\ Backed /\ Written /\ failed \in SUBSET File
  BY FileHistoryAssumption DEF RewindInv, UndoInv
<1>3. /\ was' \in Seq(Asked) /\ m \in 1..Len(was') /\ m # Nobody
      /\ Faithful(snapshots, was', writes, adrift, late)
      /\ Faithful(stored.snapshots, was', writes, adrift, late)
      /\ was'[m].missed = failed /\ \A f \in File : Fit(was', writes, m, f, disk[f])
      /\ \A f \in File \ (adrift \cup tracked) : \A i \in 1..Len(was') :
           Fit(was', writes, i, f, disk[f])
      /\ messages' = Len(was') /\ turn' = m
      /\ \A i \in 1..Len(was') : was'[i].writes <= Len(writes)
  BY <1>1, <1>2, Asking
<1> HIDE DEF m
<1>4. /\ Faithful(snapshots', was', writes, adrift', late)
      /\ Faithful(stored'.snapshots, was', writes, adrift', late)
      /\ Backed' /\ Written'
      /\ adrift \subseteq adrift' /\ UNCHANGED <<disk, tracked, writes>>
  <2>1. m \in 1..Len(was') \cup {Nobody}
    BY <1>3
  <2>2. \A f \in File \ (adrift \cup was'[m].missed) :
          f \notin failed /\ Fit(was', writes, m, f, disk[f])
    BY <1>3
  <2> QED BY <1>1, <1>2, <1>3, <2>1, <2>2, TurnsFaithful
<1>5. Pristine'
  BY <1>3, <1>4 DEF Pristine
<1>6. Counted'
  BY <1>3, <1>4 DEF Counted
<1> QED BY <1>1, <1>4, <1>5, <1>6 DEF UndoInv

\* A forked skill's message has no snapshot yet.
LEMMA SkillUndo ==
  ASSUME RewindInv, RunSkill
  PROVE  UndoInv'
<1> DEFINE m == messages + 1
<1>1. /\ Ask({}) /\ UNCHANGED <<disk, backup, snapshots, tracked, stored, writes, late, adrift>>
  BY DEF RunSkill, tracker
<1>2. {} \in SUBSET File /\ Backed /\ Written
  BY DEF RewindInv, UndoInv
<1>3. /\ m \in 1..Len(was')
      /\ Faithful(snapshots, was', writes, adrift, late)
      /\ Faithful(stored.snapshots, was', writes, adrift, late)
      /\ \A f \in File \ (adrift \cup tracked) : \A i \in 1..Len(was') :
           Fit(was', writes, i, f, disk[f])
      /\ messages' = Len(was') /\ turn' = m
      /\ \A i \in 1..Len(was') : was'[i].writes <= Len(writes)
  BY <1>1, <1>2, Asking
<1> HIDE DEF m
<1>4. Pristine' /\ Counted'
  BY <1>1, <1>3 DEF Pristine, Counted
<1>5. Backed' /\ Written'
  BY <1>1, <1>2 DEF Backed, Written
<1> QED BY <1>1, <1>3, <1>4, <1>5 DEF UndoInv

\* The turns of a skill and those of notices make their snapshot late.
LEMMA LateUndo ==
  ASSUME RewindInv, NEW failed \in SUBSET Unreadable, StartTurns(turn, failed),
         UNCHANGED <<turn, messages, was>>, late \subseteq late', turn \in late' \cup {Nobody}
  PROVE  UndoInv'
<1>1. /\ FileInv /\ Backed /\ Pristine /\ Counted /\ Written
      /\ Faithful(snapshots, was, writes, adrift, late)
      /\ Faithful(stored.snapshots, was, writes, adrift, late)
  BY DEF RewindInv, UndoInv
<1>2. /\ Faithful(snapshots, was, writes, adrift, late')
      /\ Faithful(stored.snapshots, was, writes, adrift, late')
  BY <1>1, FaithfulLess
<1>3. was \in Seq(Asked) /\ turn \in 1..Len(was) \cup {Nobody}
  BY <1>1, RestTypes DEF Counted
<1>4. /\ Faithful(snapshots', was, writes, adrift', late')
      /\ Faithful(stored'.snapshots, was, writes, adrift', late')
      /\ Backed' /\ Written'
      /\ adrift \subseteq adrift' /\ UNCHANGED <<disk, tracked, writes>>
  BY <1>1, <1>2, <1>3, TurnsFaithful
<1>5. Pristine' /\ Counted'
  BY <1>1, <1>4 DEF Pristine, Counted
<1> QED BY <1>4, <1>5 DEF UndoInv

\* A backup before an edit is one of a file that was not the agent's.
LEMMA TrackUndo ==
  ASSUME RewindInv, NEW f \in File, TrackEdit(f)
  PROVE  UndoInv'
<1>1. /\ FileInv /\ Backed /\ Pristine /\ Counted /\ Written
      /\ Faithful(snapshots, was, writes, adrift, late)
      /\ Faithful(stored.snapshots, was, writes, adrift, late)
  BY DEF RewindInv, UndoInv
<1>2. UNCHANGED <<disk, stored, turn, writes, was, late, messages, adrift>>
  BY DEF TrackEdit, ghosts
<1>3. /\ TypeOK /\ snapshots \in Seq(Snapshot) /\ tracked \subseteq File
      /\ DOMAIN Latest(snapshots) \subseteq tracked
  BY <1>1, RestTypes DEF FileInv
<1>4. Counted'
  BY <1>1, <1>2 DEF Counted
<1>5. CASE UNCHANGED <<backup, tracked, snapshots>>
  BY <1>1, <1>2, <1>4, <1>5 DEF UndoInv, Backed, Pristine, Written
<1>6. CASE ~ UNCHANGED <<backup, tracked, snapshots>>
  <2> DEFINE n == Len(snapshots)
             old == Latest(snapshots)
             v == [g \in {f} |-> 1]
             e == EntryOf(f, 1)
             new == [g \in DOMAIN old \cup {f} |-> IF g = f THEN e ELSE old[g]]
  <2>1. /\ Backs(f) /\ backup' = Copy({f}, v) /\ tracked' = tracked \cup {f}
        /\ snapshots' = [snapshots EXCEPT ![n].entries =
             [g \in DOMAIN @ \cup {f} |-> IF g = f THEN EntryOf(f, 1) ELSE @[g]]]
    BY <1>6 DEF TrackEdit
  <2>2. snapshots # <<>> /\ f \notin DOMAIN old
    BY <2>1 DEF Backs
  <2>3. n \in 1..n /\ old = snapshots[n].entries
    BY <1>3, <2>2, LatestType
  <2>4. n \in Nat /\ DOMAIN snapshots = 1..n /\ \A i \in 1..n : snapshots[i] \in Snapshot
    BY <1>3, LenProperties, ElementOfSeq
  <2>5. /\ e.version = 1 /\ e.text = disk[f] /\ e.text \in Texts(writes)
        /\ e.named <=> e.text # Gone
    BY <1>1 DEF EntryOf, Written
  <2>6. Written'
    <3>1. {f} \in SUBSET File
      OBVIOUS
    <3> HIDE DEF v
    <3> QED BY <1>1, <1>2, <2>1, <3>1, CopyTexts DEF Written
  <2> HIDE DEF n, old, e
  <2>7. snapshots' = [snapshots EXCEPT ![n] = [snapshots[n] EXCEPT !.entries = new]]
    BY <2>1, <2>3, <2>4 DEF e
  <2>8. DOMAIN new = DOMAIN old \cup {f} /\ new[f] = e /\ \A g \in DOMAIN old : new[g] = old[g]
    BY <2>2
  <2> HIDE DEF new
  <2>9. [snapshots[n] EXCEPT !.entries = new].entries = new
        /\ [snapshots[n] EXCEPT !.entries = new].message = snapshots[n].message
    BY <2>3, <2>4 DEF Snapshot
  <2>10. /\ Len(snapshots') = n
         /\ \A i \in 1..n : i # n => snapshots'[i] = snapshots[i]
         /\ snapshots'[n].entries = new /\ snapshots'[n].message = snapshots[n].message
    <3>1. DOMAIN snapshots' = 1..n
      BY <2>4, <2>7
    <3>2. Len(snapshots') = n
      <4>1. snapshots' \in Seq(Snapshot)
        BY TrackEditKeeps, <1>1 DEF ListsOK
      <4> QED BY <2>4, <3>1, <4>1, LenProperties
    <3> QED BY <2>3, <2>4, <2>7, <2>9, <3>2
  <2>11. Latest(snapshots') = new
    <3>1. snapshots' # <<>>
      BY <2>3, <2>10
    <3> QED BY <2>10, <3>1 DEF Latest
  <2>12. f \notin adrift => f \notin tracked
    BY <1>1, <2>2, BackedHas DEF old
  <2>13. f \notin adrift => \A m \in 1..Len(was) : Fit(was, writes, m, f, e.text)
    BY <1>1, <2>5, <2>12 DEF Pristine
  <2>14. Faithful(snapshots', was, writes, adrift, late)
    <3>1. Grows(snapshots)
      BY <1>1 DEF FileInv
    <3> QED
      BY <1>1, <1>3, <2>2, <2>5, <2>8, <2>10, <2>13, <3>1, FaithfulEdit DEF n, old
  <2>15. Backed'
    <3> DEFINE theirs == {writes[k].file : k \in {k \in 1..Len(writes) : writes[k].agent}}
    <3>1. \A s, t : Unbacked(s, t, writes) = {g \in t \cup theirs : g \notin DOMAIN Latest(s)}
      BY DEF Unbacked
    <3> HIDE DEF theirs
    <3>2. DOMAIN Latest(snapshots') = DOMAIN old \cup {f}
      BY <2>8, <2>11
    <3>3. Unbacked(snapshots', tracked', writes) \subseteq Unbacked(snapshots, tracked, writes)
      BY <2>1, <3>1, <3>2 DEF old
    <3> QED BY <1>1, <1>2, <3>3 DEF Backed
  <2>16. Pristine'
    BY <1>1, <1>2, <2>1 DEF Pristine
  <2> QED BY <1>1, <1>2, <1>4, <2>6, <2>14, <2>15, <2>16 DEF UndoInv
<1> QED BY <1>5, <1>6

\* What a write leaves as it was, and what it leaves to be undone.
LEMMA WriteUndo ==
  ASSUME RewindInv, NEW f \in File, WriteFile(f) \/ ByHand(f)
  PROVE  UndoInv'
<1>1. /\ FileInv /\ Backed /\ Pristine /\ Counted /\ Written
      /\ Faithful(snapshots, was, writes, adrift, late)
      /\ Faithful(stored.snapshots, was, writes, adrift, late)
  BY DEF RewindInv, UndoInv
<1>2. PICK x \in Write, t \in {Len(writes'), Gone} :
        /\ x.file = f /\ writes' = Append(writes, x) /\ disk' = [disk EXCEPT ![f] = t]
        /\ x.agent => WriteFile(f)
        /\ ~x.agent => ByHand(f)
  <2>1. CASE WriteFile(f)
    <3> DEFINE y == [file |-> f, agent |-> TRUE]
    <3>1. y \in Write /\ y.file = f /\ y.agent
      BY DEF Write
    <3>2. writes' = Append(writes, y) /\ disk' = [disk EXCEPT ![f] = Len(writes')]
      BY <2>1 DEF WriteFile
    <3> HIDE DEF y
    <3> QED BY <2>1, <3>1, <3>2
  <2>2. CASE ByHand(f)
    BY <2>2 DEF ByHand, Write
  <2> QED BY <2>1, <2>2
<1>3. /\ UNCHANGED <<backup, snapshots, tracked, stored, turn, messages, was, late>>
      /\ adrift \subseteq adrift'
      /\ adrift' \in {adrift, adrift \cup Unbacked(snapshots, tracked, writes')}
  BY DEF WriteFile, ByHand, tracker, chat, counts
<1>4. /\ writes \in Seq(Write) /\ was \in Seq(Asked) /\ Len(writes) \in Nat /\ Len(was) \in Nat
      /\ disk \in [File -> Text] /\ DOMAIN Latest(snapshots) \subseteq tracked
      /\ \A m \in 1..Len(was) : was[m].writes \in Nat
  BY <1>1, RestTypes
<1>5. /\ Len(writes') = Len(writes) + 1 /\ writes'[Len(writes')] = x
      /\ \A n \in 1..Len(writes) : writes'[n] = writes[n]
  BY <1>2, <1>4, AppendProperties
<1>6. /\ Faithful(snapshots', was', writes', adrift', late')
      /\ Faithful(stored'.snapshots, was', writes', adrift', late')
  <2>1. /\ Faithful(snapshots, was, writes', adrift, late)
        /\ Faithful(stored.snapshots, was, writes', adrift, late)
    BY <1>1, <1>2, <1>4, FaithfulWrite
  <2> QED BY <1>3, <2>1, FaithfulLess
<1>7. x.agent => f \in adrift' \cup tracked
  <2> SUFFICES ASSUME x.agent PROVE f \in adrift' \cup tracked
    OBVIOUS
  <2>1. adrift' = adrift \cup Unbacked(snapshots, tracked, writes')
    BY <1>2 DEF WriteFile
  <2>2. Len(writes') \in {k \in 1..Len(writes') : writes'[k].agent}
    BY <1>4, <1>5
  <2>3. f \in {writes'[n].file : n \in {k \in 1..Len(writes') : writes'[k].agent}}
    BY <1>2, <1>5, <2>2
  <2> QED BY <1>4, <2>1, <2>3 DEF Unbacked
<1>8. Written'
  <2>1. \A t2 \in Texts(writes) : t2 \in Texts(writes')
    BY <1>4, <1>5 DEF Texts
  <2>2. t \in Texts(writes')
    BY <1>4, <1>5 DEF Texts
  <2>3. \A g \in File : disk'[g] = IF g = f THEN t ELSE disk[g]
    BY <1>2, <1>4
  <2> QED BY <1>1, <1>3, <2>1, <2>2, <2>3 DEF Written
<1>9. Backed'
  <2>1. CASE x.agent
    BY <1>2, <1>3, <2>1 DEF Backed, WriteFile
  <2>2. CASE ~x.agent
    <3>1. \A n \in 1..Len(writes') : writes'[n].agent => n \in 1..Len(writes) /\ writes'[n] = writes[n]
      BY <1>4, <1>5, <2>2
    <3>2. Unbacked(snapshots, tracked, writes') \subseteq Unbacked(snapshots, tracked, writes)
      BY <3>1 DEF Unbacked
    <3> QED BY <1>1, <1>3, <3>2 DEF Backed
  <2> QED BY <2>1, <2>2
<1>10. Pristine'
  <2> SUFFICES ASSUME NEW g \in File \ (adrift' \cup tracked), NEW m \in 1..Len(was)
               PROVE  Fit(was, writes', m, g, disk'[g])
    BY <1>3 DEF Pristine
  <2>1. Fit(was, writes, m, g, disk[g])
    BY <1>1, <1>3 DEF Pristine
  <2>2. CASE g # f
    <3>1. disk'[g] = disk[g]
      BY <1>2, <2>2
    <3>2. x.file # g
      BY <1>2, <2>2
    <3> QED BY <1>2, <1>4, <2>1, <3>1, <3>2, FitWrite
  <2>3. CASE g = f
    <3>1. ~x.agent
      BY <1>7, <2>3
    <3>2. disk'[g] = t /\ (t = Len(writes') \/ t = Gone)
      BY <1>2, <1>4, <2>3
    <3>3. was[m].writes <= Len(writes)
      BY <1>1 DEF Counted
    <3>4. Len(writes') \in Since(was, writes', m, g)
      BY <1>2, <1>4, <1>5, <2>3, <3>3 DEF Since
    <3>5. ~(\A n \in Since(was, writes', m, g) : writes'[n].agent)
      BY <1>5, <3>1, <3>4
    <3>6. \A n \in Since(was, writes', m, g) : n \in Nat
      BY <1>4 DEF Since
    <3>7. \A n \in Since(was, writes', m, g) : t = n => ~writes'[n].agent
      BY <1>5, <3>1, <3>2, <3>6, FileHistoryAssumption
    <3> QED BY <3>2, <3>5, <3>7 DEF Fit
  <2> QED BY <2>2, <2>3
<1>11. Counted'
  <2>1. \A m \in 1..Len(was) : was[m].writes <= Len(writes')
    BY <1>1, <1>4, <1>5 DEF Counted
  <2> QED BY <1>1, <1>3, <2>1 DEF Counted
<1> QED BY <1>6, <1>8, <1>9, <1>10, <1>11 DEF UndoInv

\* Truncation keeps the earlier snapshots and sets adrift what they do not have.
LEMMA TruncateUndo ==
  ASSUME RewindInv, NEW k \in 1..Len(talk), RewindMessagesOnly(k)
  PROVE  UndoInv'
<1>1. /\ FileInv /\ Backed /\ Pristine /\ Counted /\ Written
      /\ Faithful(snapshots, was, writes, adrift, late)
      /\ Faithful(stored.snapshots, was, writes, adrift, late)
  BY DEF RewindInv, UndoInv
<1>2. /\ TruncateSnapshotsFrom(talk[k])
      /\ adrift' = adrift \cup Unbacked(snapshots', tracked, writes)
      /\ UNCHANGED <<disk, backup, tracked, turn, stored, writes, was, late, messages>>
  BY DEF RewindMessagesOnly, ghosts
<1>3. PICK n \in 0..Len(snapshots) : snapshots' = SubSeq(snapshots, 1, n)
  BY <1>2 DEF TruncateSnapshotsFrom
<1>4. snapshots \in Seq(Snapshot) /\ 1 \in Nat \ {0}
  BY <1>1, RestTypes
<1>5. Faithful(snapshots', was, writes, adrift, late)
  BY <1>1, <1>3, <1>4, FaithfulPart
<1>6. /\ Faithful(snapshots', was, writes, adrift', late)
      /\ Faithful(stored.snapshots, was, writes, adrift', late)
  BY <1>1, <1>2, <1>5, FaithfulLess
<1>7. Backed' /\ Pristine' /\ Counted' /\ Written'
  BY <1>1, <1>2 DEF Backed, Pristine, Counted, Written
<1> QED BY <1>2, <1>6, <1>7 DEF UndoInv

\* What a restart loads was stored faithful, and files it does not know are adrift or pristine.
LEMMA RestartUndo ==
  ASSUME RewindInv, Restart
  PROVE  UndoInv'
<1>1. /\ FileInv /\ Backed /\ Pristine /\ Counted /\ Written
      /\ Faithful(stored.snapshots, was, writes, adrift, late)
  BY DEF RewindInv, UndoInv
<1>2. /\ snapshots' = stored.snapshots /\ tracked' = stored.tracked /\ turn' = Nobody
      /\ adrift' = adrift \cup Unbacked(snapshots', tracked \cup tracked', writes)
      /\ UNCHANGED <<disk, backup, stored, writes, was, late, messages>>
  BY DEF Restart, ghosts
<1>3. DOMAIN Latest(snapshots') \subseteq tracked' /\ tracked' \subseteq tracked
  BY <1>1, <1>2, RestTypes
<1>4. Faithful(stored.snapshots, was, writes, adrift', late)
  BY <1>1, <1>2, FaithfulLess
<1>5. Backed'
  BY <1>2 DEF Backed, Unbacked
<1>6. Pristine'
  <2> SUFFICES ASSUME NEW f \in File \ (adrift' \cup tracked') PROVE f \notin adrift \cup tracked
    BY <1>1, <1>2 DEF Pristine
  <2> QED BY <1>2, <1>3 DEF Unbacked
<1>7. Counted' /\ Written'
  BY <1>1, <1>2 DEF Counted, Written
<1> QED BY <1>2, <1>4, <1>5, <1>6, <1>7 DEF UndoInv

\* A non-empty set of snapshots has a first one and a last one.
LEMMA FirstAndLast ==
  ASSUME NEW n \in Nat, NEW S \in SUBSET (1..n), S # {}
  PROVE  /\ \E m \in S : \A k \in S : m <= k
         /\ \E m \in S : \A k \in S : k <= m
<1> DEFINE R == OpToRel(<, Nat)
<1>1. \A a, b \in Nat : a < b => <<a, b>> \in R
  BY DEF OpToRel
<1>2. ASSUME NEW T, T \subseteq Nat, T # {} PROVE \E m \in T : \A k \in T : m <= k
  <2>1. \E m \in T : \A k \in T : <<k, m>> \notin R
    BY <1>2, NatLessThanWellFounded, WFMin
  <2> HIDE DEF R
  <2>2. PICK m \in T : \A k \in T : <<k, m>> \notin R
    BY <2>1
  <2>3. ASSUME NEW k \in T PROVE m <= k
    <3>1. k \in Nat /\ m \in Nat /\ ~(k < m)
      BY <1>1, <1>2, <2>2
    <3> QED BY <3>1
  <2> QED BY <2>3
<1>3. \E m \in S : \A k \in S : m <= k
  <2>1. S \subseteq Nat
    OBVIOUS
  <2> QED BY <1>2, <2>1
<1>4. \E m \in S : \A k \in S : k <= m
  <2> DEFINE T == {n - k : k \in S}
  <2>0. \A k \in S : n - k \in Nat
    OBVIOUS
  <2>1. T \subseteq Nat /\ T # {}
    BY <2>0, Zenon
  <2>2. PICK d \in T : \A k \in T : d <= k
    <3> HIDE DEF T
    <3> QED BY <1>2, <2>1
  <2>3. PICK m \in S : d = n - m
    OBVIOUS
  <2>4. ASSUME NEW k \in S PROVE k <= m
    <3>1. n - k \in T /\ k \in Nat /\ m \in Nat
      OBVIOUS
    <3>2. n - m <= n - k
      BY <2>2, <2>3, <3>1
    <3> QED BY <3>1, <3>2
  <2> QED BY <2>4
<1> QED BY <1>3, <1>4

-----------------------------------------------------------------------------
(* A rewind.                                                               *)

\* The snapshot a rewind finds is one of its message.
LEMMA FindsIt ==
  ASSUME FileInv, NEW m, FindLast(m) # 0
  PROVE  FindLast(m) \in 1..Len(snapshots) /\ snapshots[FindLast(m)].message = m
<1> DEFINE at == {i \in 1..Len(snapshots) : snapshots[i].message = m}
           last == CHOOSE i \in at : \A j \in at : j <= i
<1>1. FindLast(m) = IF at = {} THEN 0 ELSE last
  BY DEF FindLast
<1>2. Len(snapshots) \in Nat /\ at \in SUBSET (1..Len(snapshots))
  BY RestTypes, LenProperties
<1> HIDE DEF at
<1>3. at # {}
  BY <1>1
<1>4. \E i \in at : \A j \in at : j <= i
  BY <1>2, <1>3, FirstAndLast
<1>5. last \in at
  BY <1>4
<1> QED BY <1>1, <1>3, <1>5 DEF at

\* What the tracker restores an agent's file by, if no backup of it is missing.
LEMMA TargetFits ==
  ASSUME RewindInv, NEW i \in 1..Len(snapshots), NEW m \in Nat, snapshots[i].message = m,
         m \notin late, NEW f \in tracked \ (adrift \cup was[m].missed)
  PROVE  \E e : /\ Target(f, i) = {e} /\ Fit(was, writes, m, f, e.text)
                /\ e.named <=> e.text # Gone
                /\ Kept(f, e) => backup[<<f, e.version>>] = e.text
<1>1. /\ FileInv /\ Backed /\ Faithful(snapshots, was, writes, adrift, late)
      /\ Truth(snapshots, backup, adrift) /\ m # Nobody
  BY FileHistoryAssumption DEF RewindInv, UndoInv, FileInv
<1>2. snapshots \in Seq(Snapshot) /\ Len(snapshots) \in Nat
  BY <1>1, RestTypes, LenProperties
<1>3. ASSUME NEW j \in 1..Len(snapshots), f \in DOMAIN snapshots[j].entries
      PROVE  LET e == snapshots[j].entries[f]
             IN  /\ e.named <=> e.text # Gone
                 /\ Kept(f, e) => backup[<<f, e.version>>] = e.text
  BY <1>1, <1>3 DEF Faithful, Plain, Truth, Kept
<1>4. CASE f \in DOMAIN snapshots[i].entries
  <2>1. Target(f, i) = {snapshots[i].entries[f]}
    BY <1>4 DEF Target
  <2>2. Fit(was, writes, m, f, snapshots[i].entries[f].text)
    BY <1>1, <1>4 DEF Faithful, Own
  <2> QED BY <1>3, <1>4, <2>1, <2>2
<1>5. CASE f \notin DOMAIN snapshots[i].entries
  <2> DEFINE n == Len(snapshots)
             begins == {j \in 1..n : /\ f \in DOMAIN snapshots[j].entries
                                     /\ snapshots[j].entries[f].version = 1}
  <2>1. f \in DOMAIN Latest(snapshots)
    BY <1>1, BackedHas
  <2>2. n \in 1..n /\ f \in DOMAIN snapshots[n].entries
    BY <1>2, <2>1, LatestType DEF Latest, Empty
  <2>3. i < n
    BY <1>2, <1>5, <2>2
  <2>4. begins # {}
    <3>1. PICK k \in (i + 1)..n : f \in DOMAIN snapshots[k].entries
                                  /\ snapshots[k].entries[f].version = 1
      BY <1>1, <1>5, <2>2, <2>3 DEF Faithful, Begins
    <3>2. k \in 1..n
      BY <1>2
    <3> QED BY <3>1, <3>2
  <2>5. begins \in SUBSET (1..n)
    OBVIOUS
  <2>6. Target(f, i) = {snapshots[j].entries[f] : j \in {j \in begins : \A k \in begins : j <= k}}
    BY <1>5 DEF Target
  <2> HIDE DEF begins
  <2>7. PICK j \in begins : \A k \in begins : j <= k
    BY <1>2, <2>4, <2>5, FirstAndLast
  <2>8. {l \in begins : \A k \in begins : l <= k} = {j}
    <3>1. \A l \in begins : l \in Nat
      BY <1>2, <2>5
    <3>2. \A l \in begins : l <= j /\ j <= l => l = j
      BY <3>1
    <3> QED BY <2>7, <3>2
  <2>9. Target(f, i) = {snapshots[j].entries[f]}
    BY <2>6, <2>8
  <2>10. j \in 1..n /\ f \in DOMAIN snapshots[j].entries /\ snapshots[j].entries[f].version = 1
    BY <2>7 DEF begins
  <2>11. Fit(was, writes, m, f, snapshots[j].entries[f].text)
    BY <1>1, <1>5, <2>10 DEF Faithful, First
  <2> QED BY <1>3, <2>9, <2>10, <2>11
<1> QED BY <1>4, <1>5

\* A rewind that succeeds undoes.
LEMMA RestoreUndoes ==
  ASSUME RewindInv, NEW m \in Nat, RestoreFiles(m),
         UNCHANGED <<backup, snapshots, tracked, stored, turn, writes, was, late, messages, adrift>>
  PROVE  UndoInv' /\ RewindUndoes'
<1> DEFINE i == FindLast(m)
<1>1. /\ FileInv /\ Backed /\ Pristine /\ Counted /\ Written
      /\ Faithful(snapshots, was, writes, adrift, late)
      /\ Faithful(stored.snapshots, was, writes, adrift, late)
  BY DEF RewindInv, UndoInv
<1>2. /\ Faithful(snapshots', was', writes', adrift', late')
      /\ Faithful(stored'.snapshots, was', writes', adrift', late')
      /\ Backed' /\ Counted'
  BY <1>1 DEF Backed, Counted
<1>3. disk \in [File -> Text] /\ tracked \subseteq File
  BY <1>1, RestTypes
<1>4. CASE i = 0
  <2>1. result' = [message |-> m, ok |-> FALSE] /\ disk' = disk
    BY <1>4, Zenon DEF RestoreFiles
  <2>2. ~result'.ok
    BY <2>1
  <2> QED BY <1>1, <1>2, <2>1, <2>2 DEF UndoInv, Pristine, Written, RewindUndoes
<1>5. CASE i # 0
  <2>1. /\ disk' = [f \in File |-> IF f \in tracked THEN Restored(f, i) ELSE disk[f]]
        /\ result' = [message |-> m, ok |-> Applies(i)]
    BY <1>5, Zenon DEF RestoreFiles, ApplySnapshot
  <2>2. i \in 1..Len(snapshots) /\ snapshots[i].message = m
    BY <1>1, <1>5, FindsIt
  <2>3. m \in 1..Len(was)
    BY <1>1, <2>2, FileHistoryAssumption DEF Faithful, Titled
  <2> HIDE DEF i
  <2>4. result'.message = m /\ (result'.ok <=> Applies(i))
    BY <2>1
  <2>5. \A f \in tracked : disk'[f] = Restored(f, i)
    BY <1>3, <2>1
  <2>6. \A f \in File \ tracked : disk'[f] = disk[f]
    BY <2>1
  <2>7. ASSUME NEW f \in File PROVE Restored(f, i) \in Texts(writes)
    <3> DEFINE kept == {e \in Target(f, i) : Kept(f, e)}
               e == CHOOSE e \in kept : TRUE
    <3>1. disk[f] \in Texts(writes) /\ Gone \in Texts(writes)
          /\ \A n \in DOMAIN backup : backup[n] \in Texts(writes)
      BY <1>1 DEF Written, Texts
    <3>2. kept # {} => e \in kept
      OBVIOUS
    <3>3. kept # {} => <<f, e.version>> \in DOMAIN backup
      BY <3>2 DEF Kept
    <3>4. Restored(f, i) = IF \E g \in Target(f, i) : ~g.named THEN Gone
                           ELSE IF kept # {} THEN backup[<<f, e.version>>] ELSE disk[f]
      BY DEF Restored
    <3> HIDE DEF kept, e
    <3> QED BY <3>1, <3>3, <3>4
  <2>8. Pristine' /\ Written'
    BY <1>1, <1>3, <2>5, <2>6, <2>7 DEF Pristine, Written
  <2>9. ASSUME Applies(i), m \notin late, NEW f \in File \ (adrift \cup was[m].missed)
        PROVE  Fit(was, writes, m, f, disk'[f])
    <3>1. CASE f \notin tracked
      BY <1>1, <2>3, <2>6, <3>1 DEF Pristine
    <3>2. CASE f \in tracked
      <4>1. PICK e : /\ Target(f, i) = {e} /\ Fit(was, writes, m, f, e.text)
                     /\ e.named <=> e.text # Gone
                     /\ Kept(f, e) => backup[<<f, e.version>>] = e.text
        BY <2>2, <2>9, <3>2, TargetFits
      <4>2. CASE ~e.named
        <5>1. Restored(f, i) = Gone
          BY <4>1, <4>2 DEF Restored
        <5> QED BY <2>5, <3>2, <4>1, <4>2, <5>1
      <4>3. CASE e.named
        <5>1. Kept(f, e)
          BY <2>9, <3>2, <4>1, <4>3 DEF Applies
        <5>2. {g \in Target(f, i) : Kept(f, g)} = {e}
          BY <4>1, <5>1
        <5>3. ~ \E g \in Target(f, i) : ~g.named
          BY <4>1, <4>3
        <5>4. (CHOOSE g \in {e} : TRUE) = e
          OBVIOUS
        <5>5. Restored(f, i) = backup[<<f, e.version>>]
          BY <5>2, <5>3, <5>4 DEF Restored
        <5> QED BY <2>5, <3>2, <4>1, <5>1, <5>5
      <4> QED BY <4>2, <4>3
    <3> QED BY <3>1, <3>2
  <2>10. RewindUndoes'
    <3>1. \A f : Since(was, writes, m, f) =
                   {n \in (was[m].writes + 1)..Len(writes) : writes[n].file = f}
      BY DEF Since
    <3> QED BY <2>4, <2>9, <3>1 DEF Fit, RewindUndoes
  <2> QED BY <1>2, <2>8, <2>10 DEF UndoInv
<1> QED BY <1>4, <1>5

-----------------------------------------------------------------------------
(* Rewinds undo.                                                           *)

\* At the start there is nothing to undo.
LEMMA InitUndo == Init => RewindInv /\ RewindUndoes
<1> SUFFICES ASSUME Init PROVE RewindInv /\ RewindUndoes
  OBVIOUS
<1> DEFINE s == <<Blank>>
<1>1. FileInv
  BY InitInv
<1>2. /\ snapshots = s /\ stored.snapshots = s /\ tracked = {} /\ backup = Empty /\ adrift = {}
      /\ writes = <<>> /\ was = <<>> /\ messages = 0 /\ turn = Nobody /\ late = {}
      /\ disk \in [File -> {0, Gone}] /\ result = NoResult
  BY DEF Init
<1>3. /\ Len(s) = 1 /\ s[1].entries = Empty /\ s[1].message = Nobody /\ DOMAIN Empty = {}
      /\ Len(writes) = 0 /\ Len(was) = 0
  BY <1>2 DEF Blank, Empty
<1> HIDE DEF s
<1>4. \A i \in 1..Len(s) : i = 1
  BY <1>3
<1>5. Faithful(s, was, writes, {}, {})
  <2>1. Titled(s, was) /\ Plain(s, writes) /\ Own(s, was, writes, {}, {})
    BY <1>3, <1>4 DEF Titled, Plain, Own
  <2>2. First(s, was, writes, {}) /\ Begins(s, {})
    BY <1>3, <1>4 DEF First, Begins
  <2> QED BY <2>1, <2>2 DEF Faithful
<1>6. Backed
  BY <1>2, <1>3 DEF Backed, Unbacked
<1>7. Pristine /\ Counted
  BY <1>2, <1>3 DEF Pristine, Counted
<1>8. Written
  BY <1>2, <1>3 DEF Written, Texts
<1>9. RewindUndoes
  BY <1>2 DEF RewindUndoes, NoResult
<1> QED BY <1>1, <1>2, <1>5, <1>6, <1>7, <1>8, <1>9 DEF RewindInv, UndoInv

\* Nothing is promised while no rewind has just ended.
LEMMA SilentUndoes ==
  ASSUME result' = NoResult
  PROVE  RewindUndoes'
BY DEF RewindUndoes, NoResult

\* Every step.
LEMMA StepUndo ==
  ASSUME RewindInv, RewindUndoes, [Next]_vars
  PROVE  UndoInv' /\ RewindUndoes'
<1>1. FileInv /\ UndoInv
  BY DEF RewindInv
<1>2. CASE Query
  BY <1>2, QueryUndo, SilentUndoes DEF Query, StartTurns
<1>3. CASE RunSkill
  BY <1>3, SkillUndo, SilentUndoes DEF RunSkill
<1>4. CASE SkillDone
  <2>1. PICK failed \in SUBSET Unreadable :
          /\ UNCHANGED <<turn, messages, was>> /\ StartTurns(turn, failed)
          /\ late' = late \cup {turn}
    BY <1>4 DEF SkillDone
  <2>2. result' = NoResult /\ late \subseteq late' /\ turn \in late' \cup {Nobody}
    BY <2>1 DEF StartTurns
  <2> QED BY <2>1, <2>2, LateUndo, SilentUndoes
<1>5. CASE ProcessAttachments
  <2>1. PICK failed \in SUBSET Unreadable :
          /\ UNCHANGED <<turn, messages, was>> /\ StartTurns(turn, failed)
          /\ late' = late \cup ({turn} \ {Nobody})
    BY <1>5 DEF ProcessAttachments
  <2>2. result' = NoResult /\ late \subseteq late' /\ turn \in late' \cup {Nobody}
    BY <2>1 DEF StartTurns
  <2> QED BY <2>1, <2>2, LateUndo, SilentUndoes
<1>6. CASE EndQuery
  <2>1. result' = NoResult
        /\ UNCHANGED <<disk, backup, snapshots, tracked, turn, stored, writes, was, late, messages,
                       adrift>>
    BY <1>6 DEF EndQuery, tracker, ghosts, counts
  <2> QED BY <1>1, <2>1, SilentUndoes DEF UndoInv, Backed, Pristine, Counted, Written
<1>7. ASSUME NEW f \in File, TrackEdit(f) PROVE UndoInv' /\ RewindUndoes'
  BY <1>7, TrackUndo, SilentUndoes DEF TrackEdit
<1>8. ASSUME NEW f \in File, WriteFile(f) \/ ByHand(f) PROVE UndoInv' /\ RewindUndoes'
  <2>1. result' = NoResult
    BY <1>8 DEF WriteFile, ByHand
  <2> QED BY <1>8, <2>1, WriteUndo, SilentUndoes
<1>9. ASSUME NEW k \in 1..Len(talk), RewindAll(k) \/ RewindFilesOnly(k)
      PROVE  UndoInv' /\ RewindUndoes'
  <2>1. /\ RestoreFiles(talk[k])
        /\ UNCHANGED <<backup, snapshots, tracked, stored, turn, writes, was, late, messages, adrift>>
    BY <1>9 DEF RewindAll, RewindFilesOnly, tracker, chat, ghosts
  <2>2. talk[k] \in Nat
    BY <1>1, ElementOfSeq DEF FileInv, TypeOK
  <2> QED BY <2>1, <2>2, RestoreUndoes
<1>10. ASSUME NEW k \in 1..Len(talk), RewindMessagesOnly(k) PROVE UndoInv' /\ RewindUndoes'
  BY <1>10, TruncateUndo, SilentUndoes DEF RewindMessagesOnly
<1>11. CASE CleanupOldBackups
  <2>1. /\ backup' = Empty /\ result' = NoResult
        /\ UNCHANGED <<disk, snapshots, tracked, turn, stored, writes, was, late, messages, adrift>>
    BY <1>11 DEF CleanupOldBackups, tracker, chat, ghosts
  <2>2. DOMAIN backup' = {}
    BY <2>1 DEF Empty
  <2>3. Backed' /\ Pristine' /\ Counted' /\ Written'
    BY <1>1, <2>1, <2>2 DEF UndoInv, Backed, Pristine, Counted, Written
  <2> QED BY <1>1, <2>1, <2>3, SilentUndoes DEF UndoInv
<1>12. CASE Restart
  BY <1>12, RestartUndo, SilentUndoes DEF Restart
<1>13. CASE UNCHANGED vars
  <2>1. UNCHANGED <<disk, backup, snapshots, tracked, turn, stored, result, writes, was, late,
                    messages, adrift>>
    BY <1>13 DEF vars, tracker, chat, ghosts, counts
  <2>2. UndoInv'
    BY <1>1, <2>1 DEF UndoInv, Backed, Pristine, Counted, Written
  <2>3. RewindUndoes'
    BY <2>1 DEF RewindUndoes
  <2> QED BY <2>2, <2>3
<1> QED
  BY <1>2, <1>3, <1>4, <1>5, <1>6, <1>7, <1>8, <1>9, <1>10, <1>11, <1>12, <1>13 DEF Next

\* A rewind that reports no error puts a file back to what it was when the message was asked, or
\* leaves at least no text of the agent's, after any edits, rewinds, evictions and restarts, for
\* any files, bounds and copies that fail (Rewind, ApplySnapshot and MakeSnapshot, tracker.go).
THEOREM RewindsUndo == Spec => []RewindUndoes
<1> DEFINE I == RewindInv /\ RewindUndoes
<1>1. Init => I
  BY InitUndo
<1>2. I /\ [Next]_vars => I'
  BY StepInv, StepUndo DEF RewindInv
<1> QED BY <1>1, <1>2, PTL DEF Spec
=============================================================================
