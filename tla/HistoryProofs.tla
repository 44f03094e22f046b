--------------------------- MODULE HistoryProofs ---------------------------
(***************************************************************************)
(* What History.tla keeps true for any number of messages and rare events. *)
(***************************************************************************)
EXTENDS History, SequenceTheorems, FiniteSetTheorems, WellFoundedInduction, TLAPS

Id == 1..MaxId

Distinct(s) == \A i, j \in 1..Len(s) : s[i].id = s[j].id => i = j

Table == {rs \in Seq(Rows) : Distinct(rs)}

-----------------------------------------------------------------------------
(* Recursive functions.  One is the CHOOSE of its equation: that a         *)
(* solution exists follows from the least number it does not reach.        *)

\* A set of naturals has a least element.
LEMMA Least ==
  ASSUME NEW S, S \subseteq Nat, S # {}
  PROVE  \E m \in S : \A n \in S : m <= n
<1> DEFINE R == OpToRel(<, Nat)
<1>1. \E m \in S : \A n \in S : <<n, m>> \notin R
  BY NatLessThanWellFounded, WFMin
<1>2. \A n, m \in Nat : n < m => <<n, m>> \in R
  BY DEF OpToRel
<1> HIDE DEF R
<1>3. PICK m \in S : \A n \in S : <<n, m>> \notin R
  BY <1>1
<1>4. ASSUME NEW n \in S PROVE m <= n
  <2>1. n \in Nat /\ m \in Nat /\ ~(n < m)
    BY <1>2, <1>3
  <2> QED
    BY <2>1
<1> QED
  BY <1>4

\* Induction, for a property given as a set.
LEMMA UpTo ==
  ASSUME NEW n \in Nat, NEW S, 0 \in S, \A i \in 1..n : i - 1 \in S => i \in S
  PROVE  \A i \in 0..n : i \in S
<1> DEFINE Bad == (0..n) \ S
<1>1. SUFFICES ASSUME Bad # {} PROVE FALSE
  OBVIOUS
<1>2. PICK m \in Bad : \A k \in Bad : m <= k
  <2>1. Bad \subseteq Nat
    OBVIOUS
  <2> HIDE DEF Bad
  <2> QED
    BY <1>1, <2>1, Least
<1>3. m \in 1..n /\ m - 1 \in 0..n /\ m - 1 < m
  BY <1>2
<1>4. m - 1 \notin Bad
  BY <1>2, <1>3
<1> QED
  BY <1>2, <1>3, <1>4

Iterates(f, n, A, a, step) ==
  /\ f \in [0..n -> A]
  /\ f[0] = a
  /\ \A i \in 1..n : f[i] = step[<<i, f[i - 1]>>]

\* A function given by its start and its step exists.
LEMMA Recursion ==
  ASSUME NEW n \in Nat, NEW A, NEW a \in A, NEW step \in [(1..n) \X A -> A]
  PROVE  \E f : Iterates(f, n, A, a, step)
<1> DEFINE S == {m \in 0..n : \E f \in [0..m -> A] :
                    f[0] = a /\ \A i \in 1..m : f[i] = step[<<i, f[i - 1]>>]}
<1>1. 0 \in S
  <2> DEFINE f == [i \in 0..0 |-> a]
  <2>1. f \in [0..0 -> A] /\ f[0] = a
    OBVIOUS
  <2> HIDE DEF f
  <2> QED
    BY <2>1
<1>2. ASSUME NEW m \in 1..n, m - 1 \in S PROVE m \in S
  <2>1. m \in Nat /\ m - 1 \in Nat /\ m - 1 \in 0..(m - 1) /\ m \in 0..n
    OBVIOUS
  <2>2. PICK f \in [0..(m-1) -> A] : f[0] = a /\ \A i \in 1..(m-1) : f[i] = step[<<i, f[i - 1]>>]
    BY <1>2
  <2> DEFINE g == [i \in 0..m |-> IF i = m THEN step[<<m, f[m - 1]>>] ELSE f[i]]
  <2>3. /\ g \in [0..m -> A] /\ g[m] = step[<<m, f[m - 1]>>]
        /\ \A i \in 0..(m-1) : g[i] = f[i]
    <3>1. step[<<m, f[m - 1]>>] \in A
      BY <2>1, <2>2
    <3>2. \A i \in 0..m : i = m \/ i \in 0..(m-1)
      BY <2>1
    <3>3. \A i \in 0..(m-1) : i \in 0..m /\ i # m
      BY <2>1
    <3> QED
      BY <2>1, <2>2, <3>1, <3>2, <3>3
  <2> HIDE DEF g
  <2>4. g[0] = a
    BY <2>1, <2>2, <2>3
  <2>5. ASSUME NEW i \in 1..m PROVE g[i] = step[<<i, g[i - 1]>>]
    <3>1. i - 1 \in 0..(m-1)
      BY <2>1
    <3>2. i = m \/ (i \in 1..(m-1) /\ i \in 0..(m-1))
      BY <2>1
    <3> QED
      BY <2>2, <2>3, <3>1, <3>2
  <2> QED
    BY <2>1, <2>3, <2>4, <2>5
<1> HIDE DEF S
<1>3. \A i \in 0..n : i \in S
  BY <1>1, <1>2, UpTo
<1>4. n \in S
  BY <1>3
<1> QED
  BY <1>4 DEF S, Iterates

-----------------------------------------------------------------------------
(* Rows and tables.                                                        *)

\* The fields of a row and of a message.
LEMMA Fields ==
  /\ \A r \in Rows : /\ r.id \in Id /\ r.parent \in 0..MaxId /\ r.kind \in Kinds
                     /\ r.seg \in {NoSeg, Stale} \cup Id \X Id \X Id
  /\ \A m \in Messages : m.id \in 0..MaxId /\ m.kind \in Kinds
BY DEF Rows, Messages, Id

\* A table has positions, and a row for each of its uuids.
LEMMA TableIs ==
  ASSUME NEW rs \in Table
  PROVE  /\ rs \in Seq(Rows) /\ Len(rs) \in Nat /\ DOMAIN rs = 1..Len(rs)
         /\ \A i \in 1..Len(rs) : rs[i] \in Rows
         /\ IdsOf(rs) = {rs[i].id : i \in 1..Len(rs)}
         /\ \A i, j \in 1..Len(rs) : rs[i].id = rs[j].id => i = j
         /\ \A i \in 1..Len(rs) : RowOf(rs, rs[i].id) = rs[i]
<1>1. rs \in Seq(Rows) /\ Distinct(rs)
  BY DEF Table
<1>2. Len(rs) \in Nat /\ DOMAIN rs = 1..Len(rs) /\ \A i \in 1..Len(rs) : rs[i] \in Rows
  BY <1>1, LenProperties, ElementOfSeq
<1>3. \A i, j \in 1..Len(rs) : rs[i].id = rs[j].id => i = j
  BY <1>1 DEF Distinct
<1>4. ASSUME NEW i \in 1..Len(rs) PROVE RowOf(rs, rs[i].id) = rs[i]
  <2> DEFINE j == CHOOSE j \in DOMAIN rs : rs[j].id = rs[i].id
  <2>1. j \in DOMAIN rs /\ rs[j].id = rs[i].id
    BY <1>2
  <2>2. RowOf(rs, rs[i].id) = rs[j]
    BY DEF RowOf
  <2> HIDE DEF j
  <2> QED BY <1>2, <1>3, <2>1, <2>2
<1> QED BY <1>1, <1>2, <1>3, <1>4 DEF IdsOf

\* r is the rows of the first n positions of s that X does not name, in their order, e says where
\* they were.
Selects(e, s, n, r, X) ==
  /\ e \in [1..Len(r) -> 1..n]
  /\ \A i \in 1..Len(r) : r[i] = s[e[i]]
  /\ \A i, j \in 1..Len(r) : i < j => e[i] < e[j]
  /\ \A k \in 1..n : s[k].id \notin X <=> \E i \in 1..Len(r) : e[i] = k

RestOf(k, s, X) ==
  /\ k \in [0..Len(s) -> Seq(Rows)]
  /\ k[0] = <<>>
  /\ \A i \in 1..Len(s) : k[i] = IF s[i].id \in X THEN k[i - 1] ELSE Append(k[i - 1], s[i])
  /\ Without(s, X) = k[Len(s)]

\* The recursive function of Without exists and unfolds.
LEMMA WithoutUnfolds ==
  ASSUME NEW s \in Seq(Rows), NEW X
  PROVE  \E k : RestOf(k, s, X)
<1> DEFINE E(g) == [i \in 0..Len(s) |->
        IF i = 0 THEN <<>>
        ELSE IF s[i].id \in X THEN g[i - 1] ELSE Append(g[i - 1], s[i])]
    rest == CHOOSE g : g = E(g)
    A == Seq(Rows)
    none == <<>>
    m == Len(s)
    step == [p \in (1..Len(s)) \X A |-> IF s[p[1]].id \in X THEN p[2] ELSE Append(p[2], s[p[1]])]
<1>1. /\ m \in Nat /\ none \in A
      /\ \A i \in 1..m, t \in A : Append(t, s[i]) \in A
  BY LenProperties, EmptySeq, ElementOfSeq, AppendProperties
<1>2. \A i \in 1..m, t \in A :
        step[<<i, t>>] = IF s[i].id \in X THEN t ELSE Append(t, s[i])
  OBVIOUS
<1>3. step \in [(1..m) \X A -> A]
  BY <1>1
<1> HIDE DEF step, A, none, m
<1>4. PICK k : Iterates(k, m, A, none, step)
  BY <1>1, <1>3, Recursion
<1>5. /\ k \in [0..m -> A] /\ k[0] = none
      /\ \A i \in 1..m : k[i] = IF s[i].id \in X THEN k[i - 1] ELSE Append(k[i - 1], s[i])
  <2>1. \A i \in 1..m : i - 1 \in 0..m
    BY <1>1
  <2> QED
    BY <1>2, <1>4, <2>1 DEF Iterates
<1>6. k = E(k)
  <2>1. \A i \in 0..m : i = 0 \/ i \in 1..m
    BY <1>1
  <2>2. k = [i \in 0..m |-> k[i]]
    BY <1>5
  <2>3. \A i \in 0..m : k[i] = IF i = 0 THEN none
                               ELSE IF s[i].id \in X THEN k[i - 1] ELSE Append(k[i - 1], s[i])
    BY <1>5, <2>1
  <2> QED
    BY <2>2, <2>3 DEF m, none
<1>7. rest = E(rest)
  <2> HIDE DEF E
  <2> QED
    BY <1>6
<1>8. Without(s, X) = rest[m]
  BY DEF Without, m
<1> HIDE DEF rest
<1>9. \A i \in 0..m : rest[i] = IF i = 0 THEN none
                ELSE IF s[i].id \in X THEN rest[i - 1] ELSE Append(rest[i - 1], s[i])
  BY <1>7 DEF m, none
<1> HIDE DEF E
<1>10. rest[m] = k[m]
  <2> DEFINE S == {i \in 0..m : rest[i] = k[i]}
  <2>1. 0 \in S
    BY <1>1, <1>5, <1>9
  <2>2. ASSUME NEW i \in 1..m, i - 1 \in S PROVE i \in S
    <3>1. i \in 0..m /\ i # 0
      BY <1>1
    <3> QED
      BY <1>5, <1>9, <2>2, <3>1
  <2>3. \A i \in 0..m : i \in S
    <3> HIDE DEF S
    <3> QED
      BY <1>1, <2>1, <2>2, UpTo
  <2> QED
    BY <1>1, <2>3
<1> QED
  BY <1>5, <1>8, <1>10 DEF RestOf, A, m, none

\* What is left keeps its order.
LEMMA WithoutIs ==
  ASSUME NEW s \in Seq(Rows), NEW X
  PROVE  /\ Without(s, X) \in Seq(Rows)
         /\ \E e : Selects(e, s, Len(s), Without(s, X), X)
<1> DEFINE m == Len(s)
<1>1. PICK k : RestOf(k, s, X)
  BY WithoutUnfolds
<1>2. /\ k \in [0..m -> Seq(Rows)] /\ k[0] = <<>>
      /\ \A i \in 1..m : k[i] = IF s[i].id \in X THEN k[i - 1] ELSE Append(k[i - 1], s[i])
      /\ Without(s, X) = k[m]
  BY <1>1 DEF RestOf
<1>3. m \in Nat /\ \A i \in 1..m : s[i] \in Rows
  BY LenProperties, ElementOfSeq
<1> HIDE DEF m
<1> DEFINE S == {i \in 0..m : \E e : Selects(e, s, i, k[i], X)}
<1>4. 0 \in S
  <2> DEFINE e == [i \in {} |-> 0]
  <2>1. Len(k[0]) = 0 /\ 1..0 = {}
    BY <1>2, EmptySeq
  <2>2. Selects(e, s, 0, k[0], X)
    BY <2>1 DEF Selects
  <2> QED BY <1>3, <2>2
<1>5. ASSUME NEW i \in 1..m, i - 1 \in S PROVE i \in S
  <2>1. i \in 0..m /\ i - 1 \in 0..m /\ k[i - 1] \in Seq(Rows) /\ i \in Nat
    BY <1>2, <1>3
  <2>2. PICK e : Selects(e, s, i - 1, k[i - 1], X)
    BY <1>5
  <2> DEFINE r == k[i - 1]
             l == Len(r)
  <2>3. /\ e \in [1..l -> 1..(i - 1)] /\ \A j \in 1..l : r[j] = s[e[j]]
        /\ \A g, h \in 1..l : g < h => e[g] < e[h]
        /\ \A j \in 1..(i - 1) : s[j].id \notin X <=> \E h \in 1..l : e[h] = j
    BY <2>2 DEF Selects
  <2>4. l \in Nat /\ \A j \in 1..l : e[j] \in 1..(i - 1) /\ e[j] \in 1..i /\ e[j] < i
    <3>1. l \in Nat
      BY <2>1, LenProperties
    <3>2. \A h \in 1..(i - 1) : h \in 1..i /\ h < i
      BY <2>1
    <3> QED BY <2>3, <3>1, <3>2
  <2>5. \A j \in 1..i : j = i \/ j \in 1..(i - 1)
    BY <2>1
  <2>6. CASE s[i].id \in X
    <3>1. k[i] = r
      BY <1>2, <2>6
    <3>2. e \in [1..l -> 1..i]
      BY <2>3, <2>4
    <3>3. \A j \in 1..i : s[j].id \notin X <=> \E h \in 1..l : e[h] = j
      BY <2>3, <2>4, <2>5, <2>6
    <3>4. Selects(e, s, i, k[i], X)
      BY <2>3, <3>1, <3>2, <3>3 DEF Selects
    <3> QED BY <2>1, <3>4
  <2>7. CASE s[i].id \notin X
    <3> DEFINE f == [j \in 1..(l + 1) |-> IF j = l + 1 THEN i ELSE e[j]]
               t == k[i]
    <3>1. t = Append(r, s[i])
      BY <1>2, <2>7
    <3> HIDE DEF l, r
    <3>2. Len(t) = l + 1 /\ t[l + 1] = s[i] /\ \A j \in 1..l : t[j] = r[j]
      BY <1>3, <2>1, <3>1, AppendProperties DEF r, l
    <3> HIDE DEF t
    <3>3. \A j \in 1..(l + 1) : j = l + 1 \/ (j \in 1..l /\ j # l + 1)
      BY <2>4
    <3>4. \A j \in 1..l : j \in 1..(l + 1) /\ j < l + 1
      BY <2>4
    <3>5. l + 1 \in 1..(l + 1) /\ i \in 1..i
      BY <2>1, <2>4
    <3>6. f \in [1..(l + 1) -> 1..i]
      BY <2>4, <3>3, <3>5
    <3>7. f[l + 1] = i /\ \A j \in 1..l : f[j] = e[j]
      BY <3>3, <3>4, <3>5
    <3> HIDE DEF f
    <3>8. \A j \in 1..(l + 1) : t[j] = s[f[j]]
      BY <2>3, <3>2, <3>3, <3>7
    <3>9. ASSUME NEW g \in 1..(l + 1), NEW h \in 1..(l + 1), g < h PROVE f[g] < f[h]
      <4>1. g \in 1..l
        BY <2>4, <3>9
      <4>2. CASE h = l + 1
        BY <2>4, <3>7, <4>1, <4>2
      <4>3. CASE h \in 1..l
        BY <2>3, <3>7, <3>9, <4>1, <4>3
      <4> QED BY <3>3, <4>2, <4>3
    <3>10. ASSUME NEW j \in 1..i PROVE s[j].id \notin X <=> \E h \in 1..(l + 1) : f[h] = j
      <4>1. CASE j = i
        BY <2>7, <3>5, <3>7, <4>1
      <4>2. CASE j # i
        <5>1. j \in 1..(i - 1)
          BY <2>5, <4>2
        <5>2. s[j].id \notin X <=> \E h \in 1..l : e[h] = j
          BY <2>3, <5>1
        <5> QED BY <3>3, <3>4, <3>7, <4>2, <5>2
      <4> QED BY <4>1, <4>2
    <3>11. Selects(f, s, i, t, X)
      BY <3>2, <3>6, <3>8, <3>9, <3>10 DEF Selects
    <3> QED BY <2>1, <3>11 DEF t
  <2> QED BY <2>6, <2>7
<1>6. m \in S
  <2> HIDE DEF S
  <2>1. \A i \in 0..m : i \in S
    BY <1>3, <1>4, <1>5, UpTo
  <2> QED BY <1>3, <2>1
<1> QED BY <1>2, <1>3, <1>6 DEF m

-----------------------------------------------------------------------------
(* Appending.                                                              *)

\* New messages: their uuids differ, the table has none of them, none is a boundary.
Batch(rs, ms) ==
  /\ ms \in Seq(Messages)
  /\ \A i \in 1..Len(ms) : ms[i].id \in Id /\ ms[i].kind # "boundary" /\ ms[i].id \notin IdsOf(rs)
  /\ Distinct(ms)

Before(ms, start, i) == IF i = 1 THEN start ELSE ms[i - 1].id

\* R is rs and behind it a row for each of the first n messages, linked behind start.
Extended(R, rs, ms, n, start) ==
  /\ R \in Seq(Rows) /\ Len(R) = Len(rs) + n
  /\ \A i \in 1..Len(rs) : R[i] = rs[i]
  /\ \A i \in 1..n : R[Len(rs) + i] = RowFrom(ms[i], Before(ms, start, i))

Start(rs, fork) == IF fork # None THEN fork ELSE LastChainUUID(rs)
Acc == [rows : Seq(Rows), last : 0..MaxId]

Appends(k, rs, ms, fork) ==
  /\ k \in [0..Len(ms) -> Acc]
  /\ k[0] = [rows |-> rs, last |-> Start(rs, fork)]
  /\ \A i \in 1..Len(ms) : k[i] = AppendOne(k[i - 1], ms[i])
  /\ AppendMessages(rs, ms, fork) = k[Len(ms)].rows

\* What the first message is linked behind is a uuid, or none.
LEMMA StartType ==
  ASSUME NEW rs \in Table, NEW fork \in 0..MaxId
  PROVE  Start(rs, fork) \in 0..MaxId
<1>1. CASE rs = <<>>
  BY <1>1, HistoryAssumption DEF Start, LastChainUUID, None
<1>2. CASE rs # <<>>
  <2>1. Len(rs) \in 1..Len(rs)
    BY <1>2, TableIs, EmptySeq
  <2>2. Last(rs) = rs[Len(rs)]
    BY DEF Last
  <2>3. rs[Len(rs)].id \in 0..MaxId
    BY <2>1, TableIs, Fields, HistoryAssumption DEF Id
  <2> QED BY <1>2, <2>2, <2>3 DEF Start, LastChainUUID
<1> QED BY <1>1, <1>2

\* A row made of a message is a row.
LEMMA RowFromType ==
  ASSUME NEW m \in Messages, m.id \in Id, NEW p \in 0..MaxId
  PROVE  RowFrom(m, p) \in Rows
BY Fields DEF RowFrom, Rows, Id

\* One message of a batch.
LEMMA AppendOneType ==
  ASSUME NEW a \in Acc, NEW m \in Messages, m.id \in Id
  PROVE  AppendOne(a, m) \in Acc
<1>1. a.rows \in Seq(Rows) /\ a.last \in 0..MaxId /\ m.id \in 0..MaxId /\ None \in 0..MaxId
  BY HistoryAssumption DEF Acc, Id, None
<1> DEFINE p == IF m.kind = "boundary" THEN None ELSE a.last
           r == IF m.id \in IdsOf(a.rows) THEN a.rows ELSE Append(a.rows, RowFrom(m, p))
<1>2. RowFrom(m, p) \in Rows
  BY <1>1, RowFromType
<1>3. Append(a.rows, RowFrom(m, p)) \in Seq(Rows)
  <2> HIDE DEF p
  <2> QED BY <1>1, <1>2, AppendProperties
<1>4. r \in Seq(Rows)
  BY <1>1, <1>3
<1>5. AppendOne(a, m) = [rows |-> r, last |-> m.id]
  BY DEF AppendOne
<1> HIDE DEF r
<1> QED BY <1>1, <1>4, <1>5 DEF Acc

\* The recursive function of AppendMessages exists and unfolds.
LEMMA AppendsUnfolds ==
  ASSUME NEW rs \in Table, NEW ms, Batch(rs, ms), NEW fork \in 0..MaxId
  PROVE  \E k : Appends(k, rs, ms, fork)
<1> DEFINE none == [rows |-> rs, last |-> Start(rs, fork)]
    E(g) == [i \in 0..Len(ms) |-> IF i = 0 THEN none ELSE AppendOne(g[i - 1], ms[i])]
    acc == CHOOSE g : g = E(g)
    m == Len(ms)
    step == [p \in (1..Len(ms)) \X Acc |-> AppendOne(p[2], ms[p[1]])]
<1>0. AppendMessages(rs, ms, fork) = acc[Len(ms)].rows
  BY DEF AppendMessages, Start
<1>1. /\ m \in Nat /\ none \in Acc
      /\ \A i \in 1..m, t \in Acc : AppendOne(t, ms[i]) \in Acc
  <2>1. m \in Nat /\ \A i \in 1..m : ms[i] \in Messages /\ ms[i].id \in Id
    BY LenProperties, ElementOfSeq DEF Batch
  <2>2. rs \in Seq(Rows) /\ Start(rs, fork) \in 0..MaxId
    BY StartType, TableIs
  <2>3. none \in Acc
    BY <2>2 DEF Acc
  <2> QED BY <2>1, <2>3, AppendOneType
<1>2. \A i \in 1..m, t \in Acc : step[<<i, t>>] = AppendOne(t, ms[i])
  OBVIOUS
<1>3. step \in [(1..m) \X Acc -> Acc]
  BY <1>1
<1> HIDE DEF step, none, m
<1>4. PICK k : Iterates(k, m, Acc, none, step)
  BY <1>1, <1>3, Recursion
<1>5. /\ k \in [0..m -> Acc] /\ k[0] = none
      /\ \A i \in 1..m : k[i] = AppendOne(k[i - 1], ms[i])
  <2>1. \A i \in 1..m : i - 1 \in 0..m
    BY <1>1
  <2> QED
    BY <1>2, <1>4, <2>1 DEF Iterates
<1>6. k = E(k)
  <2>1. \A i \in 0..m : i = 0 \/ i \in 1..m
    BY <1>1
  <2>2. k = [i \in 0..m |-> k[i]]
    BY <1>5
  <2>3. \A i \in 0..m : k[i] = IF i = 0 THEN none ELSE AppendOne(k[i - 1], ms[i])
    BY <1>5, <2>1
  <2> QED
    BY <2>2, <2>3 DEF m
<1>7. acc = E(acc)
  <2> HIDE DEF E
  <2> QED
    BY <1>6
<1> HIDE DEF acc
<1>9. \A i \in 0..m : acc[i] = IF i = 0 THEN none ELSE AppendOne(acc[i - 1], ms[i])
  BY <1>7 DEF m
<1> HIDE DEF E
<1>10. acc[m] = k[m]
  <2> DEFINE S == {i \in 0..m : acc[i] = k[i]}
  <2>1. 0 \in S
    BY <1>1, <1>5, <1>9
  <2>2. ASSUME NEW i \in 1..m, i - 1 \in S PROVE i \in S
    <3>1. i \in 0..m /\ i # 0
      BY <1>1
    <3> QED
      BY <1>5, <1>9, <2>2, <3>1
  <2>3. \A i \in 0..m : i \in S
    <3> HIDE DEF S
    <3> QED
      BY <1>1, <2>1, <2>2, UpTo
  <2> QED
    BY <1>1, <2>3
<1> QED
  BY <1>0, <1>5, <1>10 DEF Appends, m, none

\* A batch of new messages is appended as it is, linked behind the fork point or the last row.
LEMMA AppendIs ==
  ASSUME NEW rs \in Table, NEW ms, Batch(rs, ms), NEW fork \in 0..MaxId
  PROVE  Extended(AppendMessages(rs, ms, fork), rs, ms, Len(ms), Start(rs, fork))
<1> DEFINE m == Len(ms)
           l == Len(rs)
           start == Start(rs, fork)
<1>1. PICK k : Appends(k, rs, ms, fork)
  BY AppendsUnfolds
<1>2. /\ k \in [0..m -> Acc] /\ k[0] = [rows |-> rs, last |-> start]
      /\ \A i \in 1..m : k[i] = AppendOne(k[i - 1], ms[i])
      /\ AppendMessages(rs, ms, fork) = k[m].rows
  BY <1>1 DEF Appends
<1>3. /\ m \in Nat /\ l \in Nat /\ rs \in Seq(Rows)
      /\ \A i \in 1..m : ms[i] \in Messages /\ ms[i].id \in Id /\ ms[i].kind # "boundary"
      /\ \A i \in 1..m : ms[i].id \notin IdsOf(rs)
      /\ \A i, j \in 1..m : ms[i].id = ms[j].id => i = j
      /\ IdsOf(rs) = {rs[i].id : i \in 1..l}
  BY LenProperties, ElementOfSeq, TableIs DEF Batch, Distinct
<1>4. start \in 0..MaxId
  BY StartType
<1> HIDE DEF m, l, start
<1> DEFINE S == {i \in 0..m : /\ k[i].last = (IF i = 0 THEN start ELSE ms[i].id)
                              /\ Extended(k[i].rows, rs, ms, i, start)}
<1>5. 0 \in S
  <2>1. k[0].rows = rs /\ k[0].last = start /\ l + 0 = l /\ 1..0 = {} /\ 0 \in 0..m
    BY <1>2, <1>3
  <2>2. Extended(rs, rs, ms, 0, start)
    BY <1>3, <2>1 DEF Extended, l
  <2> QED BY <2>1, <2>2
<1>6. ASSUME NEW i \in 1..m, i - 1 \in S PROVE i \in S
  <2> DEFINE a == k[i - 1]
             r == a.rows
             new == RowFrom(ms[i], Before(ms, start, i))
  <2>1. i \in 0..m /\ i - 1 \in 0..m /\ i \in Nat /\ i # 0
    BY <1>3
  <2>2. a \in Acc /\ r \in Seq(Rows)
    BY <1>2, <2>1 DEF Acc
  <2>3. a.last = Before(ms, start, i)
    BY <1>6, <2>1 DEF Before
  <2>4. /\ Len(r) = l + (i - 1) /\ \A j \in 1..l : r[j] = rs[j]
        /\ \A j \in 1..(i - 1) : r[l + j] = RowFrom(ms[j], Before(ms, start, j))
    BY <1>6 DEF Extended, l
  <2>5. ms[i].id \notin IdsOf(r)
    <3> SUFFICES ASSUME NEW h \in 1..Len(r), r[h].id = ms[i].id PROVE FALSE
      <4>1. DOMAIN r = 1..Len(r)
        BY <2>2, LenProperties
      <4> QED BY <4>1 DEF IdsOf
    <3>1. CASE h <= l
      <4>1. h \in 1..l
        BY <3>1, <1>3, <2>4, <2>1
      <4> QED BY <1>3, <2>4, <4>1
    <3>2. CASE h > l
      <4>1. h - l \in 1..(i - 1) /\ l + (h - l) = h /\ h - l # i /\ h - l \in 1..m
        BY <3>2, <1>3, <2>4, <2>1
      <4>2. PICK q \in 1..(i - 1) : l + q = h /\ q # i /\ q \in 1..m
        BY <4>1
      <4>3. r[h] = RowFrom(ms[q], Before(ms, start, q))
        BY <2>4, <4>2
      <4>4. r[h].id = ms[q].id
        BY <4>3 DEF RowFrom
      <4> QED BY <1>3, <4>2, <4>4
    <3>3. h <= l \/ h > l
      BY <1>3, <2>1, <2>4
    <3> QED BY <3>1, <3>2, <3>3
  <2>6. k[i].last = ms[i].id /\ k[i].rows = Append(r, new)
    <3>1. k[i] = AppendOne(a, ms[i]) /\ ms[i].kind # "boundary"
      BY <1>2, <1>3
    <3> HIDE DEF r, a, new
    <3>2. RowFrom(ms[i], IF ms[i].kind = "boundary" THEN None ELSE a.last) = new
      BY <2>3, <3>1 DEF new
    <3>3. AppendOne(a, ms[i]) = [rows |-> Append(r, new), last |-> ms[i].id]
      BY <2>5, <3>2 DEF AppendOne, r
    <3> QED BY <3>1, <3>3
  <2>7. new \in Rows
    <3>1. Before(ms, start, i) \in 0..MaxId
      BY <2>2, <2>3 DEF Acc
    <3> QED BY <1>3, <3>1, RowFromType
  <2> HIDE DEF new, r, a
  <2>8. /\ k[i].rows \in Seq(Rows) /\ Len(k[i].rows) = Len(r) + 1
        /\ k[i].rows[Len(r) + 1] = new /\ \A j \in 1..Len(r) : k[i].rows[j] = r[j]
    BY <2>2, <2>6, <2>7, AppendProperties
  <2>9. Len(r) + 1 = l + i /\ \A j \in 1..l : j \in 1..Len(r)
    BY <1>3, <2>1, <2>4
  <2>10. \A j \in 1..i : j = i \/ (j \in 1..(i - 1) /\ l + j \in 1..Len(r))
    BY <1>3, <2>1, <2>4
  <2>11. \A j \in 1..i : k[i].rows[l + j] = RowFrom(ms[j], Before(ms, start, j))
    BY <2>4, <2>8, <2>9, <2>10 DEF new
  <2>12. Extended(k[i].rows, rs, ms, i, start)
    BY <2>4, <2>8, <2>9, <2>11 DEF Extended, l
  <2> QED BY <2>1, <2>6, <2>12
<1>7. m \in S
  <2> HIDE DEF S
  <2>1. \A i \in 0..m : i \in S
    BY <1>3, <1>5, <1>6, UpTo
  <2> QED BY <1>3, <2>1
<1> QED BY <1>2, <1>7 DEF m, start

-----------------------------------------------------------------------------
(* Following parents.                                                      *)

\* p leads to u, each row the parent of the next.
Path(rs, p, u) ==
  /\ p \in Seq(IdsOf(rs)) /\ Len(p) >= 1 /\ p[Len(p)] = u
  /\ \A i, j \in 1..Len(p) : p[i] = p[j] => i = j
  /\ \A i \in 2..Len(p) : RowOf(rs, p[i]).parent = p[i - 1]

\* One step up, as PathTo makes it.
Longer(rs, p) ==
  LET v == RowOf(rs, Head(p)).parent
  IN  IF v \in IdsOf(rs) /\ v \notin ToSet(p) THEN <<v>> \o p ELSE p

Climbs(k, rs, u) ==
  /\ k \in [0..Len(rs) -> Seq(IdsOf(rs)) \ {<<>>}]
  /\ k[0] = <<u>>
  /\ \A i \in 1..Len(rs) : k[i] = Longer(rs, k[i - 1])
  /\ PathTo(rs, u) = k[Len(rs)]

\* The first place of a path put before it.
LEMMA ConsIs ==
  ASSUME NEW S, NEW p \in Seq(S), NEW v \in S
  PROVE  /\ <<v>> \o p \in Seq(S) \ {<<>>} /\ Len(<<v>> \o p) = Len(p) + 1
         /\ (<<v>> \o p)[1] = v /\ \A i \in 1..Len(p) : (<<v>> \o p)[i + 1] = p[i]
<1>1. <<v>> \in Seq(S) /\ Len(<<v>>) = 1 /\ <<v>>[1] = v
  OBVIOUS
<1>2. Len(p) \in Nat
  BY LenProperties
<1> DEFINE c == <<v>> \o p
<1>3. /\ c \in Seq(S) /\ Len(c) = 1 + Len(p)
      /\ \A i \in 1..(1 + Len(p)) : c[i] = IF i <= 1 THEN <<v>>[i] ELSE p[i - 1]
  BY <1>1, ConcatProperties
<1> HIDE DEF c
<1>4. c # <<>>
  BY <1>2, <1>3, EmptySeq
<1>5. c[1] = v
  BY <1>1, <1>2, <1>3
<1>6. ASSUME NEW i \in 1..Len(p) PROVE c[i + 1] = p[i]
  <2>1. i + 1 \in 1..(1 + Len(p)) /\ ~(i + 1 <= 1) /\ (i + 1) - 1 = i
    BY <1>2
  <2> QED BY <1>3, <2>1
<1>7. Len(c) = Len(p) + 1
  BY <1>2, <1>3
<1> QED BY <1>3, <1>4, <1>5, <1>6, <1>7 DEF c

\* The head of a path, and its places.
LEMMA PathHead ==
  ASSUME NEW S, NEW p \in Seq(S) \ {<<>>}
  PROVE  /\ Len(p) \in Nat /\ Len(p) >= 1 /\ Head(p) = p[1] /\ 1 \in 1..Len(p)
         /\ ToSet(p) = {p[i] : i \in 1..Len(p)} /\ \A i \in 1..Len(p) : p[i] \in S
<1>1. Len(p) \in Nat /\ DOMAIN p = 1..Len(p) /\ Len(p) # 0
  BY LenProperties, EmptySeq
<1>2. \A i \in 1..Len(p) : p[i] \in S
  BY ElementOfSeq
<1> QED BY <1>1, <1>2 DEF ToSet

\* The recursive function of PathTo exists and unfolds.
LEMMA ClimbsUnfolds ==
  ASSUME NEW rs \in Table, NEW u \in IdsOf(rs)
  PROVE  \E k : Climbs(k, rs, u)
<1> DEFINE A == Seq(IdsOf(rs)) \ {<<>>}
    m == Len(rs)
    none == <<u>>
    parent == [v \in IdsOf(rs) |-> RowOf(rs, v).parent]
    Up(path) == LET p == parent[Head(path)]
                IN  IF p \in DOMAIN parent \ ToSet(path) THEN <<p>> \o path ELSE path
    E(g) == [n \in 0..Len(rs) |-> IF n = 0 THEN <<u>> ELSE With(g[n - 1], Up)]
    up == CHOOSE g : g = E(g)
    step == [p \in (1..Len(rs)) \X A |-> Longer(rs, p[2])]
<1>0. PathTo(rs, u) = up[Len(rs)]
  BY DEF PathTo
<1> HIDE DEF up
<1>1. /\ m \in Nat /\ none \in A
      /\ \A i \in 1..m, t \in A : Longer(rs, t) \in A
  <2>1. m \in Nat
    BY LenProperties, TableIs
  <2>2. none \in A
    OBVIOUS
  <2>3. ASSUME NEW t \in A PROVE Longer(rs, t) \in A
    BY ConsIs DEF Longer
  <2> QED BY <2>1, <2>2, <2>3
<1>2. \A i \in 1..m, t \in A : step[<<i, t>>] = Longer(rs, t)
  OBVIOUS
<1>3. step \in [(1..m) \X A -> A]
  BY <1>1
<1>4. \A t \in A : Up(t) = Longer(rs, t)
  <2> SUFFICES ASSUME NEW t \in A PROVE Up(t) = Longer(rs, t)
    OBVIOUS
  <2>1. Head(t) \in IdsOf(rs)
    BY PathHead
  <2>2. parent[Head(t)] = RowOf(rs, Head(t)).parent /\ DOMAIN parent = IdsOf(rs)
    BY <2>1
  <2> HIDE DEF parent
  <2> QED BY <2>2 DEF Longer
<1> HIDE DEF Up, parent
<1>6. \A g : E(g) = [n \in 0..m |-> IF n = 0 THEN none ELSE Up(g[n - 1])]
  BY DEF With
<1> HIDE DEF step, none, m, A, E
<1>7. PICK k : Iterates(k, m, A, none, step)
  BY <1>1, <1>3, Recursion
<1>8. /\ k \in [0..m -> A] /\ k[0] = none
      /\ \A i \in 1..m : k[i] = Longer(rs, k[i - 1])
      /\ \A i \in 1..m : k[i] = Up(k[i - 1])
  <2>1. \A i \in 1..m : i - 1 \in 0..m
    BY <1>1
  <2>2. k \in [0..m -> A] /\ k[0] = none /\ \A i \in 1..m : k[i] = Longer(rs, k[i - 1])
    BY <1>2, <1>7, <2>1 DEF Iterates
  <2>3. \A i \in 1..m : k[i - 1] \in A
    BY <2>1, <2>2
  <2> QED BY <1>4, <2>2, <2>3
<1>9. k = E(k)
  <2>1. \A i \in 0..m : i = 0 \/ i \in 1..m
    BY <1>1
  <2>2. k = [i \in 0..m |-> k[i]]
    BY <1>8
  <2>3. \A i \in 0..m : k[i] = IF i = 0 THEN none ELSE Up(k[i - 1])
    BY <1>8, <2>1
  <2> QED
    BY <1>6, <2>2, <2>3
<1>10. up = E(up)
  BY <1>9 DEF up
<1>11. \A i \in 0..m : up[i] = IF i = 0 THEN none ELSE Up(up[i - 1])
  BY <1>6, <1>10
<1>12. up[m] = k[m]
  <2> DEFINE S == {i \in 0..m : up[i] = k[i]}
  <2>1. 0 \in S
    BY <1>1, <1>8, <1>11
  <2>2. ASSUME NEW i \in 1..m, i - 1 \in S PROVE i \in S
    <3>1. i \in 0..m /\ i # 0
      BY <1>1
    <3> QED
      BY <1>8, <1>11, <2>2, <3>1
  <2>3. \A i \in 0..m : i \in S
    <3> HIDE DEF S
    <3> QED
      BY <1>1, <2>1, <2>2, UpTo
  <2> QED
    BY <1>1, <2>3
<1> QED
  BY <1>0, <1>8, <1>12 DEF Climbs, A, m, none

\* A step up keeps a path one.
LEMMA LongerIs ==
  ASSUME NEW rs \in Table, NEW u, NEW p, Path(rs, p, u)
  PROVE  Path(rs, Longer(rs, p), u)
<1> DEFINE v == RowOf(rs, Head(p)).parent
           n == Len(p)
           c == <<v>> \o p
<1>1. /\ p \in Seq(IdsOf(rs)) /\ n \in Nat /\ n >= 1 /\ p[n] = u
      /\ \A i, j \in 1..n : p[i] = p[j] => i = j
      /\ \A i \in 2..n : RowOf(rs, p[i]).parent = p[i - 1]
  BY LenProperties DEF Path
<1>2. p \in Seq(IdsOf(rs)) \ {<<>>}
  BY <1>1, EmptySeq
<1>3. Head(p) = p[1] /\ ToSet(p) = {p[i] : i \in 1..n}
  BY <1>2, PathHead
<1>4. CASE v \in IdsOf(rs) /\ v \notin ToSet(p)
  <2>1. /\ c \in Seq(IdsOf(rs)) /\ Len(c) = n + 1
        /\ c[1] = v /\ \A i \in 1..n : c[i + 1] = p[i]
    BY <1>1, <1>4, ConsIs
  <2>2. Longer(rs, p) = c
    BY <1>4 DEF Longer
  <2>3. v = RowOf(rs, p[1]).parent /\ \A i \in 1..n : v # p[i]
    BY <1>3, <1>4
  <2> HIDE DEF c, v, n
  <2>4. \A i \in 1..(n + 1) : i = 1 \/ (i - 1 \in 1..n /\ i = (i - 1) + 1)
    BY <1>1
  <2>5. \A i \in 1..(n + 1) : i = 1 \/ (i - 1 \in 1..n /\ c[i] = p[i - 1])
    BY <2>1, <2>4
  <2>6. c[n + 1] = u /\ n + 1 >= 1
    <3>1. n \in 1..n
      BY <1>1
    <3> QED BY <1>1, <2>1, <3>1
  <2>7. ASSUME NEW i \in 1..(n + 1), NEW j \in 1..(n + 1), c[i] = c[j] PROVE i = j
    <3>1. CASE i = 1 /\ j = 1
      BY <3>1
    <3>2. CASE i = 1 /\ j # 1
      BY <2>1, <2>3, <2>5, <2>7, <3>2
    <3>3. CASE i # 1 /\ j = 1
      BY <2>1, <2>3, <2>5, <2>7, <3>3
    <3>4. CASE i # 1 /\ j # 1
      <4>1. i - 1 \in 1..n /\ j - 1 \in 1..n /\ p[i - 1] = p[j - 1]
        BY <2>5, <2>7, <3>4
      <4>2. i - 1 = j - 1
        BY <1>1, <4>1
      <4> QED BY <4>2
    <3> QED BY <3>1, <3>2, <3>3, <3>4
  <2>8. ASSUME NEW i \in 2..(n + 1) PROVE RowOf(rs, c[i]).parent = c[i - 1]
    <3>1. i \in 1..(n + 1) /\ i # 1 /\ i - 1 \in 1..(n + 1)
      BY <1>1
    <3>2. c[i] = p[i - 1]
      BY <2>5, <3>1
    <3>3. CASE i = 2
      BY <2>1, <2>3, <3>2, <3>3
    <3>4. CASE i # 2
      <4>1. i - 1 \in 2..n /\ i - 1 # 1
        BY <1>1, <3>4
      <4>2. RowOf(rs, p[i - 1]).parent = p[(i - 1) - 1]
        BY <1>1, <4>1
      <4>3. c[i - 1] = p[(i - 1) - 1]
        BY <2>5, <3>1, <4>1
      <4> QED BY <3>2, <4>2, <4>3
    <3> QED BY <3>3, <3>4
  <2> QED BY <2>1, <2>2, <2>6, <2>7, <2>8 DEF Path
<1>5. CASE ~(v \in IdsOf(rs) /\ v \notin ToSet(p))
  <2>1. Longer(rs, p) = p
    BY <1>5 DEF Longer
  <2> QED BY <2>1
<1> QED BY <1>4, <1>5

\* What PathTo returns is a path.
LEMMA PathToIs ==
  ASSUME NEW rs \in Table, NEW u \in IdsOf(rs)
  PROVE  Path(rs, PathTo(rs, u), u)
<1> DEFINE m == Len(rs)
<1>1. PICK k : Climbs(k, rs, u)
  BY ClimbsUnfolds
<1>2. /\ k[0] = <<u>> /\ \A i \in 1..m : k[i] = Longer(rs, k[i - 1])
      /\ PathTo(rs, u) = k[m]
  BY <1>1 DEF Climbs
<1>3. m \in Nat
  BY TableIs
<1>4. Path(rs, <<u>>, u)
  BY DEF Path
<1> DEFINE S == {i \in 0..m : Path(rs, k[i], u)}
<1> HIDE DEF m
<1>5. 0 \in S
  BY <1>2, <1>3, <1>4
<1>6. ASSUME NEW i \in 1..m, i - 1 \in S PROVE i \in S
  <2>1. i \in 0..m /\ k[i] = Longer(rs, k[i - 1]) /\ Path(rs, k[i - 1], u)
    BY <1>2, <1>6
  <2> QED BY <2>1, LongerIs
<1>7. m \in S
  <2> HIDE DEF S
  <2>1. \A i \in 0..m : i \in S
    BY <1>3, <1>5, <1>6, UpTo
  <2> QED BY <1>3, <2>1
<1> QED BY <1>2, <1>7

-----------------------------------------------------------------------------
(* No cycles.                                                              *)

\* Of any rows some one's parent is none of them.
Rooted(rs) ==
  \A S \in SUBSET (1..Len(rs)) : S # {} => \E i \in S : \A j \in S : rs[j].id # rs[i].parent

\* So a path ends where a row has no parent, or none that is there.
LEMMA RootedPath ==
  ASSUME NEW rs \in Table, Rooted(rs), NEW u \in IdsOf(rs)
  PROVE  RowOf(rs, Head(PathTo(rs, u))).parent \notin ToSet(PathTo(rs, u))
<1> DEFINE p == PathTo(rs, u)
           n == Len(p)
<1>1. /\ p \in Seq(IdsOf(rs)) /\ n \in Nat /\ n >= 1
      /\ \A i \in 2..n : RowOf(rs, p[i]).parent = p[i - 1]
  BY PathToIs, LenProperties DEF Path
<1> HIDE DEF p
<1>2. p \in Seq(IdsOf(rs)) \ {<<>>}
  BY <1>1, EmptySeq
<1>3. Head(p) = p[1] /\ 1 \in 1..n /\ ToSet(p) = {p[i] : i \in 1..n} /\ \A i \in 1..n : p[i] \in IdsOf(rs)
  BY <1>2, PathHead
<1> HIDE DEF n
<1> DEFINE S == {j \in 1..Len(rs) : rs[j].id \in ToSet(p)}
<1>4. \A i \in 1..n : \E j \in S : rs[j].id = p[i]
  BY <1>3, TableIs
<1>5. S # {}
  BY <1>3, <1>4
<1>6. PICK i \in S : \A j \in S : rs[j].id # rs[i].parent
  BY <1>5 DEF Rooted
<1>7. PICK k \in 1..n : rs[i].id = p[k]
  BY <1>3
<1>8. rs[i].parent = RowOf(rs, p[k]).parent
  BY <1>7, TableIs
<1>9. k = 1
  <2> SUFFICES ASSUME k # 1 PROVE FALSE
    OBVIOUS
  <2>1. k \in 2..n /\ k - 1 \in 1..n
    BY <1>1
  <2>2. rs[i].parent = p[k - 1]
    BY <1>1, <1>8, <2>1
  <2> QED BY <1>4, <1>6, <2>1, <2>2
<1>10. RowOf(rs, Head(p)).parent = rs[i].parent
  BY <1>3, <1>8, <1>9
<1> HIDE DEF S
<1>11. rs[i].parent \notin ToSet(p)
  BY <1>3, <1>4, <1>6
<1> QED BY <1>10, <1>11 DEF p

\* A row that is nobody's parent.
Childless(rs, i) == \A j \in 1..Len(rs) : rs[j].parent # rs[i].id

\* If every row were a parent, then each of a different row, so every row's parent would be there.
LEMMA LeafExists ==
  ASSUME NEW rs \in Table, rs # <<>>, Rooted(rs)
  PROVE  \E i \in 1..Len(rs) : Childless(rs, i)
<1> DEFINE D == 1..Len(rs)
           f == [i \in D |-> CHOOSE j \in D : rs[j].parent = rs[i].id]
<1>1. SUFFICES ASSUME \A i \in D : \E j \in D : rs[j].parent = rs[i].id PROVE FALSE
  BY DEF Childless
<1>2. /\ Len(rs) \in Nat /\ Len(rs) # 0
      /\ \A i, j \in D : rs[i].id = rs[j].id => i = j
  BY TableIs, EmptySeq
<1>3. D # {} /\ D \in SUBSET (1..Len(rs))
  BY <1>2
<1>4. f \in [D -> D] /\ \A i \in D : rs[f[i]].parent = rs[i].id
  BY <1>1
<1>5. \A i, j \in D : f[i] = f[j] => i = j
  <2> HIDE DEF f
  <2> QED BY <1>2, <1>4
<1>6. IsFiniteSet(D)
  BY <1>2, FS_Interval
<1> HIDE DEF D, f
<1>7. f \in Injection(D, D)
  BY <1>4, <1>5 DEF Injection, IsInjective
<1>8. f \in Surjection(D, D)
  BY <1>6, <1>7, FS_Injection
<1>9. \A j \in D : \E i \in D : f[i] = j
  BY <1>8 DEF Surjection
<1>10. PICK i \in D : \A j \in D : rs[j].id # rs[i].parent
  BY <1>3 DEF Rooted
<1>11. PICK h \in D : f[h] = i
  BY <1>9
<1> QED BY <1>4, <1>10, <1>11

\* Of some of the numbers up to n there is a last one of those whose key is greatest.
LEMMA Best ==
  ASSUME NEW n \in Nat, NEW S \in SUBSET (1..n), S # {}, NEW key \in [1..n -> Int]
  PROVE  \E i \in S : \A j \in S : key[j] < key[i] \/ (key[j] = key[i] /\ j <= i)
<1> DEFINE Top(i, m) == \A j \in S : j <= m => key[j] < key[i] \/ (key[j] = key[i] /\ j <= i)
           T == {m \in 0..n : (\E j \in S : j <= m) => \E i \in S : Top(i, m)}
<1>1. 0 \in T
  OBVIOUS
<1>2. ASSUME NEW m \in 1..n, m - 1 \in T PROVE m \in T
  <2>1. m \in 0..n /\ m - 1 < m
    OBVIOUS
  <2>2. \A j \in S : j \in Int /\ key[j] \in Int /\ (j <= m <=> j <= m - 1 \/ j = m)
    OBVIOUS
  <2>3. CASE m \notin S
    <3>1. \A j \in S : j <= m <=> j <= m - 1
      BY <2>2, <2>3
    <3>2. \A i \in S : Top(i, m - 1) => Top(i, m)
      BY <3>1
    <3> HIDE DEF Top
    <3> QED BY <1>2, <2>1, <3>1, <3>2
  <2>4. CASE m \in S /\ ~\E j \in S : j <= m - 1
    <3>1. Top(m, m)
      BY <2>2, <2>4
    <3> HIDE DEF Top
    <3> QED BY <2>1, <2>4, <3>1
  <2>5. CASE m \in S /\ \E j \in S : j <= m - 1
    <3>1. PICK i \in S : Top(i, m - 1)
      BY <1>2, <2>5
    <3>2. CASE key[i] <= key[m]
      <4>1. Top(m, m)
        <5> SUFFICES ASSUME NEW j \in S, j <= m
                     PROVE  key[j] < key[m] \/ (key[j] = key[m] /\ j <= m)
          OBVIOUS
        <5>1. CASE j = m
          BY <5>1, <2>2
        <5>2. CASE j # m
          <6>1. key[j] < key[i] \/ key[j] = key[i]
            BY <2>2, <3>1, <5>2
          <6> QED BY <2>2, <2>5, <3>2, <6>1
        <5> QED BY <5>1, <5>2
      <4> HIDE DEF Top
      <4> QED BY <2>1, <2>5, <4>1
    <3>3. CASE key[m] < key[i]
      <4>1. Top(i, m)
        <5> SUFFICES ASSUME NEW j \in S, j <= m
                     PROVE  key[j] < key[i] \/ (key[j] = key[i] /\ j <= i)
          OBVIOUS
        <5>1. CASE j = m
          BY <5>1, <3>3
        <5>2. CASE j # m
          BY <2>2, <3>1, <5>2
        <5> QED BY <5>1, <5>2
      <4> HIDE DEF Top
      <4> QED BY <2>1, <4>1
    <3>4. key[i] <= key[m] \/ key[m] < key[i]
      BY <2>2, <2>5
    <3> QED BY <3>2, <3>3, <3>4
  <2> QED BY <2>3, <2>4, <2>5
<1>3. n \in T
  <2> HIDE DEF T
  <2>1. \A i \in 0..n : i \in T
    BY <1>1, <1>2, UpTo
  <2> QED BY <2>1
<1>4. \A j \in S : j <= n
  OBVIOUS
<1> QED BY <1>3, <1>4

\* findLeafMessage finds a leaf, and none later.
LEMMA LeafIs ==
  ASSUME NEW rs \in Table, \E i \in 1..Len(rs) : Childless(rs, i)
  PROVE  /\ LeafIndex(rs) \in 1..Len(rs) /\ Childless(rs, LeafIndex(rs))
         /\ \A j \in 1..Len(rs) : Childless(rs, j) =>
              \/ rs[j].id \div PerSecond < rs[LeafIndex(rs)].id \div PerSecond
              \/ rs[j].id \div PerSecond = rs[LeafIndex(rs)].id \div PerSecond /\ j <= LeafIndex(rs)
<1> DEFINE n == Len(rs)
           S == {i \in 1..n : Childless(rs, i)}
           key == [i \in 1..n |-> rs[i].id \div PerSecond]
           Last1(i) == \A j \in S : key[j] < key[i] \/ (key[j] = key[i] /\ j <= i)
           l == CHOOSE i \in S : Last1(i)
<1>1. n \in Nat /\ DOMAIN rs = 1..n /\ \A i \in 1..n : rs[i].id \in Int
  BY TableIs, Fields, HistoryAssumption DEF Id
<1>2. key \in [1..n -> Int] /\ \A i \in 1..n : key[i] = rs[i].id \div PerSecond
  BY <1>1, PerSecondAssumption
<1>3. S \in SUBSET (1..n) /\ S # {}
  OBVIOUS
<1>4. LeafIndex(rs) = CHOOSE i \in S : \A j \in S :
         \/ rs[j].id \div PerSecond < rs[i].id \div PerSecond
         \/ rs[j].id \div PerSecond = rs[i].id \div PerSecond /\ j <= i
  BY <1>1 DEF LeafIndex, Childless
<1> HIDE DEF key, n
<1>5. \E i \in S : Last1(i)
  <2> HIDE DEF S
  <2> QED BY <1>1, <1>2, <1>3, Best
<1>6. \E i \in S : \A j \in S :
         \/ rs[j].id \div PerSecond < rs[i].id \div PerSecond
         \/ rs[j].id \div PerSecond = rs[i].id \div PerSecond /\ j <= i
  BY <1>2, <1>3, <1>5
<1>7. LeafIndex(rs) \in S /\ \A j \in S :
         \/ rs[j].id \div PerSecond < rs[LeafIndex(rs)].id \div PerSecond
         \/ rs[j].id \div PerSecond = rs[LeafIndex(rs)].id \div PerSecond /\ j <= LeafIndex(rs)
  <2> HIDE DEF S
  <2> QED BY <1>4, <1>6
<1> QED BY <1>7 DEF n

-----------------------------------------------------------------------------
(* Loading.                                                                *)

\* c leads from a row whose parent is not there.
Whole(rs, c) ==
  /\ Path(rs, c, c[Len(c)]) /\ Len(c) <= Len(rs) + 1
  /\ RowOf(rs, c[1]).parent \notin IdsOf(rs)

\* PathTo finds the whole of a path.
LEMMA PathIsWhole ==
  ASSUME NEW rs \in Table, NEW c, Whole(rs, c)
  PROVE  PathTo(rs, c[Len(c)]) = c
<1> DEFINE n == Len(c)
           m == Len(rs)
           from == [i \in Nat |-> IF i < n THEN n - i ELSE 1]
<1>1. /\ c \in Seq(IdsOf(rs)) /\ n \in Nat /\ n >= 1 /\ n <= m + 1
      /\ \A i, j \in 1..n : c[i] = c[j] => i = j
      /\ \A i \in 2..n : RowOf(rs, c[i]).parent = c[i - 1]
      /\ RowOf(rs, c[1]).parent \notin IdsOf(rs)
      /\ \A i \in 1..n : c[i] \in IdsOf(rs)
  BY LenProperties, ElementOfSeq DEF Whole, Path
<1>2. m \in Nat
  BY TableIs
<1>f. \A i \in Nat : from[i] = IF i < n THEN n - i ELSE 1
  OBVIOUS
<1>3. c[n] \in IdsOf(rs)
  BY <1>1
<1>4. PICK k : Climbs(k, rs, c[n])
  BY <1>3, ClimbsUnfolds
<1>5. /\ k[0] = <<c[n]>> /\ \A i \in 1..m : k[i] = Longer(rs, k[i - 1])
      /\ PathTo(rs, c[n]) = k[m]
  BY <1>4 DEF Climbs
<1> HIDE DEF n, m, from
<1> DEFINE S == {i \in 0..m : k[i] = SubSeq(c, from[i], n)}
<1>6. 0 \in S
  <2>1. n \in 1..n /\ from[0] = n
    BY <1>1, <1>f
  <2>2. SubSeq(c, n, n) = <<c[n]>>
    <3>1. n \in 1..Len(c) /\ n \in n..Len(c) /\ c \in Seq(IdsOf(rs)) /\ n \in Int /\ n + 1 \in Int /\ n < n + 1
      BY <1>1, <2>1 DEF n
    <3>2. SubSeq(c, n, n) = <<c[n]>> \o SubSeq(c, n + 1, n)
      BY <3>1, SubSeqRecursiveFirst
    <3>3. SubSeq(c, n + 1, n) = <<>>
      BY <3>1, SubSeqEmpty
    <3>4. <<c[n]>> \in Seq(IdsOf(rs))
      BY <1>3
    <3> QED BY <3>2, <3>3, <3>4, ConcatEmptySeq
  <2>3. 0 \in 0..m
    BY <1>2
  <2> QED BY <1>5, <2>1, <2>2, <2>3
<1>7. ASSUME NEW i \in 1..m, i - 1 \in S PROVE i \in S
  <2> DEFINE f == from[i - 1]
             p == SubSeq(c, f, n)
  <2>1. i \in 0..m /\ k[i] = Longer(rs, p)
    <3>1. i \in 0..m /\ k[i - 1] = p
      BY <1>2, <1>7
    <3>2. k[i] = Longer(rs, k[i - 1])
      BY <1>5
    <3> QED BY <3>1, <3>2
  <2>2. f \in 1..n /\ f \in 1..Len(c) /\ n \in f..Len(c) /\ Len(c) = n
    <3>1. n \in Nat /\ n >= 1 /\ i - 1 \in Nat
      BY <1>1, <1>2
    <3> QED BY <1>f, <3>1 DEF n
  <2>3. Head(p) = c[f]
    BY <1>1, <2>2, HeadTailOfSubSeq
  <2>4. p \in Seq(IdsOf(rs)) /\ Len(p) = n - f + 1 /\ \A j \in 1..(n - f + 1) : p[j] = c[f + j - 1]
    <3>1. \A j \in f..n : c[j] \in IdsOf(rs)
      BY <1>1, <2>2
    <3>2. f \in Int /\ n \in Int /\ f <= n
      BY <1>1, <2>2
    <3> HIDE DEF f
    <3> QED BY <3>1, <3>2, SubSeqProperties
  <2> HIDE DEF p
  <2>5. CASE f = 1
    <3>1. Longer(rs, p) = p
      BY <1>1, <2>3, <2>5 DEF Longer
    <3>2. from[i] = 1
      <4>1. n \in Nat /\ i \in Nat /\ i - 1 \in Nat
        BY <1>1, <1>2
      <4> QED BY <1>f, <2>5, <4>1
    <3> QED BY <2>1, <2>5, <3>1, <3>2 DEF p
  <2>6. CASE f # 1
    <3>1. from[i] = f - 1 /\ f \in 2..n /\ f - 1 \in 1..n
      <4>1. n \in Nat /\ i \in Nat /\ i - 1 \in Nat
        BY <1>1, <1>2
      <4> QED BY <1>f, <2>2, <2>6, <4>1
    <3> HIDE DEF f
    <3>2. RowOf(rs, Head(p)).parent = c[f - 1] /\ c[f - 1] \in IdsOf(rs)
      BY <1>1, <2>3, <3>1
    <3>3. c[f - 1] \notin ToSet(p)
      <4> SUFFICES ASSUME NEW j \in 1..Len(p), p[j] = c[f - 1] PROVE FALSE
        <5>1. DOMAIN p = 1..Len(p)
          BY <2>4, LenProperties
        <5> QED BY <5>1 DEF ToSet
      <4>1. p[j] = c[f + j - 1] /\ f + j - 1 \in 1..n /\ f + j - 1 # f - 1
        BY <1>1, <2>4, <3>1
      <4> QED BY <1>1, <3>1, <4>1
    <3>4. Longer(rs, p) = <<c[f - 1]>> \o p
      BY <3>2, <3>3 DEF Longer
    <3>5. SubSeq(c, f - 1, n) = <<c[f - 1]>> \o SubSeq(c, (f - 1) + 1, n)
      <4>1. f - 1 \in 1..Len(c) /\ n \in (f - 1)..Len(c)
        BY <1>1, <2>2, <3>1
      <4> QED BY <1>1, <4>1, SubSeqRecursiveFirst
    <3>6. (f - 1) + 1 = f
      BY <3>1
    <3> QED BY <2>1, <3>1, <3>4, <3>5, <3>6 DEF p
  <2> QED BY <2>5, <2>6
<1>8. m \in S
  <2> HIDE DEF S
  <2>1. \A i \in 0..m : i \in S
    BY <1>2, <1>6, <1>7, UpTo
  <2> QED BY <1>2, <2>1
<1>9. from[m] = 1
  <2>1. n \in Nat /\ n >= 1 /\ n <= m + 1
    BY <1>1
  <2> QED BY <1>2, <1>f, <2>1
<1>10. SubSeq(c, 1, n) = c
  BY <1>1, SubSeqFull DEF n
<1> QED BY <1>5, <1>8, <1>9, <1>10 DEF n

\* Nothing is left of rows that are all named.
LEMMA WithoutAll ==
  ASSUME NEW s \in Seq(Rows), NEW X, \A i \in 1..Len(s) : s[i].id \in X
  PROVE  Without(s, X) = <<>>
<1> DEFINE r == Without(s, X)
<1>1. r \in Seq(Rows)
  BY WithoutIs
<1>2. PICK e : Selects(e, s, Len(s), r, X)
  BY WithoutIs
<1> HIDE DEF r
<1>3. Len(r) \in Nat /\ \A i \in 1..Len(r) : e[i] \in 1..Len(s) /\ s[e[i]].id \notin X
  BY <1>1, <1>2, LenProperties DEF Selects
<1>4. 1 \notin 1..Len(r)
  BY <1>3
<1>5. Len(r) = 0
  BY <1>3, <1>4
<1>6. r = <<>>
  BY <1>1, <1>5, EmptySeq
<1> QED BY <1>6 DEF r

\* A row after the relinks of a segment.
Turned(r, seg) ==
  CASE r.id = seg[1] -> [r EXCEPT !.parent = seg[2]]
    [] r.id # seg[1] /\ r.parent = seg[2] -> [r EXCEPT !.parent = seg[3]]
    [] OTHER -> r

\* L is what loading makes of rs: from the boundary on, with its relinks.
LoadsFrom(L, rs, b) ==
  /\ L \in Seq(Rows) /\ Len(L) = Len(rs) - b + 1
  /\ \A i \in 1..(Len(rs) - b + 1) : L[i] = Turned(rs[b + i - 1], rs[b].seg)

\* The relinked table starts at the boundary if nothing before it is preserved.
LEMMA RelinkIs ==
  ASSUME NEW rs \in Table, NEW b \in 1..Len(rs), NEW P,
         \A i \in 1..(b - 1) : rs[i].id \notin P,
         \A i \in 1..Len(rs) : Turned(rs[i], rs[b].seg) \in Rows
  PROVE  LoadsFrom(Relink(rs, b, P), rs, b)
<1> DEFINE linked == [i \in DOMAIN rs |-> Turned(rs[i], rs[b].seg)]
           n == Len(rs)
           X == IdsOf(rs) \ P
           front == SubSeq(linked, 1, b - 1)
           back == SubSeq(linked, b, Len(linked))
<1>1. n \in Nat /\ DOMAIN rs = 1..n /\ b \in 1..n
  BY TableIs
<1>2. linked \in Seq(Rows) /\ Len(linked) = n /\ \A i \in 1..n : linked[i] = Turned(rs[i], rs[b].seg)
  <2>1. linked \in [1..n -> Rows] /\ \A i \in 1..n : linked[i] = Turned(rs[i], rs[b].seg)
    BY <1>1
  <2> HIDE DEF linked
  <2> QED BY <1>1, <2>1, IsASeq
<1>3. Relink(rs, b, P) = Without(front, X) \o back
  BY DEF Relink, Turned
<1> HIDE DEF linked
<1>4. /\ front \in Seq(Rows) /\ Len(front) = b - 1
      /\ \A i \in 1..(b - 1) : front[i] = linked[i]
  <2>1. \A i \in 1..(b - 1) : linked[i] \in Rows /\ 1 + i - 1 = i /\ i \in 1..n
    BY <1>1, <1>2
  <2>2. 1 \in Int /\ b - 1 \in Int /\ (b - 1) - 1 + 1 = b - 1 /\ (~(1 <= b - 1) => b - 1 = 0)
    BY <1>1
  <2> QED BY <2>1, <2>2, SubSeqProperties
<1>5. /\ back \in Seq(Rows) /\ Len(back) = n - b + 1
      /\ \A i \in 1..(n - b + 1) : back[i] = linked[b + i - 1]
  <2>1. \A i \in b..n : linked[i] \in Rows
    BY <1>1, <1>2
  <2>2. b \in Int /\ n \in Int /\ b <= n
    BY <1>1
  <2> QED BY <1>2, <2>1, <2>2, SubSeqProperties
<1>6. Without(front, X) = <<>>
  <2>1. ASSUME NEW i \in 1..(b - 1) PROVE front[i].id \in X
    <3>1. i \in 1..n /\ front[i] = Turned(rs[i], rs[b].seg) /\ rs[i] \in Rows
      BY <1>1, <1>2, <1>4, TableIs
    <3>2. Turned(rs[i], rs[b].seg).id = rs[i].id
      BY <3>1 DEF Turned, Rows
    <3> QED BY <3>1, <3>2, TableIs
  <2> HIDE DEF front, X
  <2> QED BY <1>4, <2>1, WithoutAll
<1> HIDE DEF front, back, X
<1>7. Relink(rs, b, P) = back
  BY <1>3, <1>5, <1>6, ConcatEmptySeq
<1>8. \A i \in 1..(n - b + 1) : b + i - 1 \in 1..n
  BY <1>1
<1> QED BY <1>2, <1>5, <1>7, <1>8 DEF LoadsFrom

\* The last boundary of the table.
Newest(rs, b) ==
  /\ b \in 1..Len(rs) /\ rs[b].kind = "boundary"
  /\ \A i \in 1..Len(rs) : rs[i].kind = "boundary" => i <= b

\* What a compaction that keeps n messages leaves behind its boundary: one chain.
Segmented(rs, b, n) ==
  /\ b + n + 1 <= Len(rs)
  /\ rs[b].parent = None
  /\ \A k \in 1..(n + 1) : rs[b + k].parent = rs[b + k - 1].id
  /\ rs[b].seg = <<rs[b + 2].id, rs[b + 1].id, rs[b + n + 1].id>>

\* The segment of the last boundary names such a chain, or rows of another session.
SegOK(rs) ==
  \A b \in 1..Len(rs) : Newest(rs, b) /\ rs[b].seg \notin {NoSeg, Stale} =>
    \E n \in 1..Len(rs) : Segmented(rs, b, n)

\* The boundary LoadMessages looks for.
LEMMA NewestIs ==
  ASSUME NEW rs \in Table
  PROVE  LET bs == {i \in DOMAIN rs : rs[i].kind = "boundary"}
         IN  bs # {} => Newest(rs, CHOOSE i \in bs : \A j \in bs : j <= i)
<1> DEFINE bs == {i \in DOMAIN rs : rs[i].kind = "boundary"}
           n == Len(rs)
           key == [i \in 1..n |-> 0]
<1>1. SUFFICES ASSUME bs # {} PROVE Newest(rs, CHOOSE i \in bs : \A j \in bs : j <= i)
  OBVIOUS
<1>2. n \in Nat /\ DOMAIN rs = 1..n
  BY TableIs
<1>3. bs \in SUBSET (1..n) /\ key \in [1..n -> Int]
  BY <1>2
<1>4. \E i \in bs : \A j \in bs : key[j] < key[i] \/ (key[j] = key[i] /\ j <= i)
  <2> HIDE DEF bs, key
  <2> QED BY <1>1, <1>2, <1>3, Best
<1>5. \E i \in bs : \A j \in bs : j <= i
  BY <1>2, <1>4
<1>6. (CHOOSE i \in bs : \A j \in bs : j <= i) \in bs
      /\ \A j \in bs : j <= (CHOOSE i \in bs : \A j2 \in bs : j2 <= i)
  <2> HIDE DEF bs
  <2> QED BY <1>5
<1> QED BY <1>2, <1>6 DEF Newest

\* A row with other than the relinked parents stays as it is.
LEMMA TurnedIs ==
  ASSUME NEW r \in Rows
  PROVE  /\ Turned(r, Stale) = r
         /\ \A seg \in Id \X Id \X Id : Turned(r, seg) \in Rows
         /\ \A seg : Turned(r, seg).id = r.id /\ Turned(r, seg).kind = r.kind
<1>1. r.id # Gone /\ r.parent # Gone /\ r.id \in Id /\ r.parent \in 0..MaxId
  BY Fields, HistoryAssumption DEF Gone, Id
<1>2. Turned(r, Stale) = r
  BY <1>1 DEF Turned, Stale
<1>3. ASSUME NEW seg \in Id \X Id \X Id PROVE Turned(r, seg) \in Rows
  <2>1. seg[2] \in 0..MaxId /\ seg[3] \in 0..MaxId
    BY HistoryAssumption DEF Id
  <2> QED BY <2>1 DEF Turned, Rows
<1>4. \A seg : Turned(r, seg).id = r.id /\ Turned(r, seg).kind = r.kind
  BY DEF Turned, Rows
<1> QED BY <1>2, <1>3, <1>4

\* Loading a table whose last boundary names its chain drops what is before the boundary.
LEMMA LiveLoad ==
  ASSUME NEW rs \in Table, NEW b \in 1..Len(rs), NEW n \in 1..Len(rs), Segmented(rs, b, n)
  PROVE  LoadsFrom(ApplyRelinks(rs, b), rs, b)
<1> DEFINE m == Len(rs)
           seg == rs[b].seg
           head == seg[1]
           tail == seg[3]
           c == [i \in 1..(n + 2) |-> rs[b + i - 1].id]
           Preserved(walk) == {walk[i] : i \in {j \in DOMAIN walk : \E k \in 1..j : walk[k] = head}}
<1>1. /\ m \in Nat /\ b \in Nat /\ b >= 1 /\ n \in Nat /\ n >= 1 /\ b + n + 1 <= m
      /\ \A i \in 1..m : rs[i] \in Rows
      /\ \A i, j \in 1..m : rs[i].id = rs[j].id => i = j
      /\ IdsOf(rs) = {rs[i].id : i \in 1..m}
      /\ \A i \in 1..m : RowOf(rs, rs[i].id) = rs[i]
  <2>1. b + n + 1 <= m
    BY DEF Segmented
  <2> HIDE DEF m
  <2>2. /\ m \in Nat /\ \A i \in 1..m : rs[i] \in Rows
        /\ \A i, j \in 1..m : rs[i].id = rs[j].id => i = j
        /\ IdsOf(rs) = {rs[i].id : i \in 1..m}
        /\ \A i \in 1..m : RowOf(rs, rs[i].id) = rs[i]
    BY TableIs DEF m
  <2>3. b \in Nat /\ b >= 1 /\ n \in Nat /\ n >= 1
    <3>1. m \in Nat /\ b \in 1..m /\ n \in 1..m
      BY <2>2 DEF m
    <3> QED BY <3>1
  <2> QED BY <2>1, <2>2, <2>3
<1>2. \A i \in 1..(n + 2) : b + i - 1 \in 1..m
  BY <1>1
<1>3. b \in 1..m /\ b + 1 \in 1..m /\ b + 2 \in 1..m /\ b + n + 1 \in 1..m
  BY <1>1
<1>4. seg = <<rs[b + 2].id, rs[b + 1].id, rs[b + n + 1].id>>
  BY DEF Segmented
<1>5. head = rs[b + 2].id /\ tail = rs[b + n + 1].id /\ seg \in Id \X Id \X Id
  BY <1>1, <1>3, <1>4, Fields
<1> HIDE DEF m, seg
<1>6. /\ c \in Seq(IdsOf(rs)) /\ Len(c) = n + 2 /\ DOMAIN c = 1..(n + 2)
      /\ \A i \in 1..(n + 2) : c[i] = rs[b + i - 1].id
  <2>1. c \in [1..(n + 2) -> IdsOf(rs)]
    BY <1>1, <1>2
  <2>2. \A i \in 1..(n + 2) : c[i] = rs[b + i - 1].id
    OBVIOUS
  <2> HIDE DEF c
  <2>3. n + 2 \in Nat
    BY <1>1
  <2> QED BY <2>1, <2>2, <2>3, IsASeq
<1> HIDE DEF c
<1>7. c[n + 2] = tail /\ c[3] = head /\ 3 \in 1..(n + 2) /\ c[1] = rs[b].id /\ c[Len(c)] = tail
  <2>1. n + 2 \in 1..(n + 2) /\ 3 \in 1..(n + 2) /\ 1 \in 1..(n + 2)
        /\ b + (n + 2) - 1 = b + n + 1 /\ b + 3 - 1 = b + 2 /\ b + 1 - 1 = b
    BY <1>1
  <2> QED BY <1>5, <1>6, <2>1
<1>8. Whole(rs, c)
  <2>1. ASSUME NEW i \in 1..(n + 2), NEW j \in 1..(n + 2), c[i] = c[j] PROVE i = j
    <3>1. /\ b + i - 1 \in 1..m /\ b + j - 1 \in 1..m
          /\ rs[b + i - 1].id = rs[b + j - 1].id
      BY <1>2, <1>6, <2>1
    <3>2. b + i - 1 = b + j - 1
      BY <1>1, <3>1
    <3> QED BY <1>1, <3>2
  <2>2. ASSUME NEW i \in 2..(n + 2) PROVE RowOf(rs, c[i]).parent = c[i - 1]
    <3>1. i \in 1..(n + 2) /\ i - 1 \in 1..(n + 2) /\ i - 1 \in 1..(n + 1)
          /\ b + (i - 1) = b + i - 1 /\ b + (i - 1) - 1 = b + (i - 1) - 1
      BY <1>1
    <3>2. RowOf(rs, c[i]) = rs[b + (i - 1)]
      BY <1>1, <1>2, <1>6, <3>1
    <3>3. rs[b + (i - 1)].parent = rs[b + (i - 1) - 1].id
      BY <3>1 DEF Segmented
    <3> QED BY <1>6, <3>1, <3>2, <3>3
  <2>3. RowOf(rs, c[1]).parent \notin IdsOf(rs)
    <3>1. RowOf(rs, c[1]).parent = None
      BY <1>1, <1>3, <1>7 DEF Segmented
    <3>2. \A i \in 1..m : rs[i].id # None
      BY <1>1, Fields DEF Id, None
    <3> QED BY <1>1, <3>1, <3>2
  <2>4. Len(c) >= 1 /\ Len(c) <= Len(rs) + 1
    BY <1>1, <1>6 DEF m
  <2> QED BY <1>6, <2>1, <2>2, <2>3, <2>4 DEF Whole, Path
<1>9. PathTo(rs, tail) = c
  BY <1>7, <1>8, PathIsWhole
<1>10. head \in ToSet(c)
  BY <1>6, <1>7 DEF ToSet
<1>11. {head, tail} \subseteq IdsOf(rs)
  BY <1>1, <1>3, <1>5
<1>12. ApplyRelinks(rs, b) = Relink(rs, b, Preserved(c))
  BY <1>9, <1>10, <1>11 DEF ApplyRelinks, With, seg
<1>13. \A i \in 1..(b - 1) : rs[i].id \notin Preserved(c)
  <2>1. \A v \in Preserved(c) : \E j \in 1..(n + 2) : v = rs[b + j - 1].id
    BY <1>6
  <2> HIDE DEF Preserved
  <2> SUFFICES ASSUME NEW i \in 1..(b - 1), rs[i].id \in Preserved(c) PROVE FALSE
    OBVIOUS
  <2>2. PICK j \in 1..(n + 2) : rs[i].id = rs[b + j - 1].id
    BY <2>1
  <2>3. i \in 1..m /\ i # b + j - 1
    BY <1>1
  <2> QED BY <1>1, <1>2, <2>2, <2>3
<1> HIDE DEF Preserved
<1>14. \A i \in 1..m : Turned(rs[i], seg) \in Rows
  BY <1>1, <1>5, TurnedIs
<1>15. LoadsFrom(Relink(rs, b, Preserved(c)), rs, b)
  BY <1>13, <1>14, RelinkIs DEF m, seg
<1> QED BY <1>12, <1>15

\* ... and so does loading a fork.
LEMMA StaleLoad ==
  ASSUME NEW rs \in Table, NEW b \in 1..Len(rs), rs[b].seg = Stale
  PROVE  LoadsFrom(ApplyRelinks(rs, b), rs, b)
<1>1. rs[b].seg[1] = Gone
  BY DEF Stale
<1>2. Gone \notin IdsOf(rs)
  BY TableIs, Fields, HistoryAssumption DEF Gone, Id
<1>3. ApplyRelinks(rs, b) = Relink(rs, b, {})
  BY <1>1, <1>2 DEF ApplyRelinks
<1>4. \A i \in 1..Len(rs) : Turned(rs[i], rs[b].seg) \in Rows
  BY TableIs, TurnedIs
<1>5. LoadsFrom(Relink(rs, b, {}), rs, b)
  BY <1>4, RelinkIs
<1> QED BY <1>3, <1>5

\* What loading does.
LEMMA LoadIs ==
  ASSUME NEW rs \in Table, SegOK(rs)
  PROVE  \/ /\ LoadMessages(rs) = rs
            /\ \A b \in 1..Len(rs) : Newest(rs, b) => rs[b].seg = NoSeg
         \/ \E b \in 1..Len(rs) :
              Newest(rs, b) /\ rs[b].seg # NoSeg /\ LoadsFrom(LoadMessages(rs), rs, b)
<1> DEFINE bs == {i \in DOMAIN rs : rs[i].kind = "boundary"}
           b == CHOOSE i \in bs : \A j \in bs : j <= i
<1>1. LoadMessages(rs) = IF bs = {} \/ rs[b].seg = NoSeg THEN rs ELSE ApplyRelinks(rs, b)
  BY DEF LoadMessages
<1>2. bs # {} => Newest(rs, b)
  BY NewestIs
<1>3. DOMAIN rs = 1..Len(rs) /\ Len(rs) \in Nat
  BY TableIs
<1> HIDE DEF b
<1>4. \A i \in 1..Len(rs) : Newest(rs, i) => bs # {} /\ i = b
  BY <1>2, <1>3 DEF Newest
<1>5. CASE bs = {} \/ rs[b].seg = NoSeg
  BY <1>1, <1>4, <1>5
<1>6. CASE bs # {} /\ rs[b].seg # NoSeg
  <2>1. b \in 1..Len(rs) /\ Newest(rs, b)
    BY <1>2, <1>6 DEF Newest
  <2>2. LoadMessages(rs) = ApplyRelinks(rs, b)
    BY <1>1, <1>6
  <2>3. CASE rs[b].seg = Stale
    BY <1>6, <2>1, <2>2, <2>3, StaleLoad
  <2>4. CASE rs[b].seg # Stale
    <3>1. PICK n \in 1..Len(rs) : Segmented(rs, b, n)
      BY <1>6, <2>1, <2>4 DEF SegOK
    <3> QED BY <1>6, <2>1, <2>2, <3>1, LiveLoad
  <2> QED BY <2>3, <2>4
<1> QED BY <1>5, <1>6

\* The rows of C come each behind their parent, the others have the parents they had in rs.
Arranged(R, rs, C, e) ==
  /\ C \in SUBSET (1..Len(R))
  /\ \A i \in C : \A j \in 1..Len(R) : R[j].id = R[i].parent => j \in C /\ j < i
  /\ \A i \in (1..Len(R)) \ C : e[i] \in 1..Len(rs)
  /\ \A i, j \in (1..Len(R)) \ C : R[j].id = R[i].parent => rs[e[j]].id = rs[e[i]].parent

\* Such a table is rooted if rs is.
LEMMA RootedBy ==
  ASSUME NEW rs \in Table, Rooted(rs), NEW R \in Table, NEW C, NEW e, Arranged(R, rs, C, e)
  PROVE  Rooted(R)
<1> USE DEF Arranged
<1> SUFFICES ASSUME NEW S \in SUBSET (1..Len(R)), S # {}
             PROVE  \E i \in S : \A j \in S : R[j].id # R[i].parent
  BY DEF Rooted
<1>1. CASE S \cap C # {}
  <2> DEFINE M == S \cap C
  <2>1. M \subseteq Nat
    BY TableIs
  <2> HIDE DEF M
  <2>2. PICK m \in M : \A k \in M : m <= k
    BY <1>1, <2>1, Least DEF M
  <2>3. ASSUME NEW j \in S, R[j].id = R[m].parent PROVE FALSE
    <3>1. j \in M /\ j < m
      BY <2>3 DEF M
    <3>2. m <= j /\ m \in Nat /\ j \in Nat
      BY <2>1, <2>2, <3>1
    <3> QED BY <3>1, <3>2
  <2> QED BY <2>3 DEF M
<1>2. CASE S \cap C = {}
  <2> DEFINE T == {e[i] : i \in S}
  <2>1. T \in SUBSET (1..Len(rs)) /\ T # {}
    BY <1>2
  <2>2. PICK t \in T : \A j \in T : rs[j].id # rs[t].parent
    BY <2>1 DEF Rooted
  <2>3. PICK i \in S : t = e[i]
    OBVIOUS
  <2>4. \A j \in S : R[j].id # R[i].parent
    BY <1>2, <2>2, <2>3
  <2> QED BY <2>4
<1> QED BY <1>1, <1>2

-----------------------------------------------------------------------------
(* Loading.                                                                *)

\* What is loaded has the uuids and kinds of its rows in the table.
LEMMA LoadedRows ==
  ASSUME NEW rs \in Table, NEW b \in 1..Len(rs), NEW L, LoadsFrom(L, rs, b)
  PROVE  /\ L \in Table /\ Len(L) = Len(rs) - b + 1 /\ Len(L) \in Nat /\ Len(L) >= 1
         /\ \A i \in 1..Len(L) : /\ b + i - 1 \in 1..Len(rs)
                                 /\ L[i].id = rs[b + i - 1].id /\ L[i].kind = rs[b + i - 1].kind
                                 /\ L[i] = Turned(rs[b + i - 1], rs[b].seg)
<1>1. /\ L \in Seq(Rows) /\ Len(L) = Len(rs) - b + 1
      /\ \A i \in 1..Len(L) : L[i] = Turned(rs[b + i - 1], rs[b].seg)
  BY DEF LoadsFrom
<1>2. Len(rs) \in Nat /\ b \in 1..Len(rs)
  BY TableIs
<1>3. Len(L) \in Nat /\ Len(L) >= 1 /\ \A i \in 1..Len(L) : b + i - 1 \in 1..Len(rs)
  BY <1>1, <1>2
<1>4. \A i \in 1..Len(L) : L[i].id = rs[b + i - 1].id /\ L[i].kind = rs[b + i - 1].kind
  BY <1>1, <1>3, TableIs, TurnedIs
<1>5. ASSUME NEW i \in 1..Len(L), NEW j \in 1..Len(L), L[i].id = L[j].id PROVE i = j
  <2>1. rs[b + i - 1].id = rs[b + j - 1].id /\ b + i - 1 \in 1..Len(rs) /\ b + j - 1 \in 1..Len(rs)
    BY <1>3, <1>4, <1>5
  <2>2. b + i - 1 = b + j - 1
    BY <2>1, TableIs
  <2>3. i \in Nat /\ j \in Nat /\ b \in Nat
    BY <1>2
  <2> QED BY <2>2, <2>3
<1>6. L \in Table
  BY <1>1, <1>5 DEF Table, Distinct
<1> QED BY <1>1, <1>3, <1>4, <1>6

\* The chain of a segment stays, what was linked behind its summary comes behind it.
LEMMA LiveRows ==
  ASSUME NEW rs \in Table, NEW b \in 1..Len(rs), NEW n \in 1..Len(rs), Segmented(rs, b, n),
         NEW L, LoadsFrom(L, rs, b)
  PROVE  /\ n \in Nat /\ n >= 1 /\ n + 2 <= Len(L)
         /\ L[1].parent = None
         /\ \A i \in 2..(n + 2) : L[i].parent = L[i - 1].id
         /\ \A i \in (n + 3)..Len(L) :
              L[i].parent = IF rs[b + i - 1].parent = L[2].id THEN L[n + 2].id
                            ELSE rs[b + i - 1].parent
<1> DEFINE l == Len(L)
           seg == rs[b].seg
<1>1. /\ l \in Nat /\ l = Len(rs) - b + 1
      /\ \A i \in 1..l : /\ b + i - 1 \in 1..Len(rs)
                         /\ L[i].id = rs[b + i - 1].id
                         /\ L[i] = Turned(rs[b + i - 1], seg)
      /\ \A i, j \in 1..l : L[i].id = L[j].id => i = j
  BY LoadedRows, TableIs
<1>2. /\ b \in Nat /\ b >= 1 /\ n \in Nat /\ n >= 1 /\ n + 2 <= l /\ Len(rs) \in Nat
  <2>1. Len(rs) \in Nat /\ b + n + 1 <= Len(rs)
    BY TableIs DEF Segmented
  <2> QED BY <1>1, <2>1
<1>3. /\ rs[b].parent = None
      /\ \A k \in 1..(n + 1) : rs[b + k].parent = rs[b + k - 1].id
      /\ seg = <<rs[b + 2].id, rs[b + 1].id, rs[b + n + 1].id>>
  BY DEF Segmented
<1> HIDE DEF l, seg
<1>4. 1 \in 1..l /\ 2 \in 1..l /\ 3 \in 1..l /\ n + 2 \in 1..l
  BY <1>1, <1>2
<1>5. seg[1] = L[3].id /\ seg[2] = L[2].id /\ seg[3] = L[n + 2].id /\ L[1].id = rs[b].id
  <2>1. b + 3 - 1 = b + 2 /\ b + 2 - 1 = b + 1 /\ b + (n + 2) - 1 = b + n + 1 /\ b + 1 - 1 = b
    BY <1>2
  <2>2. L[3].id = rs[b + 2].id /\ L[2].id = rs[b + 1].id /\ L[n + 2].id = rs[b + n + 1].id /\ L[1].id = rs[b].id
    BY <1>1, <1>4, <2>1
  <2> QED BY <1>3, <2>2
<1>6. ASSUME NEW i \in 1..l
      PROVE  /\ i = 3 => L[i].parent = L[2].id
             /\ i # 3 => L[i].parent = IF rs[b + i - 1].parent = L[2].id THEN L[n + 2].id
                                       ELSE rs[b + i - 1].parent
  <2> DEFINE r == rs[b + i - 1]
  <2>1. r \in Rows /\ r.id = L[i].id /\ L[i] = Turned(r, seg)
    BY <1>1, TableIs
  <2>2. r.id = seg[1] <=> i = 3
    BY <1>1, <1>4, <1>5, <2>1
  <2> HIDE DEF r
  <2>3. L[i].parent = IF r.id = seg[1] THEN seg[2] ELSE IF r.parent = seg[2] THEN seg[3] ELSE r.parent
    BY <2>1 DEF Turned, Rows
  <2> QED BY <1>5, <2>2, <2>3 DEF r
<1>7. L[1].parent = None
  <2>1. rs[b + 1 - 1].parent = None
    <3>1. b + 1 - 1 = b
      BY <1>2
    <3> QED BY <1>3, <3>1
  <2>2. L[2].id # None
    <3>1. L[2].id = rs[b + 2 - 1].id /\ b + 2 - 1 \in 1..Len(rs)
      BY <1>1, <1>4
    <3> QED BY <3>1, TableIs, Fields DEF Id, None
  <2> QED BY <1>4, <1>6, <2>1, <2>2
<1>8. ASSUME NEW i \in 2..(n + 2) PROVE L[i].parent = L[i - 1].id
  <2>1. i \in 1..l /\ i - 1 \in 1..(n + 1) /\ i - 1 \in 1..l /\ b + (i - 1) = b + i - 1
        /\ b + (i - 1) - 1 = b + (i - 1) - 1 /\ i \in Nat
    BY <1>1, <1>2
  <2>2. rs[b + i - 1].parent = rs[b + (i - 1) - 1].id
    BY <1>3, <2>1
  <2>3. rs[b + i - 1].parent = L[i - 1].id
    BY <1>1, <2>1, <2>2
  <2>4. CASE i = 3
    BY <1>6, <2>1, <2>4
  <2>5. CASE i # 3
    <3>1. i - 1 # 2
      BY <2>1, <2>5
    <3>2. L[i - 1].id # L[2].id
      BY <1>1, <1>4, <2>1, <3>1
    <3> QED BY <1>6, <2>1, <2>3, <2>5, <3>2
  <2> QED BY <2>4, <2>5
<1>9. \A i \in (n + 3)..l : i \in 1..l /\ i # 3
  BY <1>1, <1>2
<1> QED BY <1>2, <1>6, <1>7, <1>8, <1>9 DEF l

\* What is loaded is a table again, and rooted.
LEMMA LoadedIs ==
  ASSUME NEW rs \in Table, rs # <<>>, SegOK(rs), Rooted(rs)
  PROVE  LET L == LoadMessages(rs)
         IN  L \in Table /\ L # <<>> /\ Rooted(L) /\ IdsOf(L) \subseteq IdsOf(rs)
<1> DEFINE L == LoadMessages(rs)
<1>1. CASE L = rs
  BY <1>1
<1>2. ASSUME NEW b \in 1..Len(rs), rs[b].seg # NoSeg, Newest(rs, b), LoadsFrom(L, rs, b)
      PROVE  L \in Table /\ L # <<>> /\ Rooted(L) /\ IdsOf(L) \subseteq IdsOf(rs)
  <2> HIDE DEF L
  <2>1. /\ L \in Table /\ Len(L) = Len(rs) - b + 1 /\ Len(L) \in Nat /\ Len(L) >= 1
        /\ \A i \in 1..Len(L) : /\ b + i - 1 \in 1..Len(rs)
                                /\ L[i].id = rs[b + i - 1].id
                                /\ L[i] = Turned(rs[b + i - 1], rs[b].seg)
    BY <1>2, LoadedRows
  <2>a. /\ IdsOf(L) = {L[i].id : i \in 1..Len(L)}
        /\ \A i, j \in 1..Len(L) : L[i].id = L[j].id => i = j
    BY <2>1, TableIs
  <2>2. L # <<>>
    BY <2>1, EmptySeq
  <2>3. IdsOf(L) \subseteq IdsOf(rs)
    <3>1. IdsOf(rs) = {rs[i].id : i \in 1..Len(rs)}
      BY TableIs
    <3>2. \A i \in 1..Len(L) : L[i].id \in IdsOf(rs)
      BY <2>1, <3>1
    <3> QED BY <2>a, <3>2
  <2> DEFINE e == [i \in 1..Len(L) |-> b + i - 1]
  <2>4. Rooted(L)
    <3>1. CASE rs[b].seg = Stale
      <4>1. \A i \in 1..Len(L) : L[i] = rs[b + i - 1]
        BY <2>1, <3>1, TableIs, TurnedIs
      <4> DEFINE C == {}
      <4>2. C \in SUBSET (1..Len(L))
        OBVIOUS
      <4>3. \A i \in C : \A j \in 1..Len(L) : L[j].id = L[i].parent => j \in C /\ j < i
        OBVIOUS
      <4>4. \A i \in (1..Len(L)) \ C : e[i] \in 1..Len(rs)
        BY <2>1
      <4>5. \A i, j \in (1..Len(L)) \ C : L[j].id = L[i].parent => rs[e[j]].id = rs[e[i]].parent
        BY <2>1, <4>1
      <4> HIDE DEF C, e
      <4>6. Arranged(L, rs, C, e)
        BY <4>2, <4>3, <4>4, <4>5 DEF Arranged
      <4> QED BY <2>1, <4>6, RootedBy
    <3>2. CASE rs[b].seg # Stale
      <4>1. PICK n \in 1..Len(rs) : Segmented(rs, b, n)
        BY <1>2, <3>2 DEF SegOK
      <4>2. /\ n \in Nat /\ n >= 1 /\ n + 2 <= Len(L)
            /\ L[1].parent = None
            /\ \A i \in 2..(n + 2) : L[i].parent = L[i - 1].id
            /\ \A i \in (n + 3)..Len(L) :
                 L[i].parent = IF rs[b + i - 1].parent = L[2].id THEN L[n + 2].id
                               ELSE rs[b + i - 1].parent
        BY <1>2, <4>1, LiveRows
      <4> DEFINE C == 1..(n + 2)
      <4>3. C \in SUBSET (1..Len(L))
        BY <2>1, <4>2
      <4>4. ASSUME NEW i \in C, NEW j \in 1..Len(L), L[j].id = L[i].parent PROVE j \in C /\ j < i
        <5>1. CASE i = 1
          <6>1. L[j].id # None
            BY <2>1, TableIs, Fields DEF Id, None
          <6> QED BY <4>2, <4>4, <5>1, <6>1
        <5>2. CASE i # 1
          <6>0. Len(L) \in Nat /\ n \in Nat /\ n + 2 <= Len(L) /\ i \in Int
            BY <2>1, <4>2
          <6>1. i \in 2..(n + 2) /\ i - 1 \in 1..Len(L) /\ i - 1 \in C /\ i - 1 < i
            BY <5>2, <6>0
          <6>2. L[j].id = L[i - 1].id
            BY <4>2, <4>4, <6>1
          <6>3. j = i - 1
            BY <2>a, <6>1, <6>2
          <6> QED BY <6>1, <6>3
        <5> QED BY <5>1, <5>2
      <4>5. \A i \in (1..Len(L)) \ C : e[i] \in 1..Len(rs)
        BY <2>1
      <4>6. ASSUME NEW i \in (1..Len(L)) \ C, NEW j \in (1..Len(L)) \ C, L[j].id = L[i].parent
            PROVE  rs[e[j]].id = rs[e[i]].parent
        <5>1. i \in (n + 3)..Len(L) /\ j # n + 2 /\ n + 2 \in 1..Len(L)
          BY <2>1, <4>2
        <5>2. L[j].id # L[n + 2].id
          BY <2>1, <5>1, TableIs
        <5>3. L[j].id = rs[b + i - 1].parent
          BY <4>2, <4>6, <5>1, <5>2
        <5> QED BY <2>1, <5>3
      <4> HIDE DEF C, e
      <4>7. Arranged(L, rs, C, e)
        BY <4>3, <4>4, <4>5, <4>6 DEF Arranged
      <4> QED BY <2>1, <4>7, RootedBy
    <3> QED BY <3>1, <3>2
  <2> QED BY <2>1, <2>2, <2>3, <2>4
<1> HIDE DEF L
<1>3. \/ L = rs
      \/ \E b \in 1..Len(rs) : Newest(rs, b) /\ rs[b].seg # NoSeg /\ LoadsFrom(L, rs, b)
  BY LoadIs DEF L
<1> QED BY <1>1, <1>2, <1>3 DEF L

\* The rows from the root down to u.
LEMMA ChainIs ==
  ASSUME NEW rs \in Table, NEW u \in IdsOf(rs)
  PROVE  LET c == ChainOf(rs, u)
         IN  /\ c \in Table /\ c # <<>> /\ IdsOf(c) \subseteq IdsOf(rs)
             /\ Len(c) = Len(PathTo(rs, u))
             /\ \A i \in 1..Len(c) : c[i] = RowOf(rs, PathTo(rs, u)[i]) /\ c[i].id = PathTo(rs, u)[i]
<1> DEFINE p == PathTo(rs, u)
           n == Len(p)
           c == [i \in DOMAIN p |-> RowOf(rs, p[i])]
<1>1. /\ p \in Seq(IdsOf(rs)) /\ n \in Nat /\ n >= 1 /\ DOMAIN p = 1..n
      /\ \A i, j \in 1..n : p[i] = p[j] => i = j
      /\ \A i \in 1..n : p[i] \in IdsOf(rs)
  BY PathToIs, LenProperties, ElementOfSeq DEF Path
<1>2. ChainOf(rs, u) = c
  BY DEF ChainOf, With
<1>3. ASSUME NEW v \in IdsOf(rs) PROVE RowOf(rs, v) \in Rows /\ RowOf(rs, v).id = v
  BY TableIs
<1> HIDE DEF p, n
<1>4. /\ c \in [1..n -> Rows] /\ \A i \in 1..n : c[i] = RowOf(rs, p[i])
  BY <1>1, <1>3
<1> HIDE DEF c
<1>5. c \in Seq(Rows) /\ Len(c) = n
  BY <1>1, <1>4, IsASeq
<1>6. \A i \in 1..n : c[i].id = p[i]
  BY <1>1, <1>3, <1>4
<1>7. c \in Table
  BY <1>1, <1>5, <1>6 DEF Table, Distinct
<1>8. c # <<>>
  BY <1>1, <1>5, EmptySeq
<1>9. IdsOf(c) \subseteq IdsOf(rs)
  <2>1. IdsOf(c) = {c[i].id : i \in 1..n}
    BY <1>5, <1>7, TableIs
  <2>2. \A i \in 1..n : c[i].id \in IdsOf(rs)
    BY <1>1, <1>6
  <2> QED BY <2>1, <2>2
<1> QED BY <1>2, <1>4, <1>5, <1>6, <1>7, <1>8, <1>9 DEF p, n

\* What a restart reads back.
LEMMA LoadChainIs ==
  ASSUME NEW rs \in Table, SegOK(rs), Rooted(rs)
  PROVE  LoadChain(rs) \in Table /\ IdsOf(LoadChain(rs)) \subseteq IdsOf(rs)
<1>1. CASE rs = <<>>
  BY <1>1 DEF LoadChain
<1>2. CASE rs # <<>>
  <2> DEFINE L == LoadMessages(rs)
             u == L[LeafIndex(L)].id
  <2>1. L \in Table /\ L # <<>> /\ Rooted(L) /\ IdsOf(L) \subseteq IdsOf(rs)
    BY <1>2, LoadedIs
  <2>2. LoadChain(rs) = ChainOf(L, u)
    BY <1>2 DEF LoadChain, With
  <2> HIDE DEF L
  <2>3. \E i \in 1..Len(L) : Childless(L, i)
    BY <2>1, LeafExists
  <2>4. LeafIndex(L) \in 1..Len(L)
    BY <2>1, <2>3, LeafIs
  <2>5. IdsOf(L) = {L[i].id : i \in 1..Len(L)}
    BY <2>1, TableIs
  <2>6. u \in IdsOf(L)
    BY <2>4, <2>5
  <2> HIDE DEF u
  <2>7. ChainOf(L, u) \in Table /\ IdsOf(ChainOf(L, u)) \subseteq IdsOf(L)
    BY <2>1, <2>6, ChainIs
  <2> QED BY <2>1, <2>2, <2>7
<1> QED BY <1>1, <1>2

\* Rows read back as messages.
LEMMA ToEngineIs ==
  ASSUME NEW rs \in Table
  PROVE  /\ ToEngine(rs) \in Seq(Messages) /\ Len(ToEngine(rs)) = Len(rs)
         /\ \A i \in 1..Len(rs) : ToEngine(rs)[i] = [id |-> rs[i].id, kind |-> rs[i].kind]
         /\ IdsOf(ToEngine(rs)) = IdsOf(rs)
         /\ \A i \in 1..Len(rs) : ToEngine(rs)[i].id \in Id
         /\ Distinct(ToEngine(rs))
<1> DEFINE E == ToEngine(rs)
           n == Len(rs)
<1>1. /\ n \in Nat /\ DOMAIN rs = 1..n /\ \A i \in 1..n : rs[i] \in Rows
      /\ IdsOf(rs) = {rs[i].id : i \in 1..n}
      /\ \A i, j \in 1..n : rs[i].id = rs[j].id => i = j
  BY TableIs
<1>2. \A i \in 1..n : rs[i].id \in Id /\ rs[i].id \in 0..MaxId /\ rs[i].kind \in Kinds
  BY <1>1, Fields, HistoryAssumption DEF Id
<1> HIDE DEF n
<1>3. /\ E \in [1..n -> Messages]
      /\ \A i \in 1..n : E[i] = [id |-> rs[i].id, kind |-> rs[i].kind]
  BY <1>1, <1>2 DEF ToEngine, Messages
<1> HIDE DEF E
<1>4. E \in Seq(Messages) /\ Len(E) = n /\ DOMAIN E = 1..n
  BY <1>1, <1>3, IsASeq
<1>5. \A i \in 1..n : E[i].id = rs[i].id
  BY <1>3
<1>6. IdsOf(E) = IdsOf(rs)
  BY <1>1, <1>4, <1>5 DEF IdsOf
<1>7. Distinct(E)
  BY <1>1, <1>4, <1>5 DEF Distinct
<1> QED BY <1>2, <1>3, <1>4, <1>5, <1>6, <1>7 DEF E, n

-----------------------------------------------------------------------------
(* What each write leaves of a rooted table.                               *)

\* New messages: nothing refers to them yet.
Unseen(rs, ms, fork) ==
  \A i \in 1..Len(ms) : fork # ms[i].id /\ \A j \in 1..Len(rs) : rs[j].parent # ms[i].id

\* A sweep keeps the table rooted, and its last segment.
LEMMA SweepIs ==
  ASSUME NEW rs \in Table, Rooted(rs), SegOK(rs),
         NEW ms, Batch(rs, ms), NEW fork \in 0..MaxId, Unseen(rs, ms, fork),
         NEW R, Extended(R, rs, ms, Len(ms), Start(rs, fork))
  PROVE  R \in Table /\ Rooted(R) /\ SegOK(R)
<1> DEFINE l == Len(rs)
           m == Len(ms)
           start == Start(rs, fork)
<1>1. /\ rs \in Seq(Rows) /\ l \in Nat /\ \A i \in 1..l : rs[i] \in Rows
      /\ IdsOf(rs) = {rs[i].id : i \in 1..l}
      /\ \A i, j \in 1..l : rs[i].id = rs[j].id => i = j
  BY TableIs
<1>2. /\ ms \in Seq(Messages) /\ m \in Nat
      /\ \A i \in 1..m : ms[i].id \in Id /\ ms[i].kind # "boundary" /\ ms[i].id \notin IdsOf(rs)
      /\ \A i, j \in 1..m : ms[i].id = ms[j].id => i = j
  BY LenProperties DEF Batch, Distinct
<1>3. /\ R \in Seq(Rows) /\ Len(R) = l + m
      /\ \A i \in 1..l : R[i] = rs[i]
      /\ \A i \in 1..m : R[l + i] = RowFrom(ms[i], Before(ms, start, i))
  BY DEF Extended
<1>4. \A i \in 1..m : /\ R[l + i].id = ms[i].id /\ R[l + i].kind # "boundary"
                      /\ R[l + i].parent = Before(ms, start, i)
  <2> HIDE DEF l, m, start
  <2> TAKE i \in 1..m
  <2>1. R[l + i] = RowFrom(ms[i], Before(ms, start, i))
    BY <1>3
  <2>2. R[l + i].id = ms[i].id /\ R[l + i].kind = ms[i].kind /\ R[l + i].parent = Before(ms, start, i)
    BY <2>1 DEF RowFrom
  <2> QED BY <1>2, <2>2
<1>5. \A i \in 1..m : start # ms[i].id
  <2>1. CASE fork # None
    BY <2>1 DEF Unseen, Start
  <2>2. CASE fork = None /\ rs = <<>>
    BY <1>2, <2>2 DEF Start, LastChainUUID, Id, None
  <2>3. CASE fork = None /\ rs # <<>>
    <3>1. l \in 1..l
      BY <1>1, <2>3, EmptySeq
    <3>2. start = rs[l].id
      BY <2>3 DEF Start, LastChainUUID, Last
    <3> HIDE DEF l, start
    <3> QED BY <1>1, <1>2, <3>1, <3>2
  <2> QED BY <2>1, <2>2, <2>3
<1>6. \A i \in 1..m : \A j \in 1..l : rs[j].parent # ms[i].id
  BY DEF Unseen
<1> HIDE DEF l, m, start
<1>7. \A i \in 1..(l + m) : i \in 1..l \/ (i - l \in 1..m /\ i = l + (i - l))
  BY <1>1, <1>2
<1>8. \A i \in 1..l : i \in 1..(l + m)
  BY <1>1, <1>2
<1>9. R \in Table
  <2>1. ASSUME NEW i \in 1..(l + m), NEW j \in 1..(l + m), R[i].id = R[j].id PROVE i = j
    <3>1. CASE i \in 1..l /\ j \in 1..l
      BY <1>1, <1>3, <2>1, <3>1
    <3>2. ASSUME NEW x \in 1..l, NEW y \in 1..(l + m), y \notin 1..l, R[x].id = R[y].id PROVE FALSE
      <4>1. R[y].id = ms[y - l].id /\ y - l \in 1..m
        BY <1>4, <1>7, <3>2
      <4>2. R[x].id \in IdsOf(rs)
        BY <1>1, <1>3
      <4> QED BY <1>2, <3>2, <4>1, <4>2
    <3>3. CASE i \notin 1..l /\ j \notin 1..l
      <4>1. /\ i - l \in 1..m /\ j - l \in 1..m /\ R[i].id = ms[i - l].id /\ R[j].id = ms[j - l].id
            /\ i = l + (i - l) /\ j = l + (j - l)
        BY <1>4, <1>7, <3>3
      <4>2. i - l = j - l
        BY <1>2, <2>1, <4>1
      <4> QED BY <4>1, <4>2
    <3>4. CASE i \in 1..l /\ j \notin 1..l
      BY <2>1, <3>2, <3>4
    <3>5. CASE i \notin 1..l /\ j \in 1..l
      BY <2>1, <3>2, <3>5
    <3> QED BY <3>1, <3>3, <3>4, <3>5
  <2> QED BY <1>3, <2>1 DEF Table, Distinct
<1>10. Rooted(R)
  <2> SUFFICES ASSUME NEW S \in SUBSET (1..(l + m)), S # {}
               PROVE  \E i \in S : \A j \in S : R[j].id # R[i].parent
    BY <1>3 DEF Rooted
  <2>1. CASE S \cap 1..l # {}
    <3> DEFINE T == S \cap 1..l
    <3>1. PICK i \in T : \A j \in T : rs[j].id # rs[i].parent
      BY <2>1 DEF Rooted, l
    <3>2. ASSUME NEW j \in S, R[j].id = R[i].parent PROVE FALSE
      <4>1. R[i].parent = rs[i].parent
        BY <1>3
      <4>2. CASE j \in 1..l
        BY <1>3, <3>1, <3>2, <4>1, <4>2
      <4>3. CASE j \notin 1..l
        <5>1. j - l \in 1..m /\ R[j].id = ms[j - l].id
          BY <1>4, <1>7, <4>3
        <5> QED BY <1>6, <3>2, <4>1, <5>1
      <4> QED BY <4>2, <4>3
    <3> QED BY <3>2
  <2>2. CASE S \cap 1..l = {}
    <3>1. S \subseteq Nat
      BY <1>1, <1>2
    <3>2. PICK i \in S : \A j \in S : i <= j
      BY <3>1, Least
    <3>3. i - l \in 1..m /\ R[i].parent = Before(ms, start, i - l)
      BY <1>4, <1>7, <2>2
    <3>4. ASSUME NEW j \in S, R[j].id = R[i].parent PROVE FALSE
      <4>1. j - l \in 1..m /\ R[j].id = ms[j - l].id
        BY <1>4, <1>7, <2>2
      <4>2. i - l # 1
        BY <1>5, <3>3, <3>4, <4>1 DEF Before
      <4>3. ms[j - l].id = ms[(i - l) - 1].id
        BY <3>3, <3>4, <4>1, <4>2 DEF Before
      <4>4. (i - l) - 1 \in 1..m
        BY <1>1, <1>2, <3>3, <4>2
      <4>5. j - l = (i - l) - 1
        BY <1>2, <4>1, <4>3, <4>4
      <4>6. i \in Nat /\ j \in Nat /\ i <= j
        BY <3>1, <3>2
      <4> QED BY <1>1, <4>5, <4>6
    <3> QED BY <3>4
  <2> QED BY <2>1, <2>2
<1>11. SegOK(R)
  <2> SUFFICES ASSUME NEW b \in 1..(l + m), Newest(R, b), R[b].seg \notin {NoSeg, Stale}
               PROVE  \E n \in 1..(l + m) : Segmented(R, b, n)
    BY <1>3 DEF SegOK
  <2>1. b \in 1..l
    <3>1. R[b].kind = "boundary"
      BY DEF Newest
    <3> QED BY <1>4, <1>7, <3>1
  <2>2. Newest(rs, b)
    <3>1. \A i \in 1..l : R[i].kind = "boundary" => i <= b
      BY <1>3, <1>8 DEF Newest
    <3> QED BY <1>3, <2>1, <3>1 DEF Newest, l
  <2>3. rs[b].seg \notin {NoSeg, Stale}
    BY <1>3, <2>1
  <2>4. PICK n \in 1..l : Segmented(rs, b, n)
    BY <2>1, <2>2, <2>3 DEF SegOK, l
  <2>5. /\ b \in Nat /\ b >= 1 /\ n \in Nat /\ n >= 1 /\ b + n + 1 <= l
    BY <2>1, <2>4, <1>1 DEF Segmented, l
  <2>6. /\ b + n + 1 <= l + m /\ n \in 1..(l + m)
        /\ b + 1 \in 1..l /\ b + 2 \in 1..l /\ b + n + 1 \in 1..l
        /\ \A k \in 1..(n + 1) : b + k \in 1..l /\ b + k - 1 \in 1..l
    BY <1>1, <1>2, <2>5
  <2>7. Segmented(R, b, n)
    <3>1. \A k \in 1..(n + 1) : R[b + k].parent = R[b + k - 1].id
      BY <1>3, <2>4, <2>6 DEF Segmented
    <3>2. R[b].seg = <<R[b + 2].id, R[b + 1].id, R[b + n + 1].id>> /\ R[b].parent = None
      BY <1>3, <2>1, <2>4, <2>6 DEF Segmented
    <3> QED BY <1>3, <2>6, <3>1, <3>2 DEF Segmented
  <2> QED BY <2>6, <2>7
<1> QED BY <1>9, <1>10, <1>11

\* A compaction's messages: a boundary and a summary under new uuids, and kept messages.
Compaction(rs, b, s, kept) ==
  /\ b \in Messages /\ b.kind = "boundary" /\ b.id \in Id
  /\ s \in Messages /\ s.kind = "summary" /\ s.id \in Id /\ s.id # b.id
  /\ kept \in Seq(Messages) /\ Distinct(kept)
  /\ \A i \in 1..Len(kept) : kept[i].id \in Id /\ kept[i].id # b.id /\ kept[i].id # s.id
  /\ b.id \notin IdsOf(rs) /\ s.id \notin IdsOf(rs)

\* R is the l rows of rs that were not kept, e says where they were, and behind them boundary,
\* summary and kept messages, each linked behind the one before.
Compacted(R, rs, b, s, kept, l, e) ==
  /\ R \in Seq(Rows) /\ l \in Nat /\ Len(R) = l + 2 + Len(kept)
  /\ e \in [1..l -> 1..Len(rs)]
  /\ \A i \in 1..l : R[i] = rs[e[i]] /\ R[i].id \notin IdsOf(kept)
  /\ \A i, j \in 1..l : i < j => e[i] < e[j]
  /\ \A k \in 1..Len(rs) : rs[k].id \notin IdsOf(kept) => \E i \in 1..l : e[i] = k
  /\ R[l + 1].id = b.id /\ R[l + 1].kind = "boundary" /\ R[l + 1].parent = None
  /\ R[l + 1].seg = Segment(b, s, kept)
  /\ R[l + 2].id = s.id /\ R[l + 2].kind = "summary" /\ R[l + 2].parent = b.id
  /\ \A i \in 1..Len(kept) :
       /\ R[l + 2 + i].id = kept[i].id /\ R[l + 2 + i].kind = kept[i].kind
       /\ R[l + 2 + i].parent = (IF i = 1 THEN s.id ELSE kept[i - 1].id)
       /\ R[l + 2 + i].seg = NoSeg

\* r is p and q behind it.
Joined(S, r, p, q) ==
  /\ r \in Seq(S) /\ Len(r) = Len(p) + Len(q)
  /\ \A i \in 1..Len(p) : r[i] = p[i]
  /\ \A i \in 1..Len(q) : r[Len(p) + i] = q[i]

\* Concatenation.
LEMMA JoinIs ==
  ASSUME NEW S, NEW p \in Seq(S), NEW q \in Seq(S)
  PROVE  Joined(S, p \o q, p, q)
<1>1. Len(p) \in Nat /\ Len(q) \in Nat
  BY LenProperties
<1>2. /\ p \o q \in Seq(S) /\ Len(p \o q) = Len(p) + Len(q)
      /\ \A i \in 1..(Len(p) + Len(q)) :
           (p \o q)[i] = IF i <= Len(p) THEN p[i] ELSE q[i - Len(p)]
  BY ConcatProperties
<1>3. \A i \in 1..Len(p) : i \in 1..(Len(p) + Len(q)) /\ i <= Len(p)
  BY <1>1
<1>4. \A i \in 1..Len(q) : /\ Len(p) + i \in 1..(Len(p) + Len(q)) /\ ~(Len(p) + i <= Len(p))
                           /\ (Len(p) + i) - Len(p) = i
  BY <1>1
<1> QED BY <1>2, <1>3, <1>4 DEF Joined

\* What RecordCompact writes.
LEMMA RecordCompactIs ==
  ASSUME NEW rs \in Table, NEW b, NEW s, NEW kept, Compaction(rs, b, s, kept)
  PROVE  \E l, e : Compacted(RecordCompact(rs, b, s, kept), rs, b, s, kept, l, e)
<1> DEFINE others == Without(rs, IdsOf(kept))
           link(i) == IF i = 1 THEN s.id ELSE kept[i - 1].id
           chained == [i \in DOMAIN kept |-> RowFrom(kept[i], link(i))]
           seg == Segment(b, s, kept)
           brow == [RowFrom(b, None) EXCEPT !.seg = seg]
           srow == RowFrom(s, b.id)
           two == <<brow, srow>>
           l == Len(others)
           k == Len(kept)
<1>1. /\ b \in Messages /\ b.kind = "boundary" /\ b.id \in Id
      /\ s \in Messages /\ s.kind = "summary" /\ s.id \in Id
      /\ kept \in Seq(Messages) /\ k \in Nat /\ DOMAIN kept = 1..k
      /\ \A i \in 1..k : kept[i] \in Messages /\ kept[i].id \in Id
      /\ b.id \in 0..MaxId /\ s.id \in 0..MaxId /\ None \in 0..MaxId
      /\ \A i \in 1..k : kept[i].id \in 0..MaxId
  BY LenProperties, ElementOfSeq, HistoryAssumption DEF Compaction, Id, None
<1>2. RecordCompact(rs, b, s, kept) = others \o two \o chained
  BY DEF RecordCompact
<1>3. rs \in Seq(Rows)
  BY TableIs
<1>4. others \in Seq(Rows) /\ l \in Nat /\ \E e : Selects(e, rs, Len(rs), others, IdsOf(kept))
  BY <1>3, WithoutIs, LenProperties
<1>5. seg \in {NoSeg, Stale} \cup Id \X Id \X Id
  <2>1. CASE kept = <<>>
    BY <2>1 DEF Segment
  <2>2. CASE kept # <<>>
    <3>1. 1 \in 1..k /\ k \in 1..k
      BY <1>1, <2>2, EmptySeq
    <3>2. Head(kept) = kept[1] /\ Last(kept) = kept[k]
      BY <1>1, <2>2, HeadTailProperties DEF Last
    <3> QED BY <1>1, <2>2, <3>1, <3>2 DEF Segment
  <2> QED BY <2>1, <2>2
<1>6. /\ brow \in Rows /\ brow.id = b.id /\ brow.kind = "boundary" /\ brow.parent = None /\ brow.seg = seg
  <2> HIDE DEF seg
  <2>1. /\ RowFrom(b, None) = [id |-> b.id, parent |-> None, kind |-> b.kind, seg |-> NoSeg]
    BY DEF RowFrom
  <2>2. brow = [id |-> b.id, parent |-> None, kind |-> b.kind, seg |-> seg]
    BY <2>1
  <2>3. b.kind \in Kinds
    BY <1>1, Fields
  <2> HIDE DEF brow
  <2> QED BY <1>1, <1>5, <2>2, <2>3 DEF Rows, Id
<1>7. /\ srow \in Rows /\ srow.id = s.id /\ srow.kind = "summary" /\ srow.parent = b.id
  BY <1>1, RowFromType DEF RowFrom
<1>8. two \in Seq(Rows) /\ Len(two) = 2 /\ two[1] = brow /\ two[2] = srow
  <2> HIDE DEF brow, srow
  <2> QED BY <1>6, <1>7
<1>9. /\ chained \in Seq(Rows) /\ Len(chained) = k
      /\ \A i \in 1..k : chained[i] = RowFrom(kept[i], link(i))
  <2>1. \A i \in 1..k : link(i) \in 0..MaxId
    <3>1. \A i \in 1..k : i # 1 => i - 1 \in 1..k
      BY <1>1
    <3> QED BY <1>1, <3>1
  <2> HIDE DEF link
  <2>2. \A i \in 1..k : RowFrom(kept[i], link(i)) \in Rows
    BY <1>1, <2>1, RowFromType
  <2>3. chained \in [1..k -> Rows] /\ \A i \in 1..k : chained[i] = RowFrom(kept[i], link(i))
    BY <1>1, <2>2
  <2> HIDE DEF chained
  <2> QED BY <1>1, <2>3, IsASeq
<1> DEFINE R == RecordCompact(rs, b, s, kept)
<1> HIDE DEF others, brow, srow, seg, two, chained, l, k
<1>10. /\ R \in Seq(Rows) /\ Len(R) = l + 2 + k
       /\ \A i \in 1..l : R[i] = others[i]
       /\ R[l + 1] = brow /\ R[l + 2] = srow
       /\ \A i \in 1..k : R[l + 2 + i] = chained[i]
  <2> DEFINE q == others \o two
  <2>1. /\ q \in Seq(Rows) /\ Len(q) = l + 2
        /\ \A i \in 1..l : q[i] = others[i]
        /\ \A i \in 1..2 : q[l + i] = two[i]
    <3>1. Joined(Rows, q, others, two)
      BY <1>4, <1>8, JoinIs
    <3> HIDE DEF q
    <3> QED BY <1>8, <3>1 DEF Joined, l
  <2> HIDE DEF q
  <2>2. /\ q \o chained \in Seq(Rows) /\ Len(q \o chained) = l + 2 + k
        /\ \A i \in 1..(l + 2) : (q \o chained)[i] = q[i]
        /\ \A i \in 1..k : (q \o chained)[l + 2 + i] = chained[i]
    <3>1. Joined(Rows, q \o chained, q, chained)
      BY <1>9, <2>1, JoinIs
    <3> QED BY <1>9, <2>1, <3>1 DEF Joined
  <2>3. R = q \o chained
    BY <1>2 DEF q
  <2>4. /\ 1 \in 1..2 /\ 2 \in 1..2 /\ l + 1 \in 1..(l + 2) /\ l + 2 \in 1..(l + 2)
        /\ \A i \in 1..l : i \in 1..(l + 2)
    BY <1>4
  <2> QED BY <1>8, <2>1, <2>2, <2>3, <2>4
<1> HIDE DEF R
<1>11. PICK e : Selects(e, rs, Len(rs), others, IdsOf(kept))
  BY <1>4
<1>12. /\ e \in [1..l -> 1..Len(rs)]
       /\ \A i \in 1..l : others[i] = rs[e[i]]
       /\ \A i, j \in 1..l : i < j => e[i] < e[j]
       /\ \A i \in 1..Len(rs) : rs[i].id \notin IdsOf(kept) <=> \E j \in 1..l : e[j] = i
  BY <1>11 DEF Selects, l
<1>13. \A i \in 1..l : R[i] = rs[e[i]] /\ R[i].id \notin IdsOf(kept)
  BY <1>10, <1>12
<1>14. ASSUME NEW i \in 1..k
       PROVE  /\ R[l + 2 + i].id = kept[i].id /\ R[l + 2 + i].kind = kept[i].kind
              /\ R[l + 2 + i].parent = link(i) /\ R[l + 2 + i].seg = NoSeg
  BY <1>9, <1>10 DEF RowFrom
<1>15. Compacted(R, rs, b, s, kept, l, e)
  BY <1>4, <1>6, <1>7, <1>10, <1>12, <1>13, <1>14 DEF Compacted, k, seg
<1> QED BY <1>15 DEF R

\* A recorded compaction leaves a table: no uuid twice.
LEMMA CompactedTable ==
  ASSUME NEW rs \in Table, NEW b, NEW s, NEW kept, Compaction(rs, b, s, kept),
         NEW R, NEW l, NEW e, Compacted(R, rs, b, s, kept, l, e)
  PROVE  R \in Table
<1> DEFINE k == Len(kept)
           top == l + 2
<1>1. /\ R \in Seq(Rows) /\ l \in Nat /\ Len(R) = top + k
      /\ \A i \in 1..l : e[i] \in 1..Len(rs) /\ R[i] = rs[e[i]] /\ R[i].id \notin IdsOf(kept)
      /\ \A i, j \in 1..l : i < j => e[i] < e[j]
      /\ R[l + 1].id = b.id /\ R[l + 2].id = s.id
      /\ \A i \in 1..k : R[top + i].id = kept[i].id
  BY DEF Compacted
<1>2. /\ s.id # b.id /\ b.id \notin IdsOf(rs) /\ s.id \notin IdsOf(rs)
      /\ k \in Nat /\ IdsOf(kept) = {kept[i].id : i \in 1..k}
      /\ \A i \in 1..k : kept[i].id # b.id /\ kept[i].id # s.id
      /\ \A i, j \in 1..k : kept[i].id = kept[j].id => i = j
  BY LenProperties DEF Compaction, Distinct, IdsOf
<1>3. /\ Len(rs) \in Nat /\ IdsOf(rs) = {rs[i].id : i \in 1..Len(rs)}
      /\ \A i, j \in 1..Len(rs) : rs[i].id = rs[j].id => i = j
  BY TableIs
<1>4. \A i \in 1..l : R[i].id \in IdsOf(rs)
  BY <1>1, <1>3
<1>5. top = l + 2
  OBVIOUS
<1> HIDE DEF k, top
<1>6. \A i \in 1..(top + k) : \/ i \in 1..l \/ i = l + 1 \/ i = l + 2
                              \/ i - top \in 1..k /\ i = top + (i - top)
  <2>1. k \in Nat /\ l \in Nat /\ top = l + 2
    BY <1>1, <1>2, <1>5
  <2> QED BY <2>1
<1>7. \A i \in 1..(top + k) : (i - top \in 1..k /\ i = top + (i - top)) =>
        R[i].id \in IdsOf(kept) /\ R[i].id # b.id /\ R[i].id # s.id
  <2> TAKE i \in 1..(top + k)
  <2>1. ASSUME i - top \in 1..k, i = top + (i - top) PROVE R[i].id = kept[i - top].id
    BY <1>1, <2>1
  <2> QED BY <1>2, <2>1
<1>8. ASSUME NEW i \in 1..(top + k), NEW j \in 1..(top + k), i < j, R[i].id = R[j].id PROVE FALSE
  <2>1. i \in Nat /\ j \in Nat
    BY <1>1, <1>2, <1>5
  <2>2. CASE j \in 1..l
    <3>1. i \in 1..l
      BY <1>1, <1>8, <2>1, <2>2
    <3>2. e[i] = e[j]
      BY <1>1, <1>3, <1>8, <2>2, <3>1
    <3>3. e[i] < e[j] /\ e[i] \in Nat /\ e[j] \in Nat
      BY <1>1, <1>3, <1>8, <2>2, <3>1
    <3> QED BY <3>2, <3>3
  <2>3. CASE j = l + 1
    <3>1. i \in 1..l
      BY <1>1, <1>8, <2>1, <2>3
    <3> QED BY <1>1, <1>2, <1>4, <1>8, <2>3, <3>1
  <2>4. CASE j = l + 2
    <3>1. i \in 1..l \/ i = l + 1
      BY <1>1, <1>8, <2>1, <2>4
    <3> QED BY <1>1, <1>2, <1>4, <1>8, <2>4, <3>1
  <2>5. CASE j - top \in 1..k /\ j = top + (j - top)
    <3>1. R[j].id \in IdsOf(kept) /\ R[j].id # b.id /\ R[j].id # s.id
      BY <1>7, <2>5
    <3>2. CASE i \in 1..l
      BY <1>1, <1>8, <3>1, <3>2
    <3>3. CASE i = l + 1 \/ i = l + 2
      BY <1>1, <1>8, <3>1, <3>3
    <3>4. CASE i - top \in 1..k /\ i = top + (i - top)
      <4>1. R[i].id = kept[i - top].id /\ R[j].id = kept[j - top].id
        BY <1>1, <2>5, <3>4
      <4>2. i - top = j - top
        BY <1>2, <1>8, <2>5, <3>4, <4>1
      <4>3. i = j
        BY <2>5, <3>4, <4>2
      <4> QED BY <1>8, <2>1, <4>3
    <3> QED BY <1>6, <3>2, <3>3, <3>4
  <2> QED BY <1>6, <2>2, <2>3, <2>4, <2>5
<1>9. ASSUME NEW i \in 1..(top + k), NEW j \in 1..(top + k), R[i].id = R[j].id PROVE i = j
  <2>1. i \in Int /\ j \in Int
    OBVIOUS
  <2>2. ~(i < j) /\ ~(j < i)
    BY <1>8, <1>9
  <2> QED BY <2>1, <2>2
<1> QED BY <1>1, <1>9 DEF Table, Distinct

\* From the boundary on each row is linked behind the one before.
LEMMA CompactedChain ==
  ASSUME NEW rs \in Table, NEW b, NEW s, NEW kept, Compaction(rs, b, s, kept),
         NEW R, NEW l, NEW e, Compacted(R, rs, b, s, kept, l, e)
  PROVE  /\ R[l + 1].parent = None
         /\ \A i \in (l + 2)..Len(R) : i - 1 \in 1..Len(R) /\ R[i].parent = R[i - 1].id
<1> DEFINE k == Len(kept)
           top == l + 2
<1>1. /\ l \in Nat /\ Len(R) = top + k /\ top = l + 2
      /\ R[l + 1].id = b.id /\ R[l + 1].parent = None
      /\ R[l + 2].id = s.id /\ R[l + 2].parent = b.id
      /\ \A i \in 1..k : /\ R[top + i].id = kept[i].id
                         /\ R[top + i].parent = (IF i = 1 THEN s.id ELSE kept[i - 1].id)
  BY DEF Compacted
<1>2. k \in Nat
  BY LenProperties DEF Compaction
<1> HIDE DEF k, top
<1>3. ASSUME NEW i \in (l + 2)..(top + k)
      PROVE  i - 1 \in 1..(top + k) /\ R[i].parent = R[i - 1].id
  <2>1. i - 1 \in 1..(top + k)
    BY <1>1, <1>2
  <2>2. CASE i = l + 2
    <3>1. i - 1 = l + 1
      BY <1>1, <2>2
    <3> QED BY <1>1, <2>1, <2>2, <3>1
  <2>3. CASE i = l + 3
    <3>1. i = top + 1 /\ 1 \in 1..k /\ i - 1 = l + 2
      BY <1>1, <1>2, <2>3
    <3> QED BY <1>1, <2>1, <3>1
  <2>4. CASE i # l + 2 /\ i # l + 3
    <3> DEFINE h == i - top
    <3>0. l \in Nat /\ k \in Nat /\ top = l + 2
      BY <1>1, <1>2
    <3>1. /\ h \in 1..k /\ h # 1 /\ h - 1 \in 1..k /\ i = top + h /\ i - 1 = top + (h - 1)
      BY <2>4, <3>0
    <3> HIDE DEF h
    <3>2. R[top + h].parent = kept[h - 1].id /\ R[top + (h - 1)].id = kept[h - 1].id
      BY <1>1, <3>1
    <3> QED BY <2>1, <3>1, <3>2
  <2> QED BY <2>2, <2>3, <2>4
<1> QED BY <1>1, <1>3

\* A recorded compaction keeps the table rooted: what it wrote is one chain, and the rows before it
\* were in the table.
LEMMA CompactedRooted ==
  ASSUME NEW rs \in Table, Rooted(rs), NEW b, NEW s, NEW kept, Compaction(rs, b, s, kept),
         NEW R, NEW l, NEW e, Compacted(R, rs, b, s, kept, l, e)
  PROVE  Rooted(R)
<1>1. R \in Table
  BY CompactedTable
<1>2. /\ l \in Nat /\ Len(R) \in Nat /\ l + 2 <= Len(R)
      /\ \A i \in 1..l : e[i] \in 1..Len(rs) /\ R[i] = rs[e[i]]
  <2>1. Len(kept) \in Nat /\ Len(R) = l + 2 + Len(kept) /\ l \in Nat
    BY LenProperties DEF Compaction, Compacted
  <2>2. \A i \in 1..l : e[i] \in 1..Len(rs) /\ R[i] = rs[e[i]]
    BY DEF Compacted
  <2> QED BY <2>1, <2>2
<1>3. /\ R[l + 1].parent = None
      /\ \A i \in (l + 2)..Len(R) : i - 1 \in 1..Len(R) /\ R[i].parent = R[i - 1].id
  BY CompactedChain
<1>4. /\ \A i, j \in 1..Len(R) : R[i].id = R[j].id => i = j
      /\ \A i \in 1..Len(R) : R[i].id # None
  <2>1. /\ \A i, j \in 1..Len(R) : R[i].id = R[j].id => i = j
        /\ \A i \in 1..Len(R) : R[i] \in Rows
    BY <1>1, TableIs
  <2>2. \A r \in Rows : r.id # None
    BY Fields DEF Id, None
  <2> QED BY <2>1, <2>2
<1> DEFINE C == (l + 1)..Len(R)
<1>5. C \in SUBSET (1..Len(R)) /\ \A i \in (1..Len(R)) \ C : i \in 1..l
  BY <1>2
<1>6. ASSUME NEW i \in C, NEW j \in 1..Len(R), R[j].id = R[i].parent PROVE j \in C /\ j < i
  <2>1. i # l + 1
    BY <1>3, <1>4, <1>6
  <2>2. i \in (l + 2)..Len(R) /\ i - 1 \in C /\ i - 1 < i
    BY <1>2, <2>1
  <2>3. j = i - 1
    BY <1>3, <1>4, <1>6, <2>2
  <2> QED BY <2>2, <2>3
<1> HIDE DEF C
<1>7. Arranged(R, rs, C, e)
  BY <1>2, <1>5, <1>6 DEF Arranged
<1> QED BY <1>1, <1>7, RootedBy

\* The new boundary's segment names what was kept.
LEMMA CompactedSeg ==
  ASSUME NEW rs \in Table, NEW b, NEW s, NEW kept, Compaction(rs, b, s, kept),
         NEW R, NEW l, NEW e, Compacted(R, rs, b, s, kept, l, e)
  PROVE  /\ SegOK(R)
         /\ kept # <<>> => Segmented(R, l + 1, Len(kept)) /\ R[l + 1].seg \notin {NoSeg, Stale}
<1> DEFINE k == Len(kept)
           top == l + 2
<1>1. /\ l \in Nat /\ Len(R) = top + k /\ top = l + 2
      /\ R[l + 1].id = b.id /\ R[l + 1].kind = "boundary" /\ R[l + 1].seg = Segment(b, s, kept)
      /\ R[l + 2].id = s.id /\ R[l + 2].kind = "summary"
      /\ \A i \in 1..k : R[top + i].id = kept[i].id /\ R[top + i].seg = NoSeg
  BY DEF Compacted
<1>2. k \in Nat /\ kept \in Seq(Messages)
  BY LenProperties DEF Compaction
<1>3. /\ R[l + 1].parent = None
      /\ \A i \in (l + 2)..Len(R) : i - 1 \in 1..Len(R) /\ R[i].parent = R[i - 1].id
  BY CompactedChain
<1>4. ASSUME kept # <<>>
      PROVE  Segmented(R, l + 1, k) /\ R[l + 1].seg \notin {NoSeg, Stale}
  <2>1. k # 0 /\ Head(kept) = kept[1] /\ Last(kept) = kept[k]
    BY <1>2, <1>4, EmptySeq, HeadTailProperties DEF Last
  <2> HIDE DEF k, top
  <2>2. R[l + 1].seg = <<kept[1].id, s.id, kept[k].id>>
    BY <1>1, <1>4, <2>1 DEF Segment
  <2>3. /\ 1 \in 1..k /\ k \in 1..k /\ (l + 1) + 2 = top + 1 /\ (l + 1) + 1 = l + 2
        /\ (l + 1) + k + 1 = top + k
    <3>1. k \in Nat /\ k # 0 /\ l \in Nat /\ top = l + 2
      BY <1>1, <1>2, <2>1
    <3> QED BY <3>1
  <2>4. R[(l + 1) + 2].id = kept[1].id /\ R[(l + 1) + 1].id = s.id /\ R[(l + 1) + k + 1].id = kept[k].id
    BY <1>1, <2>3
  <2>5. ASSUME NEW i \in 1..(k + 1) PROVE R[(l + 1) + i].parent = R[(l + 1) + i - 1].id
    <3> DEFINE x == (l + 1) + i
    <3>1. x \in (l + 2)..Len(R)
      BY <1>1, <1>2
    <3> HIDE DEF x
    <3>2. R[x].parent = R[x - 1].id
      BY <1>3, <3>1
    <3>3. x = (l + 1) + i /\ x - 1 = (l + 1) + i - 1
      BY <1>1 DEF x
    <3> QED BY <3>2, <3>3, Zenon
  <2>6. s.id \in Id
    BY DEF Compaction
  <2>7. s.id # Gone
    BY <2>6, HistoryAssumption DEF Id, Gone
  <2>8. R[l + 1].seg \notin {NoSeg, Stale}
    BY <2>2, <2>7 DEF NoSeg, Stale
  <2>9. (l + 1) + k + 1 <= Len(R)
    BY <1>1, <1>2, <2>3
  <2> QED BY <1>3, <2>2, <2>4, <2>5, <2>8, <2>9 DEF Segmented
<1>5. SegOK(R)
  <2> SUFFICES ASSUME NEW c \in 1..Len(R), Newest(R, c), R[c].seg \notin {NoSeg, Stale}
               PROVE  \E n \in 1..Len(R) : Segmented(R, c, n)
    BY DEF SegOK
  <2> HIDE DEF k, top
  <2>1. l + 1 \in 1..Len(R) /\ l + 1 <= c
    <3>1. l + 1 \in 1..Len(R)
      BY <1>1, <1>2
    <3> QED BY <1>1, <3>1 DEF Newest
  <2>2. c = l + 1
    <3>1. c # l + 2
      BY <1>1 DEF Newest
    <3>2. ~(c - top \in 1..k /\ c = top + (c - top))
      BY <1>1
    <3>3. c \in Int /\ c <= top + k
      BY <1>1
    <3> QED BY <1>1, <1>2, <2>1, <3>1, <3>2, <3>3
  <2>3. kept # <<>>
    BY <1>1, <2>2 DEF Segment
  <2>4. k \in 1..Len(R)
    <3>1. k # 0
      BY <1>2, <2>3, EmptySeq DEF k
    <3> QED BY <1>1, <1>2, <3>1
  <2> QED BY <1>4, <2>2, <2>3, <2>4
<1> QED BY <1>4, <1>5 DEF k

\* A fork's table is one chain.
LEMMA CopyIs ==
  ASSUME NEW rs \in Table, Rooted(rs)
  PROVE  LET R == CopyToFork(rs)
         IN  /\ R \in Table /\ Len(R) = Len(rs) /\ Rooted(R) /\ SegOK(R) /\ IdsOf(R) = IdsOf(rs)
             /\ \A i \in 1..Len(rs) :
                  /\ R[i].id = rs[i].id /\ R[i].kind = rs[i].kind
                  /\ R[i].parent = IF i = 1 THEN None ELSE rs[i - 1].id
                  /\ R[i].seg = IF rs[i].seg = NoSeg THEN NoSeg ELSE Stale
<1> DEFINE n == Len(rs)
           R == CopyToFork(rs)
           par(i) == IF i = 1 THEN None ELSE rs[i - 1].id
           seg(i) == IF rs[i].seg = NoSeg THEN NoSeg ELSE Stale
<1>1. /\ n \in Nat /\ DOMAIN rs = 1..n /\ \A i \in 1..n : rs[i] \in Rows
      /\ IdsOf(rs) = {rs[i].id : i \in 1..n}
      /\ \A i, j \in 1..n : rs[i].id = rs[j].id => i = j
      /\ \A i \in 1..n : rs[i].id \in 0..MaxId /\ rs[i].id # None
  <2>1. \A r \in Rows : r.id \in 0..MaxId /\ r.id # None
    BY Fields, HistoryAssumption DEF Id, None
  <2> QED BY <2>1, TableIs
<1>2. R = [i \in 1..n |-> [rs[i] EXCEPT !.parent = par(i), !.seg = seg(i)]]
  BY <1>1 DEF CopyToFork
<1>3. \A i \in 1..n : par(i) \in 0..MaxId
  <2>1. \A i \in 1..n : i = 1 \/ i - 1 \in 1..n
    BY <1>1
  <2>2. None \in 0..MaxId
    BY HistoryAssumption DEF None
  <2> QED BY <1>1, <2>1, <2>2
<1> HIDE DEF n, R, par, seg
<1>4. ASSUME NEW i \in 1..n
      PROVE  /\ R[i] \in Rows /\ R[i].id = rs[i].id /\ R[i].kind = rs[i].kind
             /\ R[i].parent = par(i) /\ R[i].seg = seg(i)
  <2>1. R[i] = [rs[i] EXCEPT !.parent = par(i), !.seg = seg(i)]
    BY <1>2
  <2>2. rs[i] \in Rows /\ par(i) \in 0..MaxId /\ seg(i) \in {NoSeg, Stale}
    BY <1>1, <1>3 DEF seg
  <2> QED BY <2>1, <2>2 DEF Rows
<1>5. R \in [1..n -> Rows]
  <2>1. DOMAIN R = 1..n /\ R = [i \in 1..n |-> R[i]]
    BY <1>2
  <2> QED BY <1>4, <2>1
<1>6. R \in Seq(Rows) /\ Len(R) = n /\ DOMAIN R = 1..n
  BY <1>1, <1>5, IsASeq
<1>7. R \in Table
  BY <1>1, <1>4, <1>6 DEF Table, Distinct
<1>8. IdsOf(R) = IdsOf(rs)
  BY <1>1, <1>4, <1>6 DEF IdsOf
<1>9. Rooted(R)
  <2> DEFINE C == 1..n
  <2>1. ASSUME NEW i \in C, NEW j \in 1..n, R[j].id = R[i].parent PROVE j \in C /\ j < i
    <3>1. i # 1
      BY <1>1, <1>4, <2>1 DEF par
    <3>2. i - 1 \in 1..n /\ i - 1 < i
      BY <1>1, <3>1
    <3>3. rs[j].id = rs[i - 1].id
      BY <1>4, <2>1, <3>1 DEF par
    <3>4. j = i - 1
      BY <1>1, <3>2, <3>3
    <3> QED BY <3>2, <3>4
  <2>2. (1..n) \ C = {} /\ C \in SUBSET (1..n)
    OBVIOUS
  <2> HIDE DEF C
  <2>3. Arranged(R, rs, C, rs)
    BY <1>6, <2>1, <2>2 DEF Arranged
  <2> QED BY <1>7, <2>3, RootedBy
<1>10. SegOK(R)
  BY <1>4, <1>6 DEF SegOK, seg
<1> QED BY <1>4, <1>6, <1>7, <1>8, <1>9, <1>10 DEF R, n, par, seg

-----------------------------------------------------------------------------
(* The invariant.                                                          *)

\* Ids are handed out in order.
Numbered ==
  /\ \A i \in 1..Len(rows) : rows[i].id < nextId /\ rows[i].parent < nextId
  /\ \A i \in 1..Len(messages) : messages[i].id < nextId
  /\ forkParent < nextId

\* What the next sweep stores is newer than all that is in the table.
Fresh ==
  \A i \in (cursor + 1)..Len(messages) :
    /\ messages[i].kind # "boundary" /\ messages[i].id \in Id
    /\ forkParent < messages[i].id
    /\ \A j \in 1..Len(rows) : rows[j].id < messages[i].id /\ rows[j].parent < messages[i].id

\* No message is in memory twice, and only a compaction's boundary has no uuid.
MessagesOK ==
  /\ Distinct(messages)
  /\ \A i \in 2..Len(messages) : messages[i].id # None
  /\ \A i \in 1..Len(messages) : messages[i].id = None => messages[i].kind = "boundary"

TableOK == rows \in Table /\ SegOK(rows) /\ Rooted(rows)

HistoryInv == TypeOK /\ Numbered /\ Fresh /\ MessagesOK /\ TableOK

\* The types, one by one.
LEMMA TypeIs ==
  TypeOK <=> /\ rows \in Table
             /\ messages \in Seq(Messages)
             /\ cursor \in 0..Len(messages) /\ forkParent \in 0..MaxId
             /\ phase \in Phases /\ nextId \in 1..MaxId + 1
             /\ left \in [Rare -> Nat]
             /\ rewound \subseteq 1..MaxId /\ strayed \in BOOLEAN
<1>1. rows \in Seq(Rows) => DOMAIN rows = 1..Len(rows)
  BY LenProperties
<1> QED BY <1>1 DEF TypeOK, Table, Distinct

\* ... and after a step.
LEMMA TypeNext ==
  ASSUME rows' \in Table, messages' \in Seq(Messages),
         cursor' \in 0..Len(messages'), forkParent' \in 0..MaxId,
         phase' \in Phases, nextId' \in 1..MaxId + 1, left' \in [Rare -> Nat],
         rewound' \subseteq 1..MaxId, strayed' \in BOOLEAN
  PROVE  TypeOK'
<1>1. rows' \in Seq(Rows) /\ DOMAIN rows' = 1..Len(rows')
  BY LenProperties DEF Table
<1> QED BY <1>1 DEF TypeOK, Table, Distinct

\* Counting a rare event.
LEMMA SpendType ==
  ASSUME TypeOK, NEW what \in Rare \ {"any"}, Spend(what)
  PROVE  left' \in [Rare -> Nat]
<1>1. left \in [Rare -> Nat] /\ left[what] > 0 /\ left["any"] > 0 /\ "any" \in Rare
  BY DEF TypeOK, Spend, Rare
<1>2. left' = [left EXCEPT ![what] = left[what] - 1, !["any"] = left["any"] - 1]
  BY <1>1 DEF Spend
<1> QED BY <1>1, <1>2

\* The initial state.
LEMMA InitInv ==
  ASSUME Init
  PROVE  HistoryInv
<1>1. rows = <<>> /\ messages = <<>> /\ cursor = 0 /\ forkParent = None /\ phase = "idle"
      /\ nextId = 1 /\ left = Budget /\ rewound = {} /\ strayed = FALSE
  BY DEF Init
<1>2. Len(rows) = 0 /\ Len(messages) = 0 /\ rows \in Seq(Rows) /\ messages \in Seq(Messages)
  BY <1>1
<1>3. rows \in Table
  BY <1>2 DEF Table, Distinct
<1>4. TypeOK
  <2>1. cursor \in 0..Len(messages) /\ forkParent \in 0..MaxId /\ nextId \in 1..MaxId + 1
    BY <1>1, <1>2, HistoryAssumption DEF None
  <2>2. phase \in Phases /\ left \in [Rare -> Nat] /\ rewound \subseteq 1..MaxId /\ strayed \in BOOLEAN
    BY <1>1, HistoryAssumption DEF Phases
  <2> QED BY <1>2, <1>3, <2>1, <2>2, TypeIs
<1>5. Numbered /\ Fresh /\ MessagesOK
  BY <1>1, <1>2 DEF Numbered, Fresh, MessagesOK, Distinct, None
<1>6. SegOK(rows) /\ Rooted(rows)
  <2>1. 1..Len(rows) = {}
    BY <1>2
  <2>2. \A S \in SUBSET (1..Len(rows)) : S = {}
    BY <2>1
  <2> QED BY <2>1, <2>2 DEF SegOK, Rooted
<1> QED BY <1>3, <1>4, <1>5, <1>6 DEF HistoryInv, TableOK

\* A step that touches neither the conversation nor the table.
LEMMA IdleStep ==
  ASSUME HistoryInv, UNCHANGED <<rows, messages, cursor, forkParent, nextId>>,
         phase' \in Phases, left' \in [Rare -> Nat],
         rewound' \subseteq 1..MaxId, strayed' \in BOOLEAN
  PROVE  HistoryInv'
<1>1. TypeOK'
  BY TypeIs DEF HistoryInv, TypeOK
<1> QED BY <1>1 DEF HistoryInv, Numbered, Fresh, MessagesOK, TableOK

\* New messages under new uuids.
LEMMA AppendNewIs ==
  ASSUME TypeOK, NEW ks \in Seq(Kinds), AppendNew(ks)
  PROVE  LET n == Len(messages)
             k == Len(ks)
         IN  /\ n \in Nat /\ k \in Nat /\ nextId' = nextId + k /\ nextId + k - 1 <= MaxId
             /\ messages' \in Seq(Messages) /\ Len(messages') = n + k
             /\ \A i \in 1..n : messages'[i] = messages[i]
             /\ \A i \in 1..k : messages'[n + i].id = nextId + i - 1 /\ messages'[n + i].kind = ks[i]
<1> DEFINE n == Len(messages)
           k == Len(ks)
           new == [i \in DOMAIN ks |-> Message(nextId + i - 1, ks[i])]
<1>1. /\ n \in Nat /\ k \in Nat /\ DOMAIN ks = 1..k /\ \A i \in 1..k : ks[i] \in Kinds
      /\ messages \in Seq(Messages) /\ nextId \in 1..MaxId + 1 /\ MaxId \in Nat
  BY TypeIs, LenProperties, ElementOfSeq, HistoryAssumption
<1>2. messages' = messages \o new /\ nextId' = nextId + k /\ nextId + k - 1 <= MaxId
  BY DEF AppendNew
<1> HIDE DEF k
<1>3. \A i \in 1..k : nextId + i - 1 \in 0..MaxId
  BY <1>1, <1>2
<1>4. /\ new \in [1..k -> Messages]
      /\ \A i \in 1..k : new[i].id = nextId + i - 1 /\ new[i].kind = ks[i]
  BY <1>1, <1>3 DEF Message, Messages
<1> HIDE DEF new
<1>5. new \in Seq(Messages) /\ Len(new) = k
  BY <1>1, <1>4, IsASeq
<1>6. Joined(Messages, messages', messages, new)
  BY <1>1, <1>2, <1>5, JoinIs
<1> QED BY <1>1, <1>2, <1>4, <1>5, <1>6 DEF Joined, k

\* Messages join the history.
LEMMA AppendStep ==
  ASSUME HistoryInv, NEW ks \in Seq(Kinds \ {"boundary"}), AppendNew(ks),
         UNCHANGED <<rows, cursor, forkParent, left, rewound, strayed>>, phase' \in Phases
  PROVE  HistoryInv'
<1> DEFINE n == Len(messages)
           k == Len(ks)
<1>0. TypeOK /\ Numbered /\ Fresh /\ MessagesOK /\ TableOK
  BY DEF HistoryInv
<1>1. /\ rows \in Table /\ messages \in Seq(Messages) /\ cursor \in 0..n /\ forkParent \in 0..MaxId
      /\ nextId \in 1..MaxId + 1 /\ left \in [Rare -> Nat]
      /\ rewound \subseteq 1..MaxId /\ strayed \in BOOLEAN
  BY <1>0, TypeIs
<1>2. ks \in Seq(Kinds) /\ \A i \in 1..k : ks[i] # "boundary"
  <2>1. \A i \in 1..k : ks[i] \in Kinds \ {"boundary"}
    BY ElementOfSeq
  <2>2. Seq(Kinds \ {"boundary"}) \subseteq Seq(Kinds)
    OBVIOUS
  <2> QED BY <2>1, <2>2
<1>3. /\ n \in Nat /\ k \in Nat /\ nextId' = nextId + k /\ nextId + k - 1 <= MaxId
      /\ messages' \in Seq(Messages) /\ Len(messages') = n + k
      /\ \A i \in 1..n : messages'[i] = messages[i]
      /\ \A i \in 1..k : messages'[n + i].id = nextId + i - 1 /\ messages'[n + i].kind = ks[i]
  BY <1>0, <1>2, AppendNewIs
<1>4. \A i \in 1..n : messages[i].id \in Int
  <2>1. \A i \in 1..n : messages[i] \in Messages
    BY <1>1, ElementOfSeq
  <2> QED BY <2>1, Fields, HistoryAssumption
<1>5. /\ \A i \in 1..Len(rows) : rows[i].id < nextId /\ rows[i].parent < nextId
      /\ \A i \in 1..n : messages[i].id < nextId
      /\ forkParent < nextId
  BY <1>0 DEF Numbered
<1>6. \A i \in 1..Len(rows) : rows[i].id \in Int /\ rows[i].parent \in Int
  <2>1. \A i \in 1..Len(rows) : rows[i] \in Rows
    BY <1>1, TableIs
  <2> QED BY <2>1, Fields, HistoryAssumption DEF Id
<1> HIDE DEF n, k
<1>7. /\ nextId \in Nat /\ nextId >= 1 /\ MaxId \in Nat /\ forkParent \in Nat /\ cursor \in Nat /\ cursor <= n
  BY <1>1, <1>3, HistoryAssumption
<1>8. \A i \in 1..(n + k) : i \in 1..n \/ (i - n \in 1..k /\ i = n + (i - n))
  BY <1>3
<1>9. ASSUME NEW i \in 1..(n + k), i \notin 1..n
      PROVE  /\ messages'[i].id = nextId + (i - n) - 1 /\ messages'[i].kind # "boundary"
             /\ messages'[i].id \in Id /\ messages'[i].id >= nextId /\ messages'[i].id < nextId + k
             /\ i - n \in 1..k /\ i \in Nat
  <2> DEFINE h == i - n
  <2>1. h \in 1..k /\ i = n + h
    BY <1>8, <1>9
  <2> HIDE DEF h
  <2>2. messages'[i].id = nextId + h - 1 /\ messages'[i].kind # "boundary"
    BY <1>2, <1>3, <2>1 DEF k
  <2>3. nextId + h - 1 \in 1..MaxId /\ nextId + h - 1 >= nextId /\ nextId + h - 1 < nextId + k
    BY <1>3, <1>7, <2>1
  <2> QED BY <1>3, <2>1, <2>2, <2>3 DEF h, Id
<1>10. TypeOK'
  <2>1. cursor' \in 0..Len(messages') /\ nextId' \in 1..MaxId + 1
    BY <1>3, <1>7
  <2> QED BY <1>1, <1>3, <2>1, TypeNext
<1>11. Numbered'
  <2>1. \A i \in 1..Len(rows) : rows[i].id < nextId + k /\ rows[i].parent < nextId + k
    BY <1>3, <1>5, <1>6, <1>7
  <2>2. ASSUME NEW i \in 1..(n + k) PROVE messages'[i].id < nextId + k
    <3>1. CASE i \in 1..n
      <4>1. messages[i].id < nextId /\ messages[i].id \in Int
        BY <1>4, <1>5, <3>1
      <4> QED BY <1>3, <1>7, <3>1, <4>1
    <3>2. CASE i \notin 1..n
      BY <1>9, <3>2
    <3> QED BY <3>1, <3>2
  <2>3. forkParent < nextId + k
    BY <1>3, <1>5, <1>7
  <2> QED BY <1>3, <2>1, <2>2, <2>3 DEF Numbered
<1>12. Fresh'
  <2> SUFFICES ASSUME NEW i \in (cursor + 1)..(n + k)
               PROVE  /\ messages'[i].kind # "boundary" /\ messages'[i].id \in Id
                      /\ forkParent < messages'[i].id
                      /\ \A j \in 1..Len(rows) :
                           rows[j].id < messages'[i].id /\ rows[j].parent < messages'[i].id
    BY <1>3 DEF Fresh
  <2>1. i \in 1..(n + k)
    BY <1>7, <1>3
  <2>2. CASE i \in 1..n
    <3>1. i \in (cursor + 1)..Len(messages)
      BY <1>3, <1>7, <2>2 DEF n
    <3>2. messages'[i] = messages[i]
      BY <1>3, <2>2
    <3> QED BY <1>0, <3>1, <3>2 DEF Fresh
  <2>3. CASE i \notin 1..n
    <3> DEFINE x == messages'[i].id
    <3>1. x \in Id /\ x >= nextId /\ messages'[i].kind # "boundary"
      BY <1>9, <2>1, <2>3
    <3>2. x \in Int
      BY <3>1, HistoryAssumption DEF Id
    <3> HIDE DEF x
    <3>3. forkParent < x
      BY <1>5, <1>7, <3>1, <3>2
    <3>4. \A j \in 1..Len(rows) : rows[j].id < x /\ rows[j].parent < x
      BY <1>5, <1>6, <1>7, <3>1, <3>2
    <3> QED BY <3>1, <3>3, <3>4 DEF x
  <2> QED BY <2>2, <2>3
<1>13. MessagesOK'
  <2>1. /\ \A i, j \in 1..n : messages[i].id = messages[j].id => i = j
        /\ \A i \in 2..n : messages[i].id # None
    BY <1>0 DEF MessagesOK, Distinct, n
  <2>2. ASSUME NEW i \in 1..(n + k), NEW j \in 1..(n + k), messages'[i].id = messages'[j].id
        PROVE  i = j
    <3>1. CASE i \in 1..n /\ j \in 1..n
      BY <1>3, <2>1, <2>2, <3>1
    <3>2. ASSUME NEW x \in 1..n, NEW y \in 1..(n + k), y \notin 1..n PROVE messages'[x].id # messages'[y].id
      <4>1. messages'[x].id < nextId /\ messages'[x].id \in Int
        BY <1>3, <1>4, <1>5
      <4>2. messages'[y].id >= nextId /\ messages'[y].id \in Int
        BY <1>9, <3>2, HistoryAssumption DEF Id
      <4> QED BY <1>7, <4>1, <4>2
    <3>3. CASE i \notin 1..n /\ j \notin 1..n
      <4>1. /\ messages'[i].id = nextId + (i - n) - 1 /\ messages'[j].id = nextId + (j - n) - 1
            /\ i \in Nat /\ j \in Nat
        BY <1>9, <3>3
      <4>2. nextId \in Int /\ n \in Int
        BY <1>3, <1>7
      <4>3. nextId + (i - n) - 1 = nextId + (j - n) - 1
        BY <2>2, <4>1
      <4> QED BY <4>1, <4>2, <4>3
    <3>4. CASE i \in 1..n /\ j \notin 1..n
      BY <2>2, <3>2, <3>4
    <3>5. CASE i \notin 1..n /\ j \in 1..n
      BY <2>2, <3>2, <3>5
    <3> QED BY <3>1, <3>3, <3>4, <3>5
  <2>3. ASSUME NEW i \in 2..(n + k) PROVE messages'[i].id # None
    <3>1. i \in 1..(n + k)
      BY <1>3
    <3>2. CASE i \in 1..n
      <4>1. i \in 2..n
        BY <1>3, <3>2
      <4> QED BY <1>3, <2>1, <3>2, <4>1
    <3>3. CASE i \notin 1..n
      BY <1>9, <3>1, <3>3 DEF Id, None
    <3> QED BY <3>2, <3>3
  <2>4. ASSUME NEW i \in 1..(n + k), messages'[i].id = None PROVE messages'[i].kind = "boundary"
    <3>1. i \in 1..n
      BY <1>9, <2>4 DEF Id, None
    <3> QED BY <1>0, <1>3, <2>4, <3>1 DEF MessagesOK, n
  <2> QED BY <1>3, <2>2, <2>3, <2>4 DEF MessagesOK, Distinct
<1>14. TableOK'
  BY <1>0 DEF TableOK
<1> QED BY <1>10, <1>11, <1>12, <1>13, <1>14 DEF HistoryInv

\* The messages a sweep would store.
Waiting == SubSeq(messages, cursor + 1, Len(messages))

\* They are new to the table.
LEMMA WaitingIs ==
  ASSUME HistoryInv, cursor < Len(messages)
  PROVE  /\ Waiting \in Seq(Messages) /\ Len(Waiting) = Len(messages) - cursor
         /\ Len(Waiting) \in Nat /\ Len(Waiting) >= 1
         /\ \A i \in 1..Len(Waiting) :
              /\ Waiting[i] = messages[cursor + i] /\ cursor + i \in (cursor + 1)..Len(messages)
              /\ cursor + i \in 1..Len(messages)
              /\ Waiting[i].id \in Id /\ Waiting[i].kind # "boundary" /\ forkParent < Waiting[i].id
              /\ \A j \in 1..Len(rows) : rows[j].id < Waiting[i].id /\ rows[j].parent < Waiting[i].id
         /\ Batch(rows, Waiting) /\ Unseen(rows, Waiting, forkParent)
<1> DEFINE ms == Waiting
           n == Len(messages)
           m == n - cursor
           l == Len(rows)
<1>0. TypeOK /\ Numbered /\ Fresh /\ MessagesOK /\ TableOK
  BY DEF HistoryInv
<1>1. /\ rows \in Table /\ messages \in Seq(Messages) /\ cursor \in 0..n /\ forkParent \in 0..MaxId
      /\ nextId \in 1..MaxId + 1
  BY <1>0, TypeIs
<1>2. cursor < n
  OBVIOUS
<1>3. n \in Nat /\ cursor \in Nat /\ m \in Nat /\ m >= 1 /\ \A i \in 1..n : messages[i] \in Messages
  <2>1. n \in Nat /\ \A i \in 1..n : messages[i] \in Messages
    BY <1>1, LenProperties, ElementOfSeq
  <2> QED BY <1>1, <1>2, <2>1
<1>4. /\ ms \in Seq(Messages) /\ Len(ms) = m
      /\ \A i \in 1..m : /\ ms[i] = messages[cursor + i] /\ cursor + i \in (cursor + 1)..n
                         /\ cursor + i \in 1..n
  <2>1. cursor + 1 \in Int /\ n \in Int /\ cursor + 1 <= n /\ n - (cursor + 1) + 1 = m
    BY <1>2, <1>3
  <2>2. \A i \in (cursor + 1)..n : messages[i] \in Messages
    BY <1>3
  <2>3. /\ ms \in Seq(Messages) /\ Len(ms) = m
        /\ \A i \in 1..m : ms[i] = messages[(cursor + 1) + i - 1]
    <3> HIDE DEF m, n
    <3> QED BY <2>1, <2>2, SubSeqProperties DEF n, Waiting
  <2>4. \A i \in 1..m : /\ (cursor + 1) + i - 1 = cursor + i /\ cursor + i \in (cursor + 1)..n
                        /\ cursor + i \in 1..n
    BY <1>3
  <2> QED BY <2>3, <2>4
<1>5. \A i \in 1..m : /\ ms[i].id \in Id /\ ms[i].kind # "boundary" /\ forkParent < ms[i].id
                      /\ \A j \in 1..l : rows[j].id < ms[i].id /\ rows[j].parent < ms[i].id
  <2>1. \A i \in (cursor + 1)..n :
          /\ messages[i].kind # "boundary" /\ messages[i].id \in Id
          /\ forkParent < messages[i].id
          /\ \A j \in 1..l : rows[j].id < messages[i].id /\ rows[j].parent < messages[i].id
    BY <1>0 DEF Fresh
  <2> HIDE DEF m, n, l
  <2> QED BY <1>4, <2>1
<1>6. /\ \A i \in 1..l : rows[i].id \in Int /\ rows[i].parent \in Int /\ rows[i].id \in 0..MaxId
      /\ IdsOf(rows) = {rows[i].id : i \in 1..l} /\ l \in Nat
      /\ \A i \in 1..m : ms[i].id \in Int
  <2>1. \A i \in 1..l : rows[i] \in Rows
    BY <1>1, TableIs
  <2>2. \A r \in Rows : r.id \in Int /\ r.parent \in Int /\ r.id \in 0..MaxId
    BY Fields, HistoryAssumption DEF Id
  <2>3. \A i \in 1..m : ms[i].id \in Int
    BY <1>5, HistoryAssumption DEF Id
  <2>4. IdsOf(rows) = {rows[i].id : i \in 1..l} /\ l \in Nat
    BY <1>1, TableIs
  <2> QED BY <2>1, <2>2, <2>3, <2>4
<1> HIDE DEF l, m, n
<1>7. Batch(rows, ms) /\ Unseen(rows, ms, forkParent)
  <2>1. \A i \in 1..m : \A j \in 1..l : rows[j].id # ms[i].id /\ rows[j].parent # ms[i].id
    <3> SUFFICES ASSUME NEW i \in 1..m, NEW j \in 1..l
                 PROVE  rows[j].id # ms[i].id /\ rows[j].parent # ms[i].id
      OBVIOUS
    <3>1. rows[j].id < ms[i].id /\ rows[j].parent < ms[i].id
      BY <1>5
    <3>2. rows[j].id \in Int /\ rows[j].parent \in Int /\ ms[i].id \in Int
      BY <1>6
    <3> QED BY <3>1, <3>2
  <2>2. \A i \in 1..m : forkParent # ms[i].id
    <3> TAKE i \in 1..m
    <3>1. forkParent < ms[i].id /\ forkParent \in Int /\ ms[i].id \in Int
      BY <1>1, <1>5, <1>6
    <3> QED BY <3>1
  <2>3. \A i \in 1..m : ms[i].id \notin IdsOf(rows)
    BY <1>6, <2>1
  <2>4. Distinct(ms)
    <3>1. \A i, j \in 1..n : messages[i].id = messages[j].id => i = j
      BY <1>0 DEF MessagesOK, Distinct, n
    <3>2. ASSUME NEW i \in 1..m, NEW j \in 1..m, ms[i].id = ms[j].id PROVE i = j
      <4>1. cursor + i = cursor + j
        BY <1>4, <3>1, <3>2
      <4>2. i \in Int /\ j \in Int /\ cursor \in Int
        BY <1>3
      <4> QED BY <4>1, <4>2
    <3> QED BY <1>4, <3>2 DEF Distinct
  <2> QED BY <1>4, <1>5, <2>1, <2>2, <2>3, <2>4 DEF Batch, Unseen, l
<1> QED BY <1>3, <1>4, <1>5, <1>7 DEF n, m, l

\* A sweep.
LEMMA SweepStep ==
  ASSUME HistoryInv, SweepStores, UNCHANGED <<messages, nextId, rewound, strayed>>, phase' \in Phases
  PROVE  HistoryInv'
<1> DEFINE ms == Waiting
           n == Len(messages)
           m == n - cursor
           l == Len(rows)
           start == Start(rows, forkParent)
<1>0. TypeOK /\ Numbered /\ Fresh /\ MessagesOK /\ TableOK
  BY DEF HistoryInv
<1>1. /\ rows \in Table /\ messages \in Seq(Messages) /\ cursor \in 0..n /\ forkParent \in 0..MaxId
      /\ nextId \in 1..MaxId + 1 /\ left \in [Rare -> Nat]
      /\ rewound \subseteq 1..MaxId /\ strayed \in BOOLEAN
  BY <1>0, TypeIs
<1>2. /\ cursor < n /\ rows' = AppendMessages(rows, ms, forkParent)
      /\ forkParent' = None /\ cursor' = n /\ left' = left
  <2>1. Len(messages) > cursor
    BY DEF SweepStores
  <2>2. cursor < n
    BY <1>1, <2>1
  <2> QED BY <2>2 DEF SweepStores, Waiting
<1>3. n \in Nat /\ cursor \in Nat /\ m \in Nat /\ m >= 1 /\ \A i \in 1..n : messages[i] \in Messages
  <2>1. n \in Nat /\ \A i \in 1..n : messages[i] \in Messages
    BY <1>1, LenProperties, ElementOfSeq
  <2> QED BY <1>1, <1>2, <2>1
<1>4. /\ ms \in Seq(Messages) /\ Len(ms) = m
      /\ \A i \in 1..m : ms[i] = messages[cursor + i] /\ cursor + i \in 1..n
  BY <1>0, <1>2, WaitingIs
<1>5. \A i \in 1..m : ms[i].id \in Id
  BY <1>0, <1>2, WaitingIs
<1>6. /\ \A i \in 1..l : rows[i].id \in Int /\ rows[i].parent \in Int /\ rows[i].id \in 0..MaxId
      /\ IdsOf(rows) = {rows[i].id : i \in 1..l} /\ l \in Nat
      /\ \A i \in 1..m : ms[i].id \in Int
  <2>1. \A i \in 1..l : rows[i] \in Rows
    BY <1>1, TableIs
  <2>2. \A r \in Rows : r.id \in Int /\ r.parent \in Int /\ r.id \in 0..MaxId
    BY Fields, HistoryAssumption DEF Id
  <2>3. \A i \in 1..m : ms[i].id \in Int
    BY <1>5, HistoryAssumption DEF Id
  <2>4. IdsOf(rows) = {rows[i].id : i \in 1..l} /\ l \in Nat
    BY <1>1, TableIs
  <2> QED BY <2>1, <2>2, <2>3, <2>4
<1> HIDE DEF l, m, n
<1>7. Batch(rows, ms) /\ Unseen(rows, ms, forkParent)
  BY <1>2, WaitingIs DEF n
<1>8. Extended(rows', rows, ms, m, start)
  BY <1>1, <1>2, <1>4, <1>7, AppendIs
<1>9. rows' \in Table /\ Rooted(rows') /\ SegOK(rows')
  <2>1. SegOK(rows) /\ Rooted(rows)
    BY <1>0 DEF TableOK
  <2> QED BY <1>1, <1>4, <1>7, <1>8, <2>1, SweepIs
<1>10. TypeOK'
  <2>1. cursor' \in 0..Len(messages') /\ forkParent' \in 0..MaxId
    BY <1>2, <1>3, HistoryAssumption DEF None, n
  <2> QED BY <1>1, <1>2, <1>9, <2>1, TypeNext
<1>11. Numbered'
  <2>1. /\ \A i \in 1..l : rows[i].id < nextId /\ rows[i].parent < nextId
        /\ \A i \in 1..n : messages[i].id < nextId
        /\ forkParent < nextId
    BY <1>0 DEF Numbered, l, n
  <2>2. /\ Len(rows') = l + m /\ \A i \in 1..l : rows'[i] = rows[i]
        /\ \A i \in 1..m : rows'[l + i] = RowFrom(ms[i], Before(ms, start, i))
    BY <1>8 DEF Extended, l
  <2>3. start < nextId
    <3>1. CASE forkParent # None
      BY <2>1, <3>1 DEF Start
    <3>2. CASE forkParent = None /\ rows = <<>>
      BY <1>1, <3>2, HistoryAssumption DEF Start, LastChainUUID, None
    <3>3. CASE forkParent = None /\ rows # <<>>
      <4>1. l \in 1..l
        BY <1>1, <1>6, <3>3, TableIs, EmptySeq DEF l
      <4>2. start = rows[l].id
        BY <3>3 DEF Start, LastChainUUID, Last, l
      <4> QED BY <2>1, <4>1, <4>2
    <3> QED BY <3>1, <3>2, <3>3
  <2> HIDE DEF start
  <2>4. ASSUME NEW i \in 1..m
        PROVE  rows'[l + i].id < nextId /\ rows'[l + i].parent < nextId
    <3>1. ms[i].id < nextId
      BY <1>4, <2>1
    <3>2. Before(ms, start, i) < nextId
      <4>1. CASE i = 1
        BY <2>3, <4>1 DEF Before
      <4>2. CASE i # 1
        <5>1. i - 1 \in 1..m
          BY <1>3, <4>2
        <5> QED BY <1>4, <2>1, <4>2, <5>1 DEF Before
      <4> QED BY <4>1, <4>2
    <3>3. rows'[l + i] = RowFrom(ms[i], Before(ms, start, i))
      BY <2>2
    <3>4. rows'[l + i].id = ms[i].id /\ rows'[l + i].parent = Before(ms, start, i)
      BY <3>3 DEF RowFrom
    <3> QED BY <3>1, <3>2, <3>4
  <2>5. \A i \in 1..(l + m) : i \in 1..l \/ (i - l \in 1..m /\ i = l + (i - l))
    BY <1>3, <1>6
  <2>6. \A i \in 1..(l + m) : rows'[i].id < nextId /\ rows'[i].parent < nextId
    BY <2>1, <2>2, <2>4, <2>5
  <2>7. None < nextId
    BY <1>1, HistoryAssumption DEF None
  <2> QED BY <1>2, <2>1, <2>2, <2>6, <2>7 DEF Numbered, n
<1>12. Fresh'
  <2>1. (cursor' + 1)..Len(messages') = {}
    BY <1>2, <1>3 DEF n
  <2> QED BY <2>1 DEF Fresh
<1>13. MessagesOK'
  BY <1>0 DEF MessagesOK
<1> QED BY <1>9, <1>10, <1>11, <1>12, <1>13 DEF HistoryInv, TableOK

\* Messages a compaction may keep.
Kept(kept) ==
  /\ kept \in Seq(Messages) /\ Distinct(kept)
  /\ \A i \in 1..Len(kept) : kept[i].id \in Id /\ kept[i].id < nextId

\* A compaction that replaces the conversation.
LEMMA ReplaceStep ==
  ASSUME HistoryInv, NEW kept, Kept(kept), Replace(kept), UNCHANGED <<forkParent, rewound>>,
         left' \in [Rare -> Nat], phase' \in Phases
  PROVE  HistoryInv'
<1> DEFINE b == Message(nextId, "boundary")
           s == Message(nextId + 1, "summary")
           two == <<Message(None, "boundary"), s>>
           k == Len(kept)
<1>0. TypeOK /\ Numbered /\ Fresh /\ MessagesOK /\ TableOK
  BY DEF HistoryInv
<1>1. /\ rows \in Table /\ messages \in Seq(Messages) /\ forkParent \in 0..MaxId
      /\ nextId \in 1..MaxId + 1 /\ rewound \subseteq 1..MaxId /\ strayed \in BOOLEAN
      /\ SegOK(rows) /\ Rooted(rows)
  BY <1>0, TypeIs DEF TableOK
<1>2. /\ nextId + 1 <= MaxId /\ nextId' = nextId + 2
      /\ (rows' = RecordCompact(rows, b, s, kept) \/ rows' = rows)
      /\ strayed' \in BOOLEAN
      /\ messages' = two \o kept /\ cursor' = Len(messages')
  BY <1>1 DEF Replace
<1>3. nextId \in Nat /\ nextId >= 1 /\ MaxId \in Nat /\ nextId \in Id /\ nextId + 1 \in Id
      /\ nextId \in 0..MaxId /\ nextId + 1 \in 0..MaxId
  <2>1. MaxId \in Nat
    BY HistoryAssumption
  <2> QED BY <1>1, <1>2, <2>1 DEF Id
<1>4. /\ b.id = nextId /\ b.kind = "boundary" /\ s.id = nextId + 1 /\ s.kind = "summary"
      /\ b \in Messages /\ s \in Messages
      /\ Message(None, "boundary") \in Messages
      /\ Message(None, "boundary").id = None /\ Message(None, "boundary").kind = "boundary"
  BY <1>3 DEF Message, Messages, Kinds, None
<1>5. /\ kept \in Seq(Messages) /\ k \in Nat
      /\ \A i \in 1..k : kept[i].id \in Id /\ kept[i].id < nextId /\ kept[i].id \in Int
      /\ \A i, j \in 1..k : kept[i].id = kept[j].id => i = j
  BY LenProperties, HistoryAssumption DEF Kept, Distinct, Id
<1> HIDE DEF k
<1>6. /\ \A i \in 1..Len(rows) : /\ rows[i].id < nextId /\ rows[i].parent < nextId
                                 /\ rows[i].id \in Int /\ rows[i].parent \in Int
      /\ IdsOf(rows) = {rows[i].id : i \in 1..Len(rows)} /\ Len(rows) \in Nat
      /\ forkParent < nextId
  <2>1. \A i \in 1..Len(rows) : rows[i] \in Rows
    BY <1>1, TableIs
  <2>2. \A r \in Rows : r.id \in Int /\ r.parent \in Int
    BY Fields, HistoryAssumption DEF Id
  <2>3. IdsOf(rows) = {rows[i].id : i \in 1..Len(rows)} /\ Len(rows) \in Nat
    BY <1>1, TableIs
  <2> QED BY <1>0, <2>1, <2>2, <2>3 DEF Numbered
<1> HIDE DEF b, s
<1>7. Compaction(rows, b, s, kept)
  <2>1. b.id \notin IdsOf(rows) /\ s.id \notin IdsOf(rows)
    <3> SUFFICES ASSUME NEW i \in 1..Len(rows) PROVE rows[i].id # nextId /\ rows[i].id # nextId + 1
      BY <1>4, <1>6
    <3>1. rows[i].id < nextId /\ rows[i].id \in Int
      BY <1>6
    <3> QED BY <1>3, <3>1
  <2>2. s.id # b.id /\ b.id \in Id /\ s.id \in Id
    BY <1>3, <1>4
  <2>3. \A i \in 1..k : kept[i].id # b.id /\ kept[i].id # s.id
    <3> TAKE i \in 1..k
    <3>1. kept[i].id < nextId /\ kept[i].id \in Int
      BY <1>5
    <3> QED BY <1>3, <1>4, <3>1
  <2>4. Distinct(kept)
    BY DEF Kept
  <2> QED BY <1>4, <1>5, <2>1, <2>2, <2>3, <2>4 DEF Compaction, k
<1>8. /\ rows' \in Table /\ SegOK(rows') /\ Rooted(rows')
      /\ \A i \in 1..Len(rows') : rows'[i].id < nextId + 2 /\ rows'[i].parent < nextId + 2
  <2>1. CASE rows' = rows
    <3>1. ASSUME NEW i \in 1..Len(rows)
          PROVE  rows[i].id < nextId + 2 /\ rows[i].parent < nextId + 2
      <4>1. /\ rows[i].id < nextId /\ rows[i].parent < nextId
            /\ rows[i].id \in Int /\ rows[i].parent \in Int
        BY <1>6
      <4> QED BY <1>3, <4>1
    <3> QED BY <1>1, <2>1, <3>1
  <2>2. CASE rows' = RecordCompact(rows, b, s, kept)
    <3>1. PICK l, e : Compacted(rows', rows, b, s, kept, l, e)
      BY <1>1, <1>7, <2>2, RecordCompactIs
    <3>2. rows' \in Table /\ SegOK(rows') /\ Rooted(rows')
      BY <1>1, <1>7, <3>1, CompactedTable, CompactedSeg, CompactedRooted
    <3>3. /\ rows'[l + 1].parent = None
          /\ \A i \in (l + 2)..Len(rows') : i - 1 \in 1..Len(rows') /\ rows'[i].parent = rows'[i - 1].id
      BY <1>1, <1>7, <3>1, CompactedChain
    <3>4. /\ l \in Nat /\ Len(rows') = l + 2 + k
          /\ \A i \in 1..l : e[i] \in 1..Len(rows) /\ rows'[i] = rows[e[i]]
          /\ rows'[l + 1].id = b.id /\ rows'[l + 2].id = s.id
          /\ \A i \in 1..k : rows'[l + 2 + i].id = kept[i].id
      BY <3>1 DEF Compacted, k
    <3>5. \A i \in 1..(l + 2 + k) : \/ i \in 1..l \/ i = l + 1 \/ i = l + 2
                                    \/ i - (l + 2) \in 1..k /\ i = l + 2 + (i - (l + 2))
      BY <1>5, <3>4
    <3>6. ASSUME NEW i \in 1..l PROVE rows'[i].id < nextId + 2 /\ rows'[i].parent < nextId + 2
      <4>1. e[i] \in 1..Len(rows) /\ rows'[i] = rows[e[i]]
        BY <3>4
      <4> DEFINE r == rows[e[i]]
      <4>2. r.id < nextId /\ r.parent < nextId /\ r.id \in Int /\ r.parent \in Int
        BY <1>6, <4>1
      <4>3. r.id < nextId + 2 /\ r.parent < nextId + 2
        <5> HIDE DEF r
        <5> QED BY <1>3, <4>2
      <4> QED BY <4>1, <4>3
    <3>7. ASSUME NEW i \in 1..Len(rows') PROVE rows'[i].id < nextId + 2
      <4>1. CASE i \in 1..l
        BY <3>6, <4>1
      <4>2. CASE i = l + 1 \/ i = l + 2
        <5>1. rows'[i].id = nextId \/ rows'[i].id = nextId + 1
          BY <1>4, <3>4, <4>2
        <5> QED BY <1>3, <5>1
      <4>3. CASE i - (l + 2) \in 1..k /\ i = l + 2 + (i - (l + 2))
        <5>1. rows'[i].id = kept[i - (l + 2)].id
          BY <3>4, <4>3
        <5>2. kept[i - (l + 2)].id < nextId /\ kept[i - (l + 2)].id \in Int
          BY <1>5, <4>3
        <5> DEFINE x == kept[i - (l + 2)].id
        <5> HIDE DEF x
        <5>3. x < nextId + 2
          <6>1. x < nextId /\ x \in Int
            BY <5>2 DEF x
          <6> QED BY <1>3, <6>1
        <5> QED BY <5>1, <5>3 DEF x
      <4> QED BY <3>4, <3>5, <4>1, <4>2, <4>3
    <3>8. ASSUME NEW i \in 1..Len(rows') PROVE rows'[i].parent < nextId + 2
      <4>1. CASE i \in 1..l
        BY <3>6, <4>1
      <4>2. CASE i = l + 1
        BY <1>3, <3>3, <4>2 DEF None
      <4>3. CASE i \notin 1..l /\ i # l + 1
        <5>1. i \in (l + 2)..Len(rows')
          BY <1>5, <3>4, <4>3
        <5> QED BY <3>3, <3>7, <5>1
      <4> QED BY <4>1, <4>2, <4>3
    <3> QED BY <3>2, <3>7, <3>8
  <2> QED BY <1>2, <2>1, <2>2
<1>9. /\ messages' \in Seq(Messages) /\ Len(messages') = 2 + k
      /\ messages'[1].id = None /\ messages'[1].kind = "boundary" /\ messages'[2].id = nextId + 1
      /\ \A i \in 1..k : messages'[2 + i] = kept[i]
  <2>1. /\ two \in Seq(Messages) /\ Len(two) = 2 /\ two[1].id = None /\ two[2].id = nextId + 1
        /\ two[1].kind = "boundary"
    BY <1>4
  <2> HIDE DEF two
  <2>2. Joined(Messages, messages', two, kept)
    BY <1>2, <1>5, <2>1, JoinIs
  <2>3. 1 \in 1..2 /\ 2 \in 1..2
    OBVIOUS
  <2> QED BY <2>1, <2>2, <2>3 DEF Joined, k
<1>10. TypeOK'
  <2>1. cursor' \in 0..Len(messages')
    BY <1>2, <1>5, <1>9
  <2>2. nextId' \in 1..MaxId + 1
    BY <1>2, <1>3
  <2> QED BY <1>1, <1>2, <1>8, <1>9, <2>1, <2>2, TypeNext
<1>11. \A i \in 1..(2 + k) : i = 1 \/ i = 2 \/ (i - 2 \in 1..k /\ i = 2 + (i - 2))
  BY <1>5
<1>12. ASSUME NEW i \in 1..(2 + k), i # 1, i # 2
       PROVE  /\ i - 2 \in 1..k /\ messages'[i].id = kept[i - 2].id
              /\ messages'[i].id \in Id /\ messages'[i].id < nextId /\ messages'[i].id \in Int
  <2>1. i - 2 \in 1..k /\ i = 2 + (i - 2)
    BY <1>11, <1>12
  <2>2. messages'[i] = kept[i - 2]
    BY <1>9, <2>1
  <2> QED BY <1>5, <2>1, <2>2
<1>13. Numbered'
  <2>1. ASSUME NEW i \in 1..(2 + k) PROVE messages'[i].id < nextId + 2
    <3>1. CASE i = 1 \/ i = 2
      BY <1>3, <1>9, <3>1 DEF None
    <3>2. CASE i # 1 /\ i # 2
      <4>1. messages'[i].id < nextId /\ messages'[i].id \in Int
        BY <1>12, <3>2
      <4> QED BY <1>3, <4>1
    <3> QED BY <3>1, <3>2
  <2>2. forkParent < nextId + 2
    BY <1>1, <1>3, <1>6
  <2> QED BY <1>2, <1>8, <1>9, <2>1, <2>2 DEF Numbered
<1>14. Fresh'
  <2>1. (cursor' + 1)..Len(messages') = {}
    BY <1>2, <1>5, <1>9
  <2> QED BY <2>1 DEF Fresh
<1>15. MessagesOK'
  <2>1. ASSUME NEW i \in 1..(2 + k), NEW j \in 1..(2 + k), i < j, messages'[i].id = messages'[j].id
        PROVE  FALSE
    <3>1. i # 2 \/ j # 2
      BY <2>1
    <3>2. j # 1 /\ i \in Int /\ j \in Int
      BY <1>5, <2>1
    <3>3. CASE j = 2
      <4>1. i = 1
        BY <2>1, <3>2, <3>3
      <4> QED BY <1>3, <1>9, <2>1, <3>3, <4>1 DEF None
    <3>4. CASE j # 2
      <4>1. /\ j - 2 \in 1..k /\ messages'[j].id = kept[j - 2].id
            /\ messages'[j].id \in Id /\ messages'[j].id < nextId /\ messages'[j].id \in Int
        BY <1>12, <3>2, <3>4
      <4>2. CASE i = 1
        BY <1>9, <2>1, <4>1, <4>2 DEF Id, None
      <4>3. CASE i = 2
        <5>1. messages'[j].id = nextId + 1
          BY <1>9, <2>1, <4>3
        <5> QED BY <1>3, <4>1, <5>1
      <4>4. CASE i # 1 /\ i # 2
        <5>1. i - 2 \in 1..k /\ messages'[i].id = kept[i - 2].id
          BY <1>12, <4>4
        <5>2. i - 2 = j - 2
          BY <1>5, <2>1, <4>1, <5>1
        <5> QED BY <2>1, <3>2, <5>2
      <4> QED BY <4>2, <4>3, <4>4
    <3> QED BY <3>3, <3>4
  <2>2. ASSUME NEW i \in 1..(2 + k), NEW j \in 1..(2 + k), messages'[i].id = messages'[j].id
        PROVE  i = j
    <3>1. i \in Int /\ j \in Int
      OBVIOUS
    <3>2. ~(i < j) /\ ~(j < i)
      BY <2>1, <2>2
    <3> QED BY <3>1, <3>2
  <2>3. ASSUME NEW i \in 2..(2 + k) PROVE messages'[i].id # None
    <3>1. CASE i = 2
      BY <1>3, <1>9, <3>1 DEF None
    <3>2. CASE i # 2
      <4>1. i \in 1..(2 + k) /\ i # 1
        BY <1>5
      <4> QED BY <1>12, <3>2, <4>1 DEF Id, None
    <3> QED BY <3>1, <3>2
  <2>4. ASSUME NEW i \in 1..(2 + k), messages'[i].id = None PROVE messages'[i].kind = "boundary"
    <3>1. CASE i = 1
      BY <1>9, <3>1
    <3>2. CASE i # 1
      <4>1. i \in 2..(2 + k)
        BY <1>5, <3>2
      <4> QED BY <2>3, <2>4, <4>1
    <3> QED BY <3>1, <3>2
  <2> QED BY <1>9, <2>2, <2>3, <2>4 DEF MessagesOK, Distinct
<1> QED BY <1>8, <1>10, <1>13, <1>14, <1>15 DEF HistoryInv, TableOK

\* A part of the conversation.
LEMMA PartIs ==
  ASSUME TypeOK, NEW f \in 1..(Len(messages) + 1), NEW t \in 0..Len(messages), f <= t + 1
  PROVE  /\ SubSeq(messages, f, t) \in Seq(Messages) /\ Len(SubSeq(messages, f, t)) = t - f + 1
         /\ \A i \in 1..(t - f + 1) :
              /\ SubSeq(messages, f, t)[i] = messages[f + i - 1] /\ f + i - 1 \in f..t
              /\ f + i - 1 \in 1..Len(messages)
<1>1. messages \in Seq(Messages) /\ Len(messages) \in Nat
  BY TypeIs, LenProperties
<1>2. \A i \in 1..(t - f + 1) : f + i - 1 \in f..t /\ f + i - 1 \in 1..Len(messages)
  BY <1>1
<1>3. \A i \in f..t : messages[i] \in Messages
  <2>1. \A i \in f..t : i \in 1..Len(messages)
    BY <1>1
  <2> QED BY <1>1, <2>1, ElementOfSeq
<1>4. f \in Int /\ t \in Int /\ (~(f <= t) => t - f + 1 = 0)
  BY <1>1
<1> QED BY <1>2, <1>3, <1>4, SubSeqProperties

\* A group boundary behind the first message keeps messages that have a uuid.
LEMMA TailKept ==
  ASSUME HistoryInv, NEW f \in 2..Len(messages)
  PROVE  Kept(SubSeq(messages, f, Len(messages)))
<1> DEFINE n == Len(messages)
           kept == SubSeq(messages, f, n)
           k == n - f + 1
<1>0. TypeOK /\ Numbered /\ MessagesOK
  BY DEF HistoryInv
<1>1. messages \in Seq(Messages) /\ n \in Nat /\ \A i \in 1..n : messages[i] \in Messages
  BY <1>0, TypeIs, LenProperties, ElementOfSeq
<1>2. /\ kept \in Seq(Messages) /\ Len(kept) = k
      /\ \A i \in 1..k : /\ kept[i] = messages[f + i - 1] /\ f + i - 1 \in f..n
                         /\ f + i - 1 \in 1..n
  <2>1. f \in 1..(n + 1) /\ n \in 0..n /\ f <= n + 1
    BY <1>1
  <2> QED BY <1>0, <2>1, PartIs
<1> HIDE DEF kept
<1>3. \A i \in f..n : messages[i].id \in Id /\ messages[i].id < nextId
  <2> TAKE i \in f..n
  <2>1. i \in 2..n /\ i \in 1..n
    BY <1>1
  <2>2. messages[i].id # None /\ messages[i].id < nextId /\ messages[i].id \in 0..MaxId
    BY <1>0, <1>1, <2>1, Fields DEF MessagesOK, Numbered
  <2> QED BY <2>2, HistoryAssumption DEF Id, None
<1>4. ASSUME NEW i \in 1..k, NEW j \in 1..k, kept[i].id = kept[j].id PROVE i = j
  <2>0. /\ messages[f + i - 1].id = messages[f + j - 1].id
        /\ f + i - 1 \in 1..n /\ f + j - 1 \in 1..n
    BY <1>2, <1>4
  <2>1. f + i - 1 = f + j - 1
    BY <1>0, <2>0 DEF MessagesOK, Distinct
  <2>2. i \in Int /\ j \in Int /\ f \in Int
    BY <1>1
  <2> QED BY <2>1, <2>2
<1> QED BY <1>2, <1>3, <1>4 DEF Kept, Distinct, kept

\* Any compaction.
LEMMA CompactStep ==
  ASSUME HistoryInv, Compact, phase' \in Phases
  PROVE  HistoryInv'
<1>0. TypeOK /\ Numbered /\ Fresh /\ MessagesOK /\ TableOK
  BY DEF HistoryInv
<1>1. /\ rows \in Table /\ messages \in Seq(Messages) /\ forkParent \in 0..MaxId
      /\ nextId \in 1..MaxId + 1 /\ rewound \subseteq 1..MaxId /\ strayed \in BOOLEAN
      /\ cursor \in 0..Len(messages)
  BY <1>0, TypeIs
<1>2. left' \in [Rare -> Nat]
  <2>1. Spend("compact") /\ "compact" \in Rare \ {"any"}
    BY DEF Compact, Rare
  <2> QED BY <1>0, <2>1, SpendType
<1>3. UNCHANGED <<forkParent, rewound>>
  BY DEF Compact
<1>4. CASE KeepTail
  <2>1. PICK f \in GroupStarts \ {1} : Replace(SubSeq(messages, f, Len(messages)))
    BY <1>4 DEF KeepTail
  <2>2. f \in 2..Len(messages)
    <3>1. f \in DOMAIN messages /\ f # 1 /\ DOMAIN messages = 1..Len(messages) /\ Len(messages) \in Nat
      BY <1>1, LenProperties DEF GroupStarts
    <3> QED BY <3>1
  <2>3. Kept(SubSeq(messages, f, Len(messages)))
    BY <2>2, TailKept
  <2> QED BY <1>2, <1>3, <2>1, <2>3, ReplaceStep
<1>5. CASE KeepNothing
  <2>1. Replace(<<>>)
    BY <1>5 DEF KeepNothing
  <2>2. Kept(<<>>)
    BY DEF Kept, Distinct
  <2> QED BY <1>2, <1>3, <2>1, <2>2, ReplaceStep
<1>6. CASE Noop
  <2>1. /\ cursor' = Len(messages) /\ UNCHANGED <<rows, messages, nextId>> /\ strayed' \in BOOLEAN
    BY <1>1, <1>6 DEF Noop
  <2>2. Len(messages) \in Nat
    BY <1>1, LenProperties
  <2>3. TypeOK'
    BY <1>1, <1>2, <1>3, <2>1, <2>2, TypeNext
  <2>4. Fresh'
    <3>1. (cursor' + 1)..Len(messages') = {}
      BY <2>1, <2>2
    <3> QED BY <3>1 DEF Fresh
  <2>5. Numbered' /\ MessagesOK' /\ TableOK'
    BY <1>0, <1>3, <2>1 DEF Numbered, MessagesOK, TableOK
  <2> QED BY <2>3, <2>4, <2>5 DEF HistoryInv
<1> QED BY <1>4, <1>5, <1>6 DEF Compact

\* A rewind.
LEMMA RewindStep ==
  ASSUME HistoryInv, NEW i \in DOMAIN messages, RewindTo(i), UNCHANGED <<rows, nextId>>,
         left' \in [Rare -> Nat], phase' \in Phases
  PROVE  HistoryInv'
<1> DEFINE n == Len(messages)
           m == i - 1
           cut == SubSeq(messages, 1, i - 1)
           gone == SubSeq(messages, i, n)
<1>0. TypeOK /\ Numbered /\ Fresh /\ MessagesOK /\ TableOK
  BY DEF HistoryInv
<1>1. /\ rows \in Table /\ messages \in Seq(Messages) /\ cursor \in 0..n /\ forkParent \in 0..MaxId
      /\ nextId \in 1..MaxId + 1 /\ rewound \subseteq 1..MaxId /\ strayed \in BOOLEAN
      /\ n \in Nat /\ i \in 1..n /\ \A j \in 1..n : messages[j] \in Messages
  BY <1>0, TypeIs, LenProperties, ElementOfSeq
<1>2. /\ messages' = cut
      /\ \/ /\ m < cursor /\ forkParent' = (IF i > 1 THEN messages[i - 1].id ELSE None) /\ cursor' = m
         \/ /\ ~(m < cursor) /\ forkParent' = forkParent /\ cursor' = cursor
      /\ rewound' = rewound \cup IdsOf(gone)
      /\ strayed' \in BOOLEAN
  BY <1>1 DEF RewindTo
<1>3. m \in Nat /\ m < n /\ m \in 0..n /\ cursor \in Nat
  BY <1>1
<1>4. /\ messages' \in Seq(Messages) /\ Len(messages') = m
      /\ \A j \in 1..m : messages'[j] = messages[j] /\ j \in 1..n
  <2>1. 1 \in 1..(n + 1) /\ m \in 0..n /\ 1 <= m + 1 /\ m - 1 + 1 = m
    BY <1>1, <1>3
  <2>2. /\ cut \in Seq(Messages) /\ Len(cut) = m
        /\ \A j \in 1..m : cut[j] = messages[1 + j - 1] /\ 1 + j - 1 \in 1..n
    BY <1>0, <2>1, PartIs
  <2>3. \A j \in 1..m : 1 + j - 1 = j
    OBVIOUS
  <2> QED BY <1>2, <2>2, <2>3
<1> HIDE DEF cut
<1>5. IdsOf(gone) \subseteq 1..MaxId
  <2>1. /\ gone \in Seq(Messages) /\ Len(gone) = n - i + 1
        /\ \A j \in 1..(n - i + 1) : gone[j] = messages[i + j - 1] /\ i + j - 1 \in i..n
    <3>1. i \in 1..(n + 1) /\ n \in 0..n /\ i <= n + 1
      BY <1>1
    <3> QED BY <1>0, <3>1, PartIs
  <2>2. \A j \in i..n : messages[j].id \in 1..MaxId
    <3> TAKE j \in i..n
    <3>1. j \in 1..n /\ (j = i \/ j \in 2..n)
      BY <1>1
    <3>2. messages[j].id # None
      <4>1. messages[i].kind = "user"
        BY DEF RewindTo
      <4> QED BY <1>0, <3>1, <4>1 DEF MessagesOK
    <3>3. messages[j].id \in 0..MaxId
      BY <1>1, <3>1, Fields
    <3> QED BY <3>2, <3>3, HistoryAssumption DEF None
  <2> HIDE DEF gone
  <2>3. DOMAIN gone = 1..(n - i + 1)
    BY <2>1, LenProperties
  <2> QED BY <2>1, <2>2, <2>3 DEF IdsOf
<1>7. TypeOK'
  <2>1. cursor' \in 0..Len(messages')
    BY <1>2, <1>3, <1>4
  <2>2. forkParent' \in 0..MaxId
    <3>1. i > 1 => i - 1 \in 1..n
      BY <1>1
    <3> QED BY <1>1, <1>2, <3>1, Fields, HistoryAssumption DEF None
  <2>3. rewound' \subseteq 1..MaxId
    BY <1>1, <1>2, <1>5
  <2> QED BY <1>1, <1>2, <1>4, <2>1, <2>2, <2>3, TypeNext
<1>8. Numbered'
  <2>1. forkParent' < nextId
    <3>1. i > 1 => i - 1 \in 1..n
      BY <1>1
    <3>2. None < nextId
      BY <1>1, HistoryAssumption DEF None
    <3> QED BY <1>0, <1>2, <3>1, <3>2 DEF Numbered
  <2> QED BY <1>0, <1>4, <2>1 DEF Numbered
<1>9. Fresh'
  <2>1. CASE cursor' = m
    <3>1. (cursor' + 1)..Len(messages') = {}
      BY <1>3, <1>4, <2>1
    <3> QED BY <3>1 DEF Fresh
  <2>2. CASE cursor' = cursor /\ forkParent' = forkParent
    <3>1. \A j \in (cursor + 1)..m : j \in (cursor + 1)..n /\ j \in 1..m
      BY <1>3
    <3> QED BY <1>0, <1>4, <2>2, <3>1 DEF Fresh
  <2> QED BY <1>2, <2>1, <2>2
<1>10. MessagesOK'
  <2>1. \A j \in 2..m : j \in 1..m /\ j \in 2..n
    BY <1>3
  <2> QED BY <1>0, <1>4, <2>1 DEF MessagesOK, Distinct
<1>11. TableOK'
  BY <1>0 DEF TableOK
<1> QED BY <1>7, <1>8, <1>9, <1>10, <1>11 DEF HistoryInv

\* The conversation is read back from a table.
LEMMA ReloadStep ==
  ASSUME HistoryInv, rows' \in Table, SegOK(rows'), Rooted(rows'),
         \A i \in 1..Len(rows') : rows'[i].id < nextId /\ rows'[i].parent < nextId,
         messages' = ToEngine(LoadChain(rows')), cursor' = Len(messages'),
         forkParent' = None, UNCHANGED nextId,
         left' \in [Rare -> Nat], phase' \in Phases, rewound' \subseteq 1..MaxId, strayed' \in BOOLEAN
  PROVE  HistoryInv'
<1> DEFINE c == LoadChain(rows')
<1>1. c \in Table /\ IdsOf(c) \subseteq IdsOf(rows')
  BY LoadChainIs
<1> HIDE DEF c
<1>2. messages' = ToEngine(c)
  BY DEF c
<1>3. /\ messages' \in Seq(Messages) /\ Len(messages') = Len(c) /\ Len(c) \in Nat
      /\ IdsOf(messages') = IdsOf(c) /\ Distinct(messages')
      /\ \A i \in 1..Len(c) : messages'[i].id \in Id
      /\ DOMAIN messages' = 1..Len(c)
  BY <1>1, <1>2, ToEngineIs, TableIs, LenProperties
<1>4. nextId \in 1..MaxId + 1 /\ MaxId \in Nat
  BY TypeIs, HistoryAssumption DEF HistoryInv
<1>5. \A i \in 1..Len(c) : messages'[i].id < nextId
  <2> TAKE i \in 1..Len(c)
  <2>1. messages'[i].id \in IdsOf(rows')
    BY <1>1, <1>3 DEF IdsOf
  <2>2. IdsOf(rows') = {rows'[j].id : j \in 1..Len(rows')}
    BY TableIs
  <2> QED BY <2>1, <2>2
<1>6. TypeOK'
  <2>1. cursor' \in 0..Len(messages') /\ forkParent' \in 0..MaxId
    BY <1>3, <1>4 DEF None
  <2> QED BY <1>3, <1>4, <2>1, TypeNext
<1>7. Numbered'
  <2>1. None < nextId
    BY <1>4 DEF None
  <2> QED BY <1>3, <1>5, <2>1 DEF Numbered
<1>8. Fresh'
  <2>1. (cursor' + 1)..Len(messages') = {}
    BY <1>3
  <2> QED BY <2>1 DEF Fresh
<1>9. MessagesOK'
  <2>1. \A i \in 1..Len(c) : messages'[i].id # None
    BY <1>3 DEF Id, None
  <2>2. \A i \in 2..Len(c) : i \in 1..Len(c)
    OBVIOUS
  <2> QED BY <1>3, <2>1, <2>2 DEF MessagesOK
<1> QED BY <1>6, <1>7, <1>8, <1>9 DEF HistoryInv, TableOK

-----------------------------------------------------------------------------
(* Every step keeps the invariant.                                         *)

\* A step of the model.
LEMMA StepInv ==
  ASSUME HistoryInv, [Next]_vars
  PROVE  HistoryInv'
<1>0. TypeOK /\ Numbered /\ Fresh /\ MessagesOK /\ TableOK
  BY DEF HistoryInv
<1>1. /\ left \in [Rare -> Nat] /\ rewound \subseteq 1..MaxId /\ strayed \in BOOLEAN
      /\ phase \in Phases
  BY <1>0, TypeIs
<1> DEFINE K == Kinds \ {"boundary"}
<1>2. <<"user">> \in Seq(K) /\ <<"injected">> \in Seq(K) /\ <<"assistant">> \in Seq(K)
      /\ <<"assistant", "injected">> \in Seq(K)
  BY DEF Kinds
<1>3. \A from, to \in Phases : Go(from, to) => phase' \in Phases
  BY DEF Go
<1>4. {"idle", "entry", "head", "llm", "recover", "boundary", "exit"} \subseteq Phases
  BY DEF Phases
<1>5. CASE Ask
  BY <1>2, <1>4, <1>5, AppendStep DEF Ask, Go, stored, past
<1>6. CASE ProcessAttachments
  BY <1>2, <1>4, <1>6, AppendStep DEF ProcessAttachments, Go, stored, past
<1>7. ASSUME CallLLM \/ RecoverFails \/ AbortEarly
      PROVE  HistoryInv'
  <2>1. phase' \in Phases /\ UNCHANGED <<rows, messages, cursor, forkParent, nextId, left, past>>
    BY <1>4, <1>7 DEF CallLLM, RecoverFails, AbortEarly, Go
  <2> QED BY <1>1, <2>1, IdleStep DEF past
<1>8. ASSUME PersistEntry \/ PersistBoundary \/ PersistExit
      PROVE  HistoryInv'
  <2>1. /\ phase' \in Phases /\ PersistNewMessages
        /\ UNCHANGED <<messages, nextId, rewound, strayed>>
    BY <1>4, <1>8 DEF PersistEntry, PersistBoundary, PersistExit, Persist, Go, past
  <2>2. CASE SweepNothing
    BY <1>1, <2>1, <2>2, IdleStep DEF SweepNothing, stored
  <2>3. CASE SweepStores
    BY <2>1, <2>3, SweepStep
  <2>4. CASE SweepFails
    <3>1. Spend("fail") /\ "fail" \in Rare \ {"any"} /\ UNCHANGED stored
      BY <2>4 DEF SweepFails, Rare
    <3>2. left' \in [Rare -> Nat]
      BY <1>0, <3>1, SpendType
    <3> QED BY <1>1, <2>1, <3>1, <3>2, IdleStep DEF stored
  <2> QED BY <2>1, <2>2, <2>3, <2>4 DEF PersistNewMessages
<1>9. ASSUME AutoCompact \/ ReactiveCompact \/ RecoverCompact \/ ManualCompact
      PROVE  HistoryInv'
  <2>1. Compact /\ phase' \in Phases
    BY <1>4, <1>9 DEF AutoCompact, ReactiveCompact, RecoverCompact, ManualCompact, Go
  <2> QED BY <2>1, CompactStep
<1>10. ASSUME RunTools \/ PartialResponse \/ ContinueTurn \/ WindowExceeded \/ Finish
       PROVE  HistoryInv'
  <2>1. PICK to \in Phases, ks \in {<<"assistant">>, <<"assistant", "injected">>} : Respond(to, ks)
    BY <1>4, <1>10 DEF RunTools, PartialResponse, ContinueTurn, WindowExceeded, Finish
  <2>2. /\ AppendNew(ks) /\ ks \in Seq(K) /\ phase' \in Phases
        /\ UNCHANGED <<rows, cursor, forkParent, left, rewound, strayed>>
    BY <1>2, <2>1 DEF Respond, Go, stored, past
  <2> QED BY <2>2, AppendStep
<1>11. ASSUME Rewind \/ AutoRewind
       PROVE  HistoryInv'
  <2>1. /\ Spend("rewind") /\ "rewind" \in Rare \ {"any"} /\ phase' \in Phases
        /\ UNCHANGED <<rows, nextId>>
    BY <1>4, <1>11 DEF Rewind, AutoRewind, Go, Rare
  <2>2. left' \in [Rare -> Nat]
    BY <1>0, <2>1, SpendType
  <2>3. \E i \in DOMAIN messages : RewindTo(i)
    <3>1. CASE Rewind
      BY <3>1 DEF Rewind
    <3>2. CASE AutoRewind
      BY <3>2 DEF AutoRewind
    <3> QED BY <1>11, <3>1, <3>2
  <2> QED BY <2>1, <2>2, <2>3, RewindStep
<1>12. CASE ForkSession
  <2>1. /\ Spend("fork") /\ "fork" \in Rare \ {"any"} /\ phase' \in Phases
        /\ rows' = CopyToFork(rows) /\ messages' = ToEngine(LoadChain(rows'))
        /\ cursor' = Len(messages') /\ forkParent' = None /\ UNCHANGED <<nextId, rewound>>
        /\ strayed' \in BOOLEAN
    BY <1>1, <1>4, <1>12 DEF ForkSession, Go, Rare
  <2>2. left' \in [Rare -> Nat]
    BY <1>0, <2>1, SpendType
  <2>3. rows \in Table /\ Rooted(rows) /\ Len(rows) \in Nat
    BY <1>0, TableIs DEF TableOK
  <2>4. /\ rows' \in Table /\ SegOK(rows') /\ Rooted(rows') /\ Len(rows') = Len(rows)
        /\ \A i \in 1..Len(rows) :
             /\ rows'[i].id = rows[i].id
             /\ rows'[i].parent = IF i = 1 THEN None ELSE rows[i - 1].id
    BY <2>1, <2>3, CopyIs
  <2>5. \A i \in 1..Len(rows') : rows'[i].id < nextId /\ rows'[i].parent < nextId
    <3>1. None < nextId
      BY <1>0, TypeIs, HistoryAssumption DEF None
    <3>2. \A i \in 1..Len(rows) : i = 1 \/ i - 1 \in 1..Len(rows)
      BY <2>3
    <3> QED BY <1>0, <2>4, <3>1, <3>2 DEF Numbered
  <2> QED BY <1>1, <2>1, <2>2, <2>4, <2>5, ReloadStep
<1>13. CASE Restart
  <2>1. /\ Spend("crash") /\ "crash" \in Rare \ {"any"} /\ phase' \in Phases
        /\ rows' = rows /\ messages' = ToEngine(LoadChain(rows))
        /\ cursor' = Len(messages') /\ forkParent' = None /\ nextId' = nextId
        /\ rewound' \subseteq rewound /\ strayed' = strayed
    BY <1>4, <1>13 DEF Restart, Rare
  <2>2. left' \in [Rare -> Nat]
    BY <1>0, <2>1, SpendType
  <2> QED BY <1>0, <1>1, <2>1, <2>2, ReloadStep DEF TableOK, Numbered
<1>14. CASE UNCHANGED vars
  BY <1>1, <1>14, IdleStep DEF vars, past
<1> QED BY <1>5, <1>6, <1>7, <1>8, <1>9, <1>10, <1>11, <1>12, <1>13, <1>14 DEF Next

-----------------------------------------------------------------------------
(* Where the conversation is in the table, unless memory and table have    *)
(* parted.                                                                 *)

\* Nothing but the first kept message, a response, is linked behind the summary of the last boundary
\* with a segment, and nothing will be.
Sealed(rs, fork) ==
  \A b \in 1..Len(rs) : Newest(rs, b) /\ rs[b].seg \notin {NoSeg, Stale} =>
    /\ b + 2 \in 1..Len(rs) /\ rs[b + 2].kind = "assistant"
    /\ \A j \in 1..Len(rs) : rs[j].parent = rs[b + 1].id => j = b + 2
    /\ fork # rs[b + 1].id

\* Where loading starts.
LoadBase(rs, b) ==
  \/ b = 1 /\ \A c \in 1..Len(rs) : Newest(rs, c) => rs[c].seg = NoSeg
  \/ Newest(rs, b) /\ rs[b].seg # NoSeg

Suffix(L, rs, b) ==
  /\ b \in 1..Len(rs) /\ L \in Table /\ Len(L) = Len(rs) - b + 1
  /\ \A i \in 1..Len(L) : L[i] = rs[b + i - 1] /\ b + i - 1 \in 1..Len(rs)

\* Loading cuts off a head of a sealed table, and no more.
LEMMA LoadSuffix ==
  ASSUME NEW rs \in Table, rs # <<>>, SegOK(rs), NEW fork, Sealed(rs, fork)
  PROVE  \E b \in 1..Len(rs) : LoadBase(rs, b) /\ Suffix(LoadMessages(rs), rs, b)
<1> DEFINE L == LoadMessages(rs)
           m == Len(rs)
<1>1. /\ m \in Nat /\ m >= 1 /\ \A i \in 1..m : rs[i] \in Rows
      /\ \A i, j \in 1..m : rs[i].id = rs[j].id => i = j
  BY TableIs, EmptySeq
<1>2. CASE L = rs /\ \A b \in 1..m : Newest(rs, b) => rs[b].seg = NoSeg
  <2>1. \A i \in 1..m : 1 + i - 1 = i
    OBVIOUS
  <2>2. 1 \in 1..m /\ m = m - 1 + 1
    BY <1>1
  <2>3. Suffix(rs, rs, 1)
    BY <2>1, <2>2 DEF Suffix
  <2> QED BY <1>2, <2>2, <2>3 DEF LoadBase
<1>3. ASSUME NEW b \in 1..m, Newest(rs, b), rs[b].seg # NoSeg, LoadsFrom(L, rs, b)
      PROVE  LoadBase(rs, b) /\ Suffix(L, rs, b)
  <2> HIDE DEF L
  <2>1. /\ L \in Table /\ Len(L) = m - b + 1
        /\ \A i \in 1..Len(L) : b + i - 1 \in 1..m /\ L[i] = Turned(rs[b + i - 1], rs[b].seg)
    BY <1>3, LoadedRows
  <2>2. ASSUME NEW r \in Rows, NEW j \in 1..m, r = rs[j] PROVE Turned(r, rs[b].seg) = r
    <3>1. CASE rs[b].seg = Stale
      BY <3>1, TurnedIs
    <3>2. CASE rs[b].seg # Stale
      <4>1. PICK n \in 1..m : Segmented(rs, b, n)
        BY <1>3, <3>2 DEF SegOK
      <4>2. /\ b + 2 \in 1..m /\ \A k \in 1..m : rs[k].parent = rs[b + 1].id => k = b + 2
        BY <1>3, <3>2 DEF Sealed
      <4>3. rs[b].seg[1] = rs[b + 2].id /\ rs[b].seg[2] = rs[b + 1].id
        BY <4>1 DEF Segmented
      <4>4. rs[b + 2].parent = rs[b + 1].id
        <5>1. 2 \in 1..(n + 1) /\ b + 2 - 1 = b + 1
          BY <1>1
        <5>2. rs[b + 2].parent = rs[b + 2 - 1].id
          BY <4>1, <5>1 DEF Segmented
        <5> QED BY <5>1, <5>2
      <4>5. CASE r.id = rs[b + 2].id
        <5>1. r.parent = rs[b + 1].id
          BY <1>1, <2>2, <4>2, <4>4, <4>5
        <5>2. Turned(r, rs[b].seg) = [r EXCEPT !.parent = r.parent]
          BY <4>3, <4>5, <5>1 DEF Turned
        <5>3. [r EXCEPT !.parent = r.parent] = r
          BY DEF Rows
        <5> QED BY <5>2, <5>3
      <4>6. CASE r.id # rs[b + 2].id
        <5>1. r.parent # rs[b + 1].id
          BY <2>2, <4>2, <4>6
        <5> QED BY <4>3, <4>6, <5>1 DEF Turned
      <4> QED BY <4>5, <4>6
    <3> QED BY <3>1, <3>2
  <2>3. \A i \in 1..Len(L) : L[i] = rs[b + i - 1]
    BY <1>1, <2>1, <2>2
  <2> QED BY <1>3, <2>1, <2>3 DEF Suffix, LoadBase
<1> HIDE DEF L
<1>4. \/ L = rs /\ \A b \in 1..m : Newest(rs, b) => rs[b].seg = NoSeg
      \/ \E b \in 1..m : Newest(rs, b) /\ rs[b].seg # NoSeg /\ LoadsFrom(L, rs, b)
  BY LoadIs DEF L
<1> QED BY <1>2, <1>3, <1>4 DEF L

\* In a rooted table a path leads from a row whose parent is not there.
LEMMA PathWhole ==
  ASSUME NEW rs \in Table, Rooted(rs), NEW u \in IdsOf(rs)
  PROVE  Whole(rs, PathTo(rs, u))
<1> DEFINE m == Len(rs)
           p == PathTo(rs, u)
           Stuck(q) == RowOf(rs, Head(q)).parent \notin IdsOf(rs) \/ RowOf(rs, Head(q)).parent \in ToSet(q)
<1>1. m \in Nat /\ IdsOf(rs) = {rs[i].id : i \in 1..m}
  BY TableIs
<1>2. PICK k : Climbs(k, rs, u)
  BY ClimbsUnfolds
<1>3. /\ k[0] = <<u>> /\ \A i \in 1..m : k[i] = Longer(rs, k[i - 1])
      /\ p = k[m] /\ k \in [0..m -> Seq(IdsOf(rs)) \ {<<>>}]
  BY <1>2 DEF Climbs
<1>4. ASSUME NEW q \in Seq(IdsOf(rs)), \A i, j \in 1..Len(q) : q[i] = q[j] => i = j
      PROVE  Len(q) <= m
  <2> DEFINE f == [i \in 1..Len(q) |-> CHOOSE j \in 1..m : rs[j].id = q[i]]
  <2>1. Len(q) \in Nat /\ \A i \in 1..Len(q) : q[i] \in IdsOf(rs)
    BY LenProperties, ElementOfSeq
  <2>2. f \in [1..Len(q) -> 1..m] /\ \A i \in 1..Len(q) : rs[f[i]].id = q[i]
    BY <1>1, <2>1
  <2> HIDE DEF f
  <2>3. \A i, j \in 1..Len(q) : f[i] = f[j] => i = j
    BY <1>4, <2>2
  <2>4. f \in Injection(1..Len(q), 1..m)
    BY <2>2, <2>3 DEF Injection, IsInjective
  <2>5. IsFiniteSet(1..m) /\ Cardinality(1..m) = m /\ Cardinality(1..Len(q)) = Len(q)
    <3>1. \A a \in Nat : IsFiniteSet(1..a) /\ Cardinality(1..a) = a
      <4> TAKE a \in Nat
      <4>1. IsFiniteSet(1..a) /\ Cardinality(1..a) = IF 1 > a THEN 0 ELSE a - 1 + 1
        BY FS_Interval
      <4> QED BY <4>1
    <3> QED BY <1>1, <2>1, <3>1
  <2> QED BY <2>4, <2>5, FS_Injection
<1>5. ASSUME NEW i \in 0..m PROVE Path(rs, k[i], u)
  <2> DEFINE S == {j \in 0..m : Path(rs, k[j], u)}
  <2>1. 0 \in S
    <3>1. Path(rs, <<u>>, u)
      BY DEF Path
    <3> QED BY <1>1, <1>3, <3>1
  <2>2. ASSUME NEW j \in 1..m, j - 1 \in S PROVE j \in S
    <3>1. j \in 0..m /\ k[j] = Longer(rs, k[j - 1]) /\ Path(rs, k[j - 1], u)
      BY <1>1, <1>3, <2>2
    <3> QED BY <3>1, LongerIs
  <2> HIDE DEF S
  <2>3. \A j \in 0..m : j \in S
    BY <1>1, <2>1, <2>2, UpTo
  <2> QED BY <2>3 DEF S
<1> DEFINE T == {i \in 0..m : Stuck(k[i]) \/ Len(k[i]) = i + 1}
<1> HIDE DEF m
<1>6. 0 \in T
  <2>1. Len(<<u>>) = 0 + 1
    OBVIOUS
  <2>2. 0 \in 0..m /\ Len(k[0]) = 0 + 1
    BY <1>1, <1>3, <2>1
  <2> HIDE DEF Stuck
  <2> QED BY <2>2
<1>7. ASSUME NEW i \in 1..m, i - 1 \in T PROVE i \in T
  <2> DEFINE q == k[i - 1]
  <2>1. i \in 0..m /\ i - 1 \in 0..m /\ k[i] = Longer(rs, q) /\ i \in Int
    BY <1>1, <1>3
  <2>2. q \in Seq(IdsOf(rs)) \ {<<>>}
    BY <1>3, <2>1
  <2> HIDE DEF q
  <2>3. CASE Stuck(q)
    <3>1. k[i] = q
      BY <2>1, <2>3 DEF Longer
    <3> QED BY <2>1, <2>3, <3>1
  <2>4. CASE ~Stuck(q)
    <3>1. Len(q) = (i - 1) + 1
      BY <1>7, <2>4 DEF q
    <3> DEFINE v == RowOf(rs, Head(q)).parent
    <3>2. v \in IdsOf(rs) /\ k[i] = <<v>> \o q
      BY <2>1, <2>4 DEF Longer
    <3> HIDE DEF v
    <3>3. Len(k[i]) = Len(q) + 1
      BY <2>2, <3>2, ConsIs
    <3>4. Len(k[i]) = i + 1
      BY <2>1, <3>1, <3>3
    <3> HIDE DEF Stuck
    <3> QED BY <2>1, <3>4
  <2> QED BY <2>3, <2>4
<1>8. m \in T
  <2> HIDE DEF T
  <2>1. \A i \in 0..m : i \in T
    BY <1>1, <1>6, <1>7, UpTo
  <2> QED BY <1>1, <2>1
<1>9. Path(rs, p, u) /\ p \in Seq(IdsOf(rs)) /\ \A i, j \in 1..Len(p) : p[i] = p[j] => i = j
  <2>1. Path(rs, p, u)
    BY PathToIs
  <2> HIDE DEF p
  <2> QED BY <2>1 DEF Path
<1>10. Len(p) <= m /\ Len(p) \in Nat /\ Len(p) >= 1
  BY <1>4, <1>9, LenProperties DEF Path
<1>11. RowOf(rs, Head(p)).parent \notin ToSet(p)
  BY RootedPath
<1>12. RowOf(rs, Head(p)).parent \notin IdsOf(rs)
  <2>1. Stuck(p) \/ Len(p) = m + 1
    BY <1>3, <1>8
  <2>2. Len(p) # m + 1
    BY <1>1, <1>10
  <2> QED BY <1>11, <2>1, <2>2
<1>13. Head(p) = p[1] /\ p[Len(p)] = u
  <2>1. p # <<>>
    BY <1>10
  <2> QED BY <1>9, <2>1, PathHead DEF Path
<1>14. Len(p) <= Len(rs) + 1
  BY <1>1, <1>10 DEF m
<1> HIDE DEF p
<1> QED BY <1>9, <1>12, <1>13, <1>14 DEF Whole, p

\* Earlier messages are not of a later second.
LEMMA SecondsAscend ==
  ASSUME NEW x \in Nat, NEW y \in Nat, x <= y
  PROVE  x \div PerSecond <= y \div PerSecond
<1> DEFINE p == PerSecond
           a == x \div p
           b == y \div p
<1>1. p \in Nat /\ p > 0
  BY PerSecondAssumption
<1> HIDE DEF p
<1>2. a \in Int /\ b \in Int /\ x = p * a + (x % p) /\ y = p * b + (y % p)
      /\ x % p \in 0..(p - 1) /\ y % p \in 0..(p - 1)
  BY <1>1
<1> DEFINE c == x % p
           d == y % p
<1>3. c \in 0..(p - 1) /\ d \in 0..(p - 1) /\ x = p * a + c /\ y = p * b + d
  BY <1>2
<1> HIDE DEF a, b, c, d
<1>4. SUFFICES ASSUME b < a PROVE FALSE
  BY <1>2 DEF a, b, p
<1>5. a >= b + 1
  BY <1>2, <1>4
<1>6. p * a >= p * b + p
  BY <1>1, <1>2, <1>5
<1> QED BY <1>1, <1>2, <1>3, <1>6

\* The last row is nobody's parent, and no other such row is newer.
Tip(rs) ==
  /\ rs # <<>> /\ Childless(rs, Len(rs))
  /\ \A j \in 1..Len(rs) : Childless(rs, j) => rs[j].id <= rs[Len(rs)].id

\* So it is the leaf findLeafMessage finds, whatever happened within one second.
LEMMA TipIsLeaf ==
  ASSUME NEW rs \in Table, Tip(rs)
  PROVE  LeafIndex(rs) = Len(rs) /\ Len(rs) \in 1..Len(rs)
<1> DEFINE n == Len(rs)
           l == LeafIndex(rs)
<1>1. n \in Nat /\ n \in 1..n /\ \A i \in 1..n : rs[i].id \in Nat
  <2>1. n \in Nat /\ n # 0 /\ \A i \in 1..n : rs[i] \in Rows
    BY TableIs, EmptySeq DEF Tip
  <2>2. \A r \in Rows : r.id \in Nat
    BY Fields, HistoryAssumption DEF Id
  <2> QED BY <2>1, <2>2
<1>2. Childless(rs, n) /\ \A j \in 1..n : Childless(rs, j) => rs[j].id <= rs[n].id
  BY DEF Tip
<1>3. /\ l \in 1..n /\ Childless(rs, l)
      /\ \/ rs[n].id \div PerSecond < rs[l].id \div PerSecond
         \/ rs[n].id \div PerSecond = rs[l].id \div PerSecond /\ n <= l
  BY <1>1, <1>2, LeafIs
<1> HIDE DEF n, l
<1>4. rs[l].id <= rs[n].id
  BY <1>2, <1>3
<1> DEFINE a == rs[l].id \div PerSecond
           b == rs[n].id \div PerSecond
<1>5. a <= b
  BY <1>1, <1>3, <1>4, SecondsAscend
<1>6. a \in Int /\ b \in Int
  BY <1>1, <1>3, PerSecondAssumption
<1>7. n <= l
  <2>1. b < a \/ (b = a /\ n <= l)
    BY <1>3
  <2> HIDE DEF a, b
  <2> QED BY <1>5, <1>6, <2>1
<1>8. l = n
  BY <1>1, <1>3, <1>7
<1> QED BY <1>1, <1>8 DEF l, n

-----------------------------------------------------------------------------
(* The conversation as positions in the table: loading starts at row b,    *)
(* and its newest branch is the rows g[1] to g[k].                         *)

\* The last boundary of the table, if any, carries a segment.
HasAll(rs) == \A b \in 1..Len(rs) : Newest(rs, b) => rs[b].seg # NoSeg

\* The rows g[1] to g[k] are a chain from a row whose parent is not loaded to the last row.
Line(rs, b, k, g) ==
  /\ b \in 1..Len(rs) /\ k \in Nat /\ k >= 1
  /\ g \in [1..k -> b..Len(rs)] /\ g[k] = Len(rs)
  /\ \A i, j \in 1..k : i < j => g[i] < g[j]
  /\ \A j \in b..Len(rs) : rs[j].id # rs[g[1]].parent
  /\ \A i \in 2..k : rs[g[i]].parent = rs[g[i - 1]].id /\ rs[g[i]].kind # "boundary"

\* The last row is nobody's parent, and no other row that is none is newer.
LastIsTip(rs, b) ==
  /\ \A j \in b..Len(rs) : rs[j].parent # rs[Len(rs)].id
  /\ \A i \in b..Len(rs) :
       (\A j \in b..Len(rs) : rs[j].parent # rs[i].id) => rs[i].id <= rs[Len(rs)].id

\* The first c messages are the first c rows of the chain, f names the last of them unless they are
\* the whole of it, and the rest of it has been rewound.
Matched(rs, k, g, ms, c, f, rw) ==
  /\ c \in 1..k /\ IF f = None THEN c = k ELSE f = rs[g[c]].id
  /\ \A i \in 1..c : /\ ms[i].kind = rs[g[i]].kind /\ ms[i].id \in {rs[g[i]].id, None}
                     /\ rs[g[i]].id \notin rw
  /\ \A i \in (c + 1)..k : rs[g[i]].id \in rw

\* What is loaded and off the chain has been rewound.
Accounted(rs, b, k, g, rw) ==
  HasAll(rs) => \A j \in b..Len(rs) : rs[j].id \in rw \/ \E i \in 1..k : g[i] = j

Held(rs, b, k, g, ms, c, f, rw) ==
  /\ LoadBase(rs, b) /\ Line(rs, b, k, g) /\ LastIsTip(rs, b)
  /\ Matched(rs, k, g, ms, c, f, rw) /\ Accounted(rs, b, k, g, rw)

\* Where the first c messages are in the table.
Settled(rs, ms, c, f, rw) ==
  IF c = 0 THEN rs = <<>> /\ f = None
  ELSE Sealed(rs, f) /\ \E b, k, g : Held(rs, b, k, g, ms, c, f, rw)

\* ch is the rows g[1] to g[c].
IsLine(ch, rs, g, c) ==
  /\ ch \in Table /\ Len(ch) = c
  /\ \A i \in 1..c : ch[i] = rs[g[i]]

\* Loading starts at one row only.
LEMMA OneBase ==
  ASSUME NEW rs \in Table, NEW a \in 1..Len(rs), NEW b \in 1..Len(rs), LoadBase(rs, a), LoadBase(rs, b)
  PROVE  a = b
<1>1. Len(rs) \in Nat
  BY TableIs
<1>2. CASE Newest(rs, a) /\ Newest(rs, b)
  BY <1>1, <1>2 DEF Newest
<1> QED BY <1>1, <1>2 DEF LoadBase

\* The chain down to g[c] is what is loaded from the uuid of that row.
LEMMA LineIs ==
  ASSUME NEW rs \in Table, rs # <<>>, SegOK(rs), NEW f, Sealed(rs, f),
         NEW b, NEW k, NEW g, LoadBase(rs, b), Line(rs, b, k, g), NEW c \in 1..k
  PROVE  /\ IsLine(ChainOf(LoadMessages(rs), rs[g[c]].id), rs, g, c)
         /\ rs[g[c]].id \in IdsOf(LoadMessages(rs))
<1> DEFINE m == Len(rs)
           L == LoadMessages(rs)
           p == [i \in 1..c |-> rs[g[i]].id]
<1>1. /\ m \in Nat /\ \A i \in 1..m : rs[i] \in Rows
      /\ \A i, j \in 1..m : rs[i].id = rs[j].id => i = j
  BY TableIs
<1>2. PICK a \in 1..m : LoadBase(rs, a) /\ Suffix(L, rs, a)
  BY LoadSuffix
<1>3. a = b
  BY <1>2, OneBase DEF Line
<1>4. /\ b \in 1..m /\ L \in Table /\ Len(L) = m - b + 1
      /\ \A i \in 1..Len(L) : L[i] = rs[b + i - 1] /\ b + i - 1 \in 1..m
  BY <1>2, <1>3 DEF Suffix
<1> HIDE DEF L
<1>5. /\ k \in Nat /\ k >= 1 /\ g \in [1..k -> b..m] /\ c \in 1..k /\ c \in Nat
      /\ \A i, j \in 1..k : i < j => g[i] < g[j]
      /\ \A j \in b..m : rs[j].id # rs[g[1]].parent
      /\ \A i \in 2..k : rs[g[i]].parent = rs[g[i - 1]].id
  BY DEF Line
<1>6. /\ Len(L) \in Nat /\ \A i, j \in 1..Len(L) : L[i].id = L[j].id => i = j
      /\ IdsOf(L) = {L[i].id : i \in 1..Len(L)}
      /\ \A i \in 1..Len(L) : RowOf(L, L[i].id) = L[i]
  BY <1>4, TableIs
<1>7. \A j \in b..m : /\ j - b + 1 \in 1..Len(L) /\ L[j - b + 1] = rs[j]
                      /\ rs[j].id \in IdsOf(L) /\ RowOf(L, rs[j].id) = rs[j]
  <2> TAKE j \in b..m
  <2>1. j - b + 1 \in 1..Len(L) /\ b + (j - b + 1) - 1 = j
    BY <1>1, <1>4
  <2>2. L[j - b + 1] = rs[j]
    BY <1>4, <2>1
  <2> QED BY <1>6, <2>1, <2>2
<1>8. \A v \in IdsOf(L) : \E j \in b..m : v = rs[j].id
  <2> TAKE v \in IdsOf(L)
  <2>1. PICK i \in 1..Len(L) : v = L[i].id
    BY <1>6
  <2>2. b + i - 1 \in b..m /\ L[i] = rs[b + i - 1]
    BY <1>1, <1>4, <2>1
  <2> QED BY <2>1, <2>2
<1>9. \A i \in 1..c : i \in 1..k /\ g[i] \in b..m /\ p[i] = rs[g[i]].id
  BY <1>5
<1>10. p \in Seq(IdsOf(L)) /\ Len(p) = c
  <2>1. p \in [1..c -> IdsOf(L)]
    BY <1>7, <1>9
  <2> HIDE DEF p
  <2> QED BY <1>5, <2>1, LenProperties
<1> HIDE DEF p
<1>11. \A i, j \in 1..c : p[i] = p[j] => i = j
  <2> SUFFICES ASSUME NEW i \in 1..c, NEW j \in 1..c, p[i] = p[j], i < j PROVE FALSE
    BY <1>5
  <2>1. g[i] \in 1..m /\ g[j] \in 1..m /\ g[i] < g[j]
    BY <1>4, <1>5, <1>9
  <2> QED BY <1>1, <1>9, <2>1
<1>12. Path(L, p, p[Len(p)])
  <2>1. \A i \in 2..c : RowOf(L, p[i]).parent = p[i - 1]
    <3> TAKE i \in 2..c
    <3>1. i \in 1..c /\ i - 1 \in 1..c /\ i \in 2..k
      BY <1>5
    <3>2. /\ p[i] = rs[g[i]].id /\ p[i - 1] = rs[g[i - 1]].id
          /\ g[i] \in b..m /\ RowOf(L, rs[g[i]].id) = rs[g[i]]
      BY <1>7, <1>9, <3>1
    <3>3. rs[g[i]].parent = rs[g[i - 1]].id
      BY <1>5, <3>1
    <3> QED BY <3>2, <3>3
  <2> QED BY <1>5, <1>10, <1>11, <2>1 DEF Path
<1>13. RowOf(L, p[1]).parent \notin IdsOf(L)
  <2>1. 1 \in 1..c
    BY <1>5
  <2>2. RowOf(L, p[1]) = rs[g[1]]
    BY <1>7, <1>9, <2>1
  <2> QED BY <1>5, <1>8, <2>2
<1>14. Len(p) <= Len(L) + 1
  <2> DEFINE h == [i \in 1..c |-> g[i] - b + 1]
  <2>1. h \in [1..c -> 1..Len(L)] /\ \A i \in 1..c : h[i] = g[i] - b + 1
    BY <1>7, <1>9
  <2> HIDE DEF h
  <2>2. \A i, j \in 1..c : h[i] = h[j] => i = j
    <3> SUFFICES ASSUME NEW i \in 1..c, NEW j \in 1..c, h[i] = h[j], i < j PROVE FALSE
      BY <1>5
    <3>1. g[i] \in Int /\ g[j] \in Int /\ b \in Int /\ g[i] < g[j]
      BY <1>1, <1>4, <1>5, <1>9
    <3>2. h[i] = g[i] - b + 1 /\ h[j] = g[j] - b + 1
      BY <2>1
    <3>3. g[i] - b + 1 # g[j] - b + 1
      BY <3>1
    <3> QED BY <3>2, <3>3
  <2>3. h \in Injection(1..c, 1..Len(L))
    BY <2>1, <2>2 DEF Injection, IsInjective
  <2>4. \A n \in Nat : IsFiniteSet(1..n) /\ Cardinality(1..n) = n
    <3> TAKE n \in Nat
    <3>1. IsFiniteSet(1..n) /\ Cardinality(1..n) = IF 1 > n THEN 0 ELSE n - 1 + 1
      BY FS_Interval
    <3> QED BY <3>1
  <2>5. IsFiniteSet(1..Len(L)) /\ Cardinality(1..Len(L)) = Len(L) /\ Cardinality(1..c) = c
    BY <1>5, <1>6, <2>4
  <2>6. c <= Len(L)
    BY <2>3, <2>5, FS_Injection
  <2> QED BY <1>5, <1>6, <1>10, <2>6
<1>15. PathTo(L, p[Len(p)]) = p
  BY <1>4, <1>12, <1>13, <1>14, PathIsWhole DEF Whole
<1>16. p[Len(p)] = rs[g[c]].id /\ rs[g[c]].id \in IdsOf(L)
  BY <1>5, <1>7, <1>9, <1>10
<1> DEFINE ch == ChainOf(L, rs[g[c]].id)
<1>17. ch \in Table /\ Len(ch) = c /\ \A i \in 1..c : ch[i] = RowOf(L, p[i])
  BY <1>4, <1>10, <1>15, <1>16, ChainIs
<1> HIDE DEF ch
<1>18. \A i \in 1..c : ch[i] = rs[g[i]]
  <2> TAKE i \in 1..c
  <2>1. g[i] \in b..m /\ p[i] = rs[g[i]].id /\ ch[i] = RowOf(L, p[i])
    BY <1>9, <1>17
  <2>2. RowOf(L, rs[g[i]].id) = rs[g[i]]
    BY <1>7, <2>1
  <2> QED BY <2>1, <2>2
<1> QED BY <1>16, <1>17, <1>18 DEF IsLine, ch, L

\* The last row is the leaf of what is loaded: a restart shows the chain.
LEMMA LoadsLine ==
  ASSUME NEW rs \in Table, rs # <<>>, SegOK(rs), NEW f, Sealed(rs, f),
         NEW b, NEW k, NEW g, LoadBase(rs, b), Line(rs, b, k, g), LastIsTip(rs, b)
  PROVE  IsLine(LoadChain(rs), rs, g, k)
<1> DEFINE m == Len(rs)
           L == LoadMessages(rs)
<1>1. m \in Nat /\ b \in 1..m /\ g[k] = m /\ k \in 1..k
  BY TableIs DEF Line
<1>2. PICK a \in 1..m : LoadBase(rs, a) /\ Suffix(L, rs, a)
  BY LoadSuffix
<1>3. a = b
  BY <1>1, <1>2, OneBase
<1>4. /\ L \in Table /\ Len(L) = m - b + 1
      /\ \A i \in 1..Len(L) : L[i] = rs[b + i - 1] /\ b + i - 1 \in 1..m
  BY <1>2, <1>3 DEF Suffix
<1> HIDE DEF L
<1>5. Len(L) \in Nat /\ Len(L) >= 1 /\ Len(L) \in 1..Len(L) /\ b + Len(L) - 1 = m
  BY <1>1, <1>4
<1>6. L[Len(L)] = rs[m]
  BY <1>4, <1>5
<1>7. \A j \in b..m : j - b + 1 \in 1..Len(L) /\ L[j - b + 1] = rs[j]
  <2> TAKE j \in b..m
  <2>1. j - b + 1 \in 1..Len(L) /\ b + (j - b + 1) - 1 = j
    BY <1>1, <1>4
  <2> QED BY <1>4, <2>1
<1>8. \A i \in 1..Len(L) : b + i - 1 \in b..m
  BY <1>1, <1>4
<1>9. Tip(L)
  <2>1. Childless(L, Len(L))
    BY <1>4, <1>6, <1>8 DEF Childless, LastIsTip
  <2>2. ASSUME NEW i \in 1..Len(L), Childless(L, i) PROVE L[i].id <= L[Len(L)].id
    <3>1. \A j \in b..m : rs[j].parent # rs[b + i - 1].id
      BY <1>4, <1>7, <2>2 DEF Childless
    <3> QED BY <1>4, <1>6, <1>8, <2>2, <3>1 DEF LastIsTip
  <2> QED BY <1>5, <2>1, <2>2, EmptySeq DEF Tip
<1>10. LeafIndex(L) = Len(L)
  BY <1>4, <1>9, TipIsLeaf
<1>11. L[LeafIndex(L)].id = rs[g[k]].id
  BY <1>1, <1>6, <1>10
<1>12. LoadChain(rs) = ChainOf(L, L[LeafIndex(L)].id)
  BY DEF LoadChain, With, L
<1> QED BY <1>1, <1>11, <1>12, LineIs DEF L

-----------------------------------------------------------------------------
(* A sweep lengthens the chain.                                            *)

\* The messages behind the first c, which are new and newer than all that is in the table.
Unswept(rs, ms, c, new, rw) ==
  /\ Batch(rs, new) /\ Len(new) >= 1 /\ ms \in Seq(Messages) /\ Len(ms) = c + Len(new)
  /\ \A i \in 1..Len(new) :
       /\ ms[c + i] = new[i] /\ new[i].id \notin rw
       /\ \A j \in 1..Len(rs) : rs[j].id < new[i].id /\ rs[j].parent < new[i].id

\* The rows of a batch behind a table, one by one.
Added(R, rs, new, start) ==
  /\ Len(new) \in Nat /\ Len(R) = Len(rs) + Len(new)
  /\ \A i \in 1..Len(rs) : R[i] = rs[i] /\ i \in 1..Len(R)
  /\ \A i \in 1..Len(new) :
       /\ Len(rs) + i \in 1..Len(R)
       /\ R[Len(rs) + i].id = new[i].id /\ R[Len(rs) + i].kind = new[i].kind
       /\ R[Len(rs) + i].seg = NoSeg
       /\ R[Len(rs) + i].parent = IF i = 1 THEN start ELSE new[i - 1].id
  /\ \A i \in 1..Len(R) : i \in 1..Len(rs) \/ \E j \in 1..Len(new) : i = Len(rs) + j

LEMMA BatchRows ==
  ASSUME NEW rs \in Table, NEW new, Batch(rs, new), NEW start,
         NEW R, Extended(R, rs, new, Len(new), start)
  PROVE  Added(R, rs, new, start)
<1>1. Len(rs) \in Nat /\ Len(new) \in Nat
  BY TableIs, LenProperties DEF Batch
<1>2. /\ Len(R) = Len(rs) + Len(new)
      /\ \A i \in 1..Len(rs) : R[i] = rs[i]
      /\ \A i \in 1..Len(new) : R[Len(rs) + i] = RowFrom(new[i], Before(new, start, i))
  BY DEF Extended
<1>3. \A i \in 1..Len(rs) : R[i] = rs[i] /\ i \in 1..Len(R)
  BY <1>1, <1>2
<1>4. ASSUME NEW i \in 1..Len(new)
      PROVE  /\ Len(rs) + i \in 1..Len(R)
             /\ R[Len(rs) + i].id = new[i].id /\ R[Len(rs) + i].kind = new[i].kind
             /\ R[Len(rs) + i].seg = NoSeg
             /\ R[Len(rs) + i].parent = IF i = 1 THEN start ELSE new[i - 1].id
  <2>1. Len(rs) + i \in 1..Len(R)
    BY <1>1, <1>2
  <2>2. R[Len(rs) + i] = [id |-> new[i].id, parent |-> IF i = 1 THEN start ELSE new[i - 1].id,
                          kind |-> new[i].kind, seg |-> NoSeg]
    BY <1>2 DEF RowFrom, Before
  <2> QED BY <2>1, <2>2
<1>5. \A i \in 1..Len(R) : i \in 1..Len(rs) \/ \E j \in 1..Len(new) : i = Len(rs) + j
  <2> TAKE i \in 1..Len(R)
  <2>1. i \in 1..Len(rs) \/ (i - Len(rs) \in 1..Len(new) /\ i = Len(rs) + (i - Len(rs)))
    BY <1>1, <1>2
  <2> QED BY <2>1
<1> QED BY <1>1, <1>2, <1>3, <1>4, <1>5 DEF Added

\* A sweep stores no boundary: the last one stays the last one.
LEMMA SweptNewest ==
  ASSUME NEW rs \in Table, NEW new, Batch(rs, new), NEW start,
         NEW R, Extended(R, rs, new, Len(new), start)
  PROVE  \A x : Newest(R, x) <=> Newest(rs, x)
<1>added. Added(R, rs, new, start)
  BY BatchRows
<1>1. /\ \A i \in 1..Len(rs) : R[i] = rs[i] /\ i \in 1..Len(R)
      /\ \A i \in 1..Len(new) : R[Len(rs) + i].kind # "boundary"
      /\ \A i \in 1..Len(R) : i \in 1..Len(rs) \/ \E j \in 1..Len(new) : i = Len(rs) + j
  <2>1. \A i \in 1..Len(new) : R[Len(rs) + i].kind = new[i].kind
    BY <1>added DEF Added
  <2>2. \A i \in 1..Len(new) : new[i].kind # "boundary"
    BY DEF Batch
  <2>3. /\ \A i \in 1..Len(rs) : R[i] = rs[i] /\ i \in 1..Len(R)
        /\ \A i \in 1..Len(R) : i \in 1..Len(rs) \/ \E j \in 1..Len(new) : i = Len(rs) + j
    BY <1>added DEF Added
  <2>4. \A i \in 1..Len(new) : R[Len(rs) + i].kind # "boundary"
    BY <2>1, <2>2
  <2> QED BY <2>3, <2>4
<1>2. \A i \in 1..Len(R) : R[i].kind = "boundary" => i \in 1..Len(rs)
  BY <1>1
<1> QED BY <1>1, <1>2 DEF Newest

\* Nothing a sweep stores is linked behind the summary.
LEMMA SweptSealed ==
  ASSUME NEW rs \in Table, rs # <<>>, NEW f, Sealed(rs, f), NEW new, Batch(rs, new),
         NEW R, Extended(R, rs, new, Len(new), Start(rs, f))
  PROVE  Sealed(R, None)
<1> DEFINE m == Len(rs)
           start == Start(rs, f)
<1>1. /\ m \in Nat /\ m >= 1 /\ \A i \in 1..m : rs[i].id \in Id
      /\ \A i, j \in 1..m : rs[i].id = rs[j].id => i = j
      /\ IdsOf(rs) = {rs[i].id : i \in 1..m}
  BY TableIs, Fields, EmptySeq
<1>2. start = IF f # None THEN f ELSE rs[m].id
  BY <1>1 DEF Start, LastChainUUID, Last
<1>added. Added(R, rs, new, start)
  BY BatchRows
<1> HIDE DEF start
<1>3. /\ Len(new) \in Nat
      /\ \A i \in 1..m : R[i] = rs[i] /\ i \in 1..Len(R)
      /\ \A i \in 1..Len(new) : R[m + i].parent = IF i = 1 THEN start ELSE new[i - 1].id
      /\ \A i \in 1..Len(R) : i \in 1..m \/ \E j \in 1..Len(new) : i = m + j
  BY <1>added DEF Added
<1>4. \A i \in 1..Len(new) : new[i].id \notin IdsOf(rs)
  BY DEF Batch
<1>5. \A x : Newest(R, x) <=> Newest(rs, x)
  BY SweptNewest
<1> SUFFICES ASSUME NEW b \in 1..Len(R), Newest(R, b), R[b].seg \notin {NoSeg, Stale}
             PROVE  /\ b + 2 \in 1..Len(R) /\ R[b + 2].kind = "assistant"
                    /\ \A j \in 1..Len(R) : R[j].parent = R[b + 1].id => j = b + 2
                    /\ None # R[b + 1].id
  BY DEF Sealed
<1>6. b \in 1..m /\ Newest(rs, b) /\ R[b] = rs[b]
  BY <1>3, <1>5 DEF Newest
<1>7. /\ b + 2 \in 1..m /\ rs[b + 2].kind = "assistant"
      /\ \A j \in 1..m : rs[j].parent = rs[b + 1].id => j = b + 2
      /\ f # rs[b + 1].id
  BY <1>6 DEF Sealed
<1>8. b + 1 \in 1..m /\ b + 1 # m /\ m \in 1..m
  BY <1>1, <1>6, <1>7
<1>9. /\ R[b + 1] = rs[b + 1] /\ R[b + 2] = rs[b + 2] /\ b + 2 \in 1..Len(R)
      /\ rs[b + 1].id \in Id /\ rs[b + 1].id \in IdsOf(rs)
  BY <1>1, <1>3, <1>7, <1>8
<1>10. start # rs[b + 1].id
  BY <1>1, <1>2, <1>7, <1>8
<1>11. \A j \in 1..Len(new) : R[m + j].parent # rs[b + 1].id
  <2> TAKE j \in 1..Len(new)
  <2>1. j = 1 \/ j - 1 \in 1..Len(new)
    BY <1>3
  <2> QED BY <1>3, <1>4, <1>9, <1>10, <2>1
<1>12. \A j \in 1..Len(R) : R[j].parent = R[b + 1].id => j = b + 2
  <2> TAKE j \in 1..Len(R)
  <2>1. CASE j \in 1..m
    BY <1>3, <1>7, <1>9, <2>1
  <2>2. ASSUME NEW i \in 1..Len(new), j = m + i PROVE R[j].parent # R[b + 1].id
    BY <1>9, <1>11, <2>2
  <2> QED BY <1>3, <2>1, <2>2
<1>13. None # rs[b + 1].id
  BY <1>9, HistoryAssumption DEF Id, None
<1> QED BY <1>7, <1>9, <1>12, <1>13

\* The chain after a sweep: down to where the next message was to go, and the new rows.
Lengthened(g, c, m, n) == [i \in 1..(c + n) |-> IF i <= c THEN g[i] ELSE m + (i - c)]

Positions(g, k, b, m) ==
  /\ m \in Nat /\ m >= 1 /\ b \in 1..m /\ k \in Nat
  /\ g \in [1..k -> b..m] /\ \A i, j \in 1..k : i < j => g[i] < g[j]

Lengthens(G, g, c, b, m, n) ==
  /\ G \in [1..(c + n) -> b..(m + n)]
  /\ \A i \in 1..c : G[i] = g[i] /\ g[i] \in b..m /\ i \in 1..(c + n)
  /\ \A i \in 1..n : G[c + i] = m + i /\ c + i \in 1..(c + n)
  /\ \A i \in 1..(c + n) : i \in 1..c \/ \E j \in 1..n : i = c + j
  /\ \A i, j \in 1..(c + n) : i < j => G[i] < G[j]

LEMMA LengthenedIs ==
  ASSUME NEW g, NEW k, NEW b, NEW m, Positions(g, k, b, m), NEW c \in 1..k, NEW n \in Nat
  PROVE  Lengthens(Lengthened(g, c, m, n), g, c, b, m, n)
<1> USE DEF Positions
<1> DEFINE G == Lengthened(g, c, m, n)
<1>1. /\ c \in Nat /\ b \in Nat /\ DOMAIN G = 1..(c + n)
      /\ \A i \in 1..(c + n) : G[i] = IF i <= c THEN g[i] ELSE m + (i - c)
  BY DEF Lengthened
<1>2. G = [i \in 1..(c + n) |-> G[i]]
  BY DEF Lengthened
<1> HIDE DEF G
<1>3. \A i \in 1..c : G[i] = g[i] /\ g[i] \in b..m /\ i \in 1..(c + n)
  <2> TAKE i \in 1..c
  <2>1. i \in 1..k /\ i \in 1..(c + n) /\ i <= c
    BY <1>1
  <2> QED BY <1>1, <2>1
<1>4. \A i \in 1..n : G[c + i] = m + i /\ c + i \in 1..(c + n)
  <2> TAKE i \in 1..n
  <2>1. c + i \in 1..(c + n) /\ ~(c + i <= c) /\ (c + i) - c = i
    BY <1>1
  <2> QED BY <1>1, <2>1
<1>5. \A i \in 1..(c + n) : i \in 1..c \/ \E j \in 1..n : i = c + j
  <2> TAKE i \in 1..(c + n)
  <2>1. i \in 1..c \/ (i - c \in 1..n /\ i = c + (i - c))
    BY <1>1
  <2> QED BY <2>1
<1>6. \A i \in 1..(c + n) : G[i] \in b..(m + n)
  <2>1. \A i \in 1..c : g[i] \in b..(m + n)
    BY <1>1, <1>3
  <2>2. \A i \in 1..n : m + i \in b..(m + n)
    BY <1>1
  <2> TAKE i \in 1..(c + n)
  <2>3. CASE i \in 1..c
    BY <1>3, <2>1, <2>3
  <2>4. ASSUME NEW j \in 1..n, i = c + j PROVE G[i] \in b..(m + n)
    BY <1>4, <2>2, <2>4
  <2> QED BY <1>5, <2>3, <2>4
<1>7. ASSUME NEW i \in 1..(c + n), NEW j \in 1..(c + n), i < j PROVE G[i] < G[j]
  <2>1. CASE j \in 1..c
    <3>1. i \in 1..c /\ i \in 1..k /\ j \in 1..k
      BY <1>1, <1>7, <2>1
    <3> QED BY <1>3, <1>7, <2>1, <3>1
  <2>2. ASSUME NEW y \in 1..n, j = c + y, i \in 1..c PROVE G[i] < G[j]
    <3>1. G[i] \in b..m /\ G[j] = m + y
      BY <1>3, <1>4, <2>2
    <3> QED BY <1>1, <3>1
  <2>3. ASSUME NEW y \in 1..n, j = c + y, NEW x \in 1..n, i = c + x PROVE G[i] < G[j]
    <3>1. G[i] = m + x /\ G[j] = m + y /\ x < y
      BY <1>1, <1>4, <1>7, <2>3
    <3> QED BY <3>1
  <2> QED BY <1>5, <2>1, <2>2, <2>3
<1>8. G \in [1..(c + n) -> b..(m + n)]
  BY <1>2, <1>6
<1> QED BY <1>3, <1>4, <1>5, <1>7, <1>8 DEF Lengthens, G

\* A sweep of a conversation that is in the table: the chain down to where the next message was to
\* go is lengthened by what is new, which is newer than all other rows.
LEMMA SweptOn ==
  ASSUME NEW rs \in Table, NEW b, NEW k, NEW g, NEW ms, NEW c, NEW f \in 0..MaxId, NEW rw,
         Held(rs, b, k, g, ms, c, f, rw), NEW new, Unswept(rs, ms, c, new, rw),
         NEW R \in Table, Extended(R, rs, new, Len(new), Start(rs, f))
  PROVE  Held(R, b, c + Len(new), Lengthened(g, c, Len(rs), Len(new)), ms, Len(ms), None, rw)
<1> DEFINE m == Len(rs)
           n == Len(new)
           start == Start(rs, f)
           G == Lengthened(g, c, m, n)
<1>1. /\ m \in Nat /\ \A i \in 1..m : rs[i] \in Rows /\ rs[i].id \in Id
      /\ \A i, j \in 1..m : rs[i].id = rs[j].id => i = j
      /\ \A i \in 1..m : rs[i].id \in IdsOf(rs)
  BY TableIs, Fields
<1>2. /\ b \in 1..m /\ k \in Nat /\ k >= 1 /\ g \in [1..k -> b..m] /\ g[k] = m
      /\ \A i, j \in 1..k : i < j => g[i] < g[j]
      /\ \A j \in b..m : rs[j].id # rs[g[1]].parent
      /\ \A i \in 2..k : rs[g[i]].parent = rs[g[i - 1]].id /\ rs[g[i]].kind # "boundary"
  BY DEF Held, Line
<1>3. /\ c \in 1..k /\ c \in Nat /\ IF f = None THEN c = k ELSE f = rs[g[c]].id
      /\ \A i \in 1..c : /\ ms[i].kind = rs[g[i]].kind /\ ms[i].id \in {rs[g[i]].id, None}
                         /\ rs[g[i]].id \notin rw
  BY <1>2 DEF Held, Matched
<1>4. /\ n \in Nat /\ n >= 1 /\ Len(ms) = c + n /\ \A i \in 1..n : ms[c + i] = new[i]
      /\ \A i \in 1..n : new[i].id \notin rw /\ new[i].kind # "boundary" /\ new[i].id \in Id
      /\ \A i \in 1..n : \A j \in 1..m : rs[j].id < new[i].id /\ rs[j].parent < new[i].id
      /\ \A i, j \in 1..n : new[i].id = new[j].id => i = j
      /\ \A i \in 1..n : new[i].id \notin IdsOf(rs)
  BY LenProperties DEF Unswept, Batch, Distinct
<1>5. start = rs[g[c]].id
  <2>1. m \in 1..m /\ rs # <<>>
    BY <1>1, <1>2, EmptySeq
  <2>2. start = IF f # None THEN f ELSE rs[m].id
    BY <2>1 DEF Start, LastChainUUID, Last
  <2> QED BY <1>2, <1>3, <2>2
<1> HIDE DEF start
<1>6. /\ Len(R) = m + n
      /\ \A i \in 1..m : R[i] = rs[i] /\ i \in 1..Len(R)
      /\ \A i \in 1..n : /\ m + i \in 1..Len(R)
                         /\ R[m + i].id = new[i].id /\ R[m + i].kind = new[i].kind
                         /\ R[m + i].parent = IF i = 1 THEN start ELSE new[i - 1].id
      /\ \A i \in 1..Len(R) : i \in 1..m \/ \E j \in 1..n : i = m + j
  <2>1. Batch(rs, new) /\ Extended(R, rs, new, Len(new), start)
    BY DEF Unswept, start
  <2>2. Added(R, rs, new, start)
    BY <2>1, BatchRows
  <2> QED BY <2>2 DEF Added
<1>7. /\ G \in [1..(c + n) -> b..(m + n)]
      /\ \A i \in 1..c : G[i] = g[i] /\ g[i] \in b..m /\ i \in 1..(c + n)
      /\ \A i \in 1..n : G[c + i] = m + i /\ c + i \in 1..(c + n)
      /\ \A i \in 1..(c + n) : i \in 1..c \/ \E j \in 1..n : i = c + j
      /\ \A i, j \in 1..(c + n) : i < j => G[i] < G[j]
  <2>1. m >= 1
    BY <1>1, <1>2
  <2>2. Positions(g, k, b, m)
    BY <1>1, <1>2, <2>1 DEF Positions
  <2>3. Lengthens(G, g, c, b, m, n)
    BY <1>3, <1>4, <2>2, LengthenedIs
  <2> QED BY <2>3 DEF Lengthens
<1>8. \A x : Newest(R, x) <=> Newest(rs, x)
  BY SweptNewest DEF Unswept
<1>9. \A x \in 1..Len(R) : Newest(R, x) => x \in 1..m /\ R[x] = rs[x]
  BY <1>6, <1>8 DEF Newest
<1> HIDE DEF m, n, G
<1>10. \A i \in b..(m + n) : i \in 1..Len(R) /\ (i \in b..m \/ \E j \in 1..n : i = m + j)
  <2> TAKE i \in b..(m + n)
  <2>1. i \in 1..Len(R)
    BY <1>1, <1>2, <1>4, <1>6
  <2>2. i \in b..m \/ (i - m \in 1..n /\ i = m + (i - m))
    BY <1>1, <1>2, <1>4
  <2> QED BY <2>1, <2>2
<1>11. \A i \in b..m : i \in 1..m
  BY <1>1, <1>2
<1>12. LoadBase(R, b)
  <2>1. Newest(rs, b) /\ rs[b].seg # NoSeg => Newest(R, b) /\ R[b].seg # NoSeg
    BY <1>2, <1>6, <1>8
  <2>2. (\A x \in 1..m : Newest(rs, x) => rs[x].seg = NoSeg)
        => (\A x \in 1..Len(R) : Newest(R, x) => R[x].seg = NoSeg)
    BY <1>8, <1>9
  <2> QED BY <2>1, <2>2 DEF LoadBase, Held, m
<1>13. Line(R, b, c + n, G)
  <2>1. b \in 1..Len(R) /\ c + n \in Nat /\ c + n >= 1 /\ G[c + n] = Len(R)
    BY <1>2, <1>3, <1>4, <1>6, <1>7
  <2>2. 1 \in 1..c /\ 1 \in 1..k /\ G[1] = g[1] /\ g[1] \in 1..m /\ R[G[1]] = rs[g[1]]
    <3>1. 1 \in 1..c /\ 1 \in 1..k
      BY <1>2, <1>3
    <3> QED BY <1>6, <1>7, <1>11, <3>1
  <2>3. ASSUME NEW j \in b..(m + n) PROVE R[j].id # R[G[1]].parent
    <3>1. CASE j \in b..m
      <4>1. rs[j].id # rs[g[1]].parent
        BY <1>2, <3>1
      <4>2. R[j] = rs[j]
        BY <1>6, <1>11, <3>1
      <4> QED BY <2>2, <4>1, <4>2
    <3>2. ASSUME NEW i \in 1..n, j = m + i PROVE R[j].id # R[G[1]].parent
      <4>1. rs[g[1]].parent < new[i].id /\ new[i].id \in Nat
        BY <1>4, <2>2, <3>2, HistoryAssumption DEF Id
      <4>2. rs[g[1]].parent # new[i].id
        BY <4>1
      <4> QED BY <1>6, <2>2, <3>2, <4>2
    <3> QED BY <1>10, <3>1, <3>2
  <2>4. ASSUME NEW i \in 2..(c + n)
        PROVE  R[G[i]].parent = R[G[i - 1]].id /\ R[G[i]].kind # "boundary"
    <3>1. i \in 1..(c + n) /\ i - 1 \in 1..(c + n)
      BY <1>3, <1>4
    <3>2. CASE i \in 1..c
      <4>1. i \in 2..k /\ i - 1 \in 1..c
        BY <1>2, <1>3, <3>2
      <4>2. R[G[i]] = rs[g[i]] /\ R[G[i - 1]] = rs[g[i - 1]]
        BY <1>6, <1>7, <1>11, <3>2, <4>1
      <4> QED BY <1>2, <4>1, <4>2
    <3>3. ASSUME NEW j \in 1..n, i = c + j PROVE R[G[i]].parent = R[G[i - 1]].id /\ R[G[i]].kind # "boundary"
      <4>1. G[i] = m + j
        BY <1>7, <3>3
      <4>2. CASE j = 1
        <5>1. i - 1 = c /\ c \in 1..c
          BY <1>3, <3>3, <4>2
        <5>2. R[G[i - 1]] = rs[g[c]]
          BY <1>6, <1>7, <1>11, <5>1
        <5>3. R[m + j].parent = start /\ R[m + j].kind = new[j].kind /\ new[j].kind # "boundary"
          BY <1>4, <1>6, <4>2
        <5> QED BY <1>5, <4>1, <5>2, <5>3
      <4>3. CASE j # 1
        <5>1. j - 1 \in 1..n /\ i - 1 = c + (j - 1)
          BY <1>3, <1>4, <3>3, <4>3
        <5>2. G[i - 1] = m + (j - 1)
          BY <1>7, <5>1
        <5>3. R[m + j].parent = new[j - 1].id /\ R[m + j].kind = new[j].kind
          BY <1>6, <4>3
        <5>4. R[m + (j - 1)].id = new[j - 1].id
          BY <1>6, <5>1
        <5> QED BY <1>4, <4>1, <5>2, <5>3, <5>4
      <4> QED BY <4>2, <4>3
    <3> QED BY <1>7, <3>1, <3>2, <3>3
  <2> QED BY <1>6, <1>7, <2>1, <2>3, <2>4 DEF Line
<1>14. LastIsTip(R, b)
  <2> DEFINE l == new[n].id
  <2>1. n \in 1..n /\ R[Len(R)].id = l /\ l \in Nat
    BY <1>4, <1>6, HistoryAssumption DEF Id
  <2>2. ASSUME NEW j \in b..(m + n) PROVE R[j].parent # l
    <3>1. CASE j \in b..m
      <4>1. R[j] = rs[j] /\ rs[j].parent < l
        BY <1>4, <1>6, <1>11, <2>1, <3>1
      <4> QED BY <2>1, <4>1
    <3>2. ASSUME NEW i \in 1..n, j = m + i PROVE R[j].parent # l
      <4>1. CASE i = 1
        <5>1. g[c] \in 1..m
          BY <1>2, <1>3, <1>11
        <5>2. start < l
          BY <1>4, <1>5, <2>1, <5>1
        <5> QED BY <1>6, <2>1, <3>2, <4>1, <5>2
      <4>2. CASE i # 1
        <5>1. i - 1 \in 1..n /\ i - 1 # n
          BY <1>4, <4>2
        <5> QED BY <1>4, <1>6, <2>1, <3>2, <4>2, <5>1
      <4> QED BY <4>1, <4>2
    <3> QED BY <1>10, <3>1, <3>2
  <2>3. ASSUME NEW i \in b..(m + n), \A j \in b..(m + n) : R[j].parent # R[i].id
        PROVE  R[i].id <= l
    <3>1. CASE i \in b..m
      <4>1. R[i] = rs[i] /\ rs[i].id < l /\ rs[i].id \in Nat
        BY <1>1, <1>4, <1>6, <1>11, <2>1, <3>1, HistoryAssumption DEF Id
      <4> QED BY <2>1, <4>1
    <3>2. ASSUME NEW x \in 1..n, i = m + x PROVE R[i].id <= l
      <4>1. CASE x = n
        BY <1>6, <2>1, <3>2, <4>1
      <4>2. CASE x # n
        <5>1. x + 1 \in 1..n /\ x + 1 # 1 /\ (x + 1) - 1 = x
          BY <1>4, <4>2
        <5>2. m + (x + 1) \in b..(m + n)
          BY <1>1, <1>2, <1>4, <5>1
        <5>3. R[m + (x + 1)].parent = new[x].id /\ R[i].id = new[x].id
          BY <1>6, <3>2, <5>1
        <5> QED BY <2>3, <5>2, <5>3
      <4> QED BY <4>1, <4>2
    <3> QED BY <1>10, <3>1, <3>2
  <2> HIDE DEF l
  <2> QED BY <1>6, <2>1, <2>2, <2>3 DEF LastIsTip
<1>15. Matched(R, c + n, G, ms, Len(ms), None, rw)
  <2>1. ASSUME NEW i \in 1..(c + n)
        PROVE  /\ ms[i].kind = R[G[i]].kind /\ ms[i].id \in {R[G[i]].id, None}
               /\ R[G[i]].id \notin rw
    <3>1. CASE i \in 1..c
      <4>1. R[G[i]] = rs[g[i]]
        BY <1>6, <1>7, <1>11, <3>1
      <4> QED BY <1>3, <3>1, <4>1
    <3>2. ASSUME NEW j \in 1..n, i = c + j
          PROVE  /\ ms[i].kind = R[G[i]].kind /\ ms[i].id \in {R[G[i]].id, None}
                 /\ R[G[i]].id \notin rw
      <4>1. G[i] = m + j
        BY <1>7, <3>2
      <4>2. ms[i] = new[j] /\ new[j].id \notin rw
        BY <1>4, <3>2
      <4>3. R[m + j].id = new[j].id /\ R[m + j].kind = new[j].kind
        BY <1>6
      <4> QED BY <4>1, <4>2, <4>3
    <3> QED BY <1>7, <3>1, <3>2
  <2>2. c + n \in 1..(c + n) /\ \A i \in (c + n + 1)..(c + n) : FALSE
    BY <1>3, <1>4
  <2> QED BY <1>4, <2>1, <2>2 DEF Matched
<1>16. Accounted(R, b, c + n, G, rw)
  <2> SUFFICES ASSUME HasAll(R), NEW j \in b..Len(R)
               PROVE  R[j].id \in rw \/ \E i \in 1..(c + n) : G[i] = j
    BY DEF Accounted
  <2>1. HasAll(rs)
    BY <1>6, <1>8 DEF HasAll, m
  <2>2. CASE j \in b..m
    <3>1. rs[j].id \in rw \/ \E i \in 1..k : g[i] = j
      BY <2>1, <2>2 DEF Held, Accounted, m
    <3>2. ASSUME NEW i \in 1..k, g[i] = j PROVE R[j].id \in rw \/ \E x \in 1..(c + n) : G[x] = j
      <4>1. CASE i \in 1..c
        BY <1>7, <3>2, <4>1
      <4>2. CASE i \notin 1..c
        <5>1. i \in (c + 1)..k
          BY <1>2, <1>3, <4>2
        <5>2. rs[g[i]].id \in rw
          BY <5>1 DEF Held, Matched
        <5> QED BY <1>6, <1>11, <2>2, <3>2, <5>2
      <4> QED BY <4>1, <4>2
    <3> QED BY <1>6, <1>11, <2>2, <3>1, <3>2
  <2>3. ASSUME NEW i \in 1..n, j = m + i PROVE \E x \in 1..(c + n) : G[x] = j
    BY <1>7, <2>3
  <2>4. j \in b..(m + n)
    BY <1>6
  <2> QED BY <1>10, <2>2, <2>3, <2>4
<1> QED BY <1>4, <1>12, <1>13, <1>14, <1>15, <1>16 DEF Held, G, m, n

\* The first sweep of a session.
LEMMA SweptFirst ==
  ASSUME NEW ms, NEW new, NEW rw, Unswept(<<>>, ms, 0, new, rw), NEW R \in Table,
         Extended(R, <<>>, new, Len(new), None)
  PROVE  /\ Held(R, 1, Len(new), [i \in 1..Len(new) |-> i], ms, Len(ms), None, rw)
         /\ Sealed(R, None)
<1> DEFINE n == Len(new)
           G == [i \in 1..n |-> i]
<1>1. /\ n \in Nat /\ n >= 1 /\ Len(ms) = n
      /\ \A i \in 1..n : /\ ms[i] = new[i] /\ new[i].id \notin rw
                         /\ new[i].kind # "boundary" /\ new[i].id \in Id
      /\ \A i, j \in 1..n : new[i].id = new[j].id => i = j
  <2>1. n \in Nat /\ n >= 1 /\ Len(ms) = 0 + n
    BY LenProperties DEF Unswept, Batch
  <2>2. /\ \A i \in 1..n : ms[0 + i] = new[i] /\ new[i].id \notin rw
        /\ \A i \in 1..n : new[i].kind # "boundary" /\ new[i].id \in Id
        /\ \A i, j \in 1..n : new[i].id = new[j].id => i = j
    BY DEF Unswept, Batch, Distinct
  <2>3. \A i \in 1..n : 0 + i = i
    BY <2>1
  <2> QED BY <2>1, <2>2, <2>3
<1>2. /\ Len(R) = n
      /\ \A i \in 1..n : /\ R[i].id = new[i].id /\ R[i].kind = new[i].kind
                         /\ R[i].parent = IF i = 1 THEN None ELSE new[i - 1].id
  <2>1. <<>> \in Table /\ Len(<<>>) = 0
    BY DEF Table, Distinct
  <2>2. Batch(<<>>, new)
    BY DEF Unswept
  <2>3. Added(R, <<>>, new, None)
    BY <2>1, <2>2, BatchRows
  <2>4. Len(R) = 0 + n
    BY <2>1, <2>3 DEF Added
  <2>5. \A i \in 1..n : /\ R[0 + i].id = new[i].id /\ R[0 + i].kind = new[i].kind
                        /\ R[0 + i].parent = IF i = 1 THEN None ELSE new[i - 1].id
    BY <2>1, <2>3 DEF Added
  <2>6. \A i \in 1..n : 0 + i = i
    BY <1>1
  <2> QED BY <1>1, <2>4, <2>5, <2>6
<1>3. \A i \in 1..n : R[i].id \in Nat /\ R[i].id # None
  BY <1>1, <1>2, HistoryAssumption DEF Id, None
<1> HIDE DEF n
<1>4. \A x \in 1..Len(R) : ~Newest(R, x)
  BY <1>1, <1>2 DEF Newest
<1>5. LoadBase(R, 1) /\ Sealed(R, None)
  BY <1>4 DEF LoadBase, Sealed
<1>6. G \in [1..n -> 1..n] /\ \A i \in 1..n : G[i] = i
  OBVIOUS
<1> HIDE DEF G
<1>7. 1 \in 1..n /\ n \in 1..n
  BY <1>1
<1>8. \A i \in 2..n : /\ i \in 1..n /\ i - 1 \in 1..n
                      /\ R[i].parent = R[i - 1].id /\ R[i].kind # "boundary"
  <2> TAKE i \in 2..n
  <2>1. i \in 1..n /\ i - 1 \in 1..n /\ i # 1
    BY <1>1
  <2> QED BY <1>1, <1>2, <2>1
<1>9. Line(R, 1, n, G)
  <2>1. \A i \in 2..n : R[G[i]].parent = R[G[i - 1]].id /\ R[G[i]].kind # "boundary"
    BY <1>6, <1>8
  <2>2. \A j \in 1..n : R[j].id # R[G[1]].parent
    BY <1>2, <1>3, <1>6, <1>7
  <2>3. \A i, j \in 1..n : i < j => G[i] < G[j]
    BY <1>6
  <2> QED BY <1>1, <1>2, <1>6, <1>7, <2>1, <2>2, <2>3 DEF Line
<1>10. LastIsTip(R, 1)
  <2>1. \A j \in 1..n : R[j].parent # R[n].id
    <3> TAKE j \in 1..n
    <3>1. CASE j = 1
      BY <1>2, <1>3, <1>7, <3>1
    <3>2. CASE j # 1
      <4>1. j \in 2..n /\ j - 1 \in 1..n /\ j - 1 # n
        BY <1>1, <3>2
      <4> QED BY <1>1, <1>2, <1>7, <1>8, <4>1
    <3> QED BY <3>1, <3>2
  <2>2. ASSUME NEW i \in 1..n, \A j \in 1..n : R[j].parent # R[i].id PROVE i = n
    <3>1. SUFFICES ASSUME i # n PROVE FALSE
      OBVIOUS
    <3>2. i + 1 \in 2..n /\ (i + 1) - 1 = i /\ i + 1 \in 1..n
      BY <1>1, <3>1
    <3> QED BY <1>8, <2>2, <3>2
  <2> QED BY <1>2, <1>3, <2>1, <2>2 DEF LastIsTip
<1>11. Matched(R, n, G, ms, Len(ms), None, rw)
  <2>1. \A i \in (n + 1)..n : FALSE
    BY <1>1
  <2> QED BY <1>1, <1>2, <1>6, <1>7, <2>1 DEF Matched
<1>12. Accounted(R, 1, n, G, rw)
  BY <1>2, <1>6 DEF Accounted
<1> QED BY <1>5, <1>9, <1>10, <1>11, <1>12 DEF Held, n, G

\* After a sweep all messages are in the table.
LEMMA SweptSettled ==
  ASSUME NEW rs \in Table, NEW ms, NEW c \in Nat, NEW f \in 0..MaxId, NEW rw,
         Settled(rs, ms, c, f, rw), NEW new, Unswept(rs, ms, c, new, rw),
         NEW R \in Table, Extended(R, rs, new, Len(new), Start(rs, f))
  PROVE  Settled(R, ms, Len(ms), None, rw)
<1>1. Len(ms) # 0
  BY LenProperties DEF Unswept
<1>2. CASE c = 0
  <2>1. rs = <<>> /\ f = None
    BY <1>2 DEF Settled
  <2>2. Start(rs, f) = None
    BY <2>1 DEF Start, LastChainUUID
  <2>3. Unswept(<<>>, ms, 0, new, rw) /\ Extended(R, <<>>, new, Len(new), None)
    BY <1>2, <2>1, <2>2
  <2>4. /\ Held(R, 1, Len(new), [i \in 1..Len(new) |-> i], ms, Len(ms), None, rw)
        /\ Sealed(R, None)
    BY <2>3, SweptFirst
  <2> QED BY <1>1, <2>4 DEF Settled
<1>3. CASE c # 0
  <2>1. Sealed(rs, f) /\ \E b, k, g : Held(rs, b, k, g, ms, c, f, rw)
    BY <1>3 DEF Settled
  <2>2. PICK b, k, g : Held(rs, b, k, g, ms, c, f, rw)
    BY <2>1
  <2>3. rs # <<>>
    BY <2>2, EmptySeq DEF Held, Line
  <2>4. Held(R, b, c + Len(new), Lengthened(g, c, Len(rs), Len(new)), ms, Len(ms), None, rw)
    BY <2>2, SweptOn
  <2>5. Batch(rs, new)
    BY DEF Unswept
  <2>6. Sealed(R, None)
    BY <2>1, <2>3, <2>5, SweptSealed
  <2> QED BY <1>1, <2>4, <2>6 DEF Settled
<1> QED BY <1>2, <1>3

-----------------------------------------------------------------------------
(* A recorded compaction starts a chain of its own.                        *)

\* What replaces the conversation: newer than all rows, no boundary but the new one, a response first
\* if anything is kept, nothing that was rewound.
Recorded(rs, b, s, kept, ms, rw) ==
  /\ rs \in Table /\ Compaction(rs, b, s, kept) /\ b.id < s.id
  /\ \A j \in 1..Len(rs) : rs[j].id < b.id /\ rs[j].parent < b.id
  /\ \A i \in 1..Len(kept) : kept[i].kind # "boundary" /\ kept[i].id \notin rw
  /\ kept # <<>> => kept[1].kind = "assistant"
  /\ b.id \notin rw /\ s.id \notin rw
  /\ ms \in Seq(Messages) /\ Len(ms) = Len(kept) + 2
  /\ ms[1] = Message(None, "boundary") /\ ms[2] = s
  /\ \A i \in 1..Len(kept) : ms[i + 2] = kept[i]

\* The fork point names the last message kept, or there is none.
KeepsFork(f, kept) == f = None \/ (kept # <<>> /\ f = kept[Len(kept)].id)

\* The rows a compaction writes, one by one.
Block(R, l, b, s, kept) ==
  /\ l \in Nat /\ Len(kept) \in Nat /\ Len(R) = l + 2 + Len(kept)
  /\ R[l + 1].id = b.id /\ R[l + 1].kind = "boundary" /\ R[l + 1].parent = None
  /\ R[l + 1].seg = Segment(b, s, kept)
  /\ R[l + 2].id = s.id /\ R[l + 2].kind = "summary" /\ R[l + 2].parent = b.id
  /\ \A i \in 1..Len(kept) : R[l + 2 + i].id = kept[i].id /\ R[l + 2 + i].kind = kept[i].kind
  /\ \A i \in (l + 2)..Len(R) : i - 1 \in 1..Len(R) /\ R[i].parent = R[i - 1].id
  /\ \A i \in 1..Len(R) : \/ i \in 1..l \/ i = l + 1 \/ i = l + 2
                          \/ \E j \in 1..Len(kept) : i = l + 2 + j
  /\ \A i \in 1..Len(R) : R[i].id \in Id /\ R[i].id \in Nat /\ R[i].id # None
  /\ \A i, j \in 1..Len(R) : R[i].id = R[j].id => i = j

LEMMA BlockIs ==
  ASSUME NEW rs \in Table, NEW b, NEW s, NEW kept, Compaction(rs, b, s, kept),
         NEW R \in Table, NEW l, NEW e, Compacted(R, rs, b, s, kept, l, e)
  PROVE  Block(R, l, b, s, kept)
<1>1. l \in Nat /\ Len(kept) \in Nat /\ Len(R) = l + 2 + Len(kept)
  BY LenProperties DEF Compacted, Compaction
<1>2. /\ R[l + 1].id = b.id /\ R[l + 1].kind = "boundary" /\ R[l + 1].parent = None
      /\ R[l + 1].seg = Segment(b, s, kept)
      /\ R[l + 2].id = s.id /\ R[l + 2].kind = "summary" /\ R[l + 2].parent = b.id
      /\ \A i \in 1..Len(kept) : R[l + 2 + i].id = kept[i].id /\ R[l + 2 + i].kind = kept[i].kind
  BY DEF Compacted
<1>3. \A i \in (l + 2)..Len(R) : i - 1 \in 1..Len(R) /\ R[i].parent = R[i - 1].id
  BY CompactedChain
<1>4. \A i \in 1..Len(R) : \/ i \in 1..l \/ i = l + 1 \/ i = l + 2
                           \/ \E j \in 1..Len(kept) : i = l + 2 + j
  <2> TAKE i \in 1..Len(R)
  <2>1. \/ i \in 1..l \/ i = l + 1 \/ i = l + 2
        \/ (i - (l + 2) \in 1..Len(kept) /\ i = l + 2 + (i - (l + 2)))
    BY <1>1
  <2> QED BY <2>1
<1>5. \A i \in 1..Len(R) : R[i].id \in Id /\ R[i].id \in Nat /\ R[i].id # None
  <2> TAKE i \in 1..Len(R)
  <2>1. R[i].id \in Id
    BY TableIs, Fields
  <2> QED BY <2>1, HistoryAssumption DEF Id, None
<1>6. \A i, j \in 1..Len(R) : R[i].id = R[j].id => i = j
  BY TableIs
<1> QED BY <1>1, <1>2, <1>3, <1>4, <1>5, <1>6 DEF Block

\* The boundary just written is the last one, and carries a segment exactly if something was kept.
LEMMA BlockNewest ==
  ASSUME NEW R, NEW l, NEW b, NEW s, NEW kept, Block(R, l, b, s, kept), NEW rs, NEW ms, NEW rw,
         Recorded(rs, b, s, kept, ms, rw)
  PROVE  /\ l + 1 \in 1..Len(R) /\ \A x : Newest(R, x) <=> x = l + 1
         /\ kept = <<>> => R[l + 1].seg = NoSeg
         /\ kept # <<>> => R[l + 1].seg \notin {NoSeg, Stale}
<1>1. l \in Nat /\ Len(kept) \in Nat /\ Len(R) = l + 2 + Len(kept) /\ l + 1 \in 1..Len(R)
  BY DEF Block
<1>2. \A i \in 1..Len(R) : R[i].kind = "boundary" => i <= l + 1
  <2> SUFFICES ASSUME NEW i \in 1..Len(R), R[i].kind = "boundary", ~(i <= l + 1) PROVE FALSE
    OBVIOUS
  <2>1. i \notin 1..l /\ i # l + 1
    BY <1>1
  <2>2. i = l + 2 \/ \E j \in 1..Len(kept) : i = l + 2 + j
    BY <2>1 DEF Block
  <2> QED BY <2>2 DEF Block, Recorded
<1>3. Newest(R, l + 1)
  BY <1>1, <1>2 DEF Newest, Block
<1>4. \A x : Newest(R, x) => x = l + 1
  <2> SUFFICES ASSUME NEW x, Newest(R, x) PROVE x = l + 1
    OBVIOUS
  <2>1. x \in 1..Len(R) /\ x <= l + 1 /\ l + 1 <= x
    BY <1>1, <1>2, <1>3 DEF Newest
  <2> QED BY <1>1, <2>1
<1>5. kept = <<>> => R[l + 1].seg = NoSeg
  BY DEF Block, Segment
<1>6. ASSUME kept # <<>> PROVE R[l + 1].seg \notin {NoSeg, Stale}
  <2>1. R[l + 1].seg = <<Head(kept).id, s.id, Last(kept).id>>
    BY <1>6 DEF Block, Segment
  <2>2. s.id \in Nat
    BY HistoryAssumption DEF Recorded, Compaction, Id
  <2> QED BY <2>1, <2>2 DEF NoSeg, Stale, Gone
<1> QED BY <1>1, <1>3, <1>4, <1>5, <1>6

\* The chain is what was written; loading starts at the boundary if something was kept.
LEMMA BlockLine ==
  ASSUME NEW R, NEW l, NEW b, NEW s, NEW kept, Block(R, l, b, s, kept), NEW rs, NEW ms, NEW rw,
         Recorded(rs, b, s, kept, ms, rw), NEW base \in 1..(l + 1)
  PROVE  /\ Line(R, base, Len(kept) + 2, [i \in 1..(Len(kept) + 2) |-> l + i])
         /\ Matched(R, Len(kept) + 2, [i \in 1..(Len(kept) + 2) |-> l + i], ms, Len(ms), None, rw)
<1> DEFINE n == Len(kept)
           G == [i \in 1..(n + 2) |-> l + i]
<1>1. l \in Nat /\ n \in Nat /\ Len(R) = l + 2 + n
  BY DEF Block
<1>2. \A i \in 1..(n + 2) : G[i] = l + i /\ G[i] \in base..Len(R)
  BY <1>1
<1>3. G \in [1..(n + 2) -> base..Len(R)]
  BY <1>2
<1> HIDE DEF G, n
<1>4. /\ 1 \in 1..(n + 2) /\ n + 2 \in 1..(n + 2) /\ base \in 1..Len(R) /\ l + (n + 2) = Len(R)
      /\ n + 2 \in Nat /\ n + 2 >= 1
  BY <1>1
<1>5. \A i \in 2..(n + 2) : /\ i \in 1..(n + 2) /\ i - 1 \in 1..(n + 2)
                            /\ l + i \in (l + 2)..Len(R) /\ (l + i) - 1 = l + (i - 1)
  BY <1>1
<1>6. \A i \in 1..(n + 2) : i = 1 \/ i = 2 \/ (i - 2 \in 1..n /\ l + i = l + 2 + (i - 2) /\ i = (i - 2) + 2)
  BY <1>1
<1>7. \A i \in 2..(n + 2) : R[l + i].kind # "boundary"
  <2> TAKE i \in 2..(n + 2)
  <2>1. i = 2 \/ (i - 2 \in 1..n /\ l + i = l + 2 + (i - 2))
    BY <1>5, <1>6
  <2>2. \A j \in 1..n : R[l + 2 + j].kind = kept[j].kind
    BY DEF Block, n
  <2>3. \A j \in 1..n : kept[j].kind # "boundary"
    BY DEF Recorded, n
  <2>4. R[l + 2].kind = "summary"
    BY DEF Block
  <2>5. CASE i = 2
    BY <2>4, <2>5
  <2>6. ASSUME i - 2 \in 1..n, l + i = l + 2 + (i - 2) PROVE R[l + i].kind # "boundary"
    BY <2>2, <2>3, <2>6
  <2> QED BY <2>1, <2>5, <2>6
<1>8. Line(R, base, n + 2, G)
  <2>1. \A i \in 2..(n + 2) : R[G[i]].parent = R[G[i - 1]].id /\ R[G[i]].kind # "boundary"
    <3> TAKE i \in 2..(n + 2)
    <3>1. G[i] = l + i /\ G[i - 1] = l + (i - 1) /\ (l + i) - 1 = l + (i - 1)
      BY <1>2, <1>5
    <3>2. R[l + i].parent = R[(l + i) - 1].id
      BY <1>5 DEF Block
    <3> QED BY <1>7, <3>1, <3>2
  <2>2. \A j \in base..Len(R) : R[j].id # R[G[1]].parent
    <3> TAKE j \in base..Len(R)
    <3>1. j \in 1..Len(R) /\ G[1] = l + 1
      BY <1>1, <1>2, <1>4
    <3> QED BY <3>1 DEF Block
  <2>3. \A i, j \in 1..(n + 2) : i < j => G[i] < G[j]
    BY <1>1, <1>2
  <2>4. G[n + 2] = Len(R)
    BY <1>2, <1>4
  <2> QED BY <1>3, <1>4, <2>1, <2>2, <2>3, <2>4 DEF Line
<1>9. Matched(R, n + 2, G, ms, Len(ms), None, rw)
  <2>1. Len(ms) = n + 2 /\ \A i \in (n + 2 + 1)..(n + 2) : FALSE
    BY <1>1 DEF Recorded, n
  <2>2. ASSUME NEW i \in 1..(n + 2)
        PROVE  /\ ms[i].kind = R[l + i].kind /\ ms[i].id \in {R[l + i].id, None}
               /\ R[l + i].id \notin rw
    <3>1. CASE i = 1
      BY <3>1 DEF Recorded, Block, Message
    <3>2. CASE i = 2
      BY <3>2 DEF Recorded, Block, Compaction
    <3>3. CASE i - 2 \in 1..n /\ l + i = l + 2 + (i - 2) /\ i = (i - 2) + 2
      <4>1. ms[i] = kept[i - 2]
        BY <3>3 DEF Recorded, n
      <4>2. R[l + i].id = kept[i - 2].id /\ R[l + i].kind = kept[i - 2].kind
        BY <3>3 DEF Block, n
      <4>3. kept[i - 2].id \notin rw
        BY <3>3 DEF Recorded, n
      <4> QED BY <4>1, <4>2, <4>3
    <3> QED BY <1>6, <3>1, <3>2, <3>3
  <2> QED BY <1>2, <1>4, <2>1, <2>2 DEF Matched
<1> QED BY <1>8, <1>9 DEF G, n

\* The last row of the block is its only tip, and newer than what else may be one.
LEMMA BlockTip ==
  ASSUME NEW R, NEW l, NEW b, NEW s, NEW kept, Block(R, l, b, s, kept), NEW rs, NEW ms, NEW rw,
         Recorded(rs, b, s, kept, ms, rw), NEW e, Compacted(R, rs, b, s, kept, l, e),
         NEW base, base = IF kept = <<>> THEN 1 ELSE l + 1
  PROVE  LastIsTip(R, base)
<1> DEFINE m == Len(R)
<1>1. l \in Nat /\ Len(kept) \in Nat /\ m = l + 2 + Len(kept) /\ m \in 1..m
  BY DEF Block
<1>2. /\ \A i \in (l + 2)..m : i - 1 \in 1..m /\ R[i].parent = R[i - 1].id
      /\ R[l + 1].parent = None
      /\ \A i \in 1..m : R[i].id \in Nat /\ R[i].id # None
      /\ \A i, j \in 1..m : R[i].id = R[j].id => i = j
  BY DEF Block
<1>3. ASSUME NEW i \in 1..l, kept = <<>> PROVE R[i].parent # R[m].id /\ R[i].id <= R[m].id
  <2>1. e[i] \in 1..Len(rs) /\ R[i] = rs[e[i]]
    BY DEF Compacted
  <2>2. rs[e[i]].id < b.id /\ rs[e[i]].parent < b.id /\ b.id < s.id
    BY <2>1 DEF Recorded
  <2>3. m = l + 2 /\ R[m].id = s.id
    BY <1>1, <1>3, EmptySeq DEF Block
  <2>4. b.id \in Int /\ s.id \in Int /\ rs[e[i]].id \in Int /\ rs[e[i]].parent \in Int
    <3>1. rs[e[i]] \in Rows
      BY <2>1, TableIs DEF Recorded
    <3>2. rs[e[i]].id \in Id /\ rs[e[i]].parent \in 0..MaxId
      BY <3>1, Fields
    <3> QED BY <3>2, HistoryAssumption DEF Recorded, Compaction, Id
  <2>5. rs[e[i]].id <= s.id /\ rs[e[i]].parent # s.id
    BY <2>2, <2>4
  <2> QED BY <2>1, <2>3, <2>5
<1> HIDE DEF m
<1>4. \A i \in base..m : i \in 1..m /\ (i \in (l + 1)..m \/ (kept = <<>> /\ i \in 1..l))
  BY <1>1
<1>5. ASSUME NEW j \in base..m PROVE R[j].parent # R[m].id
  <2>1. CASE j = l + 1
    BY <1>1, <1>2, <2>1
  <2>2. CASE j \in (l + 2)..m
    <3>1. j - 1 \in 1..m /\ j - 1 # m
      BY <1>1, <1>2, <2>2
    <3> QED BY <1>1, <1>2, <2>2, <3>1
  <2>3. j \in (l + 1)..m => j = l + 1 \/ j \in (l + 2)..m
    BY <1>1
  <2> QED BY <1>3, <1>4, <2>1, <2>2, <2>3
<1>6. ASSUME NEW i \in base..m, \A j \in base..m : R[j].parent # R[i].id PROVE R[i].id <= R[m].id
  <2>1. CASE i = m
    BY <1>1, <1>2, <2>1
  <2>2. ASSUME i # m, i \in (l + 1)..m PROVE FALSE
    <3>1. i + 1 \in (l + 2)..m /\ i + 1 \in base..m /\ (i + 1) - 1 = i
      BY <1>1, <1>6, <2>2
    <3> QED BY <1>2, <1>6, <3>1
  <2> QED BY <1>3, <1>4, <2>1, <2>2
<1> QED BY <1>5, <1>6 DEF LastIsTip, m

\* Nothing but the first message kept is linked behind the new summary.
LEMMA BlockSealed ==
  ASSUME NEW R, NEW l, NEW b, NEW s, NEW kept, Block(R, l, b, s, kept), NEW rs, NEW ms, NEW rw,
         Recorded(rs, b, s, kept, ms, rw), NEW e, Compacted(R, rs, b, s, kept, l, e),
         NEW f, KeepsFork(f, kept)
  PROVE  Sealed(R, f)
<1> DEFINE m == Len(R)
           n == Len(kept)
<1>1. /\ l \in Nat /\ n \in Nat /\ m = l + 2 + n /\ b.id \in Nat /\ s.id \in Nat /\ s.id # None
      /\ b.id < s.id
      /\ \A i \in 1..n : kept[i].id # s.id
  BY HistoryAssumption DEF Block, Recorded, Compaction, Id, None
<1>2. /\ \A i \in (l + 2)..m : i - 1 \in 1..m /\ R[i].parent = R[i - 1].id
      /\ R[l + 1].parent = None /\ R[l + 2].parent = b.id /\ R[l + 2].id = s.id
      /\ \A i \in 1..n : R[l + 2 + i].id = kept[i].id /\ R[l + 2 + i].kind = kept[i].kind
      /\ \A i, j \in 1..m : R[i].id = R[j].id => i = j
  BY DEF Block
<1> SUFFICES ASSUME NEW x \in 1..m, Newest(R, x), R[x].seg \notin {NoSeg, Stale}
             PROVE  /\ x + 2 \in 1..m /\ R[x + 2].kind = "assistant"
                    /\ \A j \in 1..m : R[j].parent = R[x + 1].id => j = x + 2
                    /\ f # R[x + 1].id
  BY DEF Sealed
<1>3. x = l + 1 /\ kept # <<>>
  BY BlockNewest
<1>4. n >= 1 /\ 1 \in 1..n /\ n \in 1..n /\ kept[1].kind = "assistant"
  <2>1. kept \in Seq(Messages)
    BY DEF Recorded, Compaction
  <2>2. n # 0
    BY <1>3, <2>1, EmptySeq
  <2> QED BY <1>1, <1>3, <2>2 DEF Recorded
<1>5. x + 1 = l + 2 /\ x + 2 = l + 2 + 1 /\ x + 2 \in 1..m /\ l + 2 \in 1..m
  BY <1>1, <1>3, <1>4
<1>6. R[x + 2].kind = "assistant" /\ R[x + 1].id = s.id
  BY <1>2, <1>4, <1>5
<1>7. ASSUME NEW j \in 1..m, R[j].parent = s.id PROVE j = x + 2
  <2>1. CASE j \in 1..l
    <3>1. e[j] \in 1..Len(rs) /\ R[j] = rs[e[j]]
      BY <2>1 DEF Compacted
    <3>2. rs[e[j]].parent < b.id
      BY <3>1 DEF Recorded
    <3>3. s.id < b.id
      BY <1>7, <3>1, <3>2
    <3> QED BY <1>1, <3>3
  <2>2. CASE j = l + 1
    BY <1>1, <1>2, <1>7, <2>2
  <2>3. CASE j \in (l + 2)..m
    <3>1. j - 1 \in 1..m /\ R[j - 1].id = R[l + 2].id
      BY <1>2, <1>7, <2>3
    <3>2. j - 1 = l + 2
      BY <1>2, <1>5, <3>1
    <3> QED BY <1>1, <1>5, <3>2
  <2>4. j \in 1..l \/ j = l + 1 \/ j \in (l + 2)..m
    BY <1>1
  <2> QED BY <2>1, <2>2, <2>3, <2>4
<1>8. f # s.id
  BY <1>1, <1>4 DEF KeepsFork
<1> QED BY <1>5, <1>6, <1>7, <1>8

\* After a compaction that was recorded all messages are in the table.
LEMMA CompactedSettled ==
  ASSUME NEW rs, NEW b, NEW s, NEW kept, NEW ms, NEW rw, Recorded(rs, b, s, kept, ms, rw),
         NEW f, KeepsFork(f, kept), NEW R \in Table, NEW l, NEW e, Compacted(R, rs, b, s, kept, l, e)
  PROVE  Settled(R, ms, Len(ms), f, rw)
<1> DEFINE n == Len(kept)
           G == [i \in 1..(n + 2) |-> l + i]
           base == IF kept = <<>> THEN 1 ELSE l + 1
<1>1. Block(R, l, b, s, kept)
  BY BlockIs DEF Recorded
<1>2. /\ l \in Nat /\ n \in Nat /\ Len(R) = l + 2 + n
      /\ \A i \in 1..n : R[l + 2 + i].id = kept[i].id
  BY <1>1 DEF Block
<1>3. base \in 1..(l + 1) /\ Len(ms) = n + 2 /\ Len(ms) # 0
  BY <1>2 DEF Recorded
<1>4. /\ \A x : Newest(R, x) <=> x = l + 1
      /\ l + 1 \in 1..Len(R)
      /\ kept = <<>> => R[l + 1].seg = NoSeg
      /\ kept # <<>> => R[l + 1].seg \notin {NoSeg, Stale}
  BY <1>1, BlockNewest
<1>5. Sealed(R, f)
  BY <1>1, BlockSealed
<1>6. LastIsTip(R, base)
  BY <1>1, BlockTip
<1>7. LoadBase(R, base)
  BY <1>4 DEF LoadBase
<1> HIDE DEF base
<1>8. Line(R, base, n + 2, G) /\ Matched(R, n + 2, G, ms, Len(ms), None, rw)
  BY <1>1, <1>3, BlockLine
<1>9. \A i \in 1..(n + 2) : G[i] = l + i
  OBVIOUS
<1> HIDE DEF G, n
<1>10. Matched(R, n + 2, G, ms, Len(ms), f, rw)
  <2>1. f # None => f = R[G[Len(ms)]].id
    <3> SUFFICES ASSUME f # None PROVE f = R[G[Len(ms)]].id
      OBVIOUS
    <3>1. kept # <<>> /\ f = kept[n].id
      BY DEF KeepsFork, n
    <3>2. kept \in Seq(Messages)
      BY DEF Recorded, Compaction
    <3>3. n \in 1..n
      BY <1>2, <3>1, <3>2, EmptySeq DEF n
    <3>4. G[Len(ms)] = l + 2 + n
      BY <1>2, <1>3, <1>9
    <3> QED BY <1>2, <3>1, <3>3, <3>4
  <2> QED BY <1>8, <2>1 DEF Matched
<1>11. Accounted(R, base, n + 2, G, rw)
  <2> SUFFICES ASSUME HasAll(R), NEW j \in base..Len(R) PROVE \E i \in 1..(n + 2) : G[i] = j
    BY DEF Accounted
  <2>1. kept # <<>>
    BY <1>4 DEF HasAll
  <2>2. j - l \in 1..(n + 2) /\ l + (j - l) = j
    BY <1>2, <2>1 DEF base
  <2> QED BY <1>9, <2>2
<1> QED BY <1>3, <1>5, <1>6, <1>7, <1>8, <1>10, <1>11 DEF Settled, Held

-----------------------------------------------------------------------------
(* Rewinds, restarts and forks.                                            *)

\* What is said of the messages when c of them are stored: no uuid twice, only a compaction's
\* boundary, with its summary behind it, has none, and what is not stored is newer than the table.
Talk(rs, ms, c) ==
  /\ ms \in Seq(Messages) /\ Distinct(ms)
  /\ \A x \in 2..Len(ms) : ms[x].id # None
  /\ ms # <<>> /\ ms[1].id = None =>
       ms[1].kind = "boundary" /\ 2 \in 1..Len(ms) /\ ms[2].kind = "summary"
  /\ \A x \in (c + 1)..Len(ms) : \A j \in 1..Len(rs) : rs[j].id < ms[x].id

\* A rewind that cuts off stored messages goes back on the chain.
LEMMA RewindSettled ==
  ASSUME NEW rs \in Table, NEW ms, NEW c \in 0..Len(ms), NEW f, NEW rw,
         Settled(rs, ms, c, f, rw), Talk(rs, ms, c),
         NEW i \in 1..Len(ms), ms[i].kind = "user", ~(i = 1 /\ c > 0),
         NEW ps, \A x \in 1..(i - 1) : ps[x] = ms[x]
  PROVE  Settled(rs, ps, IF i - 1 < c THEN i - 1 ELSE c, IF i - 1 < c THEN ms[i - 1].id ELSE f,
                 rw \cup {ms[x].id : x \in i..Len(ms)})
<1> DEFINE n == Len(ms)
           d == IF i - 1 < c THEN i - 1 ELSE c
           h == IF i - 1 < c THEN ms[i - 1].id ELSE f
           cut == {ms[x].id : x \in i..n}
<1>1. n \in Nat /\ c \in Nat
  BY LenProperties DEF Talk
<1>2. CASE c = 0
  <2>1. d = 0 /\ h = f
    BY <1>1, <1>2
  <2> QED BY <1>2, <2>1 DEF Settled
<1>3. CASE c # 0
  <2>1. Sealed(rs, f) /\ \E b, k, g : Held(rs, b, k, g, ms, c, f, rw)
    BY <1>3 DEF Settled
  <2>2. PICK b, k, g : Held(rs, b, k, g, ms, c, f, rw)
    BY <2>1
  <2>3. /\ Len(rs) \in Nat /\ \A x, y \in 1..Len(rs) : rs[x].id = rs[y].id => x = y
        /\ \A x \in 1..Len(rs) : rs[x].id \in Nat
    <3>1. \A r \in Rows : r.id \in Nat
      BY Fields, HistoryAssumption DEF Id
    <3> QED BY <3>1, TableIs
  <2>4. /\ b \in 1..Len(rs) /\ k \in Nat /\ g \in [1..k -> b..Len(rs)]
        /\ \A x, y \in 1..k : x < y => g[x] < g[y]
        /\ \A x \in 2..k : rs[g[x]].parent = rs[g[x - 1]].id
    BY <2>2 DEF Held, Line
  <2>5. /\ c \in 1..k /\ IF f = None THEN c = k ELSE f = rs[g[c]].id
        /\ \A x \in 1..c : /\ ms[x].kind = rs[g[x]].kind /\ ms[x].id \in {rs[g[x]].id, None}
                           /\ rs[g[x]].id \notin rw
        /\ \A x \in (c + 1)..k : rs[g[x]].id \in rw
    BY <2>2 DEF Held, Matched
  <2>6. i \in 2..n /\ d \in 1..c /\ d # 0 /\ d \in 1..k /\ d \in 1..(i - 1)
    BY <1>1, <1>3, <2>4, <2>5
  <2>7. \A x \in 1..k : g[x] \in 1..Len(rs)
    BY <2>3, <2>4
  <2>8. \A x \in 1..n : x # 1 => ms[x].id # None
    BY <1>1 DEF Talk
  <2>9. \A x \in 2..c : x \in 1..k /\ x \in 1..c /\ ms[x].id = rs[g[x]].id
    <3> TAKE x \in 2..c
    <3>1. x \in 1..k /\ x \in 1..c /\ x \in 1..n /\ x # 1
      BY <1>1, <2>4, <2>5
    <3> QED BY <2>5, <2>8, <3>1
  <2>10. \A y \in 1..d : rs[g[y]].id \notin cut
    <3> SUFFICES ASSUME NEW y \in 1..d, NEW x \in i..n, rs[g[y]].id = ms[x].id PROVE FALSE
      OBVIOUS
    <3>1. y \in 1..k /\ y < x
      BY <1>1, <2>4, <2>6
    <3>2. CASE x \in 2..c
      <4>1. x \in 1..k /\ rs[g[y]].id = rs[g[x]].id
        BY <2>9, <3>2
      <4>2. g[y] = g[x]
        BY <2>3, <2>7, <3>1, <4>1
      <4>3. g[y] < g[x] /\ g[y] \in Int
        BY <2>3, <2>4, <2>7, <3>1, <4>1
      <4> QED BY <4>2, <4>3
    <3>3. CASE x \in (c + 1)..n
      <4>1. rs[g[y]].id < ms[x].id /\ rs[g[y]].id \in Nat
        BY <2>3, <2>7, <3>1, <3>3 DEF Talk
      <4> QED BY <4>1
    <3>4. x \in 2..c \/ x \in (c + 1)..n
      BY <1>1, <2>6
    <3> QED BY <3>2, <3>3, <3>4
  <2>11. i - 1 < c => h # None /\ h = rs[g[d]].id /\ d = i - 1 /\ h = ms[i - 1].id
    <3> SUFFICES ASSUME i - 1 < c PROVE h # None /\ h = rs[g[d]].id /\ d = i - 1 /\ h = ms[i - 1].id
      OBVIOUS
    <3>1. d = i - 1 /\ h = ms[i - 1].id /\ i - 1 \in 1..n
      BY <1>1, <2>6
    <3>2. h # None
      <4>1. CASE i - 1 # 1
        BY <2>8, <3>1, <4>1
      <4>2. CASE i - 1 = 1
        <5>1. i = 2 /\ 1 \in 1..n
          BY <1>1, <2>6, <4>2
        <5>2. ms # <<>> /\ ms[1].id = None => ms[2].kind = "summary"
          BY DEF Talk
        <5>3. ms # <<>>
          BY <1>1, <5>1, EmptySeq
        <5> QED BY <3>1, <4>2, <5>1, <5>2, <5>3
      <4> QED BY <4>1, <4>2
    <3> QED BY <2>5, <2>6, <3>1, <3>2
  <2>12. Sealed(rs, h)
    <3>1. CASE ~(i - 1 < c)
      BY <2>1, <3>1
    <3>2. CASE i - 1 < c
      <4> SUFFICES ASSUME NEW a \in 1..Len(rs), Newest(rs, a), rs[a].seg \notin {NoSeg, Stale},
                          h = rs[a + 1].id
                   PROVE  FALSE
        BY <2>1 DEF Sealed
      <4>1. /\ a + 2 \in 1..Len(rs) /\ rs[a + 2].kind = "assistant"
            /\ \A j \in 1..Len(rs) : rs[j].parent = rs[a + 1].id => j = a + 2
        BY <2>1 DEF Sealed
      <4>2. i \in 2..c /\ i \in 2..k /\ i \in 1..k
        BY <1>1, <2>4, <2>5, <2>6, <3>2
      <4>3. rs[g[i]].parent = rs[a + 1].id
        BY <2>4, <2>11, <3>2, <4>2
      <4>4. g[i] = a + 2
        BY <2>7, <4>1, <4>2, <4>3
      <4>5. rs[g[i]].kind = "user"
        BY <2>5, <2>9, <4>2
      <4> QED BY <4>1, <4>4, <4>5
    <3> QED BY <3>1, <3>2
  <2>13. Matched(rs, k, g, ps, d, h, rw \cup cut)
    <3>1. IF h = None THEN d = k ELSE h = rs[g[d]].id
      BY <2>5, <2>11
    <3>2. \A x \in 1..d : /\ ps[x].kind = rs[g[x]].kind /\ ps[x].id \in {rs[g[x]].id, None}
                          /\ rs[g[x]].id \notin rw \cup cut
      <4> TAKE x \in 1..d
      <4>1. x \in 1..c /\ x \in 1..(i - 1)
        BY <1>1, <2>6
      <4> HIDE DEF cut, d
      <4> QED BY <2>5, <2>10, <4>1
    <3>3. \A x \in (d + 1)..k : rs[g[x]].id \in rw \cup cut
      <4> TAKE x \in (d + 1)..k
      <4>1. x \in (c + 1)..k \/ (x \in 2..c /\ x \in i..n)
        BY <1>1, <2>4, <2>6
      <4>2. CASE x \in 2..c /\ x \in i..n
        BY <2>9, <4>2
      <4> QED BY <2>5, <4>1, <4>2
    <3> HIDE DEF cut, d, h
    <3> QED BY <2>6, <3>1, <3>2, <3>3 DEF Matched
  <2>14. Accounted(rs, b, k, g, rw \cup cut)
    BY <2>2 DEF Held, Accounted
  <2> HIDE DEF cut, d, h
  <2>15. Held(rs, b, k, g, ps, d, h, rw \cup cut)
    BY <2>2, <2>13, <2>14 DEF Held
  <2>16. Settled(rs, ps, d, h, rw \cup cut)
    BY <2>6, <2>12, <2>15 DEF Settled
  <2> QED BY <2>16 DEF cut, d, h
<1> QED BY <1>2, <1>3

\* A chain read back is on the chain, and no longer rewound.
LEMMA LineMatched ==
  ASSUME NEW rs \in Table, NEW k, NEW g, k \in Nat, k >= 1, NEW ch, IsLine(ch, rs, g, k), NEW rw,
         \A i \in 1..k : rs[g[i]].id \notin rw
  PROVE  Matched(rs, k, g, ToEngine(ch), Len(ToEngine(ch)), None, rw)
<1>1. ch \in Table /\ Len(ch) = k /\ \A i \in 1..k : ch[i] = rs[g[i]]
  BY DEF IsLine
<1>2. /\ Len(ToEngine(ch)) = k
      /\ \A i \in 1..k : ToEngine(ch)[i] = [id |-> ch[i].id, kind |-> ch[i].kind]
  BY <1>1, ToEngineIs
<1>3. \A i \in 1..k : ToEngine(ch)[i].id = rs[g[i]].id /\ ToEngine(ch)[i].kind = rs[g[i]].kind
  BY <1>1, <1>2
<1>4. k \in 1..k /\ \A i \in (k + 1)..k : FALSE
  OBVIOUS
<1> QED BY <1>2, <1>3, <1>4 DEF Matched

\* No row is named by the empty uuid.
LEMMA NothingWaits ==
  ASSUME NEW rs \in Table, NEW f, Sealed(rs, f)
  PROVE  Sealed(rs, None)
<1> SUFFICES ASSUME NEW b \in 1..Len(rs), Newest(rs, b), rs[b].seg \notin {NoSeg, Stale}
             PROVE  None # rs[b + 1].id
  BY DEF Sealed
<1>1. b + 2 \in 1..Len(rs)
  BY DEF Sealed
<1>2. b + 1 \in 1..Len(rs)
  BY <1>1, TableIs
<1>3. rs[b + 1].id \in Id
  BY <1>2, TableIs, Fields
<1> QED BY <1>3, HistoryAssumption DEF Id, None

\* After a restart the conversation is the chain.
LEMMA ReloadSettled ==
  ASSUME NEW rs \in Table, SegOK(rs), NEW ms, NEW c \in Nat, NEW f, NEW rw, Settled(rs, ms, c, f, rw)
  PROVE  Settled(rs, ToEngine(LoadChain(rs)), Len(ToEngine(LoadChain(rs))), None,
                 rw \ IdsOf(ToEngine(LoadChain(rs))))
<1> DEFINE ch == LoadChain(rs)
           E == ToEngine(ch)
<1>1. CASE c = 0
  <2>1. rs = <<>>
    BY <1>1 DEF Settled
  <2>2. ch = <<>>
    BY <2>1 DEF LoadChain
  <2>3. <<>> \in Table
    BY <1>1 DEF Settled
  <2>4. Len(E) = 0
    BY <2>1, <2>2, ToEngineIs
  <2> QED BY <2>1, <2>4 DEF Settled
<1>2. CASE c # 0
  <2>1. Sealed(rs, f) /\ \E b, k, g : Held(rs, b, k, g, ms, c, f, rw)
    BY <1>2 DEF Settled
  <2>2. PICK b, k, g : Held(rs, b, k, g, ms, c, f, rw)
    BY <2>1
  <2>3. rs # <<>>
    BY <2>2, EmptySeq DEF Held, Line
  <2>4. IsLine(ch, rs, g, k)
    BY <2>1, <2>2, <2>3, LoadsLine DEF Held
  <2> HIDE DEF ch
  <2>5. /\ ch \in Table /\ Len(ch) = k /\ \A i \in 1..k : ch[i] = rs[g[i]]
    BY <2>4 DEF IsLine
  <2>6. Len(E) = k /\ IdsOf(E) = {ch[i].id : i \in 1..k}
    BY <2>5, ToEngineIs, TableIs
  <2> HIDE DEF E
  <2>7. /\ k \in Nat /\ k >= 1 /\ b \in 1..Len(rs) /\ g \in [1..k -> b..Len(rs)]
    BY <2>2 DEF Held, Line
  <2>8. /\ Len(rs) \in Nat /\ \A x, y \in 1..Len(rs) : rs[x].id = rs[y].id => x = y
    BY TableIs
  <2>9. \A i \in 1..k : rs[g[i]].id \in IdsOf(E) /\ g[i] \in 1..Len(rs)
    BY <2>5, <2>6, <2>7, <2>8
  <2>10. Matched(rs, k, g, E, Len(E), None, rw \ IdsOf(E))
    BY <2>4, <2>7, <2>9, LineMatched DEF E
  <2>11. Accounted(rs, b, k, g, rw \ IdsOf(E))
    <3> SUFFICES ASSUME HasAll(rs), NEW j \in b..Len(rs)
                 PROVE  rs[j].id \in rw \ IdsOf(E) \/ \E i \in 1..k : g[i] = j
      BY DEF Accounted
    <3>1. rs[j].id \in rw \/ \E i \in 1..k : g[i] = j
      BY <2>2 DEF Held, Accounted
    <3>2. ASSUME rs[j].id \in IdsOf(E) PROVE \E i \in 1..k : g[i] = j
      <4>1. PICK i \in 1..k : rs[j].id = rs[g[i]].id
        BY <2>5, <2>6, <3>2
      <4>2. j \in 1..Len(rs)
        BY <2>7, <2>8
      <4> QED BY <2>8, <2>9, <4>1, <4>2
    <3> QED BY <3>1, <3>2
  <2>12. Held(rs, b, k, g, E, Len(E), None, rw \ IdsOf(E))
    BY <2>2, <2>10, <2>11 DEF Held
  <2>13. Sealed(rs, None)
    BY <2>1, NothingWaits
  <2>14. Len(E) # 0
    BY <2>6, <2>7
  <2> QED BY <2>12, <2>13, <2>14 DEF Settled, E, ch
<1> QED BY <1>1, <1>2

\* A fork's table: loading starts at the last boundary, or at the top.
LEMMA ForkBase ==
  ASSUME NEW rs \in Table, Rooted(rs), rs # <<>>, HasAll(rs)
  PROVE  \E b \in 1..Len(rs) : /\ LoadBase(CopyToFork(rs), b)
                               /\ \A i \in (b + 1)..Len(rs) : rs[i].kind # "boundary"
<1> DEFINE R == CopyToFork(rs)
<1>1. /\ Len(rs) \in Nat /\ Len(rs) >= 1 /\ Len(R) = Len(rs)
      /\ \A i \in 1..Len(rs) : R[i].kind = rs[i].kind
      /\ \A i \in 1..Len(rs) : R[i].seg = IF rs[i].seg = NoSeg THEN NoSeg ELSE Stale
  BY TableIs, EmptySeq, CopyIs
<1> HIDE DEF R
<1>2. \A x : Newest(R, x) <=> Newest(rs, x)
  BY <1>1 DEF Newest
<1>3. CASE \E x \in 1..Len(rs) : Newest(rs, x)
  <2>1. PICK b \in 1..Len(rs) : Newest(rs, b)
    BY <1>3
  <2>2. R[b].seg = Stale /\ Stale # NoSeg
    BY <1>1, <2>1 DEF HasAll, Stale, NoSeg
  <2>3. LoadBase(R, b)
    BY <1>2, <2>1, <2>2 DEF LoadBase
  <2>4. \A i \in (b + 1)..Len(rs) : rs[i].kind # "boundary"
    BY <1>1, <2>1 DEF Newest
  <2> QED BY <2>3, <2>4 DEF R
<1>4. CASE ~\E x \in 1..Len(rs) : Newest(rs, x)
  <2>1. LoadBase(R, 1)
    BY <1>1, <1>2, <1>4 DEF LoadBase
  <2> DEFINE bs == {i \in DOMAIN rs : rs[i].kind = "boundary"}
  <2>2. bs = {}
    <3>1. bs # {} => Newest(rs, CHOOSE i \in bs : \A j \in bs : j <= i)
      BY NewestIs
    <3> HIDE DEF bs
    <3> QED BY <1>4, <3>1 DEF Newest
  <2>3. \A i \in 1..Len(rs) : rs[i].kind # "boundary"
    BY <2>2, TableIs
  <2>4. 1 \in 1..Len(rs) /\ \A i \in 2..Len(rs) : rs[i].kind # "boundary"
    BY <1>1, <2>3
  <2> QED BY <2>1, <2>4 DEF R
<1> QED BY <1>3, <1>4

\* The chain is all that is loaded.
LEMMA ForkLine ==
  ASSUME NEW rs \in Table, Rooted(rs), NEW b \in 1..Len(rs),
         \A i \in (b + 1)..Len(rs) : rs[i].kind # "boundary"
  PROVE  /\ Line(CopyToFork(rs), b, Len(rs) - b + 1, [i \in 1..(Len(rs) - b + 1) |-> b + (i - 1)])
         /\ LastIsTip(CopyToFork(rs), b)
<1> DEFINE R == CopyToFork(rs)
           m == Len(rs)
           k == m - b + 1
           g == [i \in 1..k |-> b + (i - 1)]
<1>1. /\ R \in Table /\ Len(R) = m /\ m \in Nat
      /\ \A i \in 1..m : R[i].id = rs[i].id /\ R[i].kind = rs[i].kind
      /\ \A i \in 1..m : R[i].parent = IF i = 1 THEN None ELSE rs[i - 1].id
  BY TableIs, CopyIs
<1> HIDE DEF R
<1>2. /\ \A i, j \in 1..m : R[i].id = R[j].id => i = j
      /\ \A i \in 1..m : R[i].id \in Nat /\ R[i].id # None
  <2>1. \A r \in Rows : r.id \in Nat /\ r.id # None
    BY Fields, HistoryAssumption DEF Id, None
  <2> QED BY <1>1, <2>1, TableIs
<1>3. k \in Nat /\ k >= 1
  BY <1>1
<1>4. \A i \in 1..k : g[i] = b + (i - 1) /\ b + (i - 1) \in b..m
  BY <1>1
<1>5. g \in [1..k -> b..m]
  BY <1>4
<1> HIDE DEF g
<1>6. g[k] = m
  BY <1>1, <1>3, <1>4
<1>7. \A i, j \in 1..k : i < j => g[i] < g[j]
  <2> TAKE i, j \in 1..k
  <2>1. g[i] = b + (i - 1) /\ g[j] = b + (j - 1)
    BY <1>4
  <2> QED BY <1>1, <2>1
<1>8. \A i \in 2..m : i - 1 \in 1..m /\ i \in 1..m /\ R[i].parent = R[i - 1].id
  BY <1>1
<1>9. \A j \in b..m : R[j].id # R[g[1]].parent
  <2> SUFFICES ASSUME NEW j \in b..m, R[j].id = R[b].parent PROVE FALSE
    <3>1. g[1] = b
      BY <1>1, <1>3, <1>4
    <3> QED BY <3>1
  <2>1. j \in 1..m /\ b \in 1..m
    BY <1>1
  <2>2. CASE b = 1
    BY <1>1, <1>2, <2>1, <2>2
  <2>3. CASE b # 1
    <3>1. b \in 2..m
      BY <1>1, <2>3
    <3>2. j = b - 1
      BY <1>2, <1>8, <2>1, <3>1
    <3> QED BY <1>1, <3>2
  <2> QED BY <2>2, <2>3
<1>10. \A i \in 2..k : R[g[i]].parent = R[g[i - 1]].id /\ R[g[i]].kind # "boundary"
  <2> TAKE i \in 2..k
  <2>1. i \in 1..k /\ i - 1 \in 1..k
    BY <1>3
  <2>2. g[i] = b + (i - 1) /\ g[i - 1] = b + (i - 1 - 1)
    BY <1>4, <2>1
  <2>3. g[i] \in 2..m /\ g[i] - 1 = g[i - 1] /\ g[i] \in (b + 1)..m /\ g[i] \in 1..m
    BY <1>1, <1>3, <2>2
  <2> QED BY <1>1, <1>8, <2>3
<1>11. Line(R, b, k, g)
  BY <1>1, <1>3, <1>5, <1>6, <1>7, <1>9, <1>10 DEF Line
<1>12. \A j \in b..m : R[j].parent # R[m].id
  <2> SUFFICES ASSUME NEW j \in b..m, R[j].parent = R[m].id PROVE FALSE
    OBVIOUS
  <2>1. j \in 1..m /\ m \in 1..m
    BY <1>1
  <2>2. CASE j = 1
    BY <1>1, <1>2, <2>1, <2>2
  <2>3. CASE j # 1
    <3>1. j \in 2..m
      BY <1>1, <2>3
    <3>2. m = j - 1
      BY <1>2, <1>8, <2>1, <3>1
    <3> QED BY <1>1, <3>2
  <2> QED BY <2>2, <2>3
<1>13. ASSUME NEW i \in b..m, \A j \in b..m : R[j].parent # R[i].id PROVE R[i].id <= R[m].id
  <2>1. CASE i = m
    BY <1>1, <1>2, <2>1
  <2>2. CASE i # m
    <3>1. i + 1 \in b..m /\ i + 1 \in 2..m /\ (i + 1) - 1 = i
      BY <1>1, <2>2
    <3>2. R[i + 1].parent = R[i].id
      BY <1>8, <3>1
    <3> QED BY <1>13, <3>1, <3>2
  <2> QED BY <2>1, <2>2
<1>14. LastIsTip(R, b)
  BY <1>1, <1>12, <1>13 DEF LastIsTip
<1> QED BY <1>11, <1>14 DEF R, g

\* After a fork that loses nothing the conversation is the chain of the copy.
LEMMA ForkSettled ==
  ASSUME NEW rs \in Table, Rooted(rs), HasAll(rs), NEW rw, rw \cap IdsOf(rs) = {}
  PROVE  LET ms == ToEngine(LoadChain(CopyToFork(rs)))
         IN  Settled(CopyToFork(rs), ms, Len(ms), None, rw)
<1> DEFINE R == CopyToFork(rs)
           E == ToEngine(LoadChain(R))
<1>1. CASE rs = <<>>
  <2>1. R = <<>> /\ R \in Table
    BY <1>1, CopyIs, EmptySeq, TableIs
  <2>2. LoadChain(R) = <<>>
    BY <2>1 DEF LoadChain
  <2>3. Len(E) = 0
    BY <2>1, <2>2, ToEngineIs
  <2> QED BY <2>1, <2>3 DEF Settled
<1>2. CASE rs # <<>>
  <2>1. PICK b \in 1..Len(rs) : /\ LoadBase(R, b)
                                /\ \A i \in (b + 1)..Len(rs) : rs[i].kind # "boundary"
    BY <1>2, ForkBase
  <2> DEFINE k == Len(rs) - b + 1
             g == [i \in 1..k |-> b + (i - 1)]
  <2>2. Line(R, b, k, g) /\ LastIsTip(R, b)
    BY <2>1, ForkLine
  <2>3. /\ R \in Table /\ SegOK(R) /\ Len(R) = Len(rs) /\ Len(rs) \in Nat /\ IdsOf(R) = IdsOf(rs)
        /\ \A i \in 1..Len(rs) : R[i].seg = IF rs[i].seg = NoSeg THEN NoSeg ELSE Stale
    BY CopyIs, TableIs
  <2>4. k \in Nat /\ k >= 1 /\ \A i \in 1..k : g[i] = b + (i - 1) /\ g[i] \in b..Len(R)
    BY <2>3
  <2>5. \A j \in b..Len(R) : \E i \in 1..k : g[i] = j
    <3> TAKE j \in b..Len(R)
    <3>1. j - b + 1 \in 1..k /\ b + ((j - b + 1) - 1) = j
      BY <2>3
    <3> QED BY <3>1
  <2> HIDE DEF R, g, k
  <2>6. Sealed(R, None)
    BY <2>3 DEF Sealed
  <2>7. R # <<>>
    BY <2>3, EmptySeq
  <2>8. IsLine(LoadChain(R), R, g, k)
    BY <2>1, <2>2, <2>3, <2>6, <2>7, LoadsLine
  <2>9. \A i \in 1..k : R[g[i]].id \notin rw
    <3> TAKE i \in 1..k
    <3>1. g[i] \in 1..Len(R)
      BY <2>3, <2>4
    <3>2. R[g[i]].id \in IdsOf(R)
      BY <2>3, <3>1, TableIs
    <3> QED BY <2>3, <3>2
  <2>10. Matched(R, k, g, E, Len(E), None, rw)
    BY <2>3, <2>4, <2>8, <2>9, LineMatched
  <2>11. Accounted(R, b, k, g, rw)
    BY <2>5 DEF Accounted
  <2>12. Held(R, b, k, g, E, Len(E), None, rw)
    BY <2>1, <2>2, <2>10, <2>11 DEF Held
  <2>13. Len(E) # 0
    <3>1. LoadChain(R) \in Table /\ Len(LoadChain(R)) = k
      BY <2>8 DEF IsLine
    <3> QED BY <2>4, <3>1, ToEngineIs
  <2> HIDE DEF E
  <2>14. Settled(R, E, Len(E), None, rw)
    BY <2>6, <2>12, <2>13 DEF Settled
  <2> QED BY <2>14 DEF R, E
<1> QED BY <1>1, <1>2

-----------------------------------------------------------------------------
(* The invariant of a conversation and its table that have not parted.     *)

\* A compaction's boundary in memory has its summary behind it, nothing that is to be stored has been
\* rewound, and what is stored is in the table.
Settlement ==
  /\ messages # <<>> /\ messages[1].id = None => 2 \in 1..Len(messages) /\ messages[2].kind = "summary"
  /\ \A i \in (cursor + 1)..Len(messages) : messages[i].id \notin rewound
  /\ \A x \in rewound : x < nextId
  /\ ~strayed => Settled(rows, messages, cursor, forkParent, rewound)

SettledInv == HistoryInv /\ Settlement

\* Only the messages that are stored matter.
LEMMA SettledPrefix ==
  ASSUME NEW rs, NEW ms, NEW ps, NEW c \in Nat, \A i \in 1..c : ps[i] = ms[i], NEW f, NEW rw,
         Settled(rs, ms, c, f, rw)
  PROVE  Settled(rs, ps, c, f, rw)
<1>1. CASE c = 0
  BY <1>1 DEF Settled
<1>2. CASE c # 0
  <2>1. Sealed(rs, f) /\ \E b, k, g : Held(rs, b, k, g, ms, c, f, rw)
    BY <1>2 DEF Settled
  <2>2. PICK b, k, g : Held(rs, b, k, g, ms, c, f, rw)
    BY <2>1
  <2>3. Matched(rs, k, g, ms, c, f, rw)
    BY <2>2 DEF Held
  <2>4. Matched(rs, k, g, ps, c, f, rw)
    BY <2>3 DEF Matched
  <2>5. Held(rs, b, k, g, ps, c, f, rw)
    BY <2>2, <2>4 DEF Held
  <2> QED BY <1>2, <2>1, <2>5 DEF Settled
<1> QED BY <1>1, <1>2

\* What is said of the messages, in one formula.
LEMMA TalkIs ==
  ASSUME SettledInv
  PROVE  Talk(rows, messages, cursor)
<1>1. TypeOK /\ Fresh /\ MessagesOK /\ Settlement
  BY DEF SettledInv, HistoryInv
<1>2. messages \in Seq(Messages) /\ Len(messages) \in Nat
  BY <1>1, TypeIs, LenProperties
<1>3. messages # <<>> /\ messages[1].id = None =>
        messages[1].kind = "boundary" /\ 2 \in 1..Len(messages) /\ messages[2].kind = "summary"
  <2>1. messages # <<>> => 1 \in 1..Len(messages)
    BY <1>2, EmptySeq
  <2> QED BY <1>1, <2>1 DEF MessagesOK, Settlement
<1>4. \A x \in (cursor + 1)..Len(messages) : \A j \in 1..Len(rows) : rows[j].id < messages[x].id
  BY <1>1 DEF Fresh
<1>5. Distinct(messages) /\ \A i \in 2..Len(messages) : messages[i].id # None
  BY <1>1 DEF MessagesOK
<1> QED BY <1>2, <1>3, <1>4, <1>5 DEF Talk

\* A step that touches neither the conversation nor the table.
LEMMA IdleSettled ==
  ASSUME Settlement, UNCHANGED <<rows, messages, cursor, forkParent, nextId, rewound, strayed>>
  PROVE  Settlement'
  BY DEF Settlement

\* Messages join the history.
LEMMA AppendSettled ==
  ASSUME SettledInv, NEW ks \in Seq(Kinds), AppendNew(ks),
         UNCHANGED <<rows, cursor, forkParent, rewound, strayed>>
  PROVE  Settlement'
<1> DEFINE n == Len(messages)
           k == Len(ks)
<1>1. TypeOK /\ Settlement
  BY DEF SettledInv, HistoryInv
<1>2. /\ n \in Nat /\ k \in Nat /\ nextId' = nextId + k /\ Len(messages') = n + k
      /\ \A i \in 1..n : messages'[i] = messages[i]
      /\ \A i \in 1..k : messages'[n + i].id = nextId + i - 1
  BY <1>1, AppendNewIs
<1>3. /\ messages \in Seq(Messages) /\ messages' \in Seq(Messages)
      /\ cursor \in 0..n /\ nextId \in Nat /\ nextId >= 1 /\ rewound \subseteq 1..MaxId
  BY <1>1, AppendNewIs, TypeIs, HistoryAssumption
<1> HIDE DEF n, k
<1>4. ASSUME messages' # <<>>, messages'[1].id = None
      PROVE  2 \in 1..(n + k) /\ messages'[2].kind = "summary"
  <2>1. n # 0
    <3> SUFFICES ASSUME n = 0 PROVE FALSE
      OBVIOUS
    <3>1. n + k # 0
      BY <1>2, <1>3, <1>4, EmptySeq DEF n, k
    <3>2. 1 \in 1..k /\ n + 1 = 1 /\ nextId + 1 - 1 = nextId
      BY <1>2, <1>3, <3>1
    <3>3. messages'[1].id = nextId
      BY <1>2, <3>2
    <3> QED BY <1>3, <1>4, <3>3 DEF None
  <2>2. 1 \in 1..n /\ messages # <<>>
    BY <1>2, <1>3, <2>1, EmptySeq DEF n
  <2>3. messages[1].id = None
    BY <1>2, <1>4, <2>2
  <2>4. 2 \in 1..n /\ messages[2].kind = "summary"
    BY <1>1, <2>2, <2>3 DEF Settlement, n
  <2> QED BY <1>2, <2>4
<1>5. \A x \in rewound : x < nextId
  BY <1>1 DEF Settlement
<1>6. ASSUME NEW i \in (cursor + 1)..(n + k) PROVE messages'[i].id \notin rewound
  <2>1. CASE i \in 1..n
    <3>1. i \in (cursor + 1)..n
      BY <1>2, <1>3, <2>1
    <3>2. messages[i].id \notin rewound
      BY <1>1, <3>1 DEF Settlement, n
    <3> QED BY <1>2, <2>1, <3>2
  <2>2. CASE i \notin 1..n
    <3>1. i - n \in 1..k /\ i = n + (i - n)
      BY <1>2, <1>3, <2>2
    <3>2. messages'[i].id = nextId + (i - n) - 1
      BY <1>2, <3>1
    <3>3. nextId + (i - n) - 1 >= nextId /\ nextId + (i - n) - 1 \in Int
      BY <1>2, <1>3, <3>1
    <3> SUFFICES ASSUME messages'[i].id \in rewound PROVE FALSE
      OBVIOUS
    <3>4. nextId + (i - n) - 1 < nextId
      BY <1>5, <3>2
    <3> QED BY <1>3, <3>3, <3>4
  <2> QED BY <2>1, <2>2
<1>7. \A x \in rewound : x < nextId + k
  <2> TAKE x \in rewound
  <2>1. x < nextId /\ x \in Int
    BY <1>3, <1>5, HistoryAssumption
  <2> QED BY <1>2, <1>3, <2>1
<1>8. ~strayed => Settled(rows, messages', cursor, forkParent, rewound)
  <2> SUFFICES ASSUME ~strayed PROVE Settled(rows, messages', cursor, forkParent, rewound)
    OBVIOUS
  <2>1. Settled(rows, messages, cursor, forkParent, rewound)
    BY <1>1 DEF Settlement
  <2>2. \A i \in 1..cursor : messages'[i] = messages[i]
    BY <1>2, <1>3
  <2>3. cursor \in Nat
    BY <1>2, <1>3
  <2> QED BY <2>1, <2>2, <2>3, SettledPrefix
<1>9. Len(messages') = n + k /\ nextId' = nextId + k
  BY <1>2
<1> QED BY <1>4, <1>6, <1>7, <1>8, <1>9 DEF Settlement

\* A sweep.
LEMMA SweepSettled ==
  ASSUME SettledInv, SweepStores, UNCHANGED <<messages, nextId, rewound, strayed>>,
         rows' \in Table
  PROVE  Settlement'
<1> DEFINE n == Len(messages)
<1>1. HistoryInv /\ TypeOK /\ TableOK /\ Settlement
  BY DEF SettledInv, HistoryInv
<1>2. /\ rows \in Table /\ messages \in Seq(Messages) /\ cursor \in 0..n /\ forkParent \in 0..MaxId
      /\ n \in Nat
  BY <1>1, TypeIs, LenProperties
<1>3. /\ cursor < n /\ rows' = AppendMessages(rows, Waiting, forkParent)
      /\ forkParent' = None /\ cursor' = n
  <2>1. n > cursor
    BY DEF SweepStores
  <2>2. cursor < n
    BY <1>2, <2>1
  <2> QED BY <2>2 DEF SweepStores, Waiting
<1>4. /\ Len(Waiting) = n - cursor /\ Len(Waiting) \in Nat /\ Len(Waiting) >= 1
      /\ \A i \in 1..Len(Waiting) :
           /\ Waiting[i] = messages[cursor + i] /\ cursor + i \in (cursor + 1)..n
           /\ \A j \in 1..Len(rows) : rows[j].id < Waiting[i].id /\ rows[j].parent < Waiting[i].id
      /\ Batch(rows, Waiting)
  BY <1>1, <1>3, WaitingIs
<1>5. Unswept(rows, messages, cursor, Waiting, rewound)
  <2>1. \A i \in 1..Len(Waiting) : Waiting[i].id \notin rewound
    BY <1>1, <1>4 DEF Settlement
  <2>2. n = cursor + Len(Waiting)
    BY <1>2, <1>4
  <2> QED BY <1>2, <1>4, <2>1, <2>2 DEF Unswept
<1>6. Extended(rows', rows, Waiting, Len(Waiting), Start(rows, forkParent))
  BY <1>2, <1>3, <1>4, AppendIs
<1>7. ~strayed => Settled(rows', messages, n, None, rewound)
  <2> SUFFICES ASSUME ~strayed PROVE Settled(rows', messages, n, None, rewound)
    OBVIOUS
  <2>1. Settled(rows, messages, cursor, forkParent, rewound) /\ cursor \in Nat
    BY <1>1, <1>2 DEF Settlement
  <2> QED BY <1>2, <1>5, <1>6, <2>1, SweptSettled
<1>8. (cursor' + 1)..Len(messages') = {}
  BY <1>2, <1>3
<1> QED BY <1>1, <1>3, <1>7, <1>8 DEF Settlement

\* Behind the first message there is no boundary, and nothing that was rewound.
LEMMA NothingRewound ==
  ASSUME SettledInv, ~strayed, NEW i \in 2..Len(messages)
  PROVE  messages[i].kind # "boundary" /\ messages[i].id \notin rewound
<1>1. TypeOK /\ Fresh /\ MessagesOK /\ Settlement
  BY DEF SettledInv, HistoryInv
<1>2. messages \in Seq(Messages) /\ Len(messages) \in Nat /\ cursor \in 0..Len(messages)
  BY <1>1, TypeIs, LenProperties
<1>3. CASE i \in (cursor + 1)..Len(messages)
  BY <1>1, <1>3 DEF Settlement, Fresh
<1>4. CASE i \notin (cursor + 1)..Len(messages)
  <2>1. cursor # 0 /\ i \in 1..cursor /\ cursor \in Nat
    BY <1>2, <1>4
  <2>2. Settled(rows, messages, cursor, forkParent, rewound)
    BY <1>1 DEF Settlement
  <2>3. PICK b, k, g : Held(rows, b, k, g, messages, cursor, forkParent, rewound)
    BY <2>1, <2>2 DEF Settled
  <2>4. /\ k \in Nat /\ cursor \in 1..k /\ \A x \in 2..k : rows[g[x]].kind # "boundary"
        /\ \A x \in 1..cursor : /\ messages[x].kind = rows[g[x]].kind
                                /\ messages[x].id \in {rows[g[x]].id, None}
                                /\ rows[g[x]].id \notin rewound
    BY <2>3 DEF Held, Line, Matched
  <2>5. i \in 2..k
    BY <2>1, <2>4
  <2>6. messages[i].id # None
    BY <1>1 DEF MessagesOK
  <2> QED BY <2>1, <2>4, <2>5, <2>6
<1> QED BY <1>3, <1>4

\* Messages a compaction may keep when memory and table have not parted: a tail that starts with a
\* response and holds no boundary and nothing that was rewound.
Keepable(kept) ==
  /\ Kept(kept)
  /\ kept # <<>> => kept[1].kind = "assistant"
  /\ ~strayed => \A i \in 1..Len(kept) : kept[i].kind # "boundary" /\ kept[i].id \notin rewound

\* A compaction that replaces the conversation leaves its result in memory and, if it is recorded, in
\* the table.
LEMMA ReplacedIs ==
  ASSUME SettledInv, NEW kept, Keepable(kept), Replace(kept), UNCHANGED <<forkParent, rewound>>
  PROVE  /\ messages' \in Seq(Messages) /\ Len(messages') = Len(kept) + 2 /\ Len(kept) \in Nat
         /\ messages'[2].kind = "summary" /\ \A i \in 1..Len(kept) : messages'[i + 2] = kept[i]
         /\ cursor' = Len(messages') /\ \A x \in rewound : x < nextId'
         /\ ~strayed' => /\ KeepsFork(forkParent, kept)
                         /\ \A f : KeepsFork(f, kept) =>
                              Settled(rows', messages', Len(messages'), f, rewound)
<1> DEFINE b == Message(nextId, "boundary")
           s == Message(nextId + 1, "summary")
           none == Message(None, "boundary")
           two == <<none, s>>
           k == Len(kept)
<1>0. TypeOK /\ Numbered /\ Fresh /\ MessagesOK /\ TableOK /\ Settlement
  BY DEF SettledInv, HistoryInv
<1>1. /\ rows \in Table /\ messages \in Seq(Messages) /\ forkParent \in 0..MaxId
      /\ nextId \in 1..MaxId + 1 /\ rewound \subseteq 1..MaxId /\ strayed \in BOOLEAN
      /\ SegOK(rows) /\ Rooted(rows)
  BY <1>0, TypeIs DEF TableOK
<1>2. /\ nextId + 1 <= MaxId /\ nextId' = nextId + 2
      /\ \/ /\ rows' = RecordCompact(rows, b, s, kept)
            /\ strayed' = (strayed \/ ~ForkPointKept(kept))
         \/ strayed'
      /\ messages' = two \o kept /\ cursor' = Len(messages')
  BY DEF Replace
<1>3. nextId \in Nat /\ nextId >= 1 /\ MaxId \in Nat /\ nextId \in Id /\ nextId + 1 \in Id
      /\ nextId \in 0..MaxId /\ nextId + 1 \in 0..MaxId
  <2>1. MaxId \in Nat
    BY HistoryAssumption
  <2> QED BY <1>1, <1>2, <2>1 DEF Id
<1>4. /\ b.id = nextId /\ b.kind = "boundary" /\ s.id = nextId + 1 /\ s.kind = "summary"
      /\ b \in Messages /\ s \in Messages /\ none \in Messages /\ none.id = None
  BY <1>3 DEF Message, Messages, Kinds, None
<1> HIDE DEF b, s, none
<1>5. /\ kept \in Seq(Messages) /\ k \in Nat
      /\ \A i \in 1..k : kept[i].id \in Id /\ kept[i].id < nextId /\ kept[i].id \in Int
  BY LenProperties, HistoryAssumption DEF Keepable, Kept, Id
<1> HIDE DEF k
<1>6. /\ messages' \in Seq(Messages) /\ Len(messages') = k + 2
      /\ messages'[1] = none /\ messages'[2] = s
      /\ \A i \in 1..k : messages'[i + 2] = kept[i]
  <2>1. two \in Seq(Messages) /\ Len(two) = 2 /\ two[1] = none /\ two[2] = s
    BY <1>4
  <2> HIDE DEF two
  <2>2. Joined(Messages, messages', two, kept)
    BY <1>2, <1>5, <2>1, JoinIs
  <2>3. 1 \in 1..2 /\ 2 \in 1..2 /\ Len(messages') = 2 + k
    BY <2>1, <2>2 DEF Joined, k
  <2>4. \A i \in 1..k : messages'[2 + i] = kept[i]
    BY <2>1, <2>2 DEF Joined, k
  <2>5. k + 2 = 2 + k /\ \A i \in 1..k : i + 2 = 2 + i
    BY <1>5
  <2> QED BY <2>1, <2>2, <2>3, <2>4, <2>5 DEF Joined
<1>7. \A x \in rewound : x < nextId /\ x # nextId /\ x # nextId + 1 /\ x < nextId + 2
  <2> TAKE x \in rewound
  <2>1. x < nextId /\ x \in Int
    BY <1>0, <1>1, HistoryAssumption DEF Settlement
  <2> QED BY <1>3, <2>1
<1>8. ASSUME NEW j \in 1..Len(rows)
      PROVE  /\ rows[j].id < nextId /\ rows[j].parent < nextId
             /\ rows[j].id # nextId /\ rows[j].id # nextId + 1
  <2>1. rows[j].id < nextId /\ rows[j].parent < nextId
    BY <1>0 DEF Numbered
  <2>2. rows[j].id \in Int
    BY <1>1, TableIs, Fields, HistoryAssumption DEF Id
  <2> QED BY <1>3, <2>1, <2>2
<1>9. Compaction(rows, b, s, kept)
  <2>1. IdsOf(rows) = {rows[i].id : i \in 1..Len(rows)}
    BY <1>1, TableIs
  <2>2. b.id \notin IdsOf(rows) /\ s.id \notin IdsOf(rows)
    BY <1>4, <1>8, <2>1
  <2>3. s.id # b.id
    BY <1>3, <1>4
  <2>4. \A i \in 1..k : kept[i].id # b.id /\ kept[i].id # s.id
    <3> TAKE i \in 1..k
    <3>1. kept[i].id < nextId /\ kept[i].id \in Int
      BY <1>5
    <3> QED BY <1>3, <1>4, <3>1
  <2>5. Distinct(kept)
    BY DEF Keepable, Kept
  <2> QED BY <1>3, <1>4, <1>5, <2>2, <2>3, <2>4, <2>5 DEF Compaction, k
<1>10. ASSUME ~strayed'
       PROVE  /\ KeepsFork(forkParent, kept)
              /\ \A f : KeepsFork(f, kept) => Settled(rows', messages', Len(messages'), f, rewound)
  <2>1. ~strayed /\ ForkPointKept(kept) /\ rows' = RecordCompact(rows, b, s, kept)
    BY <1>1, <1>2, <1>10
  <2>2. KeepsFork(forkParent, kept)
    BY <2>1 DEF KeepsFork, ForkPointKept, Last
  <2>3. \A j \in 1..Len(rows) : rows[j].id < b.id /\ rows[j].parent < b.id
    BY <1>4, <1>8
  <2>4. b.id \notin rewound /\ s.id \notin rewound
    BY <1>4, <1>7
  <2>5. b.id < s.id
    BY <1>3, <1>4
  <2>6. Recorded(rows, b, s, kept, messages', rewound)
    <3>1. /\ \A i \in 1..Len(kept) : kept[i].kind # "boundary" /\ kept[i].id \notin rewound
          /\ kept # <<>> => kept[1].kind = "assistant"
      BY <2>1 DEF Keepable
    <3> QED BY <1>1, <1>6, <1>9, <2>3, <2>4, <2>5, <3>1 DEF Recorded, k, none
  <2>7. PICK l, e : Compacted(rows', rows, b, s, kept, l, e)
    BY <1>1, <1>9, <2>1, RecordCompactIs
  <2>8. rows' \in Table
    BY <1>1, <1>9, <2>7, CompactedTable
  <2>9. ASSUME NEW f, KeepsFork(f, kept)
        PROVE  Settled(rows', messages', Len(messages'), f, rewound)
    BY <2>6, <2>7, <2>8, <2>9, CompactedSettled
  <2> QED BY <2>2, <2>9
<1>11. messages'[2].kind = "summary"
  BY <1>4, <1>6
<1> QED BY <1>2, <1>5, <1>6, <1>7, <1>10, <1>11 DEF k

\* What a compaction does: nothing, or it keeps the messages from f on.
LEMMA CompactIs ==
  ASSUME SettledInv, Compact
  PROVE  \/ Noop
         \/ \E kept : \E f \in 1..(Len(messages) + 1) :
              /\ Keepable(kept) /\ Replace(kept) /\ Len(kept) = Len(messages) - f + 1
              /\ \A i \in 1..Len(kept) : kept[i] = messages[f + i - 1]
<1>0. HistoryInv /\ TypeOK /\ Settlement
  BY DEF SettledInv, HistoryInv
<1>1. messages \in Seq(Messages) /\ Len(messages) \in Nat /\ cursor \in 0..Len(messages)
  BY <1>0, TypeIs, LenProperties
<1>3. CASE KeepTail
  <2> DEFINE n == Len(messages)
  <2>1. PICK f \in GroupStarts \ {1} : Replace(SubSeq(messages, f, n))
    BY <1>3 DEF KeepTail
  <2>2. f \in 2..n /\ messages[f].kind = "assistant"
    <3>1. f \in DOMAIN messages /\ f # 1 /\ messages[f].kind = "assistant"
      BY <2>1 DEF GroupStarts
    <3>2. DOMAIN messages = 1..n
      BY <1>1, LenProperties
    <3> QED BY <1>1, <3>1, <3>2
  <2> DEFINE kept == SubSeq(messages, f, n)
             m == n - f + 1
  <2>3. Kept(kept)
    BY <1>0, <2>2, TailKept
  <2>4. /\ Len(kept) = m
        /\ \A i \in 1..m : kept[i] = messages[f + i - 1] /\ f + i - 1 \in f..n
    <3>1. f \in 1..(n + 1) /\ n \in 0..n /\ f <= n + 1
      BY <1>1, <2>2
    <3> QED BY <1>0, <3>1, PartIs
  <2>5. 1 \in 1..m /\ f + 1 - 1 = f
    BY <1>1, <2>2
  <2>6. kept[1].kind = "assistant"
    BY <2>2, <2>4, <2>5
  <2>7. ~strayed => \A i \in 1..m : kept[i].kind # "boundary" /\ kept[i].id \notin rewound
    <3> SUFFICES ASSUME ~strayed, NEW i \in 1..m
                 PROVE  kept[i].kind # "boundary" /\ kept[i].id \notin rewound
      OBVIOUS
    <3>1. kept[i] = messages[f + i - 1] /\ f + i - 1 \in 2..n
      BY <1>1, <2>2, <2>4
    <3>2. messages[f + i - 1].kind # "boundary" /\ messages[f + i - 1].id \notin rewound
      BY <3>1, NothingRewound
    <3> QED BY <3>1, <3>2
  <2> HIDE DEF kept, m
  <2>8. Replace(kept)
    BY <2>1 DEF kept
  <2>9. Keepable(kept)
    BY <2>3, <2>4, <2>6, <2>7 DEF Keepable
  <2>10. f \in 1..(n + 1)
    BY <1>1, <2>2
  <2>11. Len(kept) = n - f + 1 /\ \A i \in 1..Len(kept) : kept[i] = messages[f + i - 1]
    BY <2>4 DEF m
  <2> QED BY <2>8, <2>9, <2>10, <2>11
<1>4. CASE KeepNothing
  <2> DEFINE f == Len(messages) + 1
  <2>1. Replace(<<>>)
    BY <1>4 DEF KeepNothing
  <2>2. Keepable(<<>>) /\ \A i \in 1..Len(<<>>) : FALSE
    BY DEF Keepable, Kept, Distinct
  <2>3. f \in 1..(Len(messages) + 1) /\ Len(<<>>) = Len(messages) - f + 1
    BY <1>1
  <2> QED BY <2>1, <2>2, <2>3
<1> QED BY <1>3, <1>4 DEF Compact

\* Any compaction.
LEMMA CompactSettled ==
  ASSUME SettledInv, Compact
  PROVE  Settlement'
<1>0. TypeOK /\ Settlement
  BY DEF SettledInv, HistoryInv
<1>1. messages \in Seq(Messages) /\ Len(messages) \in Nat /\ cursor \in 0..Len(messages)
  BY <1>0, TypeIs, LenProperties
<1>2. UNCHANGED <<forkParent, rewound>>
  BY DEF Compact
<1>3. ASSUME NEW kept, Keepable(kept), Replace(kept) PROVE Settlement'
  <2>1. /\ Len(messages') = Len(kept) + 2 /\ Len(kept) \in Nat /\ messages'[2].kind = "summary"
        /\ cursor' = Len(messages') /\ \A x \in rewound : x < nextId'
        /\ ~strayed' => Settled(rows', messages', Len(messages'), forkParent, rewound)
    BY <1>2, <1>3, ReplacedIs
  <2>2. 2 \in 1..Len(messages') /\ (cursor' + 1)..Len(messages') = {}
    BY <2>1
  <2> QED BY <1>2, <2>1, <2>2 DEF Settlement
<1>5. CASE Noop
  <2>1. /\ cursor' = Len(messages) /\ UNCHANGED <<rows, messages, nextId>>
        /\ ~strayed' => ~strayed /\ cursor = Len(messages)
    BY <1>5 DEF Noop
  <2>2. (cursor' + 1)..Len(messages') = {}
    BY <1>1, <2>1
  <2>3. ~strayed' => Settled(rows', messages', cursor', forkParent', rewound')
    <3> SUFFICES ASSUME ~strayed' PROVE Settled(rows', messages', cursor', forkParent', rewound')
      OBVIOUS
    <3>1. cursor' = cursor /\ Settled(rows, messages, cursor, forkParent, rewound)
      BY <1>0, <2>1 DEF Settlement
    <3> QED BY <1>2, <2>1, <3>1
  <2> QED BY <1>0, <1>2, <2>1, <2>2, <2>3 DEF Settlement
<1> QED BY <1>3, <1>5, CompactIs

\* A rewind.
LEMMA CutSettled ==
  ASSUME SettledInv, NEW i \in DOMAIN messages, RewindTo(i), UNCHANGED <<rows, nextId>>
  PROVE  Settlement'
<1> DEFINE n == Len(messages)
           m == i - 1
           cut == {messages[x].id : x \in i..n}
<1>0. TypeOK /\ Numbered /\ MessagesOK /\ TableOK /\ Settlement
  BY DEF SettledInv, HistoryInv
<1>1. /\ rows \in Table /\ messages \in Seq(Messages) /\ cursor \in 0..n /\ strayed \in BOOLEAN
      /\ n \in Nat /\ i \in 1..n
  BY <1>0, TypeIs, LenProperties
<1>2. m \in Nat /\ m \in 0..n /\ m < n /\ cursor \in Nat
  BY <1>1
<1>3. /\ Len(messages') = m /\ \A j \in 1..m : messages'[j] = messages[j] /\ j \in 1..n
      /\ messages' \in Seq(Messages)
  <2>1. 1 \in 1..(n + 1) /\ m \in 0..n /\ 1 <= m + 1 /\ m - 1 + 1 = m
    BY <1>1, <1>2
  <2> DEFINE part == SubSeq(messages, 1, m)
  <2>2. /\ part \in Seq(Messages) /\ Len(part) = m
        /\ \A j \in 1..m : part[j] = messages[1 + j - 1] /\ 1 + j - 1 \in 1..n
    BY <1>0, <2>1, PartIs
  <2>3. \A j \in 1..m : 1 + j - 1 = j
    OBVIOUS
  <2>4. messages' = part
    BY DEF RewindTo
  <2> HIDE DEF part
  <2> QED BY <2>2, <2>3, <2>4
<1>4. IdsOf(SubSeq(messages, i, n)) = cut
  <2> DEFINE gone == SubSeq(messages, i, n)
             q == n - i + 1
  <2>1. i \in 1..(n + 1) /\ n \in 0..n /\ i <= n + 1
    BY <1>1
  <2>2. /\ gone \in Seq(Messages) /\ Len(gone) = q
        /\ \A j \in 1..q : gone[j] = messages[i + j - 1] /\ i + j - 1 \in i..n
    BY <1>0, <2>1, PartIs
  <2>3. DOMAIN gone = 1..q
    BY <2>2, LenProperties
  <2>4. \A x \in i..n : x - i + 1 \in 1..q /\ i + (x - i + 1) - 1 = x
    BY <1>1
  <2> HIDE DEF gone, q
  <2>5. \A x \in i..n : \E j \in 1..q : gone[j] = messages[x]
    <3> TAKE x \in i..n
    <3>1. gone[x - i + 1] = messages[x] /\ x - i + 1 \in 1..q
      BY <2>2, <2>4
    <3> QED BY <3>1
  <2>6. IdsOf(gone) = {gone[j].id : j \in 1..q}
    BY <2>3 DEF IdsOf
  <2>7. \A j \in 1..q : gone[j].id \in cut
    BY <2>2
  <2>8. \A x \in i..n : messages[x].id \in {gone[j].id : j \in 1..q}
    BY <2>5
  <2> QED BY <2>6, <2>7, <2>8 DEF gone
<1>5. /\ messages[i].kind = "user"
      /\ \/ m < cursor /\ forkParent' = (IF i > 1 THEN messages[i - 1].id ELSE None) /\ cursor' = m
         \/ ~(m < cursor) /\ forkParent' = forkParent /\ cursor' = cursor
      /\ rewound' = rewound \cup cut
      /\ ~strayed' => ~strayed /\ ~(i = 1 /\ cursor > 0)
  BY <1>1, <1>4 DEF RewindTo
<1> HIDE DEF cut
<1>6. \A x \in rewound' : x < nextId
  <2>1. \A x \in i..n : x \in 1..n
    BY <1>1
  <2>2. \A x \in i..n : messages[x].id < nextId
    BY <1>0, <2>1 DEF Numbered
  <2> QED BY <1>0, <1>5, <2>2 DEF Settlement, cut
<1>7. \A x \in (cursor' + 1)..m : messages'[x].id \notin rewound'
  <2> SUFFICES ASSUME NEW x \in (cursor' + 1)..m PROVE messages'[x].id \notin rewound'
    OBVIOUS
  <2>1. cursor' = cursor
    BY <1>2, <1>5
  <2>2. x \in (cursor + 1)..n /\ x \in 1..m /\ x \in 1..n /\ x < i
    BY <1>1, <1>2, <2>1
  <2>3. messages'[x] = messages[x] /\ messages[x].id \notin rewound
    BY <1>0, <1>3, <2>2 DEF Settlement
  <2>4. messages[x].id \notin cut
    <3> SUFFICES ASSUME NEW y \in i..n, messages[y].id = messages[x].id PROVE FALSE
      BY DEF cut
    <3>1. y \in 1..n /\ x # y
      BY <1>1, <2>2
    <3> QED BY <1>0, <2>2, <3>1 DEF MessagesOK, Distinct
  <2> QED BY <1>5, <2>3, <2>4
<1>8. ASSUME messages' # <<>>, messages'[1].id = None
      PROVE  2 \in 1..m /\ messages'[2].kind = "summary"
  <2>1. m # 0
    BY <1>3, <1>8, EmptySeq
  <2>2. 1 \in 1..m /\ 1 \in 1..n
    BY <1>2, <2>1
  <2>3. messages[1].id = None /\ messages # <<>>
    BY <1>1, <1>3, <1>8, <2>2, EmptySeq
  <2>4. messages[2].kind = "summary"
    BY <1>0, <2>3 DEF Settlement
  <2>5. i # 2
    BY <1>5, <2>4
  <2>6. 2 \in 1..m
    BY <1>1, <2>2, <2>5
  <2> QED BY <1>3, <2>4, <2>6
<1>9. ASSUME ~strayed' PROVE Settled(rows, messages', cursor', forkParent', rewound')
  <2>1. ~strayed /\ ~(i = 1 /\ cursor > 0)
    BY <1>5, <1>9
  <2>2. Settled(rows, messages, cursor, forkParent, rewound)
    BY <1>0, <2>1 DEF Settlement
  <2>3. Talk(rows, messages, cursor)
    BY TalkIs
  <2> DEFINE d == IF m < cursor THEN m ELSE cursor
             h == IF m < cursor THEN messages[m].id ELSE forkParent
  <2>4. Settled(rows, messages', d, h, rewound \cup cut)
    <3>1. \A x \in 1..(i - 1) : messages'[x] = messages[x]
      BY <1>3
    <3> QED BY <1>1, <1>5, <2>1, <2>2, <2>3, <3>1, RewindSettled DEF cut
  <2>5. cursor' = d /\ forkParent' = h
    <3>1. m < cursor => i > 1
      BY <1>1, <2>1
    <3> QED BY <1>5, <3>1
  <2> HIDE DEF d, h
  <2> QED BY <1>5, <2>4, <2>5
<1> QED BY <1>3, <1>6, <1>7, <1>8, <1>9 DEF Settlement

\* The conversation is read back from a table.
LEMMA ReadSettled ==
  ASSUME rows' \in Table, SegOK(rows'), Rooted(rows'),
         messages' = ToEngine(LoadChain(rows')), cursor' = Len(messages'),
         \A x \in rewound' : x < nextId',
         ~strayed' => Settled(rows', messages', Len(messages'), forkParent', rewound')
  PROVE  Settlement'
<1> DEFINE c == LoadChain(rows')
<1>1. c \in Table
  BY LoadChainIs
<1> HIDE DEF c
<1>2. messages' = ToEngine(c)
  BY DEF c
<1>3. /\ messages' \in Seq(Messages) /\ Len(messages') = Len(c) /\ Len(c) \in Nat
      /\ \A i \in 1..Len(c) : messages'[i].id \in Id
  BY <1>1, <1>2, ToEngineIs, TableIs
<1>4. messages' # <<>> => messages'[1].id # None
  <2>1. messages' # <<>> => 1 \in 1..Len(c)
    BY <1>3, EmptySeq
  <2> QED BY <1>3, <2>1 DEF Id, None
<1>5. (cursor' + 1)..Len(messages') = {}
  BY <1>3
<1> QED BY <1>4, <1>5 DEF Settlement

\* A step of the model.
LEMMA StepSettled ==
  ASSUME SettledInv, [Next]_vars
  PROVE  SettledInv'
<1>0. HistoryInv /\ TypeOK /\ TableOK /\ Numbered /\ Settlement
  BY DEF SettledInv, HistoryInv
<1>00. HistoryInv'
  BY <1>0, StepInv
<1>01. rows' \in Table /\ SegOK(rows') /\ Rooted(rows')
  BY <1>00 DEF HistoryInv, TableOK
<1>1. rows \in Table /\ SegOK(rows) /\ Rooted(rows) /\ cursor \in Nat
  <2>1. messages \in Seq(Messages) /\ Len(messages) \in Nat /\ cursor \in 0..Len(messages)
    BY <1>0, TypeIs, LenProperties
  <2> QED BY <1>0, <2>1 DEF TableOK
<1>2. <<"user">> \in Seq(Kinds) /\ <<"injected">> \in Seq(Kinds) /\ <<"assistant">> \in Seq(Kinds)
      /\ <<"assistant", "injected">> \in Seq(Kinds)
  BY DEF Kinds
<1> SUFFICES Settlement'
  BY <1>00 DEF SettledInv
<1>5. CASE Ask
  BY <1>2, <1>5, AppendSettled DEF Ask, stored, past
<1>6. CASE ProcessAttachments
  BY <1>2, <1>6, AppendSettled DEF ProcessAttachments, stored, past
<1>7. CASE CallLLM \/ RecoverFails \/ AbortEarly
  BY <1>0, <1>7, IdleSettled DEF CallLLM, RecoverFails, AbortEarly, past
<1>8. CASE PersistEntry \/ PersistBoundary \/ PersistExit
  <2>1. PersistNewMessages /\ UNCHANGED <<messages, nextId, rewound, strayed>>
    BY <1>8 DEF PersistEntry, PersistBoundary, PersistExit, Persist, past
  <2>2. CASE SweepNothing \/ SweepFails
    BY <1>0, <2>1, <2>2, IdleSettled DEF SweepNothing, SweepFails, stored
  <2>3. CASE SweepStores
    BY <1>01, <2>1, <2>3, SweepSettled
  <2> QED BY <2>1, <2>2, <2>3 DEF PersistNewMessages
<1>9. CASE AutoCompact \/ ReactiveCompact \/ RecoverCompact \/ ManualCompact
  BY <1>9, CompactSettled DEF AutoCompact, ReactiveCompact, RecoverCompact, ManualCompact
<1>10. CASE RunTools \/ PartialResponse \/ ContinueTurn \/ WindowExceeded \/ Finish
  <2>1. PICK to \in Phases, ks \in {<<"assistant">>, <<"assistant", "injected">>} : Respond(to, ks)
    BY <1>10 DEF Phases, RunTools, PartialResponse, ContinueTurn, WindowExceeded, Finish
  <2>2. /\ AppendNew(ks) /\ ks \in Seq(Kinds)
        /\ UNCHANGED <<rows, cursor, forkParent, rewound, strayed>>
    BY <1>2, <2>1 DEF Respond, stored, past
  <2> QED BY <2>2, AppendSettled
<1>11. CASE Rewind \/ AutoRewind
  <2>1. UNCHANGED <<rows, nextId>>
    BY <1>11 DEF Rewind, AutoRewind
  <2>2. \E i \in DOMAIN messages : RewindTo(i)
    <3>1. CASE Rewind
      BY <3>1 DEF Rewind
    <3>2. CASE AutoRewind
      BY <3>2 DEF AutoRewind
    <3> QED BY <1>11, <3>1, <3>2
  <2> QED BY <2>1, <2>2, CutSettled
<1>12. CASE ForkSession
  <2>1. /\ rows' = CopyToFork(rows) /\ messages' = ToEngine(LoadChain(rows'))
        /\ cursor' = Len(messages') /\ forkParent' = None /\ UNCHANGED <<nextId, rewound>>
        /\ ~strayed' => ForkIsClean
    BY <1>12 DEF ForkSession
  <2>2. ASSUME ~strayed' PROVE Settled(rows', messages', Len(messages'), forkParent', rewound')
    <3>1. rewound \cap IdsOf(rows) = {} /\ HasAll(rows)
      <4>1. DOMAIN rows = 1..Len(rows)
        BY <1>1, TableIs
      <4> QED BY <2>1, <2>2, <4>1 DEF ForkIsClean, HasAll, Newest
    <3>2. Settled(rows', messages', Len(messages'), None, rewound)
      BY <1>1, <2>1, <3>1, ForkSettled
    <3> QED BY <2>1, <3>2
  <2>3. \A x \in rewound' : x < nextId'
    BY <1>0, <2>1 DEF Settlement
  <2> QED BY <1>01, <2>1, <2>2, <2>3, ReadSettled
<1>13. CASE Restart
  <2>1. /\ rows' = rows /\ messages' = ToEngine(LoadChain(rows))
        /\ cursor' = Len(messages') /\ forkParent' = None /\ nextId' = nextId
        /\ rewound' = rewound \ IdsOf(messages') /\ strayed' = strayed
    BY <1>13 DEF Restart
  <2>2. ASSUME ~strayed' PROVE Settled(rows', messages', Len(messages'), forkParent', rewound')
    <3>1. Settled(rows, messages, cursor, forkParent, rewound)
      BY <1>0, <2>1, <2>2 DEF Settlement
    <3>2. Settled(rows, messages', Len(messages'), None, rewound \ IdsOf(messages'))
      BY <1>1, <2>1, <3>1, ReloadSettled
    <3> QED BY <2>1, <3>2
  <2>3. \A x \in rewound' : x < nextId'
    BY <1>0, <2>1 DEF Settlement
  <2> QED BY <1>01, <2>1, <2>2, <2>3, ReadSettled
<1>14. CASE UNCHANGED vars
  BY <1>0, <1>14, IdleSettled DEF vars, past
<1> QED BY <1>5, <1>6, <1>7, <1>8, <1>9, <1>10, <1>11, <1>12, <1>13, <1>14 DEF Next

\* The initial state.
LEMMA InitSettled ==
  ASSUME Init
  PROVE  SettledInv
<1>1. HistoryInv
  BY InitInv
<1>2. /\ rows = <<>> /\ messages = <<>> /\ cursor = 0 /\ forkParent = None /\ rewound = {}
  BY DEF Init
<1>3. Settled(rows, messages, cursor, forkParent, rewound)
  BY <1>2 DEF Settled
<1> QED BY <1>1, <1>2, <1>3 DEF SettledInv, Settlement

-----------------------------------------------------------------------------
(* What the invariant says of a reload.                                    *)

\* Two conversations with the same kinds, and the same uuids but for boundaries, read the same.
LEMMA SameShape ==
  ASSUME NEW p, NEW q, NEW n, DOMAIN p = 1..n, DOMAIN q = 1..n,
         \A i \in 1..n : p[i].kind = q[i].kind /\ (p[i].id = q[i].id \/ p[i].kind = "boundary")
  PROVE  Shape(p) = Shape(q)
  BY DEF Shape

\* The chain the next write will extend is the line down to the last stored message.
LEMMA ChainIsLine ==
  ASSUME SettledInv, ~strayed, cursor # 0,
         NEW b, NEW k, NEW g, Held(rows, b, k, g, messages, cursor, forkParent, rewound)
  PROVE  /\ forkParent = None => IsLine(LoadChain(rows), rows, g, cursor)
         /\ forkParent # None => IsLine(ChainOf(LoadMessages(rows), forkParent), rows, g, cursor)
         /\ IsLine(LoadChain(rows), rows, g, k)
<1>1. TypeOK /\ TableOK /\ Settlement
  BY DEF SettledInv, HistoryInv
<1>2. rows \in Table /\ SegOK(rows)
  BY <1>1 DEF TableOK
<1>3. Sealed(rows, forkParent)
  BY <1>1 DEF Settlement, Settled
<1>4. /\ LoadBase(rows, b) /\ Line(rows, b, k, g) /\ LastIsTip(rows, b)
      /\ Matched(rows, k, g, messages, cursor, forkParent, rewound)
  BY DEF Held
<1>5. rows # <<>>
  BY <1>4, EmptySeq DEF Line
<1>6. IsLine(LoadChain(rows), rows, g, k)
  BY <1>2, <1>3, <1>4, <1>5, LoadsLine
<1>7. cursor \in 1..k /\ IF forkParent = None THEN cursor = k ELSE forkParent = rows[g[cursor]].id
  BY <1>4 DEF Matched
<1>8. IsLine(ChainOf(LoadMessages(rows), rows[g[cursor]].id), rows, g, cursor)
  BY <1>2, <1>3, <1>4, <1>5, <1>7, LineIs
<1> QED BY <1>6, <1>7, <1>8

\* What is stored is what the table holds.
LEMMA StoredIsChain ==
  ASSUME SettledInv
  PROVE  SweptIsChain
<1> DEFINE chain == IF forkParent = None THEN LoadChain(rows)
                    ELSE ChainOf(LoadMessages(rows), forkParent)
           part == SubSeq(messages, 1, cursor)
<1>1. TypeOK /\ MessagesOK /\ Settlement
  BY DEF SettledInv, HistoryInv
<1>2. /\ messages \in Seq(Messages) /\ Len(messages) \in Nat /\ cursor \in 0..Len(messages)
      /\ cursor \in Nat
  BY <1>1, TypeIs, LenProperties
<1>3. /\ part \in Seq(Messages) /\ Len(part) = cursor
      /\ \A i \in 1..cursor : part[i] = messages[i] /\ i \in 1..Len(messages)
  <2>1. 1 \in 1..(Len(messages) + 1) /\ 1 <= cursor + 1 /\ cursor - 1 + 1 = cursor
    BY <1>2
  <2>2. /\ part \in Seq(Messages) /\ Len(part) = cursor
        /\ \A i \in 1..cursor : part[i] = messages[1 + i - 1] /\ 1 + i - 1 \in 1..Len(messages)
    BY <1>1, <1>2, <2>1, PartIs
  <2>3. \A i \in 1..cursor : 1 + i - 1 = i
    OBVIOUS
  <2> HIDE DEF part
  <2> QED BY <2>2, <2>3
<1>4. DOMAIN part = 1..cursor
  BY <1>3, LenProperties
<1> HIDE DEF part
<1> SUFFICES ASSUME ~strayed PROVE Shape(chain) = Shape(part)
  BY DEF SweptIsChain, With, part
<1>5. Settled(rows, messages, cursor, forkParent, rewound)
  BY <1>1 DEF Settlement
<1>6. CASE cursor = 0
  <2>1. rows = <<>> /\ forkParent = None
    BY <1>5, <1>6 DEF Settled
  <2>2. chain = <<>>
    BY <2>1 DEF LoadChain
  <2>3. part = <<>>
    BY <1>3, <1>6, EmptySeq
  <2> QED BY <2>2, <2>3
<1>7. CASE cursor # 0
  <2>1. PICK b, k, g : Held(rows, b, k, g, messages, cursor, forkParent, rewound)
    BY <1>5, <1>7 DEF Settled
  <2>2. IsLine(chain, rows, g, cursor)
    BY <1>7, <2>1, ChainIsLine
  <2> HIDE DEF chain
  <2>3. /\ chain \in Table /\ Len(chain) = cursor /\ \A i \in 1..cursor : chain[i] = rows[g[i]]
    BY <2>2 DEF IsLine
  <2>4. DOMAIN chain = 1..cursor
    BY <2>3, TableIs
  <2>5. \A i \in 1..cursor : /\ messages[i].kind = rows[g[i]].kind
                             /\ messages[i].id \in {rows[g[i]].id, None}
    BY <2>1 DEF Held, Matched
  <2>6. \A i \in 1..cursor : messages[i].id = None => messages[i].kind = "boundary"
    BY <1>1, <1>3 DEF MessagesOK
  <2>7. \A i \in 1..cursor : /\ chain[i].kind = part[i].kind
                             /\ chain[i].id = part[i].id \/ chain[i].kind = "boundary"
    BY <1>3, <2>3, <2>5, <2>6
  <2> QED BY <1>4, <2>4, <2>7, SameShape
<1> QED BY <1>6, <1>7

\* What was cut off and is not the conversation's any more is not read back.
LEMMA CutIsSkipped ==
  ASSUME SettledInv
  PROVE  DeadBranchesSkipped
<1> SUFFICES ASSUME ~strayed, forkParent = None, cursor > 0
             PROVE  IdsOf(LoadChain(rows)) \cap rewound = {}
  BY DEF DeadBranchesSkipped
<1>1. TypeOK /\ Settlement
  BY DEF SettledInv, HistoryInv
<1>2. cursor \in Nat
  <2>1. messages \in Seq(Messages) /\ Len(messages) \in Nat /\ cursor \in 0..Len(messages)
    BY <1>1, TypeIs, LenProperties
  <2> QED BY <2>1
<1>3. cursor # 0
  BY <1>2
<1>4. PICK b, k, g : Held(rows, b, k, g, messages, cursor, forkParent, rewound)
  BY <1>1, <1>3 DEF Settlement, Settled
<1>5. LoadChain(rows) \in Table /\ Len(LoadChain(rows)) = cursor
      /\ \A i \in 1..cursor : LoadChain(rows)[i] = rows[g[i]]
  BY <1>3, <1>4, ChainIsLine DEF IsLine
<1>6. \A i \in 1..cursor : rows[g[i]].id \notin rewound
  BY <1>4 DEF Held, Matched
<1>7. IdsOf(LoadChain(rows)) = {LoadChain(rows)[i].id : i \in 1..cursor}
  BY <1>5, TableIs
<1> QED BY <1>5, <1>6, <1>7

\* The invariant, for every behaviour.
LEMMA Unparted == Spec => []SettledInv
<1>1. Init => SettledInv
  BY InitSettled
<1>2. SettledInv /\ [Next]_vars => SettledInv'
  BY StepSettled
<1> QED BY <1>1, <1>2, PTL DEF Spec

\* Whatever order sweeps, compactions, rewinds, forks and crashes come in, and until one of the ways
\* the history variable names has made them part, the stored part of e.messages is the chain the next
\* write will extend.
THEOREM StoredPartIsOnDisk == Spec => []SweptIsChain
<1>1. SettledInv => SweptIsChain
  BY StoredIsChain
<1> QED BY <1>1, Unparted, PTL

\* A reload never shows what a rewind cut off, once the conversation has been continued and stored.
THEOREM RewoundStaysGone == Spec => []DeadBranchesSkipped
<1>1. SettledInv => DeadBranchesSkipped
  BY CutIsSkipped
<1> QED BY <1>1, Unparted, PTL

-----------------------------------------------------------------------------
(* The abstract journal.                                                   *)

Looks == (0..MaxId) \X Kinds

\* A conversation as its reader sees it, message by message.
LEMMA ShapeIs ==
  ASSUME NEW ms \in Seq(Messages)
  PROVE  /\ Shape(ms) \in Seq(Looks) /\ Len(Shape(ms)) = Len(ms) /\ Len(ms) \in Nat
         /\ \A i \in 1..Len(ms) :
              Shape(ms)[i] = <<IF ms[i].kind = "boundary" THEN None ELSE ms[i].id, ms[i].kind>>
<1>1. DOMAIN ms = 1..Len(ms) /\ Len(ms) \in Nat /\ \A i \in 1..Len(ms) : ms[i] \in Messages
  BY LenProperties, ElementOfSeq
<1> DEFINE n == Len(ms)
           look == [i \in 1..n |-> <<IF ms[i].kind = "boundary" THEN None ELSE ms[i].id, ms[i].kind>>]
<1>2. Shape(ms) = look
  BY <1>1 DEF Shape
<1>3. None \in 0..MaxId
  BY HistoryAssumption DEF None
<1>4. \A i \in 1..n : look[i] \in Looks
  BY <1>1, <1>3, Fields DEF Looks
<1>5. look \in [1..n -> Looks]
  BY <1>4
<1>6. look \in Seq(Looks) /\ Len(look) = n
  <2> HIDE DEF look
  <2> QED BY <1>1, <1>5, LenProperties
<1> QED BY <1>1, <1>2, <1>6

\* Reading rows as messages does not change what they look like.
LEMMA ShapeToEngine ==
  ASSUME NEW rs \in Table
  PROVE  Shape(ToEngine(rs)) = Shape(rs)
<1>1. /\ ToEngine(rs) \in Seq(Messages) /\ Len(ToEngine(rs)) = Len(rs)
      /\ \A i \in 1..Len(rs) : ToEngine(rs)[i] = [id |-> rs[i].id, kind |-> rs[i].kind]
      /\ DOMAIN rs = 1..Len(rs)
  BY ToEngineIs, TableIs
<1>2. DOMAIN ToEngine(rs) = 1..Len(rs)
  BY <1>1 DEF ToEngine
<1>3. \A i \in 1..Len(rs) : ToEngine(rs)[i].kind = rs[i].kind /\ ToEngine(rs)[i].id = rs[i].id
  <2> TAKE i \in 1..Len(rs)
  <2>1. ToEngine(rs)[i] = [id |-> rs[i].id, kind |-> rs[i].kind]
    BY <1>1
  <2> QED BY <2>1
<1> QED BY <1>1, <1>2, <1>3, SameShape

\* The n messages from a to e in one conversation and from d to z in another.
Alike(ms, a, e, ps, d, z, n) ==
  /\ ms \in Seq(Messages) /\ ps \in Seq(Messages)
  /\ a \in Nat /\ a >= 1 /\ d \in Nat /\ d >= 1 /\ n \in Nat
  /\ e = a + n - 1 /\ e <= Len(ms) /\ z = d + n - 1 /\ z <= Len(ps)
  /\ \A i \in 1..n : ms[a + i - 1] = ps[d + i - 1]

\* What messages a to e look like.
Look(ms, a, e) == SubSeq(Shape(ms), a, e)

\* Parts that are alike look alike.
LEMMA ShapePart ==
  ASSUME NEW ms, NEW ps, NEW a, NEW e, NEW d, NEW z, NEW n, Alike(ms, a, e, ps, d, z, n)
  PROVE  Look(ms, a, e) = Look(ps, d, z)
<1> DEFINE u == Shape(ms)
           v == Shape(ps)
<1>1. /\ u \in Seq(Looks) /\ Len(u) = Len(ms) /\ Len(ms) \in Nat
      /\ v \in Seq(Looks) /\ Len(v) = Len(ps) /\ Len(ps) \in Nat
      /\ \A i \in 1..Len(ms) : u[i] = <<IF ms[i].kind = "boundary" THEN None ELSE ms[i].id, ms[i].kind>>
      /\ \A i \in 1..Len(ps) : v[i] = <<IF ps[i].kind = "boundary" THEN None ELSE ps[i].id, ps[i].kind>>
  BY ShapeIs DEF Alike
<1> HIDE DEF u, v
<1>2. /\ a \in Nat /\ a >= 1 /\ d \in Nat /\ d >= 1 /\ n \in Nat
      /\ e = a + n - 1 /\ e <= Len(ms) /\ z = d + n - 1 /\ z <= Len(ps)
      /\ \A i \in 1..n : ms[a + i - 1] = ps[d + i - 1]
  BY DEF Alike
<1>3. \A i \in 1..n : a + i - 1 \in 1..Len(ms) /\ d + i - 1 \in 1..Len(ps)
  BY <1>1, <1>2
<1>4. \A i \in 1..n : u[a + i - 1] = v[d + i - 1]
  <2> TAKE i \in 1..n
  <2>1. ms[a + i - 1] = ps[d + i - 1]
    BY <1>2
  <2> QED BY <1>1, <1>3, <2>1
<1>5. /\ SubSeq(u, a, e) \in Seq(Looks) /\ Len(SubSeq(u, a, e)) = n
      /\ \A i \in 1..n : SubSeq(u, a, e)[i] = u[a + i - 1]
  <2>1. a \in Int /\ e \in Int /\ e - a + 1 = n /\ (~(a <= e) => n = 0)
    BY <1>2
  <2>2. \A i \in a..e : u[i] \in Looks
    <3>1. \A i \in a..e : i \in 1..Len(u)
      BY <1>1, <1>2
    <3> QED BY <1>1, <3>1, ElementOfSeq
  <2>3. /\ SubSeq(u, a, e) \in Seq(Looks) /\ Len(SubSeq(u, a, e)) = (IF a <= e THEN e - a + 1 ELSE 0)
        /\ \A i \in 1..(e - a + 1) : SubSeq(u, a, e)[i] = u[a + i - 1]
    BY <2>1, <2>2, SubSeqProperties
  <2> QED BY <2>1, <2>3
<1>6. /\ SubSeq(v, d, z) \in Seq(Looks) /\ Len(SubSeq(v, d, z)) = n
      /\ \A i \in 1..n : SubSeq(v, d, z)[i] = v[d + i - 1]
  <2>1. d \in Int /\ z \in Int /\ z - d + 1 = n /\ (~(d <= z) => n = 0)
    BY <1>2
  <2>2. \A i \in d..z : v[i] \in Looks
    <3>1. \A i \in d..z : i \in 1..Len(v)
      BY <1>1, <1>2
    <3> QED BY <1>1, <3>1, ElementOfSeq
  <2>3. /\ SubSeq(v, d, z) \in Seq(Looks) /\ Len(SubSeq(v, d, z)) = (IF d <= z THEN z - d + 1 ELSE 0)
        /\ \A i \in 1..(z - d + 1) : SubSeq(v, d, z)[i] = v[d + i - 1]
    BY <2>1, <2>2, SubSeqProperties
  <2> QED BY <2>1, <2>3
<1> DEFINE U == SubSeq(u, a, e)
           V == SubSeq(v, d, z)
<1>7. /\ U \in Seq(Looks) /\ V \in Seq(Looks) /\ Len(U) = Len(V)
      /\ \A i \in 1..Len(U) : U[i] = V[i]
  BY <1>4, <1>5, <1>6
<1> HIDE DEF U, V
<1>8. U = V
  BY <1>7, SeqEqual
<1> QED BY <1>8 DEF U, V, u, v, Look

\* A shorter beginning looks like one.
LEMMA ShapePrefix ==
  ASSUME NEW ms \in Seq(Messages), NEW ps \in Seq(Messages), Len(ps) < Len(ms),
         \A i \in 1..Len(ps) : ps[i] = ms[i]
  PROVE  IsStrictPrefix(Shape(ps), Shape(ms))
<1> DEFINE n == Len(ps)
<1>1. /\ Len(Shape(ps)) = n /\ n \in Nat /\ Len(Shape(ms)) = Len(ms) /\ Len(ms) \in Nat
  BY ShapeIs
<1>2. Alike(ps, 1, n, ms, 1, n, n)
  <2>1. 1 + n - 1 = n /\ n <= Len(ms) /\ \A i \in 1..n : 1 + i - 1 = i
    BY <1>1
  <2> QED BY <1>1, <2>1 DEF Alike
<1>3. Look(ps, 1, n) = Look(ms, 1, n)
  BY <1>2, ShapePart
<1>4. SubSeq(Shape(ps), 1, n) = SubSeq(Shape(ms), 1, n)
  BY <1>3 DEF Look
<1>5. n <= Len(ms) /\ n # Len(ms)
  BY <1>1
<1> QED BY <1>1, <1>4, <1>5 DEF IsStrictPrefix, IsPrefix

\* Messages that are all stored, with nothing to come between, are what a reload shows.
LEMMA ReadsBack ==
  ASSUME NEW rs \in Table, SegOK(rs), NEW ms \in Seq(Messages),
         \A i \in 1..Len(ms) : ms[i].id = None => ms[i].kind = "boundary",
         NEW rw, Settled(rs, ms, Len(ms), None, rw)
  PROVE  Shape(LoadChain(rs)) = Shape(ms)
<1> DEFINE n == Len(ms)
           ch == LoadChain(rs)
<1>1. n \in Nat /\ DOMAIN ms = 1..n
  BY LenProperties
<1>2. CASE n = 0
  <2>1. rs = <<>> /\ ms = <<>>
    BY <1>2, EmptySeq DEF Settled
  <2> QED BY <2>1 DEF LoadChain
<1>3. CASE n # 0
  <2>1. Sealed(rs, None) /\ \E b, k, g : Held(rs, b, k, g, ms, n, None, rw)
    BY <1>3 DEF Settled
  <2>2. PICK b, k, g : Held(rs, b, k, g, ms, n, None, rw)
    BY <2>1
  <2>3. rs # <<>>
    BY <2>2, EmptySeq DEF Held, Line
  <2>4. IsLine(ch, rs, g, k)
    BY <2>1, <2>2, <2>3, LoadsLine DEF Held
  <2>5. n = k /\ \A i \in 1..n : ms[i].kind = rs[g[i]].kind /\ ms[i].id \in {rs[g[i]].id, None}
    BY <2>2 DEF Held, Matched
  <2> HIDE DEF ch, n
  <2>6. ch \in Table /\ Len(ch) = n /\ \A i \in 1..n : ch[i] = rs[g[i]]
    BY <2>4, <2>5 DEF IsLine
  <2>7. DOMAIN ch = 1..n
    BY <2>6, TableIs
  <2>8. \A i \in 1..n : ch[i].kind = ms[i].kind /\ (ch[i].id = ms[i].id \/ ch[i].kind = "boundary")
    <3> TAKE i \in 1..n
    <3>1. ms[i].id = None => ms[i].kind = "boundary"
      BY DEF n
    <3> QED BY <2>5, <2>6, <3>1
  <2>9. Shape(ch) = Shape(ms)
    BY <1>1, <2>7, <2>8, SameShape DEF n
  <2> QED BY <2>9 DEF ch
<1> QED BY <1>2, <1>3

\* g lists the numbers from b to m, ascending.
Lists(g, k, b, m) ==
  /\ b \in Nat /\ m \in Nat /\ k \in Nat /\ g \in [1..k -> b..m]
  /\ \A i, j \in 1..k : i < j => g[i] < g[j]
  /\ \A j \in b..m : \E i \in 1..k : g[i] = j

\* Ascending positions that leave none out are consecutive.
LEMMA Consecutive ==
  ASSUME NEW b, NEW m, NEW k, NEW g, Lists(g, k, b, m)
  PROVE  \A i \in 1..k : g[i] = b + (i - 1)
<1>0. /\ b \in Nat /\ m \in Nat /\ k \in Nat /\ g \in [1..k -> b..m]
      /\ \A i, j \in 1..k : i < j => g[i] < g[j]
      /\ \A j \in b..m : \E i \in 1..k : g[i] = j
  BY DEF Lists
<1> DEFINE S == {i \in 0..k : i = 0 \/ g[i] = b + (i - 1)}
<1>1. 0 \in S
  BY <1>0
<1>2. ASSUME NEW i \in 1..k, i - 1 \in S PROVE i \in S
  <2>1. \A x \in 1..k : g[x] \in Nat /\ g[x] >= b /\ g[x] <= m
    BY <1>0
  <2>2. i = 1 \/ (i - 1 \in 1..k /\ g[i - 1] = b + (i - 2))
    BY <1>0, <1>2
  <2>3. g[i] >= b + (i - 1)
    <3>1. CASE i = 1
      BY <1>0, <2>1, <3>1
    <3>2. CASE i # 1
      <4>1. i - 1 \in 1..k /\ g[i - 1] = b + (i - 2) /\ i - 1 < i
        BY <1>0, <2>2, <3>2
      <4>2. g[i - 1] < g[i]
        BY <1>0, <4>1
      <4>3. g[i] \in Nat
        BY <2>1
      <4> QED BY <1>0, <4>1, <4>2, <4>3
    <3> QED BY <3>1, <3>2
  <2>4. ASSUME g[i] # b + (i - 1) PROVE FALSE
    <3>1. g[i] > b + (i - 1) /\ b + (i - 1) \in b..m
      <4>1. g[i] \in Nat /\ g[i] >= b /\ g[i] <= m /\ i \in Nat /\ i >= 1
        BY <1>0, <2>1
      <4> QED BY <1>0, <2>3, <2>4, <4>1
    <3>2. PICK x \in 1..k : g[x] = b + (i - 1)
      BY <1>0, <3>1
    <3>3. CASE x >= i
      <4>1. x = i \/ i < x
        BY <1>0, <3>3
      <4>2. g[i] <= g[x]
        BY <1>0, <2>1, <4>1
      <4> QED BY <1>0, <2>1, <3>1, <3>2, <4>2
    <3>4. CASE x < i
      <4>1. i - 1 \in 1..k /\ g[i - 1] = b + (i - 2) /\ (x = i - 1 \/ x < i - 1)
        BY <1>0, <2>2, <3>4
      <4>2. g[x] <= g[i - 1]
        BY <1>0, <2>1, <4>1
      <4> QED BY <1>0, <2>1, <3>2, <4>1, <4>2
    <3> QED BY <1>0, <3>3, <3>4
  <2> QED BY <1>0, <2>4
<1> HIDE DEF S
<1>3. \A i \in 0..k : i \in S
  BY <1>0, <1>1, <1>2, UpTo
<1>4. \A i \in 1..k : i \in 0..k /\ i # 0
  OBVIOUS
<1> QED BY <1>3, <1>4 DEF S

\* Forking a table without dead branches does not change what is read back.
LEMMA ForkShows ==
  ASSUME NEW rs \in Table, SegOK(rs), Rooted(rs), HasAll(rs),
         NEW ms, NEW c, NEW f, NEW rw, rw \cap IdsOf(rs) = {}, Settled(rs, ms, c, f, rw)
  PROVE  Shape(LoadChain(CopyToFork(rs))) = Shape(LoadChain(rs))
<1> DEFINE R == CopyToFork(rs)
           m == Len(rs)
<1>1. /\ R \in Table /\ SegOK(R) /\ Len(R) = m /\ m \in Nat
      /\ \A i \in 1..m : /\ R[i].id = rs[i].id /\ R[i].kind = rs[i].kind
                         /\ R[i].seg = IF rs[i].seg = NoSeg THEN NoSeg ELSE Stale
      /\ IdsOf(rs) = {rs[i].id : i \in 1..m}
  BY CopyIs, TableIs
<1>2. CASE c = 0
  <2>1. rs = <<>>
    BY <1>2 DEF Settled
  <2>2. R = <<>>
    BY <1>1, <2>1, EmptySeq, TableIs
  <2> QED BY <2>1, <2>2
<1>3. CASE c # 0
  <2>1. Sealed(rs, f) /\ \E b, k, g : Held(rs, b, k, g, ms, c, f, rw)
    BY <1>3 DEF Settled
  <2>2. PICK b, k, g : Held(rs, b, k, g, ms, c, f, rw)
    BY <2>1
  <2>3. rs # <<>> /\ b \in 1..m
    BY <2>2, EmptySeq DEF Held, Line
  <2>4. IsLine(LoadChain(rs), rs, g, k)
    BY <2>1, <2>2, <2>3, LoadsLine DEF Held
  <2>5. /\ k \in Nat /\ k >= 1 /\ g \in [1..k -> b..m] /\ g[k] = m
        /\ \A i, j \in 1..k : i < j => g[i] < g[j]
    BY <2>2 DEF Held, Line
  <2>6. \A j \in b..m : \E i \in 1..k : g[i] = j
    <3> TAKE j \in b..m
    <3>1. rs[j].id \in rw \/ \E i \in 1..k : g[i] = j
      BY <2>2 DEF Held, Accounted
    <3>2. j \in 1..m
      BY <1>1, <2>3
    <3> QED BY <1>1, <3>1, <3>2
  <2>7. \A i \in 1..k : g[i] = b + (i - 1)
    <3>1. b \in Nat /\ m \in Nat
      BY <1>1, <2>3
    <3>2. k \in Nat /\ g \in [1..k -> b..m] /\ \A i, j \in 1..k : i < j => g[i] < g[j]
      BY <2>5
    <3> HIDE DEF m
    <3>3. \A j \in b..m : \E i \in 1..k : g[i] = j
      BY <2>6
    <3>4. Lists(g, k, b, m)
      BY <3>1, <3>2, <3>3 DEF Lists
    <3> QED BY <3>4, Consecutive
  <2>8. k = m - b + 1
    <3>1. k \in 1..k
      BY <2>5
    <3>2. m = b + (k - 1)
      BY <2>5, <2>7, <3>1
    <3> QED BY <1>1, <2>3, <2>5, <3>2
  <2> HIDE DEF R
  <2>9. PICK a \in 1..m : LoadBase(R, a) /\ \A i \in (a + 1)..m : rs[i].kind # "boundary"
    BY <2>3, ForkBase DEF R
  <2>10. a = b
    <3>1. \A x : Newest(R, x) <=> Newest(rs, x)
      BY <1>1 DEF Newest
    <3>2. \A x \in 1..m : R[x].seg = NoSeg <=> rs[x].seg = NoSeg
      BY <1>1 DEF NoSeg, Stale
    <3>3. LoadBase(rs, a)
      BY <1>1, <2>9, <3>1, <3>2 DEF LoadBase
    <3> QED BY <2>2, <2>3, <3>3, OneBase DEF Held
  <2> DEFINE h == [i \in 1..k |-> b + (i - 1)]
  <2>11. Line(R, b, k, h) /\ LastIsTip(R, b)
    BY <2>8, <2>9, <2>10, ForkLine DEF R
  <2>12. Sealed(R, None)
    BY <1>1 DEF Sealed
  <2>13. R # <<>>
    <3>1. m # 0
      BY <1>1, <2>3
    <3> QED BY <1>1, <3>1, EmptySeq
  <2>14. IsLine(LoadChain(R), R, h, k)
    BY <1>1, <2>9, <2>10, <2>11, <2>12, <2>13, LoadsLine
  <2> DEFINE p == LoadChain(R)
             q == LoadChain(rs)
  <2>15. /\ p \in Table /\ Len(p) = k /\ \A i \in 1..k : p[i] = R[b + (i - 1)]
         /\ q \in Table /\ Len(q) = k /\ \A i \in 1..k : q[i] = rs[b + (i - 1)]
    BY <2>4, <2>7, <2>14 DEF IsLine
  <2>16. \A i \in 1..k : b + (i - 1) \in 1..m
    BY <1>1, <2>3, <2>8
  <2> HIDE DEF p, q, h
  <2>17. DOMAIN p = 1..k /\ DOMAIN q = 1..k
    BY <2>15, TableIs
  <2>18. \A i \in 1..k : p[i].kind = q[i].kind /\ p[i].id = q[i].id
    <3> TAKE i \in 1..k
    <3>1. b + (i - 1) \in 1..m
      BY <2>16
    <3>2. p[i] = R[b + (i - 1)] /\ q[i] = rs[b + (i - 1)]
      BY <2>15
    <3> HIDE DEF m
    <3>3. R[b + (i - 1)].id = rs[b + (i - 1)].id /\ R[b + (i - 1)].kind = rs[b + (i - 1)].kind
      BY <1>1, <3>1
    <3> QED BY <3>2, <3>3
  <2>19. Shape(p) = Shape(q)
    <3> HIDE DEF m
    <3>1. /\ DOMAIN p = 1..k /\ DOMAIN q = 1..k
          /\ \A i \in 1..k : p[i].kind = q[i].kind /\ (p[i].id = q[i].id \/ p[i].kind = "boundary")
      BY <2>17, <2>18
    <3> QED BY <3>1, SameShape
  <2> QED BY <2>19 DEF p, q, R
<1> QED BY <1>2, <1>3

\* What a reload shows, as the journal reads it.
LEMMA DurableIs ==
  With(LoadChain(rows), Shape) = Shape(LoadChain(rows))
  BY DEF With

\* ... and after a step.
LEMMA DurableNext ==
  With(LoadChain(rows'), Shape) = Shape(LoadChain(rows'))
  BY DEF With

\* Messages join the history: the journal speaks.
LEMMA AppendSays ==
  ASSUME SettledInv, NEW ks \in Seq(Kinds), ks # <<>>, AppendNew(ks), UNCHANGED rows
  PROVE  Journaled!Say
<1>1. TypeOK
  BY DEF SettledInv, HistoryInv
<1>2. /\ Len(messages) \in Nat /\ Len(ks) \in Nat
      /\ messages' \in Seq(Messages) /\ Len(messages') = Len(messages) + Len(ks)
      /\ \A i \in 1..Len(messages) : messages'[i] = messages[i]
  BY <1>1, AppendNewIs
<1>3. messages \in Seq(Messages) /\ Len(ks) # 0
  BY <1>1, TypeIs, EmptySeq
<1>4. Len(messages) < Len(messages')
  BY <1>2, <1>3
<1>5. IsStrictPrefix(Shape(messages), Shape(messages'))
  BY <1>2, <1>3, <1>4, ShapePrefix
<1>6. With(LoadChain(rows'), Shape) = With(LoadChain(rows), Shape)
  BY DEF With
<1>7. Journaled!IsStrictPrefix(Shape(messages), Shape(messages'))
  BY <1>5 DEF IsStrictPrefix, IsPrefix, Journaled!IsStrictPrefix, Journaled!IsPrefix
<1> QED BY <1>6, <1>7 DEF Journaled!Say

\* A rewind.
LEMMA CutRewinds ==
  ASSUME SettledInv, NEW i \in DOMAIN messages, RewindTo(i), UNCHANGED rows
  PROVE  Journaled!Rewind
<1> DEFINE n == Len(messages)
           m == i - 1
           part == SubSeq(messages, 1, m)
<1>1. TypeOK
  BY DEF SettledInv, HistoryInv
<1>2. messages \in Seq(Messages) /\ n \in Nat /\ i \in 1..n
  BY <1>1, TypeIs, LenProperties
<1>3. /\ part \in Seq(Messages) /\ Len(part) = m /\ m \in Nat /\ m < n
      /\ \A j \in 1..m : part[j] = messages[j]
  <2>1. 1 \in 1..(n + 1) /\ m \in 0..n /\ 1 <= m + 1 /\ m - 1 + 1 = m
    BY <1>2
  <2>2. /\ part \in Seq(Messages) /\ Len(part) = m
        /\ \A j \in 1..m : part[j] = messages[1 + j - 1]
    BY <1>1, <2>1, PartIs
  <2>3. \A j \in 1..m : 1 + j - 1 = j
    OBVIOUS
  <2> HIDE DEF part
  <2> QED BY <1>2, <2>2, <2>3
<1>4. messages' = part
  BY DEF RewindTo
<1> HIDE DEF part, m
<1>5. IsStrictPrefix(Shape(messages'), Shape(messages))
  BY <1>2, <1>3, <1>4, ShapePrefix
<1>6. With(LoadChain(rows'), Shape) = With(LoadChain(rows), Shape)
  BY DEF With
<1>7. Journaled!IsStrictPrefix(Shape(messages'), Shape(messages))
  BY <1>5 DEF IsStrictPrefix, IsPrefix, Journaled!IsStrictPrefix, Journaled!IsPrefix
<1> QED BY <1>6, <1>7 DEF Journaled!Rewind

\* A sweep.
LEMMA SweepSyncs ==
  ASSUME SettledInv, SettledInv', ~strayed', SweepStores, UNCHANGED messages
  PROVE  Journaled!Sync
<1>1. TypeOK' /\ TableOK' /\ MessagesOK' /\ Settlement'
  BY DEF SettledInv, HistoryInv
<1>2. rows' \in Table /\ SegOK(rows')
  BY <1>1 DEF TableOK
<1>3. messages' = messages /\ cursor' = Len(messages) /\ forkParent' = None
  BY DEF SweepStores
<1>4. messages \in Seq(Messages)
  BY TypeIs DEF SettledInv, HistoryInv
<1>5. \A i \in 1..Len(messages) : messages[i].id = None => messages[i].kind = "boundary"
  BY DEF SettledInv, HistoryInv, MessagesOK
<1>6. Settled(rows', messages, Len(messages), None, rewound')
  BY <1>1, <1>3 DEF Settlement
<1>7. Shape(LoadChain(rows')) = Shape(messages)
  BY <1>2, <1>4, <1>5, <1>6, ReadsBack
<1> QED BY <1>3, <1>7, DurableNext DEF Journaled!Sync

\* A compaction that replaces the conversation.
LEMMA ReplaceCompacts ==
  ASSUME SettledInv, SettledInv', ~strayed', NEW kept, NEW f \in 1..(Len(messages) + 1),
         Keepable(kept), Replace(kept), UNCHANGED <<forkParent, rewound>>,
         Len(kept) = Len(messages) - f + 1,
         \A i \in 1..Len(kept) : kept[i] = messages[f + i - 1]
  PROVE  Journaled!Compact
<1> DEFINE n == Len(messages)
           k == Len(kept)
<1>1. messages \in Seq(Messages) /\ n \in Nat
  BY TypeIs, LenProperties DEF SettledInv, HistoryInv
<1>2. /\ messages' \in Seq(Messages) /\ Len(messages') = k + 2 /\ k \in Nat
      /\ \A i \in 1..k : messages'[i + 2] = kept[i]
      /\ \A h : KeepsFork(h, kept) => Settled(rows', messages', Len(messages'), h, rewound)
  BY ReplacedIs
<1>3. rows' \in Table /\ SegOK(rows')
  BY DEF SettledInv, HistoryInv, TableOK
<1>4. \A i \in 1..Len(messages') : messages'[i].id = None => messages'[i].kind = "boundary"
  BY DEF SettledInv, HistoryInv, MessagesOK
<1>5. Settled(rows', messages', Len(messages'), None, rewound)
  BY <1>2 DEF KeepsFork
<1>6. Shape(LoadChain(rows')) = Shape(messages')
  BY <1>2, <1>3, <1>4, <1>5, ReadsBack
<1>7. Len(Shape(messages')) = k + 2 /\ Len(Shape(messages)) = n
  BY <1>1, <1>2, ShapeIs
<1>8. SubSeq(Shape(messages'), 3, k + 2) = SubSeq(Shape(messages), f, n)
  <2>1. f \in Nat /\ f >= 1 /\ f + k - 1 = n /\ 3 + k - 1 = k + 2
    BY <1>1, <1>2
  <2>2. \A i \in 1..k : 3 + i - 1 = i + 2
    OBVIOUS
  <2>3. \A i \in 1..k : messages'[3 + i - 1] = messages[f + i - 1]
    BY <1>2, <2>2
  <2>4. Alike(messages', 3, k + 2, messages, f, n, k)
    BY <1>1, <1>2, <2>1, <2>3 DEF Alike
  <2>5. Look(messages', 3, k + 2) = Look(messages, f, n)
    BY <2>4, ShapePart
  <2> QED BY <2>5 DEF Look
<1>9. k + 2 >= 2
  BY <1>2
<1> QED BY <1>6, <1>7, <1>8, <1>9, DurableNext DEF Journaled!Compact

\* A step is one of the journal's, or changes neither the conversation nor the table.
LEMMA StepJournaled ==
  ASSUME SettledInv, SettledInv', [Next]_vars, ~strayed'
  PROVE  UNCHANGED <<rows, messages>> \/ Journaled!Next
<1>0. TypeOK /\ TableOK /\ Settlement
  BY DEF SettledInv, HistoryInv
<1>1. rows \in Table /\ SegOK(rows) /\ Rooted(rows)
  BY <1>0 DEF TableOK
<1>2. <<"user">> \in Seq(Kinds) /\ <<"injected">> \in Seq(Kinds) /\ <<"assistant">> \in Seq(Kinds)
      /\ <<"assistant", "injected">> \in Seq(Kinds)
  BY DEF Kinds
<1>22. <<"user">> # <<>> /\ <<"injected">> # <<>> /\ <<"assistant">> # <<>>
       /\ <<"assistant", "injected">> # <<>>
  OBVIOUS
<1>3. ASSUME NEW ks \in {<<"user">>, <<"injected">>, <<"assistant">>, <<"assistant", "injected">>},
             AppendNew(ks), UNCHANGED rows
      PROVE  Journaled!Next
  <2>0. ks = <<"user">> \/ ks = <<"injected">> \/ ks = <<"assistant">>
        \/ ks = <<"assistant", "injected">>
    OBVIOUS
  <2>1. ks \in Seq(Kinds) /\ ks # <<>>
    BY <1>2, <1>22, <2>0
  <2>2. Journaled!Say
    BY <1>3, <2>1, AppendSays
  <2> QED BY <2>2 DEF Journaled!Next
<1>4. CASE Ask \/ ProcessAttachments
  BY <1>3, <1>4 DEF Ask, ProcessAttachments, stored
<1>5. CASE RunTools \/ PartialResponse \/ ContinueTurn \/ WindowExceeded \/ Finish
  <2>1. PICK to \in Phases, ks \in {<<"assistant">>, <<"assistant", "injected">>} : Respond(to, ks)
    BY <1>5 DEF Phases, RunTools, PartialResponse, ContinueTurn, WindowExceeded, Finish
  <2> QED BY <1>3, <2>1 DEF Respond, stored
<1>6. CASE CallLLM \/ RecoverFails \/ AbortEarly \/ UNCHANGED vars
  BY <1>6 DEF CallLLM, RecoverFails, AbortEarly, vars
<1>7. CASE PersistEntry \/ PersistBoundary \/ PersistExit
  <2>1. PersistNewMessages /\ UNCHANGED messages
    BY <1>7 DEF PersistEntry, PersistBoundary, PersistExit, Persist
  <2>2. CASE SweepNothing \/ SweepFails
    BY <2>1, <2>2 DEF SweepNothing, SweepFails, stored
  <2>3. CASE SweepStores
    BY <2>1, <2>3, SweepSyncs DEF Journaled!Next
  <2> QED BY <2>1, <2>2, <2>3 DEF PersistNewMessages
<1>8. CASE AutoCompact \/ ReactiveCompact \/ RecoverCompact \/ ManualCompact
  <2>1. Compact /\ UNCHANGED <<forkParent, rewound>>
    BY <1>8 DEF AutoCompact, ReactiveCompact, RecoverCompact, ManualCompact, Compact
  <2>2. CASE Noop
    BY <2>2 DEF Noop
  <2>3. ASSUME NEW kept, NEW f \in 1..(Len(messages) + 1), Keepable(kept), Replace(kept),
               Len(kept) = Len(messages) - f + 1,
               \A i \in 1..Len(kept) : kept[i] = messages[f + i - 1]
        PROVE  Journaled!Next
    BY <2>1, <2>3, ReplaceCompacts DEF Journaled!Next
  <2> QED BY <2>1, <2>2, <2>3, CompactIs
<1>9. CASE Rewind \/ AutoRewind
  <2>1. UNCHANGED rows
    BY <1>9 DEF Rewind, AutoRewind
  <2>2. \E i \in DOMAIN messages : RewindTo(i)
    <3>1. CASE Rewind
      BY <3>1 DEF Rewind
    <3>2. CASE AutoRewind
      BY <3>2 DEF AutoRewind
    <3> QED BY <1>9, <3>1, <3>2
  <2> QED BY <2>1, <2>2, CutRewinds DEF Journaled!Next
<1>10. ASSUME LoadChain(rows') \in Table, messages' = ToEngine(LoadChain(rows')),
              Shape(LoadChain(rows')) = Shape(LoadChain(rows))
       PROVE  Journaled!Next
  <2>1. Shape(messages') = Shape(LoadChain(rows'))
    BY <1>10, ShapeToEngine
  <2>2. Journaled!Crash
    BY <1>10, <2>1, DurableIs, DurableNext DEF Journaled!Crash
  <2> QED BY <2>2 DEF Journaled!Next
<1>11. LoadChain(rows') \in Table
  <2>1. rows' \in Table /\ SegOK(rows') /\ Rooted(rows')
    BY DEF SettledInv, HistoryInv, TableOK
  <2> QED BY <2>1, LoadChainIs
<1>12. CASE ForkSession
  <2>1. /\ rows' = CopyToFork(rows) /\ messages' = ToEngine(LoadChain(rows'))
        /\ ForkIsClean /\ ~strayed
    BY <1>12 DEF ForkSession
  <2>2. rewound \cap IdsOf(rows) = {} /\ HasAll(rows)
    <3>1. DOMAIN rows = 1..Len(rows)
      BY <1>1, TableIs
    <3> QED BY <2>1, <3>1 DEF ForkIsClean, HasAll, Newest
  <2>3. Settled(rows, messages, cursor, forkParent, rewound)
    BY <1>0, <2>1 DEF Settlement
  <2>4. Shape(LoadChain(rows')) = Shape(LoadChain(rows))
    BY <1>1, <2>1, <2>2, <2>3, ForkShows
  <2> QED BY <1>10, <1>11, <2>1, <2>4
<1>13. CASE Restart
  BY <1>10, <1>11, <1>13 DEF Restart
<1> QED BY <1>4, <1>5, <1>6, <1>7, <1>8, <1>9, <1>12, <1>13 DEF Next

\* At first there is nothing in memory and nothing on disk.
LEMMA InitJournaled ==
  ASSUME Init
  PROVE  Journaled!Init
<1>1. rows = <<>> /\ messages = <<>>
  BY DEF Init
<1>2. LoadChain(rows) = <<>>
  BY <1>1 DEF LoadChain
<1>3. Shape(<<>>) = <<>>
  <2>0. <<>> \in Seq(Messages) /\ Len(<<>>) = 0
    OBVIOUS
  <2>1. Shape(<<>>) \in Seq(Looks) /\ Len(Shape(<<>>)) = 0
    BY <2>0, ShapeIs
  <2> QED BY <2>1, EmptySeq
<1> QED BY <1>1, <1>2, <1>3, DurableIs DEF Journaled!Init

\* Until they part, the conversation in memory and the one a restart would show are an abstract
\* journal: the disk follows by whole writes, and never holds a mixture of two histories.
THEOREM HistoryIsAJournal == Spec => ImplementsJournal
<1>1. Init => Journaled!Init
  BY InitJournaled
<1>2. SettledInv /\ SettledInv' /\ [Next]_vars =>
        [strayed' \/ UNCHANGED <<rows, messages>> \/ [Journaled!Next]_(Journaled!vars)]_vars
  BY StepJournaled
<1> QED BY <1>1, <1>2, Unparted, PTL DEF Spec, ImplementsJournal

\* The types of the history, for any number of messages, crashes, rewinds and compactions.
THEOREM TypeCorrect == Spec => []TypeOK
<1>1. Init => HistoryInv
  BY InitInv
<1>2. HistoryInv /\ [Next]_vars => HistoryInv'
  BY StepInv
<1>3. HistoryInv => TypeOK
  BY DEF HistoryInv
<1> QED BY <1>1, <1>2, <1>3, PTL DEF Spec

\* Following parents in the message table never comes back to a row already seen, whatever order
\* sweeps, failed sweeps, compactions, rewinds, forks and crashes come in.
THEOREM NeverCyclic == Spec => []Acyclic
<1>1. Init => HistoryInv
  BY InitInv
<1>2. HistoryInv /\ [Next]_vars => HistoryInv'
  BY StepInv
<1>3. HistoryInv => Acyclic
  <2> SUFFICES ASSUME HistoryInv, NEW i \in DOMAIN rows
               PROVE  RowOf(rows, Head(PathTo(rows, rows[i].id))).parent
                        \notin ToSet(PathTo(rows, rows[i].id))
    BY DEF Acyclic
  <2>1. rows \in Table /\ Rooted(rows)
    BY DEF HistoryInv, TableOK
  <2>2. rows[i].id \in IdsOf(rows)
    BY <2>1, TableIs
  <2> QED BY <2>1, <2>2, RootedPath
<1> QED BY <1>1, <1>2, <1>3, PTL DEF Spec
=============================================================================
