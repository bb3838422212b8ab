------------------------ MODULE MonitoringEngineProofs ------------------------
(***************************************************************************)
(* What holds of the reports and of what the dashboard is served, for all  *)
(* providers, lists, intervals, reports and ends of the process.           *)
(***************************************************************************)
EXTENDS MonitoringEngine, FoldLemmas

Fields == {"success", "error", "count429"}

Tallies == [Fields -> Nat]

Rows == [provider : Provider, time : Nat, counts : Tallies]

Tables == Seq(Rows)

(* The sums of counts.                                                      *)
LEMMA ZeroIs == Zero \in Tallies /\ \A f \in Fields : Zero[f] = 0
  BY DEF Zero, Tallies, Fields

LEMMA PlusIs ==
  ASSUME NEW a \in Tallies, NEW b \in Tallies
  PROVE  Plus(a, b) \in Tallies /\ \A f \in Fields : Plus(a, b)[f] = a[f] + b[f]
  BY DEF Plus, Tallies

LEMMA PlusZero ==
  ASSUME NEW a \in Tallies
  PROVE  Plus(a, Zero) = a
<1>1. \A f \in Fields : Plus(a, Zero)[f] = a[f] + Zero[f] /\ Zero[f] = 0 /\ a[f] \in Nat
  BY ZeroIs, PlusIs DEF Tallies
<1>2. Plus(a, Zero) \in Tallies
  BY ZeroIs, PlusIs
<1>3. \A f \in Fields : Plus(a, Zero)[f] = a[f]
  BY <1>1
<1> QED
  BY <1>2, <1>3 DEF Tallies

LEMMA OutcomesAre == Outcomes \subseteq Tallies
  BY DEF Outcomes, Tallies, Fields

(* What a table has written of p.                                           *)
CountOf(p) ==
  [x \in Tallies \X Rows |-> IF x[2].provider = p THEN Plus(x[1], x[2].counts) ELSE x[1]]

WrittenIn(p, table) == FoldOf(CountOf(p), Zero, table)

LEMMA CountIs ==
  ASSUME NEW p
  PROVE  /\ CountOf(p) \in [Tallies \X Rows -> Tallies]
         /\ \A k \in Tallies, row \in Rows :
              CountOf(p)[<<k, row>>] = IF row.provider = p THEN Plus(k, row.counts) ELSE k
<1>1. ASSUME NEW k \in Tallies, NEW row \in Rows
      PROVE  Plus(k, row.counts) \in Tallies
  BY PlusIs DEF Rows
<1> QED
  BY <1>1 DEF CountOf

LEMMA CountFoldable ==
  ASSUME NEW p, NEW table \in Tables
  PROVE  Foldable(Tallies, Rows, CountOf(p), Zero, table)
  BY CountIs, ZeroIs DEF Foldable, Tables

LEMMA WrittenIs ==
  ASSUME NEW p, NEW table \in Tables
  PROVE  FoldLeft(LAMBDA sum, row : IF row.provider = p THEN Plus(sum, row.counts) ELSE sum,
                  Zero, table) = WrittenIn(p, table)
<1> DEFINE Folded(f) == f = [s \in SUBSET (DOMAIN table) |->
             IF s = {} THEN Zero
             ELSE IF table[Max(s)].provider = p
                  THEN Plus(f[s \ {Max(s)}], table[Max(s)].counts)
                  ELSE f[s \ {Max(s)}]]
<1>1. Len(table) \in Nat /\ DOMAIN table = 1..Len(table) /\ table \in Seq(Rows)
  BY DEF Tables
<1>2. /\ CountOf(p) \in [Tallies \X Rows -> Tallies]
      /\ \A k \in Tallies, row \in Rows :
           CountOf(p)[<<k, row>>] = IF row.provider = p THEN Plus(k, row.counts) ELSE k
  BY CountIs
<1>3. ASSUME NEW s \in SUBSET (DOMAIN table), s # {}
      PROVE  table[Max(s)] \in Rows /\ s \ {Max(s)} \in SUBSET (DOMAIN table)
  <2>1. Max(s) \in DOMAIN table
    BY <1>1, <1>3, MaxIs
  <2> QED
    BY <1>1, <2>1
<1>4. PICK h \in [SUBSET (DOMAIN table) -> Tallies] : IsRun(h, CountOf(p), Zero, table)
  BY <1>1, <1>2, ZeroIs, RunExists
<1>5. Folded(h)
  <2>1. ASSUME NEW s \in SUBSET (DOMAIN table), s # {}
        PROVE  h[s] = IF table[Max(s)].provider = p
                      THEN Plus(h[s \ {Max(s)}], table[Max(s)].counts)
                      ELSE h[s \ {Max(s)}]
    BY <1>2, <1>3, <1>4, <2>1, ZenonT(60) DEF IsRun
  <2>2. {} \in SUBSET (DOMAIN table) => h[{}] = Zero
    BY <1>4 DEF IsRun
  <2> QED
    BY <1>4, <2>1, <2>2
<1>6. PICK f : /\ Folded(f)
               /\ FoldLeft(LAMBDA sum, row : IF row.provider = p THEN Plus(sum, row.counts) ELSE sum,
                           Zero, table) = f[DOMAIN table]
  BY <1>5 DEF FoldLeft, MapThenFoldSet
<1>7. f[{}] = Zero /\ Follows(f, Tallies, CountOf(p), table)
  <2>1. {} \in SUBSET (DOMAIN table)
    OBVIOUS
  <2>2. ASSUME NEW s \in SUBSET (DOMAIN table), s # {}, f[s \ {Max(s)}] \in Tallies
        PROVE  f[s] = CountOf(p)[<<f[s \ {Max(s)}], table[Max(s)]>>]
    <3>1. f[s] = IF table[Max(s)].provider = p
                 THEN Plus(f[s \ {Max(s)}], table[Max(s)].counts)
                 ELSE f[s \ {Max(s)}]
      BY <1>6, <2>2
    <3>2. table[Max(s)] \in Rows
      BY <1>3, <2>2
    <3> HIDE DEF Folded
    <3> QED
      BY <1>2, <2>2, <3>1, <3>2
  <2> QED
    BY <1>6, <2>1, <2>2 DEF Follows
<1>8. f[DOMAIN table] = WrittenIn(p, table)
  <2> HIDE DEF Folded
  <2> QED
    BY <1>7, CountFoldable, FoldIs DEF WrittenIn
<1> QED
  BY <1>6, <1>8

LEMMA WrittenType ==
  ASSUME NEW p, NEW table \in Tables
  PROVE  WrittenIn(p, table) \in Tallies
  BY CountFoldable, FoldType DEF WrittenIn

LEMMA NothingWritten ==
  ASSUME NEW p
  PROVE  WrittenIn(p, <<>>) = Zero
<1>1. CountOf(p) \in [Tallies \X Rows -> Tallies] /\ Zero \in Tallies
  BY CountIs, ZeroIs
<1> HIDE DEF CountOf, Tallies, Rows, Zero
<1>2. FoldOf(CountOf(p), Zero, <<>>) = Zero
  BY <1>1, FoldEmpty
<1> QED
  BY <1>2 DEF WrittenIn

(* A row counts for its provider.                                           *)
LEMMA WrittenGrows ==
  ASSUME NEW p, NEW table \in Tables, NEW row \in Rows
  PROVE  /\ Append(table, row) \in Tables
         /\ WrittenIn(p, Append(table, row)) =
              IF row.provider = p THEN Plus(WrittenIn(p, table), row.counts) ELSE WrittenIn(p, table)
<1>1. Append(table, row) \in Tables
  BY AppendProperties DEF Tables
<1>2. WrittenIn(p, Append(table, row)) = CountOf(p)[<<WrittenIn(p, table), row>>]
  BY CountFoldable, FoldAppend DEF WrittenIn
<1> QED
  BY <1>1, <1>2, WrittenType, CountIs

(* Rows of zeros count for nobody.                                          *)
LEMMA ZerosCountNothing ==
  ASSUME NEW p, NEW table \in Tables, NEW zeros \in Tables,
         \A i \in DOMAIN zeros : zeros[i].counts = Zero
  PROVE  table \o zeros \in Tables /\ WrittenIn(p, table \o zeros) = WrittenIn(p, table)
<1>1. ASSUME NEW i \in DOMAIN zeros
      PROVE  ChangesNothing(CountOf(p), Tallies, zeros[i])
  <2>1. zeros[i] \in Rows /\ zeros[i].counts = Zero
    BY DEF Tables
  <2>2. ASSUME NEW k \in Tallies
        PROVE  CountOf(p)[<<k, zeros[i]>>] = k
    BY <2>1, CountIs, PlusZero
  <2> QED
    BY <2>2 DEF ChangesNothing
<1>2. zeros \in Seq(Rows) /\ table \in Seq(Rows)
  BY DEF Tables
<1>3. FoldOf(CountOf(p), Zero, table \o zeros) = FoldOf(CountOf(p), Zero, table)
  <2>1. Foldable(Tallies, Rows, CountOf(p), Zero, table)
    BY CountFoldable
  <2> HIDE DEF Tallies, Rows, CountOf, Zero
  <2> QED
    BY <1>1, <1>2, <2>1, FoldIdle
<1>4. table \o zeros \in Tables
  BY <1>2, ConcatProperties DEF Tables
<1> QED
  BY <1>3, <1>4 DEF WrittenIn

-----------------------------------------------------------------------------
(* The snapshot.                                                            *)

Windows == [Provider -> Tallies]

States == [rows : Tables, counts : Windows]

RowOf(t, s, p) == [provider |-> p, time |-> t, counts |-> s.counts[p]]

Write1(t) ==
  [x \in States \X Provider |->
     [rows |-> Append(x[1].rows, RowOf(t, x[1], x[2])), counts |-> [x[1].counts EXCEPT ![x[2]] = Zero]]]

(* Where every provider's reports are, in a table and in memory.            *)
SameReports(table, counts, old, window) ==
  \A p \in Provider, f \in Fields :
    WrittenIn(p, table)[f] + counts[p][f] = WrittenIn(p, old)[f] + window[p][f]

(* The table has k rows of time t more than the old one, for those on the   *)
(* list.                                                                    *)
RowsAdded(table, old, list, t, k) ==
  /\ Len(table) = Len(old) + k
  /\ \A i \in 1..Len(old) : table[i] = old[i]
  /\ \A i \in 1..k : table[Len(old) + i].provider = list[i] /\ table[Len(old) + i].time = t

LEMMA Write1Is ==
  ASSUME NEW t \in Nat, NEW s \in States, NEW p \in Provider
  PROVE  /\ RowOf(t, s, p) \in Rows
         /\ RowOf(t, s, p).provider = p /\ RowOf(t, s, p).time = t
         /\ RowOf(t, s, p).counts = s.counts[p]
         /\ Write1(t)[<<s, p>>] =
              [rows |-> Append(s.rows, RowOf(t, s, p)), counts |-> [s.counts EXCEPT ![p] = Zero]]
         /\ Write1(t)[<<s, p>>] \in States
<1>1. s.rows \in Tables /\ s.counts \in Windows /\ s.counts[p] \in Tallies
  BY DEF States, Windows
<1>2. /\ RowOf(t, s, p) \in Rows
      /\ RowOf(t, s, p).provider = p /\ RowOf(t, s, p).time = t
      /\ RowOf(t, s, p).counts = s.counts[p]
  BY <1>1 DEF Rows, RowOf
<1>3. Write1(t)[<<s, p>>] =
        [rows |-> Append(s.rows, RowOf(t, s, p)), counts |-> [s.counts EXCEPT ![p] = Zero]]
  BY DEF Write1
<1>4. Append(s.rows, RowOf(t, s, p)) \in Tables
  BY <1>1, <1>2, WrittenGrows
<1>5. [s.counts EXCEPT ![p] = Zero] \in Windows
  BY <1>1, ZeroIs DEF Windows
<1>6. Write1(t)[<<s, p>>] \in States
  BY <1>3, <1>4, <1>5 DEF States
<1> QED
  BY <1>2, <1>3, <1>6

LEMMA Write1Type ==
  ASSUME NEW t \in Nat
  PROVE  Write1(t) \in [States \X Provider -> States]
<1>1. \A s \in States, p \in Provider : Write1(t)[<<s, p>>] \in States
  BY Write1Is
<1>2. Write1(t) = [x \in States \X Provider |-> Write1(t)[x]]
  BY DEF Write1
<1>3. ASSUME NEW x \in States \X Provider
      PROVE  Write1(t)[x] \in States
  <2>1. x = <<x[1], x[2]>> /\ x[1] \in States /\ x[2] \in Provider
    OBVIOUS
  <2> HIDE DEF Write1, States
  <2> QED
    BY <1>1, <2>1
<1> HIDE DEF Write1
<1> QED
  BY <1>2, <1>3

(* One provider's counts go into a row.                                     *)
LEMMA Write1Keeps ==
  ASSUME NEW t \in Nat, NEW s \in States, NEW p \in Provider,
         NEW old \in Tables, NEW window \in Windows, SameReports(s.rows, s.counts, old, window),
         NEW list \in Seq(Provider), NEW k \in Nat, k + 1 <= Len(list), p = list[k + 1],
         RowsAdded(s.rows, old, list, t, k)
  PROVE  /\ SameReports(Write1(t)[<<s, p>>].rows, Write1(t)[<<s, p>>].counts, old, window)
         /\ RowsAdded(Write1(t)[<<s, p>>].rows, old, list, t, k + 1)
<1>0. PICK row : row = RowOf(t, s, p)
  OBVIOUS
<1>1. /\ row \in Rows /\ row.provider = p /\ row.time = t /\ row.counts = s.counts[p]
      /\ Write1(t)[<<s, p>>] = [rows |-> Append(s.rows, row), counts |-> [s.counts EXCEPT ![p] = Zero]]
  <2>1. /\ RowOf(t, s, p) \in Rows
        /\ RowOf(t, s, p).provider = p /\ RowOf(t, s, p).time = t
        /\ RowOf(t, s, p).counts = s.counts[p]
        /\ Write1(t)[<<s, p>>] =
              [rows |-> Append(s.rows, RowOf(t, s, p)), counts |-> [s.counts EXCEPT ![p] = Zero]]
    BY Write1Is
  <2> QED
    BY <1>0, <2>1, Zenon
<1>2. PICK table \in Tables, counts \in Windows : table = s.rows /\ counts = s.counts
  BY DEF States
<1>3. PICK table2, counts2 :
        /\ table2 = Append(table, row) /\ counts2 = [counts EXCEPT ![p] = Zero]
        /\ Write1(t)[<<s, p>>].rows = table2 /\ Write1(t)[<<s, p>>].counts = counts2
  BY <1>1, <1>2
<1>4. SameReports(table2, counts2, old, window)
  <2> SUFFICES ASSUME NEW q \in Provider, NEW f \in Fields
               PROVE  WrittenIn(q, table2)[f] + counts2[q][f] = WrittenIn(q, old)[f] + window[q][f]
    BY DEF SameReports
  <2>1. WrittenIn(q, table)[f] + counts[q][f] = WrittenIn(q, old)[f] + window[q][f]
    BY <1>2 DEF SameReports
  <2>2. /\ WrittenIn(q, table2) = IF row.provider = q THEN Plus(WrittenIn(q, table), row.counts)
                                  ELSE WrittenIn(q, table)
        /\ WrittenIn(q, table) \in Tallies /\ counts[q] \in Tallies
    <3>1. WrittenIn(q, Append(table, row)) = IF row.provider = q THEN Plus(WrittenIn(q, table), row.counts)
                                             ELSE WrittenIn(q, table)
      BY <1>1, WrittenGrows
    <3>2. WrittenIn(q, table) \in Tallies
      BY WrittenType
    <3> QED
      BY <1>3, <3>1, <3>2 DEF Windows
  <2>3. CASE q = p
    <3>1. WrittenIn(q, table2)[f] = WrittenIn(q, table)[f] + counts[q][f]
      BY <1>1, <1>2, <2>2, <2>3, PlusIs
    <3>2. counts2[q][f] = 0
      BY <1>3, <2>3, ZeroIs DEF Windows
    <3>3. WrittenIn(q, table)[f] \in Nat /\ counts[q][f] \in Nat
      BY <2>2 DEF Tallies
    <3> QED
      BY <2>1, <3>1, <3>2, <3>3
  <2>4. CASE q # p
    <3>1. WrittenIn(q, table2) = WrittenIn(q, table) /\ counts2[q] = counts[q]
      BY <1>1, <1>3, <2>2, <2>4 DEF Windows
    <3> QED
      BY <2>1, <3>1
  <2> QED
    BY <2>3, <2>4
<1>5. RowsAdded(table2, old, list, t, k + 1)
  <2>1. PICK l \in Nat : l = Len(old)
    BY DEF Tables
  <2>2. /\ Len(table) = l + k /\ \A i \in 1..l : table[i] = old[i]
        /\ \A i \in 1..k : table[l + i].provider = list[i] /\ table[l + i].time = t
    BY <1>2, <2>1 DEF RowsAdded
  <2>3. /\ Len(table2) = l + k + 1 /\ table2[l + k + 1] = row
        /\ \A i \in 1..(l + k) : table2[i] = table[i]
    <3>1. /\ Len(table2) = Len(table) + 1 /\ table2[Len(table) + 1] = row
          /\ \A i \in 1..Len(table) : table2[i] = table[i]
      BY <1>3, AppendProperties DEF Tables
    <3> QED
      BY <2>2, <3>1
  <2>4. \A i \in 1..l : table2[i] = old[i]
    BY <2>2, <2>3
  <2>5. ASSUME NEW i \in 1..(k + 1)
        PROVE  table2[l + i].provider = list[i] /\ table2[l + i].time = t
    <3>1. CASE i \in 1..k
      <4>1. l + i \in 1..(l + k)
        BY <3>1
      <4> QED
        BY <2>2, <2>3, <3>1, <4>1
    <3>2. CASE i = k + 1
      <4>1. l + i = l + k + 1
        BY <3>2
      <4> QED
        BY <1>1, <2>3, <3>2, <4>1
    <3> QED
      BY <3>1, <3>2
  <2>6. Len(table2) = l + (k + 1)
    BY <2>3
  <2> QED
    BY <2>1, <2>4, <2>5, <2>6 DEF RowsAdded
<1> QED
  BY <1>3, <1>4, <1>5

(* The whole of it, or its first n rows.                                    *)
LEMMA SnapshotIs ==
  ASSUME NEW list \in Seq(Provider), NEW n \in 0..Len(list), NEW counts \in Windows,
         rows \in Tables, now \in Nat
  PROVE  /\ Snapshotted(list, n, counts) \in States
         /\ SameReports(Snapshotted(list, n, counts).rows, Snapshotted(list, n, counts).counts, rows, counts)
         /\ RowsAdded(Snapshotted(list, n, counts).rows, rows, list, now, n)
<1> DEFINE b == [rows |-> rows, counts |-> counts]
           q == SubSeq(list, 1, n)
           Q == [k \in Nat |-> {s \in States : /\ SameReports(s.rows, s.counts, rows, counts)
                                               /\ RowsAdded(s.rows, rows, list, now, k)}]
           G == Write1(now)
           Folded(f) == f = [s \in SUBSET (DOMAIN q) |->
             IF s = {} THEN b
             ELSE [rows   |-> Append(f[s \ {Max(s)}].rows, Row(q[Max(s)], f[s \ {Max(s)}].counts[q[Max(s)]])),
                   counts |-> WindowAfter(f[s \ {Max(s)}].counts, q[Max(s)])]]
<1>1. b \in States /\ b.rows = rows /\ b.counts = counts
  BY DEF States
<1>2. G \in [States \X Provider -> States]
  BY Write1Type
<1>3. ASSUME NEW s \in States, NEW p \in Provider
      PROVE  [rows |-> Append(s.rows, Row(p, s.counts[p])), counts |-> WindowAfter(s.counts, p)] = G[<<s, p>>]
  BY Write1Is DEF Row, RowOf, WindowAfter
<1>4. /\ q \in Seq(Provider) /\ Len(list) \in Nat /\ n \in Nat /\ Len(q) = n
      /\ DOMAIN q = 1..Len(q) /\ Len(q) \in Nat
  BY SubSeqProperties
<1>5. b \in Q[0]
  <2>1. SameReports(rows, counts, rows, counts)
    BY DEF SameReports
  <2>2. RowsAdded(rows, rows, list, now, 0)
    BY DEF RowsAdded, Tables
  <2> HIDE DEF b
  <2> QED
    BY <1>1, <2>1, <2>2
<1>6. Along(Q, States, G, list)
  <2> SUFFICES ASSUME NEW k \in Nat, k + 1 <= Len(list), NEW s \in States, s \in Q[k]
               PROVE  G[<<s, list[k + 1]>>] \in Q[k + 1]
    BY DEF Along
  <2>1. PICK p \in Provider : p = list[k + 1]
    BY <1>4
  <2>2. SameReports(s.rows, s.counts, rows, counts) /\ RowsAdded(s.rows, rows, list, now, k)
    OBVIOUS
  <2>3. PICK r \in States : r = G[<<s, p>>]
    BY <1>2
  <2>4. SameReports(r.rows, r.counts, rows, counts) /\ RowsAdded(r.rows, rows, list, now, k + 1)
    BY <2>1, <2>2, <2>3, Write1Keeps
  <2>5. k + 1 \in Nat
    OBVIOUS
  <2> HIDE DEF G
  <2> QED
    BY <2>1, <2>3, <2>4, <2>5
<1> HIDE DEF b, Q, G
<1>7. Foldable(States, Provider, G, b, list) /\ Foldable(States, Provider, G, b, q)
  BY <1>1, <1>2, <1>4 DEF Foldable
<1>8. FoldOf(G, b, q) \in Q[n]
  <2>1. \A k \in 0..Len(list) : FoldOf(G, b, SubSeq(list, 1, k)) \in Q[k]
    BY <1>5, <1>6, <1>7, FoldAlong
  <2> QED
    BY <2>1
<1> HIDE DEF q
<1>9. PICK h \in [SUBSET (DOMAIN q) -> States] : IsRun(h, G, b, q)
  BY <1>1, <1>2, <1>4, RunExists
<1>10. ASSUME NEW s \in SUBSET (DOMAIN q), s # {}
       PROVE  q[Max(s)] \in Provider /\ s \ {Max(s)} \in SUBSET (DOMAIN q)
  <2>1. Max(s) \in DOMAIN q
    BY <1>4, <1>10, MaxIs
  <2> QED
    BY <1>4, <2>1
<1>11. Folded(h)
  <2>1. ASSUME NEW s \in SUBSET (DOMAIN q), s # {}
        PROVE  h[s] = [rows   |-> Append(h[s \ {Max(s)}].rows, Row(q[Max(s)], h[s \ {Max(s)}].counts[q[Max(s)]])),
                       counts |-> WindowAfter(h[s \ {Max(s)}].counts, q[Max(s)])]
    <3>1. PICK x \in States, p \in Provider : x = h[s \ {Max(s)}] /\ p = q[Max(s)]
      BY <1>10, <2>1
    <3>2. h[s] = G[<<x, p>>]
      BY <1>9, <2>1, <3>1 DEF IsRun
    <3>3. h[s] = [rows |-> Append(x.rows, Row(p, x.counts[p])), counts |-> WindowAfter(x.counts, p)]
      BY <1>3, <3>2
    <3> QED
      BY <3>1, <3>3
  <2>2. {} \in SUBSET (DOMAIN q) => h[{}] = b
    BY <1>9 DEF IsRun
  <2> QED
    BY <1>9, <2>1, <2>2
<1>12. PICK f : Folded(f) /\ Snapshotted(list, n, counts) = f[DOMAIN q]
  BY <1>11 DEF Snapshotted, FoldLeft, MapThenFoldSet, b, q
<1>13. f[{}] = b /\ Follows(f, States, G, q)
  <2>1. {} \in SUBSET (DOMAIN q)
    OBVIOUS
  <2>2. ASSUME NEW s \in SUBSET (DOMAIN q), s # {}, f[s \ {Max(s)}] \in States
        PROVE  f[s] = G[<<f[s \ {Max(s)}], q[Max(s)]>>]
    <3>1. PICK x \in States, p \in Provider : x = f[s \ {Max(s)}] /\ p = q[Max(s)]
      BY <1>10, <2>2
    <3>2. f[s] = [rows |-> Append(x.rows, Row(p, x.counts[p])), counts |-> WindowAfter(x.counts, p)]
      BY <1>12, <2>2, <3>1
    <3> QED
      BY <1>3, <3>1, <3>2
  <2> QED
    BY <1>12, <2>1, <2>2 DEF Follows
<1>14. f[DOMAIN q] = FoldOf(G, b, q)
  <2> HIDE DEF Folded
  <2> QED
    BY <1>7, <1>13, FoldIs
<1>15. Snapshotted(list, n, counts) \in Q[n]
  BY <1>8, <1>12, <1>14
<1> HIDE DEF Folded
<1>16. PICK r : r = Snapshotted(list, n, counts)
  OBVIOUS
<1>17. r \in States /\ SameReports(r.rows, r.counts, rows, counts) /\ RowsAdded(r.rows, rows, list, now, n)
  BY <1>4, <1>15, <1>16 DEF Q
<1> QED
  BY <1>16, <1>17

-----------------------------------------------------------------------------
(* The invariant.                                                           *)

Timed(table, t) == table \in Tables /\ \A i \in DOMAIN table : table[i].time <= t

TimesInv ==
  /\ now \in Nat /\ nextSnapshot \in Nat /\ now <= nextSnapshot /\ nextSnapshot <= now + Interval
  /\ providerList \in Seq(Provider) /\ listedSince \in [Provider -> Nat]
  /\ Timed(rows, now)

CountsInv ==
  /\ windowCounts \in Windows /\ lost \in Windows /\ reported \in Windows
  /\ \A p \in Provider, f \in Fields :
       WrittenIn(p, rows)[f] + windowCounts[p][f] + lost[p][f] = reported[p][f]

(* Who was on the list before the last snapshot has a row of it.            *)
FreshInv ==
  \A p \in ToSet(providerList) :
    listedSince[p] + Interval < nextSnapshot =>
      \E i \in DOMAIN rows : rows[i].provider = p /\ rows[i].time + Interval >= nextSnapshot

MonitoringInv == TimesInv /\ CountsInv /\ FreshInv

LEMMA MonitoringNumbers ==
  /\ Interval \in Nat /\ Interval > 0
  /\ \A list \in Lists : list \in Seq(Provider)
  BY MonitoringAssumption

(* The zeros that a start writes.                                           *)
LEMMA ZerosAre ==
  ASSUME NEW list \in Seq(Provider), NEW t \in Nat, NEW zeros,
         zeros = [i \in DOMAIN list |-> [provider |-> list[i], time |-> t, counts |-> Zero]]
  PROVE  /\ zeros \in Tables /\ DOMAIN zeros = DOMAIN list
         /\ \A i \in DOMAIN zeros : zeros[i].provider = list[i] /\ zeros[i].time = t /\ zeros[i].counts = Zero
<1>1. Len(list) \in Nat /\ DOMAIN list = 1..Len(list)
  OBVIOUS
<1>2. \A i \in DOMAIN list : [provider |-> list[i], time |-> t, counts |-> Zero] \in Rows
  BY ZeroIs DEF Rows
<1>3. zeros \in [1..Len(list) -> Rows]
  BY <1>1, <1>2
<1>4. zeros \in Tables
  BY <1>1, <1>3 DEF Tables
<1> QED
  BY <1>4

LEMMA InitiallyMonitored == Init => MonitoringInv
<1> SUFFICES ASSUME Init
             PROVE  MonitoringInv
  OBVIOUS
<1>1. PICK list \in Lists :
        /\ providerList = list
        /\ rows = [i \in DOMAIN list |-> [provider |-> list[i], time |-> 0, counts |-> Zero]]
  BY DEF Init
<1>2. /\ windowCounts = [p \in Provider |-> Zero] /\ lost = [p \in Provider |-> Zero]
      /\ reported = [p \in Provider |-> Zero] /\ listedSince = [p \in Provider |-> 0]
      /\ nextSnapshot = Interval /\ now = 0
  BY DEF Init
<1>3. list \in Seq(Provider) /\ 0 \in Nat
  BY MonitoringNumbers
<1>4. /\ rows \in Tables
      /\ \A i \in DOMAIN rows : rows[i].time = 0 /\ rows[i].counts = Zero
  BY <1>1, <1>3, ZerosAre
<1>5. TimesInv
  BY <1>1, <1>2, <1>3, <1>4, MonitoringNumbers DEF TimesInv, Timed
<1>6. CountsInv
  <2>1. windowCounts \in Windows /\ lost \in Windows /\ reported \in Windows
    BY <1>2, ZeroIs DEF Windows
  <2>2. ASSUME NEW p \in Provider, NEW f \in Fields
        PROVE  WrittenIn(p, rows)[f] + windowCounts[p][f] + lost[p][f] = reported[p][f]
    <3>1. <<>> \in Tables /\ <<>> \o rows = rows
      <4>1. rows \in Seq(Rows)
        BY <1>4 DEF Tables
      <4> QED
        BY <4>1, ConcatEmptySeq DEF Tables
    <3>2. WrittenIn(p, <<>> \o rows) = WrittenIn(p, <<>>)
      BY <1>4, <3>1, ZerosCountNothing
    <3>3. WrittenIn(p, <<>>) = Zero
      BY NothingWritten
    <3>4. WrittenIn(p, rows)[f] = 0
      BY <3>1, <3>2, <3>3, ZeroIs
    <3>5. windowCounts[p][f] = 0 /\ lost[p][f] = 0 /\ reported[p][f] = 0
      BY <1>2, ZeroIs
    <3> QED
      BY <3>4, <3>5
  <2> QED
    BY <2>1, <2>2 DEF CountsInv
<1>7. FreshInv
  <2>1. \A p \in ToSet(providerList) : p \in Provider
    BY <1>1, <1>3 DEF ToSet
  <2>2. \A p \in ToSet(providerList) : ~(listedSince[p] + Interval < nextSnapshot)
    BY <1>2, <2>1, MonitoringNumbers
  <2> QED
    BY <2>2 DEF FreshInv
<1> QED
  BY <1>5, <1>6, <1>7 DEF MonitoringInv

LEMMA ReportKeeps ==
  ASSUME MonitoringInv, NEW p \in Provider, NEW outcome \in Outcomes, Report(p, outcome)
  PROVE  MonitoringInv'
<1>1. /\ windowCounts' = [windowCounts EXCEPT ![p] = Plus(windowCounts[p], outcome)]
      /\ reported' = [reported EXCEPT ![p] = Plus(reported[p], outcome)]
      /\ UNCHANGED <<providerList, nextSnapshot, rows, now, listedSince, lost>>
  BY DEF Report
<1>2. TimesInv'
  BY <1>1 DEF MonitoringInv, TimesInv
<1>3. FreshInv'
  BY <1>1 DEF MonitoringInv, FreshInv
<1>4. windowCounts \in Windows /\ lost \in Windows /\ reported \in Windows /\ outcome \in Tallies /\ rows \in Tables
  BY OutcomesAre DEF MonitoringInv, CountsInv, TimesInv, Timed
<1>5. /\ Plus(windowCounts[p], outcome) \in Tallies /\ Plus(reported[p], outcome) \in Tallies
      /\ \A f \in Fields : /\ Plus(windowCounts[p], outcome)[f] = windowCounts[p][f] + outcome[f]
                           /\ Plus(reported[p], outcome)[f] = reported[p][f] + outcome[f]
  <2>1. windowCounts[p] \in Tallies /\ reported[p] \in Tallies
    BY <1>4 DEF Windows
  <2> QED
    BY <1>4, <2>1, PlusIs
<1>6. windowCounts' \in Windows /\ reported' \in Windows /\ lost' \in Windows
  BY <1>1, <1>4, <1>5 DEF Windows
<1>7. ASSUME NEW q \in Provider, NEW f \in Fields
      PROVE  WrittenIn(q, rows')[f] + windowCounts'[q][f] + lost'[q][f] = reported'[q][f]
  <2>1. WrittenIn(q, rows)[f] + windowCounts[q][f] + lost[q][f] = reported[q][f]
    BY DEF MonitoringInv, CountsInv
  <2>2. /\ WrittenIn(q, rows)[f] \in Nat /\ windowCounts[q][f] \in Nat /\ lost[q][f] \in Nat
        /\ outcome[f] \in Nat /\ reported[q][f] \in Nat
    BY <1>4, WrittenType DEF Windows, Tallies
  <2>3. CASE q = p
    <3>1. windowCounts'[q] = Plus(windowCounts[p], outcome) /\ reported'[q] = Plus(reported[p], outcome)
      BY <1>1, <1>4, <2>3 DEF Windows
    <3>2. windowCounts'[q][f] = windowCounts[q][f] + outcome[f] /\ reported'[q][f] = reported[q][f] + outcome[f]
      BY <1>5, <2>3, <3>1
    <3> QED
      BY <1>1, <2>1, <2>2, <3>2
  <2>4. CASE q # p
    BY <1>1, <1>4, <2>1, <2>4 DEF Windows
  <2> QED
    BY <2>3, <2>4
<1> QED
  BY <1>2, <1>3, <1>6, <1>7 DEF MonitoringInv, CountsInv

LEMMA RefreshKeeps ==
  ASSUME MonitoringInv, NEW list \in Lists, Refresh(list)
  PROVE  MonitoringInv'
<1>1. /\ providerList' = list
      /\ listedSince' = [p \in Provider |->
           IF p \in ToSet(providerList) \/ p \notin ToSet(list) THEN listedSince[p] ELSE now]
      /\ UNCHANGED <<windowCounts, nextSnapshot, rows, now, reported, lost>>
  BY DEF Refresh
<1>2. /\ list \in Seq(Provider) /\ now \in Nat /\ nextSnapshot \in Nat /\ Interval \in Nat
      /\ nextSnapshot <= now + Interval /\ listedSince \in [Provider -> Nat]
  BY MonitoringNumbers DEF MonitoringInv, TimesInv
<1>3. listedSince' \in [Provider -> Nat]
  BY <1>1, <1>2
<1>4. TimesInv'
  BY <1>1, <1>2, <1>3 DEF MonitoringInv, TimesInv
<1>5. CountsInv'
  BY <1>1 DEF MonitoringInv, CountsInv
<1>6. ASSUME NEW p \in ToSet(list), listedSince'[p] + Interval < nextSnapshot
      PROVE  \E i \in DOMAIN rows : rows[i].provider = p /\ rows[i].time + Interval >= nextSnapshot
  <2>1. p \in Provider
    BY <1>2 DEF ToSet
  <2>2. p \in ToSet(providerList) /\ listedSince'[p] = listedSince[p]
    BY <1>1, <1>2, <1>6, <2>1
  <2> QED
    BY <1>6, <2>2 DEF MonitoringInv, FreshInv
<1> QED
  BY <1>1, <1>4, <1>5, <1>6 DEF MonitoringInv, FreshInv

LEMMA TickKeeps ==
  ASSUME MonitoringInv, Tick
  PROVE  MonitoringInv'
<1>1. now < nextSnapshot /\ now' = now + 1 /\ UNCHANGED <<service, rows, history>>
  BY DEF Tick
<1>2. now \in Nat /\ nextSnapshot \in Nat /\ Interval \in Nat
  BY MonitoringNumbers DEF MonitoringInv, TimesInv
<1>3. Timed(rows', now')
  <2>1. rows \in Tables /\ \A i \in DOMAIN rows : rows[i].time <= now /\ rows[i] \in Rows
    BY DEF MonitoringInv, TimesInv, Timed, Tables
  <2>2. \A i \in DOMAIN rows : rows[i].time \in Nat
    BY <2>1 DEF Rows
  <2> QED
    BY <1>1, <1>2, <2>1, <2>2 DEF Timed
<1> QED
  BY <1>1, <1>2, <1>3 DEF MonitoringInv, TimesInv, CountsInv, FreshInv, service, history

(* What a snapshot of the list, or of the first of it, leaves.              *)
Left(s, n) ==
  /\ s.rows \in Tables /\ s.counts \in Windows
  /\ SameReports(s.rows, s.counts, rows, windowCounts)
  /\ RowsAdded(s.rows, rows, providerList, now, n)
  /\ Timed(s.rows, now)

LEMMA SnapshotLeaves ==
  ASSUME MonitoringInv, NEW n \in 0..Len(providerList)
  PROVE  Left(Snapshotted(providerList, n, windowCounts), n)
<1>1. /\ providerList \in Seq(Provider) /\ rows \in Tables /\ now \in Nat /\ windowCounts \in Windows
      /\ \A i \in DOMAIN rows : rows[i].time <= now
  BY DEF MonitoringInv, TimesInv, CountsInv, Timed
<1>2. PICK s : s = Snapshotted(providerList, n, windowCounts)
  OBVIOUS
<1>3. /\ s \in States /\ SameReports(s.rows, s.counts, rows, windowCounts)
      /\ RowsAdded(s.rows, rows, providerList, now, n)
  BY <1>1, <1>2, SnapshotIs
<1>4. PICK table \in Tables : table = s.rows
  BY <1>3 DEF States
<1>5. PICK l \in Nat, k \in Nat : l = Len(rows) /\ k = n
  BY <1>1 DEF Tables
<1>6. /\ Len(table) = l + k /\ DOMAIN table = 1..(l + k) /\ DOMAIN rows = 1..l
      /\ \A i \in 1..l : table[i] = rows[i]
      /\ \A i \in 1..k : table[l + i].time = now
  <2>1. RowsAdded(table, rows, providerList, now, k)
    BY <1>3, <1>4, <1>5
  <2>2. Len(table) = l + k
    BY <1>5, <2>1 DEF RowsAdded
  <2>3. DOMAIN table = 1..(l + k) /\ DOMAIN rows = 1..l
    BY <1>1, <1>4, <1>5, <2>2 DEF Tables
  <2>4. \A i \in 1..l : table[i] = rows[i]
    BY <2>1, <2>3 DEF RowsAdded
  <2>5. \A i \in 1..k : table[l + i].time = now
    BY <1>5, <2>1 DEF RowsAdded
  <2> QED
    BY <2>2, <2>3, <2>4, <2>5
<1>7. ASSUME NEW i \in DOMAIN table
      PROVE  table[i].time <= now
  <2>1. CASE i \in 1..l
    BY <1>1, <1>6, <2>1
  <2>2. CASE i \notin 1..l
    <3>1. i - l \in 1..k /\ l + (i - l) = i
      BY <1>6, <2>2
    <3>2. table[l + (i - l)].time = now
      BY <1>6, <3>1
    <3> QED
      BY <1>1, <3>1, <3>2
  <2> QED
    BY <2>1, <2>2
<1> QED
  BY <1>2, <1>3, <1>4, <1>7 DEF Left, Timed, States

LEMMA SnapshotKeeps ==
  ASSUME MonitoringInv, Snapshot
  PROVE  MonitoringInv'
<1>1. PICK s : s = Snapshotted(providerList, Len(providerList), windowCounts)
  OBVIOUS
<1>2. /\ now = nextSnapshot /\ nextSnapshot' = now + Interval
      /\ rows' = s.rows /\ windowCounts' = s.counts
      /\ UNCHANGED <<providerList, now, listedSince, reported, lost>>
  BY <1>1 DEF Snapshot, history
<1>3. /\ now \in Nat /\ Interval \in Nat /\ providerList \in Seq(Provider)
      /\ rows \in Tables /\ windowCounts \in Windows /\ lost \in Windows
  BY MonitoringNumbers DEF MonitoringInv, TimesInv, CountsInv, Timed
<1>4. Left(s, Len(providerList))
  <2>1. Len(providerList) \in 0..Len(providerList)
    BY <1>3
  <2> QED
    BY <1>1, <2>1, SnapshotLeaves
<1>5. TimesInv'
  BY <1>2, <1>3, <1>4 DEF MonitoringInv, TimesInv, Left
<1>6. CountsInv'
  <2>1. windowCounts' \in Windows /\ lost' \in Windows /\ reported' \in Windows /\ rows' \in Tables
    BY <1>2, <1>4 DEF MonitoringInv, CountsInv, Left
  <2>2. ASSUME NEW p \in Provider, NEW f \in Fields
        PROVE  WrittenIn(p, rows')[f] + windowCounts'[p][f] + lost'[p][f] = reported'[p][f]
    <3>1. WrittenIn(p, rows)[f] + windowCounts[p][f] + lost[p][f] = reported[p][f]
      BY DEF MonitoringInv, CountsInv
    <3>2. WrittenIn(p, rows')[f] + windowCounts'[p][f] = WrittenIn(p, rows)[f] + windowCounts[p][f]
      BY <1>2, <1>4 DEF Left, SameReports
    <3> QED
      BY <1>2, <3>1, <3>2
  <2> QED
    BY <2>1, <2>2 DEF CountsInv
<1>7. FreshInv'
  <2> SUFFICES ASSUME NEW p \in ToSet(providerList)
               PROVE  \E i \in DOMAIN rows' : rows'[i].provider = p /\ rows'[i].time + Interval >= nextSnapshot'
    BY <1>2 DEF FreshInv
  <2>1. PICK k \in 1..Len(providerList) : providerList[k] = p
    BY <1>3 DEF ToSet
  <2>2. PICK l \in Nat, n \in Nat : l = Len(rows) /\ n = Len(providerList)
    BY <1>3 DEF Tables
  <2>3. PICK table \in Tables : table = rows'
    BY <1>2, <1>4 DEF Left
  <2>4. Len(table) = l + n /\ table[l + k].provider = p /\ table[l + k].time = now
    BY <1>2, <1>4, <2>1, <2>2, <2>3 DEF Left, RowsAdded
  <2>5. l + k \in DOMAIN table
    BY <2>1, <2>2, <2>4 DEF Tables
  <2>6. now + Interval >= nextSnapshot'
    BY <1>2, <1>3
  <2> QED
    BY <2>3, <2>4, <2>5, <2>6
<1> QED
  BY <1>5, <1>6, <1>7 DEF MonitoringInv

LEMMA EndAndRestartKeeps ==
  ASSUME MonitoringInv, NEW n \in 0..Len(providerList), NEW list \in Lists, EndAndRestart(n, list)
  PROVE  MonitoringInv'
<1> DEFINE zeros == [i \in DOMAIN list |-> [provider |-> list[i], time |-> now, counts |-> Zero]]
<1>1. PICK s : s = Snapshotted(providerList, n, windowCounts)
  OBVIOUS
<1>2. /\ lost' = [p \in Provider |-> Plus(lost[p], s.counts[p])]
      /\ rows' = s.rows \o zeros
      /\ providerList' = list /\ windowCounts' = [p \in Provider |-> Zero]
      /\ nextSnapshot' = now + Interval /\ listedSince' = [p \in Provider |-> now]
      /\ UNCHANGED <<now, reported>>
  BY <1>1 DEF EndAndRestart, Started, Row
<1>3. /\ now \in Nat /\ Interval \in Nat /\ list \in Seq(Provider)
      /\ rows \in Tables /\ windowCounts \in Windows /\ lost \in Windows /\ reported \in Windows
  BY MonitoringNumbers DEF MonitoringInv, TimesInv, CountsInv, Timed
<1>4. Left(s, n)
  BY <1>1, SnapshotLeaves
<1>5. /\ zeros \in Tables /\ DOMAIN zeros = DOMAIN list
      /\ \A i \in DOMAIN zeros : zeros[i].time = now /\ zeros[i].counts = Zero
  BY <1>3, ZerosAre
<1> HIDE DEF zeros
<1>6. PICK table \in Tables, counts \in Windows : table = s.rows /\ counts = s.counts
  BY <1>4 DEF Left
<1>7. rows' \in Tables /\ \A p : WrittenIn(p, rows') = WrittenIn(p, table)
  BY <1>2, <1>5, <1>6, ZerosCountNothing
<1>8. Timed(rows', now)
  <2>1. \A i \in DOMAIN table : table[i].time <= now
    BY <1>4, <1>6 DEF Left, Timed
  <2>2. PICK l \in Nat, m \in Nat : l = Len(table) /\ m = Len(zeros)
    BY <1>5 DEF Tables
  <2>3. /\ DOMAIN rows' = 1..(l + m) /\ DOMAIN table = 1..l /\ DOMAIN zeros = 1..m
        /\ \A i \in 1..(l + m) : rows'[i] = IF i <= l THEN table[i] ELSE zeros[i - l]
    BY <1>2, <1>5, <1>6, <2>2, ConcatProperties DEF Tables
  <2>4. ASSUME NEW i \in DOMAIN rows'
        PROVE  rows'[i].time <= now
    <3>1. CASE i <= l
      BY <2>1, <2>3, <3>1
    <3>2. CASE ~(i <= l)
      <4>1. i - l \in DOMAIN zeros /\ rows'[i] = zeros[i - l]
        BY <2>3, <3>2
      <4> QED
        BY <1>3, <1>5, <4>1
    <3> QED
      BY <3>1, <3>2
  <2> QED
    BY <1>7, <2>4 DEF Timed
<1>9. TimesInv'
  BY <1>2, <1>3, <1>8 DEF TimesInv
<1>10. CountsInv'
  <2>1. \A p \in Provider : Plus(lost[p], counts[p]) \in Tallies
    BY <1>3, PlusIs DEF Windows
  <2>2. windowCounts' \in Windows /\ lost' \in Windows /\ reported' \in Windows
    BY <1>2, <1>3, <1>6, <2>1, ZeroIs DEF Windows
  <2>3. ASSUME NEW p \in Provider, NEW f \in Fields
        PROVE  WrittenIn(p, rows')[f] + windowCounts'[p][f] + lost'[p][f] = reported'[p][f]
    <3>1. WrittenIn(p, rows)[f] + windowCounts[p][f] + lost[p][f] = reported[p][f]
      BY DEF MonitoringInv, CountsInv
    <3>2. WrittenIn(p, rows')[f] + counts[p][f] = WrittenIn(p, rows)[f] + windowCounts[p][f]
      BY <1>4, <1>6, <1>7 DEF Left, SameReports
    <3>3. windowCounts'[p][f] = 0
      BY <1>2, ZeroIs
    <3>4. lost'[p][f] = lost[p][f] + counts[p][f]
      BY <1>2, <1>3, <1>6, PlusIs DEF Windows
    <3>5. WrittenIn(p, rows')[f] \in Nat /\ counts[p][f] \in Nat /\ lost[p][f] \in Nat
      BY <1>3, <1>6, <1>7, WrittenType DEF Windows, Tallies
    <3> QED
      BY <1>2, <3>1, <3>2, <3>3, <3>4, <3>5
  <2> QED
    BY <2>2, <2>3 DEF CountsInv
<1>11. FreshInv'
  <2>1. \A p \in ToSet(list) : p \in Provider
    BY <1>3 DEF ToSet
  <2>2. \A p \in ToSet(list) : ~(listedSince'[p] + Interval < nextSnapshot')
    BY <1>2, <1>3, <2>1
  <2> QED
    BY <1>2, <2>2 DEF FreshInv
<1> QED
  BY <1>9, <1>10, <1>11 DEF MonitoringInv

LEMMA MonitoringStep == MonitoringInv /\ [Next]_vars => MonitoringInv'
<1>1. MonitoringInv /\ UNCHANGED vars => MonitoringInv'
  BY DEF MonitoringInv, TimesInv, CountsInv, FreshInv, vars, service, history
<1> QED
  BY <1>1, ReportKeeps, RefreshKeeps, EndAndRestartKeeps, SnapshotKeeps, TickKeeps DEF Next

LEMMA MonitoringInvariant == Spec => []MonitoringInv
  BY InitiallyMonitored, MonitoringStep, PTL DEF Spec

(* For every interval and list, however often the list is posted and        *)
(* wherever the process ends in a snapshot: each report about a provider is *)
(* written once, or waits, or is gone with a process.                       *)
THEOREM MonitoringReportsConserved == Spec => []ReportsConserved
<1>1. MonitoringInv => ReportsConserved
  <2> SUFFICES ASSUME MonitoringInv, NEW p \in Provider
               PROVE  Plus(Plus(Written(p), windowCounts[p]), lost[p]) = reported[p]
    BY DEF ReportsConserved
  <2>1. rows \in Tables /\ windowCounts[p] \in Tallies /\ lost[p] \in Tallies /\ reported[p] \in Tallies
    BY DEF MonitoringInv, TimesInv, CountsInv, Timed, Windows
  <2>2. PICK w \in Tallies : w = Written(p) /\ w = WrittenIn(p, rows)
    BY <2>1, WrittenIs, WrittenType DEF Written
  <2>3. PICK u \in Tallies : u = Plus(w, windowCounts[p])
    BY <2>1, PlusIs
  <2>4. PICK v \in Tallies : v = Plus(u, lost[p])
    BY <2>1, PlusIs
  <2>5. ASSUME NEW f \in Fields
        PROVE  v[f] = reported[p][f]
    <3>1. v[f] = u[f] + lost[p][f] /\ u[f] = w[f] + windowCounts[p][f]
      BY <2>1, <2>3, <2>4, PlusIs
    <3>2. w[f] + windowCounts[p][f] + lost[p][f] = reported[p][f]
      BY <2>2 DEF MonitoringInv, CountsInv
    <3> QED
      BY <3>1, <3>2
  <2>6. v = reported[p]
    BY <2>1, <2>5 DEF Tallies
  <2> QED
    BY <2>2, <2>3, <2>4, <2>6
<1> QED
  BY <1>1, MonitoringInvariant, PTL

(* Of the rows of a provider there are latest ones.                         *)
LEMMA LatestExist ==
  ASSUME MonitoringInv, NEW i \in DOMAIN rows
  PROVE  \E j \in Latest : rows[j].provider = rows[i].provider /\ rows[j].time >= rows[i].time
<1>1. now \in Nat /\ \A j \in DOMAIN rows : rows[j].time \in Nat /\ rows[j].time <= now
  <2>1. \A j \in DOMAIN rows : rows[j] \in Rows /\ rows[j].time <= now
    BY DEF MonitoringInv, TimesInv, Timed, Tables
  <2> QED
    BY <2>1 DEF MonitoringInv, TimesInv, Rows
<1> DEFINE Same == {j \in DOMAIN rows : rows[j].provider = rows[i].provider}
           T == {now - rows[j].time : j \in Same}
<1>2. T \in SUBSET Nat /\ T # {}
  <2>1. \A j \in Same : now - rows[j].time \in Nat
    BY <1>1
  <2>2. now - rows[i].time \in T
    OBVIOUS
  <2> QED
    BY <2>1, <2>2
<1>3. PICK x \in T : \A y \in T : ~(y < x)
  BY <1>2, LeastNat
<1>4. PICK j \in Same : x = now - rows[j].time
  OBVIOUS
<1>5. ASSUME NEW k \in Same
      PROVE  rows[k].time <= rows[j].time
  <2>1. ~(now - rows[k].time < now - rows[j].time)
    BY <1>3, <1>4
  <2>2. rows[k].time \in Nat /\ rows[j].time \in Nat
    BY <1>1
  <2> QED
    BY <1>1, <2>1, <2>2
<1>6. j \in Latest
  BY <1>5 DEF Latest
<1>7. rows[i].time <= rows[j].time
  BY <1>5
<1> QED
  BY <1>1, <1>6, <1>7

(* For every interval: what is served of a provider is no older than one    *)
(* once it has been on the list for one.                                    *)
THEOREM MonitoringStatusIsFresh == Spec => []StatusIsFresh
<1>1. MonitoringInv => StatusIsFresh
  <2> SUFFICES ASSUME MonitoringInv, NEW p \in ToSet(providerList), now - listedSince[p] > Interval
               PROVE  \E i \in Latest : rows[i].provider = p /\ now - rows[i].time <= Interval
    BY DEF StatusIsFresh
  <2>1. /\ now \in Nat /\ nextSnapshot \in Nat /\ Interval \in Nat /\ now <= nextSnapshot
        /\ providerList \in Seq(Provider) /\ listedSince \in [Provider -> Nat]
        /\ \A j \in DOMAIN rows : rows[j] \in Rows
    BY MonitoringNumbers DEF MonitoringInv, TimesInv, Timed, Tables
  <2>2. listedSince[p] \in Nat
    BY <2>1 DEF ToSet
  <2>3. listedSince[p] + Interval < nextSnapshot
    BY <2>1, <2>2
  <2>4. PICK i \in DOMAIN rows : rows[i].provider = p /\ rows[i].time + Interval >= nextSnapshot
    BY <2>3 DEF MonitoringInv, FreshInv
  <2>5. PICK j \in Latest : rows[j].provider = rows[i].provider /\ rows[j].time >= rows[i].time
    BY LatestExist
  <2>6. j \in DOMAIN rows
    BY DEF Latest
  <2>7. rows[i].time \in Nat /\ rows[j].time \in Nat
    BY <2>1, <2>6 DEF Rows
  <2>8. now - rows[j].time <= Interval
    BY <2>1, <2>4, <2>5, <2>7
  <2> QED
    BY <2>4, <2>5, <2>8
<1> QED
  BY <1>1, MonitoringInvariant, PTL
===============================================================================
