------------------------- MODULE RequestSchedulerProofs -------------------------
(***************************************************************************)
(* Proofs about RequestScheduler for every set of tasks, every assignment  *)
(* of priorities and timeouts and every number of slots, and that it       *)
(* implements the priority pool and starts the best waiting task.          *)
(***************************************************************************)
EXTENDS RequestSchedulerRefinement, TLAPS, FiniteSetTheorems, SequenceTheorems

-----------------------------------------------------------------------------
(* An initial part of 1..n is determined by its size.                       *)
LEMMA DownClosed ==
  ASSUME NEW n \in Nat, NEW S \in SUBSET (1..n),
         \A s \in S, r \in 1..n : r < s => r \in S
  PROVE  /\ Cardinality(S) \in 0..n
         /\ S = 1..Cardinality(S)
<1> DEFINE c == Cardinality(S)
<1>1. IsFiniteSet(1..n) /\ Cardinality(1..n) = n
  BY FS_Interval
<1>2. IsFiniteSet(S) /\ c <= n
  BY <1>1, FS_Subset
<1>3. c \in Nat
  BY <1>2, FS_CardinalityType
<1> HIDE DEF c
<1>4. ASSUME NEW s \in S
      PROVE  s <= c
  <2>1. 1..s \subseteq S
    OBVIOUS
  <2>2. Cardinality(1..s) <= c
    BY <1>2, <2>1, FS_Subset DEF c
  <2>3. Cardinality(1..s) = s
    BY FS_Interval
  <2> QED
    BY <2>2, <2>3
<1>5. S \subseteq 1..c
  BY <1>3, <1>4
<1>6. IsFiniteSet(1..c) /\ Cardinality(1..c) = c
  BY <1>3, FS_Interval
<1>7. S = 1..c
  BY <1>5, <1>6, FS_Subset DEF c
<1> QED
  BY <1>2, <1>3, <1>7 DEF c

(* What the sort does to the task just pushed: it lands at one position,    *)
(* and nothing else moves relative to anything else.                        *)
LEMMA InsertShape ==
  ASSUME NEW q \in Seq(Task), NEW t \in Task,
         NEW k \in 0..Len(q), k = Cardinality(NotLower(q, t))
  PROVE  /\ Insert(q, t) \in Seq(Task)
         /\ Len(Insert(q, t)) = Len(q) + 1
         /\ \A i \in 1..(Len(q) + 1) :
              Insert(q, t)[i] = IF i <= k THEN q[i]
                                ELSE IF i = k + 1 THEN t ELSE q[i - 1]
<1> DEFINE s1 == SubSeq(q, 1, k)
           s2 == SubSeq(q, k + 1, Len(q))
<1>1. Len(q) \in Nat
  BY LenProperties
<1>2. /\ s1 \in Seq(Task) /\ Len(s1) = k
      /\ \A i \in 1..k : s1[i] = q[i]
  <2>1. \A i \in 1..k : q[i] \in Task
    BY <1>1, ElementOfSeq
  <2>2. s1 \in Seq(Task) /\ Len(s1) = (IF 1 <= k THEN k - 1 + 1 ELSE 0)
        /\ \A i \in 1..(k - 1 + 1) : s1[i] = q[1 + i - 1]
    BY <1>1, <2>1, SubSeqProperties
  <2> QED
    BY <1>1, <2>2
<1>3. /\ s2 \in Seq(Task) /\ Len(s2) = Len(q) - k
      /\ \A i \in 1..(Len(q) - k) : s2[i] = q[k + i]
  <2>1. \A i \in (k + 1)..Len(q) : q[i] \in Task
    BY <1>1, ElementOfSeq
  <2>2. s2 \in Seq(Task)
        /\ Len(s2) = (IF k + 1 <= Len(q) THEN Len(q) - (k + 1) + 1 ELSE 0)
        /\ \A i \in 1..(Len(q) - (k + 1) + 1) : s2[i] = q[k + 1 + i - 1]
    BY <1>1, <2>1, SubSeqProperties
  <2> QED
    BY <1>1, <2>2
<1> HIDE DEF s1, s2
<1>4. Insert(q, t) = (s1 \o <<t>>) \o s2
  BY DEF Insert, s1, s2
<1> DEFINE u == s1 \o <<t>>
<1>5. <<t>> \in Seq(Task) /\ Len(<<t>>) = 1 /\ <<t>>[1] = t
  OBVIOUS
<1>6. /\ u \in Seq(Task) /\ Len(u) = k + 1
      /\ \A i \in 1..(k + 1) : u[i] = IF i <= k THEN q[i] ELSE t
  <2>1. u \in Seq(Task) /\ Len(u) = Len(s1) + 1
        /\ \A i \in 1..(Len(s1) + 1) : u[i] = IF i <= Len(s1) THEN s1[i] ELSE <<t>>[i - Len(s1)]
    BY <1>2, <1>5, ConcatProperties
  <2> QED
    BY <1>1, <1>2, <1>5, <2>1
<1> HIDE DEF u
<1>7. /\ u \o s2 \in Seq(Task) /\ Len(u \o s2) = Len(u) + Len(s2)
      /\ \A i \in 1..(Len(u) + Len(s2)) : (u \o s2)[i] = IF i <= Len(u) THEN u[i] ELSE s2[i - Len(u)]
  BY <1>3, <1>6, ConcatProperties
<1>8. Insert(q, t) = u \o s2
  BY <1>4 DEF u
<1>9. Len(u) + Len(s2) = Len(q) + 1
  BY <1>1, <1>3, <1>6
<1>10. ASSUME NEW i \in 1..(Len(q) + 1)
       PROVE  (u \o s2)[i] = IF i <= k THEN q[i]
                             ELSE IF i = k + 1 THEN t ELSE q[i - 1]
  <2>1. CASE i <= k + 1
    BY <1>1, <1>6, <1>7, <1>9, <2>1
  <2>2. CASE i > k + 1
    <3>1. (u \o s2)[i] = s2[i - (k + 1)]
      BY <1>1, <1>6, <1>7, <1>9, <2>2
    <3>2. i - (k + 1) \in 1..(Len(q) - k)
      BY <1>1, <2>2
    <3>3. s2[i - (k + 1)] = q[k + (i - (k + 1))]
      BY <1>3, <3>2
    <3>4. k + (i - (k + 1)) = i - 1
      BY <1>1
    <3> QED
      BY <1>1, <2>2, <3>1, <3>3, <3>4
  <2>3. i <= k + 1 \/ i > k + 1
    BY <1>1
  <2> QED
    BY <2>1, <2>2, <2>3
<1> QED
  BY <1>7, <1>8, <1>9, <1>10

-----------------------------------------------------------------------------
(* The parts of the inductive invariant, as predicates of the values that   *)
(* processNext() is called with.                                            *)
Exact(q, ph) ==
  /\ \A i, j \in 1..Len(q) : q[i] = q[j] => i = j
  /\ \A i \in 1..Len(q) : ph[q[i]] = "queued"
  /\ \A t \in Task : ph[t] = "queued" => \E i \in 1..Len(q) : q[i] = t

Ranks(tk, t, u) ==
  \/ Priority[t] > Priority[u]
  \/ Priority[t] = Priority[u] /\ tk[t] < tk[u]

Ordered(q, tk) ==
  \A i, j \in 1..Len(q) : i < j => Ranks(tk, q[i], q[j])

Calls(ph, run, tm) ==
  /\ \A t \in Task : t \in tm <=> ph[t] = "active" /\ t \in Timed
  /\ \A t \in Task : ph[t] = "active" => t \in run
  /\ \A t \in run : ph[t] \in {"active", "timedOut"}

TicketsPast == \A t \in Task : ticket[t] <= stats.queued

(* The strengthening: the slot counter never exceeds the limit (so a        *)
(* release leaves it exactly one below when tasks wait), and no ticket is   *)
(* newer than the count of additions (so a new task sorts behind its        *)
(* equals).                                                                 *)
IInv ==
  /\ TypeOK
  /\ Exact(queue, phase)
  /\ Ordered(queue, ticket)
  /\ Calls(phase, running, timers)
  /\ active <= MaxConcurrent
  /\ WorkConserving
  /\ TicketsPast

(* The tasks of a sorted queue that do not rank below t are its first ones. *)
LEMMA NotLowerInitial ==
  ASSUME NEW q \in Seq(Task), NEW t \in Task, NEW tk \in [Task -> Nat],
         Ordered(q, tk)
  PROVE  /\ Cardinality(NotLower(q, t)) \in 0..Len(q)
         /\ NotLower(q, t) = 1..Cardinality(NotLower(q, t))
<1>1. Len(q) \in Nat /\ \A i \in 1..Len(q) : q[i] \in Task
  BY LenProperties, ElementOfSeq
<1>2. NotLower(q, t) \in SUBSET (1..Len(q))
  BY DEF NotLower
<1>3. ASSUME NEW s \in NotLower(q, t), NEW r \in 1..Len(q), r < s
      PROVE  r \in NotLower(q, t)
  <2>1. s \in 1..Len(q) /\ Priority[q[s]] >= Priority[t]
    BY DEF NotLower
  <2>2. Priority[q[r]] >= Priority[q[s]]
    <3>1. Ranks(tk, q[r], q[s])
      BY <1>3, <2>1 DEF Ordered
    <3>2. Priority[q[r]] \in Int /\ Priority[q[s]] \in Int
      BY <1>1, <2>1, PriorityAssumption
    <3> QED
      BY <3>1, <3>2 DEF Ranks
  <2>3. Priority[q[r]] >= Priority[t]
    BY <1>1, <2>1, <2>2, PriorityAssumption
  <2> QED
    BY <2>3 DEF NotLower
<1> QED
  BY <1>1, <1>2, <1>3, DownClosed

(* add() keeps the queue exact.                                             *)
LEMMA InsertExact ==
  ASSUME NEW q \in Seq(Task), NEW t \in Task,
         NEW ph \in [Task -> Phases], NEW tk \in [Task -> Nat],
         Ordered(q, tk), Exact(q, ph), ph[t] = "new"
  PROVE  Exact(Insert(q, t), [ph EXCEPT ![t] = "queued"])
<1> DEFINE k == Cardinality(NotLower(q, t))
           r == Insert(q, t)
           n == Len(q)
<1>1. n \in Nat /\ \A i \in 1..n : q[i] \in Task
  BY LenProperties, ElementOfSeq
<1>2. k \in 0..n
  BY NotLowerInitial
<1>3. /\ Len(r) = n + 1
      /\ \A i \in 1..(n + 1) : r[i] = IF i <= k THEN q[i]
                                ELSE IF i = k + 1 THEN t ELSE q[i - 1]
  BY <1>2, InsertShape
<1>4. \A i \in 1..n : q[i] # t
  BY DEF Exact
<1> HIDE DEF k, r
<1> DEFINE x(i) == IF i <= k THEN i ELSE i - 1
<1>a. r[k + 1] = t
  BY <1>1, <1>2, <1>3
<1>b. ASSUME NEW i \in 1..(n + 1), i # k + 1
      PROVE  x(i) \in 1..n /\ r[i] = q[x(i)]
  BY <1>1, <1>2, <1>3, <1>b
<1>5. ASSUME NEW i \in 1..(n + 1), NEW j \in 1..(n + 1), r[i] = r[j]
      PROVE  i = j
  <2>1. CASE i = k + 1 /\ j # k + 1
    <3>1. x(j) \in 1..n /\ q[x(j)] = t
      BY <1>a, <1>b, <1>5, <2>1
    <3> QED
      BY <1>4, <3>1
  <2>2. CASE i # k + 1 /\ j = k + 1
    <3>1. x(i) \in 1..n /\ q[x(i)] = t
      BY <1>a, <1>b, <1>5, <2>2
    <3> QED
      BY <1>4, <3>1
  <2>3. CASE i # k + 1 /\ j # k + 1
    <3>1. x(i) \in 1..n /\ x(j) \in 1..n /\ q[x(i)] = q[x(j)]
      BY <1>b, <1>5, <2>3
    <3>2. x(i) = x(j)
      BY <3>1 DEF Exact
    <3> QED
      BY <1>1, <1>2, <2>3, <3>2
  <2> QED
    BY <2>1, <2>2, <2>3
<1>6. ASSUME NEW i \in 1..(n + 1)
      PROVE  [ph EXCEPT ![t] = "queued"][r[i]] = "queued"
  <2>1. CASE i = k + 1
    BY <1>a, <2>1
  <2>2. CASE i # k + 1
    <3>1. x(i) \in 1..n /\ r[i] = q[x(i)] /\ q[x(i)] \in Task
      BY <1>1, <1>b, <2>2
    <3>2. ph[q[x(i)]] = "queued" /\ q[x(i)] # t
      BY <3>1 DEF Exact
    <3> QED
      BY <3>1, <3>2
  <2> QED
    BY <2>1, <2>2
<1>7. ASSUME NEW u \in Task, [ph EXCEPT ![t] = "queued"][u] = "queued"
      PROVE  \E i \in 1..(n + 1) : r[i] = u
  <2>1. CASE u = t
    <3>1. k + 1 \in 1..(n + 1)
      BY <1>1, <1>2
    <3> QED
      BY <1>a, <2>1, <3>1
  <2>2. CASE u # t
    <3>1. PICK i \in 1..n : q[i] = u
      BY <1>7, <2>2 DEF Exact
    <3>2. CASE i <= k
      BY <1>1, <1>2, <1>3, <3>1, <3>2
    <3>3. CASE i > k
      <4>1. i + 1 \in 1..(n + 1) /\ ~(i + 1 <= k) /\ i + 1 # k + 1 /\ (i + 1) - 1 = i
        BY <1>1, <1>2, <3>3
      <4>2. r[i + 1] = q[i]
        BY <1>3, <4>1
      <4> QED
        BY <3>1, <4>1, <4>2
    <3>4. i <= k \/ i > k
      BY <1>1, <1>2
    <3> QED
      BY <3>2, <3>3, <3>4
  <2> QED
    BY <2>1, <2>2
<1> QED
  BY <1>3, <1>5, <1>6, <1>7 DEF Exact, r

(* add() keeps the queue ordered: the new task draws the highest ticket.    *)
LEMMA InsertOrdered ==
  ASSUME NEW q \in Seq(Task), NEW t \in Task, NEW tk \in [Task -> Nat],
         NEW m \in Nat, Ordered(q, tk), \A u \in Task : tk[u] <= m,
         \A i \in 1..Len(q) : q[i] # t
  PROVE  Ordered(Insert(q, t), [tk EXCEPT ![t] = m + 1])
<1> DEFINE k == Cardinality(NotLower(q, t))
           r == Insert(q, t)
           n == Len(q)
           tk2 == [tk EXCEPT ![t] = m + 1]
<1>1. n \in Nat /\ \A i \in 1..n : q[i] \in Task
  BY LenProperties, ElementOfSeq
<1>2. k \in 0..n /\ NotLower(q, t) = 1..k
  BY NotLowerInitial
<1>3. /\ Len(r) = n + 1
      /\ \A i \in 1..(n + 1) : r[i] = IF i <= k THEN q[i]
                                ELSE IF i = k + 1 THEN t ELSE q[i - 1]
  BY <1>2, InsertShape
<1>4. ASSUME NEW i \in 1..n
      PROVE  i <= k <=> Priority[q[i]] >= Priority[t]
  <2>1. i \in NotLower(q, t) <=> Priority[q[i]] >= Priority[t]
    BY DEF NotLower
  <2>2. i \in 1..k <=> i <= k
    BY <1>1, <1>2
  <2> QED
    BY <1>2, <2>1, <2>2
<1>5. /\ tk2[t] = m + 1
      /\ \A i \in 1..n : tk2[q[i]] = tk[q[i]] /\ tk[q[i]] < m + 1
  BY <1>1
<1>6. /\ \A i \in 1..n : Priority[q[i]] \in Int
      /\ Priority[t] \in Int
  BY <1>1, PriorityAssumption
<1> HIDE DEF k, r, tk2
<1>7. ASSUME NEW i \in 1..(n + 1), NEW j \in 1..(n + 1), i < j
      PROVE  Ranks(tk2, r[i], r[j])
  <2>1. CASE i = k + 1
    <3>1. r[i] = t /\ r[j] = q[j - 1] /\ j - 1 \in 1..n /\ j - 1 > k
      BY <1>1, <1>2, <1>3, <1>7, <2>1
    <3>2. ~(Priority[q[j - 1]] >= Priority[t])
      BY <1>1, <1>2, <1>4, <3>1
    <3>3. Priority[t] > Priority[q[j - 1]]
      BY <1>6, <3>1, <3>2
    <3> QED
      BY <3>1, <3>3 DEF Ranks
  <2>2. CASE j = k + 1
    <3>1. r[j] = t /\ r[i] = q[i] /\ i \in 1..n /\ i <= k
      BY <1>1, <1>2, <1>3, <1>7, <2>2
    <3>2. Priority[q[i]] >= Priority[t] /\ tk2[q[i]] < tk2[t]
      BY <1>4, <1>5, <3>1
    <3>3. Priority[q[i]] > Priority[t] \/ Priority[q[i]] = Priority[t]
      BY <1>6, <3>1, <3>2
    <3> QED
      BY <3>1, <3>2, <3>3 DEF Ranks
  <2>3. CASE i # k + 1 /\ j # k + 1
    <3> DEFINE x == IF i <= k THEN i ELSE i - 1
               y == IF j <= k THEN j ELSE j - 1
    <3>1. x \in 1..n /\ y \in 1..n /\ x < y
      BY <1>1, <1>2, <1>7, <2>3
    <3>2. r[i] = q[x] /\ r[j] = q[y]
      BY <1>1, <1>2, <1>3, <2>3
    <3> HIDE DEF x, y
    <3>3. Ranks(tk, q[x], q[y])
      BY <3>1 DEF Ordered
    <3> QED
      BY <1>5, <3>1, <3>2, <3>3 DEF Ranks
  <2> QED
    BY <2>1, <2>2, <2>3
<1> QED
  BY <1>3, <1>7 DEF Ordered, r, tk2

(* What processNext() needs to leave no task waiting while a slot is free:  *)
(* it starts one task, so at most one slot may be free for the waiting.     *)
OneSlotShort(q, a) == q # <<>> => a >= MaxConcurrent - 1 \/ Len(q) = 1

(* processNext() keeps every part of the invariant.                         *)
LEMMA DispatchKeeps ==
  ASSUME NEW q \in Seq(Task), NEW a \in Int, NEW ph \in [Task -> Phases],
         NEW run \in SUBSET Task, NEW tm \in SUBSET Task,
         NEW tk \in [Task -> Nat],
         Exact(q, ph), Ordered(q, tk), Calls(ph, run, tm),
         a <= MaxConcurrent, OneSlotShort(q, a),
         Dispatch(q, a, ph, run, tm)
  PROVE  /\ queue' \in Seq(Task) /\ active' \in Int
         /\ phase' \in [Task -> Phases]
         /\ running' \in SUBSET Task /\ timers' \in SUBSET Task
         /\ Exact(queue', phase') /\ Ordered(queue', tk)
         /\ Calls(phase', running', timers')
         /\ active' <= MaxConcurrent
         /\ WorkConserving'
<1> USE MaxConcurrentAssumption
<1> DEFINE Idle == /\ a >= MaxConcurrent \/ q = <<>>
                   /\ queue' = q /\ active' = a /\ phase' = ph
                   /\ running' = run /\ timers' = tm
           Start == /\ a < MaxConcurrent /\ q # <<>>
                    /\ queue' = Tail(q) /\ active' = a + 1
                    /\ phase' = [ph EXCEPT ![Head(q)] = "active"]
                    /\ running' = run \cup {Head(q)}
                    /\ timers' = tm \cup ({Head(q)} \cap Timed)
<1>1. CASE Idle
  BY <1>1 DEF WorkConserving
<1>2. CASE Start
  <2> DEFINE h == Head(q)
             r == Tail(q)
  <2>1. /\ Len(q) \in Nat /\ Len(q) > 0 /\ h = q[1] /\ h \in Task
        /\ r \in Seq(Task) /\ Len(r) = Len(q) - 1
        /\ \A i \in 1..Len(r) : r[i] = q[i + 1] /\ i + 1 \in 1..Len(q)
    BY <1>2, HeadTailProperties, LenProperties, EmptySeq
  <2>2. ph[h] = "queued"
    BY <2>1 DEF Exact
  <2>3. \A i \in 1..Len(r) : r[i] # h
    BY <2>1 DEF Exact
  <2>4. /\ queue' = r /\ active' = a + 1
        /\ phase' = [ph EXCEPT ![h] = "active"]
        /\ running' = run \cup {h}
        /\ timers' = tm \cup ({h} \cap Timed)
    BY <1>2
  <2> HIDE DEF h, r
  <2>5. "active" \in Phases
    BY DEF Phases
  <2>6. Exact(queue', phase')
    <3>1. ASSUME NEW i \in 1..Len(r), NEW j \in 1..Len(r), r[i] = r[j]
          PROVE  i = j
      <4>1. i + 1 \in 1..Len(q) /\ j + 1 \in 1..Len(q) /\ q[i + 1] = q[j + 1]
        <5>1. r[i] = q[i + 1] /\ r[j] = q[j + 1]
          BY <2>1
        <5> QED BY <2>1, <5>1, <3>1
      <4>2. i + 1 = j + 1
        BY <4>1 DEF Exact
      <4> QED
        BY <2>1, <4>2
    <3>2. \A i \in 1..Len(r) : phase'[r[i]] = "queued"
      <4> TAKE i \in 1..Len(r)
      <4>1. ph[r[i]] = "queued" /\ r[i] # h /\ r[i] \in Task
        BY <2>1, <2>3, ElementOfSeq DEF Exact
      <4> QED
        BY <2>4, <4>1
    <3>3. ASSUME NEW t \in Task, phase'[t] = "queued"
          PROVE  \E i \in 1..Len(r) : r[i] = t
      <4>1. t # h /\ ph[t] = "queued"
        BY <2>1, <2>4, <3>3
      <4>2. PICK i \in 1..Len(q) : q[i] = t
        BY <4>1 DEF Exact
      <4>3. i # 1
        BY <2>1, <4>1, <4>2
      <4>4. i - 1 \in 1..Len(r) /\ (i - 1) + 1 = i
        BY <2>1, <4>2, <4>3
      <4> QED
        BY <2>1, <4>2, <4>4
    <3> QED
      BY <2>4, <3>1, <3>2, <3>3 DEF Exact
  <2>7. Ordered(queue', tk)
    <3>1. ASSUME NEW i \in 1..Len(r), NEW j \in 1..Len(r), i < j
          PROVE  Ranks(tk, r[i], r[j])
      <4>1. i + 1 \in 1..Len(q) /\ j + 1 \in 1..Len(q)
        BY <2>1
      <4>2. i + 1 < j + 1
        <5>1. i \in Int /\ j \in Int /\ i < j
          BY <3>1
        <5> QED BY <5>1
      <4>3. Ranks(tk, q[i + 1], q[j + 1])
        BY <4>1, <4>2 DEF Ordered
      <4> QED
        BY <2>1, <4>3
    <3> QED
      BY <2>4, <3>1 DEF Ordered
  <2>8. Calls(phase', running', timers')
    BY <2>1, <2>2, <2>4 DEF Calls
  <2>9. active' <= MaxConcurrent /\ active' \in Int
    BY <1>2, <2>4
  <2>10. WorkConserving'
    <3>1. CASE a >= MaxConcurrent - 1
      BY <1>2, <2>4, <3>1 DEF WorkConserving
    <3>2. CASE Len(q) = 1
      <4>1. Len(r) = 0
        BY <2>1, <3>2
      <4> QED
        BY <2>1, <2>4, <4>1, EmptySeq DEF WorkConserving
    <3> QED
      BY <1>2, <3>1, <3>2 DEF OneSlotShort
  <2>11. /\ queue' \in Seq(Task) /\ running' \in SUBSET Task
         /\ timers' \in SUBSET Task /\ phase' \in [Task -> Phases]
    BY <2>1, <2>4, <2>5
  <2> QED
    BY <2>6, <2>7, <2>8, <2>9, <2>10, <2>11
<1>3. Idle \/ Start
  BY DEF Dispatch
<1> QED
  BY <1>1, <1>2, <1>3

-----------------------------------------------------------------------------
(* The invariant of every execution, clear() included.                      *)

LEMMA InitEstablishes == Init => IInv
<1> SUFFICES ASSUME Init PROVE IInv
  OBVIOUS
<1>1. queue \in Seq(Task) /\ Len(queue) = 0
  BY EmptySeq DEF Init
<1> QED
  BY <1>1, MaxConcurrentAssumption
     DEF Init, IInv, TypeOK, Phases, Exact, Ordered, Calls, WorkConserving, TicketsPast

LEMMA AddKeeps ==
  ASSUME IInv, NEW t \in Task, Add(t)
  PROVE  IInv'
<1> DEFINE q == Insert(queue, t)
           ph == [phase EXCEPT ![t] = "queued"]
           k == Cardinality(NotLower(queue, t))
<1>1. /\ queue \in Seq(Task) /\ active \in Int /\ phase \in [Task -> Phases]
      /\ running \in SUBSET Task /\ timers \in SUBSET Task
      /\ ticket \in [Task -> Nat] /\ stats.queued \in Nat
  BY DEF IInv, TypeOK
<1>2. /\ phase[t] = "new" /\ Dispatch(q, active, ph, running, timers)
      /\ ticket' = [ticket EXCEPT ![t] = stats.queued + 1]
      /\ stats' = [stats EXCEPT !.queued = @ + 1]
  BY DEF Add
<1>3. \A i \in 1..Len(queue) : queue[i] # t
  BY <1>2 DEF IInv, Exact
<1>4. k \in 0..Len(queue)
  BY <1>1, NotLowerInitial DEF IInv
<1>5. q \in Seq(Task) /\ Len(q) = Len(queue) + 1
  BY <1>1, <1>4, InsertShape
<1>6. Exact(q, ph)
  BY <1>1, <1>2, InsertExact DEF IInv
<1>7. ticket' \in [Task -> Nat] /\ Ordered(q, ticket')
  <2>1. Ordered(queue, ticket) /\ \A u \in Task : ticket[u] <= stats.queued
    BY DEF IInv, TicketsPast
  <2>2. Ordered(Insert(queue, t), [ticket EXCEPT ![t] = stats.queued + 1])
    BY <1>1, <1>3, <2>1, InsertOrdered
  <2>3. ticket' \in [Task -> Nat]
    BY <1>1, <1>2
  <2> QED
    BY <1>2, <2>2, <2>3
<1>8. ph \in [Task -> Phases] /\ Calls(ph, running, timers)
  BY <1>1, <1>2 DEF IInv, Calls, Phases
<1>9. OneSlotShort(q, active)
  <2>1. CASE queue = <<>>
    BY <1>5, <2>1, EmptySeq DEF OneSlotShort
  <2>2. CASE queue # <<>>
    BY <1>1, <2>2, MaxConcurrentAssumption DEF IInv, WorkConserving, OneSlotShort
  <2> QED
    BY <2>1, <2>2
<1>10. active <= MaxConcurrent
  BY DEF IInv
<1> HIDE DEF q, ph
<1>11. /\ queue' \in Seq(Task) /\ active' \in Int
       /\ phase' \in [Task -> Phases]
       /\ running' \in SUBSET Task /\ timers' \in SUBSET Task
       /\ Exact(queue', phase') /\ Ordered(queue', ticket')
       /\ Calls(phase', running', timers')
       /\ active' <= MaxConcurrent
       /\ WorkConserving'
  BY <1>1, <1>2, <1>5, <1>6, <1>7, <1>8, <1>9, <1>10, DispatchKeeps
<1>12. stats' \in [queued : Nat, completed : Nat, failed : Nat, timedOut : Nat]
  BY <1>2 DEF IInv, TypeOK
<1>13. TicketsPast'
  <2>1. stats'.queued = stats.queued + 1
    BY <1>2 DEF IInv, TypeOK
  <2>2. \A u \in Task : ticket[u] <= stats.queued
    BY DEF IInv, TicketsPast
  <2> QED
    BY <1>1, <1>2, <2>1, <2>2 DEF TicketsPast
<1> QED
  BY <1>7, <1>11, <1>12, <1>13 DEF IInv, TypeOK

(* Giving back the slot of an active task, however it ended.                *)
LEMMA GiveBackKeeps ==
  ASSUME IInv, NEW t \in Task, NEW p \in Settled,
         NEW run \in SUBSET Task, phase[t] = "active",
         \/ p = "timedOut" /\ run = running
         \/ run = running \ {t},
         stats' \in [queued : Nat, completed : Nat, failed : Nat, timedOut : Nat],
         stats'.queued = stats.queued, ticket' = ticket,
         Dispatch(queue, active - 1, [phase EXCEPT ![t] = p], run, timers \ {t})
  PROVE  IInv'
<1> DEFINE ph == [phase EXCEPT ![t] = p]
           tm == timers \ {t}
           a == active - 1
<1>1. /\ queue \in Seq(Task) /\ active \in Int /\ phase \in [Task -> Phases]
      /\ running \in SUBSET Task /\ timers \in SUBSET Task
      /\ ticket \in [Task -> Nat] /\ stats.queued \in Nat
  BY DEF IInv, TypeOK
<1>2. p \in Phases /\ p # "active" /\ p # "queued"
  BY DEF Phases, Settled
<1>3. ph \in [Task -> Phases] /\ tm \in SUBSET Task /\ a \in Int
  BY <1>1, <1>2
<1>4. Exact(queue, ph)
  <2>1. \A i \in 1..Len(queue) : queue[i] # t
    BY DEF IInv, Exact
  <2>2. \A i \in 1..Len(queue) : queue[i] \in Task
    BY <1>1, ElementOfSeq
  <2>3. \A i \in 1..Len(queue) : ph[queue[i]] = "queued"
    BY <1>1, <2>1, <2>2 DEF IInv, Exact
  <2>4. \A u \in Task : ph[u] = "queued" => phase[u] = "queued"
    BY <1>1, <1>2
  <2> QED
    BY <2>3, <2>4 DEF IInv, Exact
<1>5. Calls(ph, run, tm)
  BY <1>1, <1>2 DEF IInv, Calls
<1>6. a <= MaxConcurrent /\ OneSlotShort(queue, a)
  BY <1>1, MaxConcurrentAssumption DEF IInv, WorkConserving, OneSlotShort
<1>7. Dispatch(queue, a, ph, run, tm) /\ Ordered(queue, ticket)
  BY DEF IInv
<1> HIDE DEF ph, tm, a
<1>8. /\ queue' \in Seq(Task) /\ active' \in Int
      /\ phase' \in [Task -> Phases]
      /\ running' \in SUBSET Task /\ timers' \in SUBSET Task
      /\ Exact(queue', phase') /\ Ordered(queue', ticket)
      /\ Calls(phase', running', timers')
      /\ active' <= MaxConcurrent
      /\ WorkConserving'
  BY <1>1, <1>3, <1>4, <1>5, <1>6, <1>7, DispatchKeeps
<1>9. TicketsPast'
  BY DEF IInv, TicketsPast
<1> QED
  BY <1>1, <1>8, <1>9 DEF IInv, TypeOK

LEMMA FnReturnsKeeps ==
  ASSUME IInv, NEW t \in Task, NEW p \in {"resolved", "rejected"},
         NEW field \in {"completed", "failed"}, FnReturns(t, p, field)
  PROVE  IInv'
<1>1. CASE phase[t] \in Settled
  <2>1. /\ running' = running \ {t}
        /\ UNCHANGED <<queue, active, phase, timers, stats, ticket>>
    BY <1>1 DEF FnReturns
  <2>2. Calls(phase', running', timers')
    BY <1>1, <2>1 DEF IInv, Calls, Settled
  <2> QED
    BY <2>1, <2>2 DEF IInv, TypeOK, WorkConserving, TicketsPast
<1>2. CASE phase[t] \notin Settled
  <2>1. Release(t, p, field) /\ t \in running /\ ticket' = ticket
    BY <1>2 DEF FnReturns
  <2>2. phase[t] = "active"
    BY <1>2, <2>1 DEF IInv, Calls, Settled
  <2>3. /\ stats' \in [queued : Nat, completed : Nat, failed : Nat, timedOut : Nat]
        /\ stats'.queued = stats.queued
    <3>1. stats' = [stats EXCEPT ![field] = @ + 1]
      BY <2>1 DEF Release
    <3>2. stats \in [queued : Nat, completed : Nat, failed : Nat, timedOut : Nat]
      BY DEF IInv, TypeOK
    <3> QED
      BY <3>1, <3>2
  <2>4. p \in Settled
    BY DEF Settled
  <2>5. Dispatch(queue, active - 1, [phase EXCEPT ![t] = p], running \ {t}, timers \ {t})
    BY <2>1 DEF Release
  <2>6. running \ {t} \in SUBSET Task
    BY DEF IInv, TypeOK
  <2> QED
    BY <2>1, <2>2, <2>3, <2>4, <2>5, <2>6, GiveBackKeeps
<1> QED
  BY <1>1, <1>2

LEMMA ExpireKeeps ==
  ASSUME IInv, NEW t \in Task, Expire(t)
  PROVE  IInv'
<1>1. phase[t] = "active"
  BY DEF Expire, IInv, Calls
<1>2. /\ stats' \in [queued : Nat, completed : Nat, failed : Nat, timedOut : Nat]
      /\ stats'.queued = stats.queued
  <2>1. stats' = [stats EXCEPT !.timedOut = @ + 1]
    BY DEF Expire
  <2>2. stats \in [queued : Nat, completed : Nat, failed : Nat, timedOut : Nat]
    BY DEF IInv, TypeOK
  <2> QED
    BY <2>1, <2>2
<1>3. Dispatch(queue, active - 1, [phase EXCEPT ![t] = "timedOut"], running, timers \ {t})
      /\ ticket' = ticket
  BY DEF Expire
<1>4. "timedOut" \in Settled /\ running \in SUBSET Task
  BY DEF Settled, IInv, TypeOK
<1> QED
  BY <1>1, <1>2, <1>3, <1>4, GiveBackKeeps

LEMMA ClearKeeps == IInv /\ Clear => IInv'
<1> SUFFICES ASSUME IInv, Clear PROVE IInv'
  OBVIOUS
<1>1. queue' \in Seq(Task) /\ Len(queue') = 0 /\ queue' = <<>>
  BY EmptySeq DEF Clear
<1>2. /\ active' = 0 /\ active' <= MaxConcurrent
      /\ UNCHANGED <<running, timers, stats, ticket>>
  BY MaxConcurrentAssumption DEF Clear
<1>3. /\ phase' = [t \in Task |-> IF phase[t] = "queued" THEN "cleared" ELSE phase[t]]
      /\ phase' \in [Task -> Phases]
  BY DEF Clear, IInv, TypeOK, Phases
<1>4. Exact(queue', phase') /\ Ordered(queue', ticket')
  BY <1>1, <1>3 DEF Exact, Ordered
<1>5. Calls(phase', running', timers')
  BY <1>2, <1>3 DEF IInv, TypeOK, Calls
<1> QED
  BY <1>1, <1>2, <1>3, <1>4, <1>5 DEF IInv, TypeOK, WorkConserving, TicketsPast

LEMMA ServeKeeps == IInv /\ Serve => IInv'
<1> SUFFICES ASSUME IInv, NEW t \in Task,
                    \/ Add(t)
                    \/ FnReturns(t, "resolved", "completed")
                    \/ FnReturns(t, "rejected", "failed")
                    \/ Expire(t)
             PROVE  IInv'
  BY DEF Serve
<1>1. CASE Add(t)
  BY <1>1, AddKeeps
<1>2. CASE FnReturns(t, "resolved", "completed")
  BY <1>2, FnReturnsKeeps
<1>3. CASE FnReturns(t, "rejected", "failed")
  BY <1>3, FnReturnsKeeps
<1>4. CASE Expire(t)
  BY <1>4, ExpireKeeps
<1> QED
  BY <1>1, <1>2, <1>3, <1>4

LEMMA StutterKeeps == IInv /\ UNCHANGED vars => IInv'
  BY DEF vars, IInv, TypeOK, Exact, Ordered, Ranks, Calls, WorkConserving, TicketsPast

(* Every execution of the scheduler, with clear() at any moment, satisfies  *)
(* the inductive invariant.                                                 *)
THEOREM SchedulerInvariant == Spec => []IInv
<1>1. Init => IInv
  BY InitEstablishes
<1>2. IInv /\ [Next]_vars => IInv'
  BY ServeKeeps, ClearKeeps, StutterKeeps DEF Next
<1> QED
  BY <1>1, <1>2, PTL DEF Spec

(* Type correctness for every set of tasks and every limit.                 *)
THEOREM SchedulerTypeOK == Spec => []TypeOK
<1>1. IInv => TypeOK
  BY DEF IInv
<1> QED
  BY <1>1, SchedulerInvariant, PTL

(* The queue holds each waiting task exactly once: add() loses no task, and *)
(* none is dispatched twice.                                                *)
THEOREM SchedulerQueueExact == Spec => []QueueExact
<1>1. IInv => QueueExact
  BY DEF IInv, Exact, QueueExact, InPhase
<1> QED
  BY <1>1, SchedulerInvariant, PTL

(* The queue is sorted by priority, first come first served among equals.   *)
THEOREM SchedulerQueueOrdered == Spec => []QueueOrdered
<1>1. IInv => QueueOrdered
  BY DEF IInv, Ordered, Ranks, QueueOrdered, Before
<1> QED
  BY <1>1, SchedulerInvariant, PTL

(* No task waits while a slot is free, clear() included.                    *)
THEOREM SchedulerWorkConserving == Spec => []WorkConserving
<1>1. IInv => WorkConserving
  BY DEF IInv
<1> QED
  BY <1>1, SchedulerInvariant, PTL

(* Whoever waits is in the queue, once, and all slots are taken.            *)
THEOREM SchedulerNobodyForgotten == Spec => []NobodyForgotten
<1> QED
  BY SchedulerQueueExact, SchedulerWorkConserving, PTL DEF NobodyForgotten

(* Timers and calls in flight agree with the tasks that hold a slot.        *)
THEOREM SchedulerTimersAndCalls == Spec => []TimersAndCalls
<1>1. IInv => TimersAndCalls
  BY DEF IInv, Calls, TimersAndCalls
<1> QED
  BY <1>1, SchedulerInvariant, PTL

-----------------------------------------------------------------------------
(* While nobody calls clear(), the counter of slots is exact.               *)

Holders(ph) == {t \in Task : ph[t] = "active"}

(* One more or one fewer task in the active phase.                          *)
LEMMA HoldersChange ==
  ASSUME NEW ph \in [Task -> Phases], NEW t \in Task, NEW p \in Phases
  PROVE  /\ Cardinality(Holders(ph)) \in Nat
         /\ p = "active" /\ ph[t] # "active"
              => Cardinality(Holders([ph EXCEPT ![t] = p])) = Cardinality(Holders(ph)) + 1
         /\ p # "active" /\ ph[t] = "active"
              => Cardinality(Holders([ph EXCEPT ![t] = p])) = Cardinality(Holders(ph)) - 1
         /\ p # "active" /\ ph[t] # "active"
              => Holders([ph EXCEPT ![t] = p]) = Holders(ph)
<1> DEFINE H == Holders(ph)
           G == Holders([ph EXCEPT ![t] = p])
<1>1. H \in SUBSET Task
  BY DEF Holders
<1>2. IsFiniteSet(H) /\ Cardinality(H) \in Nat
  BY <1>1, TaskAssumption, FS_Subset, FS_CardinalityType
<1>3. CASE p = "active" /\ ph[t] # "active"
  <2>1. G = H \cup {t} /\ t \notin H
    BY <1>3 DEF Holders
  <2> QED
    BY <1>2, <1>3, <2>1, FS_AddElement
<1>4. CASE p # "active" /\ ph[t] = "active"
  <2>1. G = H \ {t} /\ t \in H
    BY <1>4 DEF Holders
  <2> QED
    BY <1>2, <1>4, <2>1, FS_RemoveElement
<1>5. CASE p # "active" /\ ph[t] # "active"
  <2>1. G = H
    BY <1>5 DEF Holders
  <2> QED
    BY <1>2, <1>5, <2>1
<1>6. CASE p = "active" /\ ph[t] = "active"
  BY <1>2, <1>6
<1> QED
  BY <1>3, <1>4, <1>5, <1>6

(* processNext() keeps a correct counter correct, and moves tasks from the  *)
(* queue to the slots one for one.                                          *)
LEMMA DispatchCounts ==
  ASSUME NEW q \in Seq(Task), NEW a \in Int, NEW ph \in [Task -> Phases],
         NEW run, NEW tm,
         Exact(q, ph), a = Cardinality(Holders(ph)),
         Dispatch(q, a, ph, run, tm)
  PROVE  /\ active' = Cardinality(Holders(phase'))
         /\ active' + Len(queue') = a + Len(q)
<1>1. CASE queue' = q /\ active' = a /\ phase' = ph
  BY <1>1
<1>2. CASE /\ q # <<>> /\ queue' = Tail(q) /\ active' = a + 1
           /\ phase' = [ph EXCEPT ![Head(q)] = "active"]
  <2>1. /\ Head(q) \in Task /\ Head(q) = q[1] /\ Len(q) \in Nat /\ Len(q) > 0
        /\ Len(Tail(q)) = Len(q) - 1
    BY <1>2, HeadTailProperties, LenProperties, EmptySeq
  <2>2. ph[Head(q)] = "queued"
    BY <2>1 DEF Exact
  <2>3. "active" \in Phases
    BY DEF Phases
  <2>4. Cardinality(Holders(phase')) = Cardinality(Holders(ph)) + 1
    BY <1>2, <2>1, <2>2, <2>3, HoldersChange
  <2> QED
    BY <1>2, <2>1, <2>4
<1> QED
  BY <1>1, <1>2 DEF Dispatch

(* The invariant while clear() is not called.                               *)
ServingInv ==
  /\ IInv
  /\ active = Cardinality(Holders(phase))
  /\ StatsConserved

LEMMA ServingAdd ==
  ASSUME ServingInv, NEW t \in Task, Add(t)
  PROVE  active' = Cardinality(Holders(phase')) /\ StatsConserved'
<1> DEFINE q == Insert(queue, t)
           ph == [phase EXCEPT ![t] = "queued"]
           k == Cardinality(NotLower(queue, t))
<1>1. /\ queue \in Seq(Task) /\ active \in Int /\ phase \in [Task -> Phases]
      /\ ticket \in [Task -> Nat]
      /\ stats \in [queued : Nat, completed : Nat, failed : Nat, timedOut : Nat]
      /\ Exact(queue, phase) /\ Ordered(queue, ticket)
  BY DEF ServingInv, IInv, TypeOK
<1>2. /\ phase[t] = "new" /\ Dispatch(q, active, ph, running, timers)
      /\ stats' = [stats EXCEPT !.queued = @ + 1]
  BY DEF Add
<1>3. k \in 0..Len(queue)
  BY <1>1, NotLowerInitial
<1>4. q \in Seq(Task) /\ Len(q) = Len(queue) + 1
  BY <1>1, <1>3, InsertShape
<1>5. Exact(q, ph)
  BY <1>1, <1>2, InsertExact
<1>6. "queued" \in Phases /\ ph \in [Task -> Phases]
  BY <1>1 DEF Phases
<1>7. active = Cardinality(Holders(ph))
  BY <1>1, <1>2, <1>6, HoldersChange DEF ServingInv
<1> HIDE DEF q, ph
<1>8. /\ active' = Cardinality(Holders(phase'))
      /\ active' + Len(queue') = active + Len(q)
  BY <1>1, <1>2, <1>4, <1>5, <1>6, <1>7, DispatchCounts
<1>9. /\ stats'.queued = stats.queued + 1
      /\ stats'.completed = stats.completed
      /\ stats'.failed = stats.failed /\ stats'.timedOut = stats.timedOut
  BY <1>1, <1>2
<1>10. StatsConserved'
  <2>1. Len(queue) \in Nat
    BY <1>1, LenProperties
  <2>2. Len(queue') \in Nat /\ active' \in Int
    <3>1. IInv'
      BY AddKeeps DEF ServingInv
    <3> QED
      BY <3>1, LenProperties DEF IInv, TypeOK
  <2>3. stats.queued = stats.completed + stats.failed + stats.timedOut + active + Len(queue)
    BY DEF ServingInv, StatsConserved
  <2>4. /\ stats.completed \in Nat /\ stats.failed \in Nat
        /\ stats.timedOut \in Nat /\ stats.queued \in Nat /\ active \in Int
    BY <1>1
  <2>5. active' + Len(queue') = active + Len(queue) + 1
    BY <1>4, <1>8, <2>1, <2>2, <2>4
  <2>6. stats'.queued = stats.completed + stats.failed + stats.timedOut
                        + active' + Len(queue')
    BY <1>9, <2>1, <2>2, <2>3, <2>4, <2>5, SMTT(30)
  <2> QED
    BY <1>9, <2>6 DEF StatsConserved
<1> QED
  BY <1>8, <1>10

LEMMA ServingGiveBack ==
  ASSUME ServingInv, NEW t \in Task, NEW p \in Settled, NEW run,
         phase[t] = "active",
         Len(queue') \in Nat, active' \in Int,
         \E f \in {"completed", "failed", "timedOut"} :
           stats' = [stats EXCEPT ![f] = @ + 1],
         Dispatch(queue, active - 1, [phase EXCEPT ![t] = p], run, timers \ {t})
  PROVE  active' = Cardinality(Holders(phase')) /\ StatsConserved'
<1> DEFINE ph == [phase EXCEPT ![t] = p]
           a == active - 1
<1>1. /\ queue \in Seq(Task) /\ active \in Int /\ phase \in [Task -> Phases]
      /\ stats \in [queued : Nat, completed : Nat, failed : Nat, timedOut : Nat]
      /\ Exact(queue, phase)
  BY DEF ServingInv, IInv, TypeOK
<1>2. p \in Phases /\ p # "active" /\ p # "queued" /\ ph \in [Task -> Phases]
  BY <1>1 DEF Phases, Settled
<1>3. Exact(queue, ph)
  <2>1. \A i \in 1..Len(queue) : queue[i] # t
    BY <1>1 DEF Exact
  <2>2. \A i \in 1..Len(queue) : queue[i] \in Task
    BY <1>1, ElementOfSeq
  <2>3. \A i \in 1..Len(queue) : ph[queue[i]] = "queued"
    BY <1>1, <2>1, <2>2 DEF Exact
  <2>4. \A u \in Task : ph[u] = "queued" => phase[u] = "queued"
    BY <1>1, <1>2
  <2> QED
    BY <1>1, <2>3, <2>4 DEF Exact
<1>4. a \in Int /\ a = Cardinality(Holders(ph))
  <2>1. Cardinality(Holders(ph)) = Cardinality(Holders(phase)) - 1
    BY <1>1, <1>2, HoldersChange
  <2>2. active = Cardinality(Holders(phase))
    BY DEF ServingInv
  <2> HIDE DEF ph
  <2> QED
    BY <1>1, <2>1, <2>2
<1>5. Dispatch(queue, a, ph, run, timers \ {t})
  OBVIOUS
<1> HIDE DEF ph
<1>6. /\ active' = Cardinality(Holders(phase'))
      /\ active' + Len(queue') = a + Len(queue)
  BY <1>1, <1>2, <1>3, <1>4, <1>5, DispatchCounts
<1>7. /\ stats'.queued = stats.queued
      /\ stats'.completed + stats'.failed + stats'.timedOut
         = stats.completed + stats.failed + stats.timedOut + 1
  <2>1. PICK f \in {"completed", "failed", "timedOut"} :
          stats' = [stats EXCEPT ![f] = @ + 1]
    OBVIOUS
  <2>5. stats.completed \in Nat /\ stats.failed \in Nat /\ stats.timedOut \in Nat
    BY <1>1
  <2>2. CASE f = "completed"
    <3>1. /\ stats'.queued = stats.queued /\ stats'.completed = stats.completed + 1
          /\ stats'.failed = stats.failed /\ stats'.timedOut = stats.timedOut
      BY <1>1, <2>1, <2>2
    <3> QED
      BY <2>5, <3>1
  <2>3. CASE f = "failed"
    <3>1. /\ stats'.queued = stats.queued /\ stats'.failed = stats.failed + 1
          /\ stats'.completed = stats.completed /\ stats'.timedOut = stats.timedOut
      BY <1>1, <2>1, <2>3
    <3> QED
      BY <2>5, <3>1
  <2>4. CASE f = "timedOut"
    <3>1. /\ stats'.queued = stats.queued /\ stats'.timedOut = stats.timedOut + 1
          /\ stats'.completed = stats.completed /\ stats'.failed = stats.failed
      BY <1>1, <2>1, <2>4
    <3> QED
      BY <2>5, <3>1
  <2> QED
    BY <2>1, <2>2, <2>3, <2>4
<1>8. StatsConserved'
  <2>1. Len(queue) \in Nat
    BY <1>1, LenProperties
  <2>2. stats.queued = stats.completed + stats.failed + stats.timedOut + active + Len(queue)
    BY DEF ServingInv, StatsConserved
  <2>3. /\ stats.completed \in Nat /\ stats.failed \in Nat
        /\ stats.timedOut \in Nat /\ stats.queued \in Nat
    BY <1>1
  <2>4. stats'.queued = (stats'.completed + stats'.failed + stats'.timedOut) + (active' + Len(queue'))
    BY <1>1, <1>6, <1>7, <2>1, <2>2, <2>3
  <2>5. /\ stats'.completed \in Int /\ stats'.failed \in Int /\ stats'.timedOut \in Int
    BY <1>1
  <2> QED
    BY <2>4, <2>5 DEF StatsConserved
<1> QED
  BY <1>6, <1>8

LEMMA ServingStep == ServingInv /\ [Serve]_vars => ServingInv'
<1>1. ASSUME ServingInv, NEW t \in Task, Add(t)
      PROVE  ServingInv'
  BY <1>1, AddKeeps, ServingAdd DEF ServingInv
<1>2. ASSUME ServingInv, NEW t \in Task,
             NEW p \in {"resolved", "rejected"},
             NEW field \in {"completed", "failed"}, FnReturns(t, p, field)
      PROVE  ServingInv'
  <2>1. IInv'
    BY <1>2, FnReturnsKeeps DEF ServingInv
  <2>2. CASE phase[t] \in Settled
    <3>1. UNCHANGED <<queue, active, phase, stats>>
      BY <1>2, <2>2 DEF FnReturns
    <3> QED
      BY <1>2, <2>1, <3>1 DEF ServingInv, StatsConserved
  <2>3. CASE phase[t] \notin Settled
    <3>1. Release(t, p, field) /\ t \in running
      BY <1>2, <2>3 DEF FnReturns
    <3>2. phase[t] = "active"
      BY <1>2, <2>3, <3>1 DEF ServingInv, IInv, Calls, Settled
    <3>3. /\ Dispatch(queue, active - 1, [phase EXCEPT ![t] = p], running \ {t}, timers \ {t})
          /\ stats' = [stats EXCEPT ![field] = @ + 1]
      BY <3>1 DEF Release
    <3>4. p \in Settled /\ field \in {"completed", "failed", "timedOut"}
      BY DEF Settled
    <3>5. Len(queue') \in Nat /\ active' \in Int
      BY <2>1, LenProperties DEF IInv, TypeOK
    <3>6. active' = Cardinality(Holders(phase')) /\ StatsConserved'
      BY <1>2, <3>2, <3>3, <3>4, <3>5, ServingGiveBack
    <3> QED
      BY <2>1, <3>6 DEF ServingInv
  <2> QED
    BY <2>2, <2>3
<1>3. ASSUME ServingInv, NEW t \in Task, Expire(t)
      PROVE  ServingInv'
  <2>1. IInv'
    BY <1>3, ExpireKeeps DEF ServingInv
  <2>2. phase[t] = "active"
    BY <1>3 DEF Expire, ServingInv, IInv, Calls
  <2>3. /\ Dispatch(queue, active - 1, [phase EXCEPT ![t] = "timedOut"], running, timers \ {t})
        /\ stats' = [stats EXCEPT !["timedOut"] = @ + 1]
    BY <1>3 DEF Expire
  <2>4. "timedOut" \in Settled
    BY DEF Settled
  <2>5. Len(queue') \in Nat /\ active' \in Int
    BY <2>1, LenProperties DEF IInv, TypeOK
  <2>6. active' = Cardinality(Holders(phase')) /\ StatsConserved'
    BY <1>3, <2>2, <2>3, <2>4, <2>5, ServingGiveBack
  <2> QED
    BY <2>1, <2>6 DEF ServingInv
<1>4. ASSUME ServingInv, UNCHANGED vars
      PROVE  ServingInv'
  BY <1>4, StutterKeeps DEF ServingInv, StatsConserved, vars
<1> QED
  BY <1>1, <1>2, <1>3, <1>4 DEF Serve

(* While clear() is not called the counter of slots is exact, the limit is  *)
(* kept and the statistics add up.                                          *)
THEOREM ServingInvariant == ServingSpec => []ServingInv
<1>1. Init => ServingInv
  <2> SUFFICES ASSUME Init PROVE ServingInv
    OBVIOUS
  <2>1. Holders(phase) = {} /\ active = 0
    BY DEF Init, Holders
  <2>2. Cardinality(Holders(phase)) = 0
    BY <2>1, FS_EmptySet
  <2>3. StatsConserved
    BY EmptySeq DEF Init, StatsConserved
  <2> QED
    BY <2>1, <2>2, <2>3, InitEstablishes DEF ServingInv
<1> QED
  BY <1>1, ServingStep, PTL DEF ServingSpec

(* The slot counter never drifts from the tasks that hold a slot.           *)
THEOREM ServingSlotAccounting == ServingSpec => []SlotAccounting
<1>1. ServingInv => SlotAccounting
  BY DEF ServingInv, SlotAccounting, InPhase, Holders
<1> QED
  BY <1>1, ServingInvariant, PTL

(* At most maxConcurrent promises are started and unsettled.                *)
THEOREM ServingConcurrencyLimit == ServingSpec => []ConcurrencyLimit
<1>1. ServingInv => ConcurrencyLimit
  BY DEF ServingInv, IInv, ConcurrencyLimit, InPhase, Holders
<1> QED
  BY <1>1, ServingInvariant, PTL

(* getStats() accounts for every task ever added.                           *)
THEOREM ServingStatsConserved == ServingSpec => []StatsConserved
<1>1. ServingInv => StatsConserved
  BY DEF ServingInv
<1> QED
  BY <1>1, ServingInvariant, PTL

-----------------------------------------------------------------------------
(* The status of every task in the pool, of the phases ph.                  *)
Statuses(ph) == [t \in Task |-> PoolStatus(ph[t])]

-----------------------------------------------------------------------------
(* The head of the queue is the task that nobody waiting outranks.          *)
LEMMA HeadIsBest ==
  ASSUME NEW q \in Seq(Task), NEW ph \in [Task -> Phases],
         NEW tk \in [Task -> Nat],
         Exact(q, ph), Ordered(q, tk), q # <<>>,
         NEW u \in Task, ph[u] = "queued", u # Head(q)
  PROVE  Ranks(tk, Head(q), u)
<1>1. Len(q) \in Nat /\ Len(q) > 0 /\ Head(q) = q[1]
  BY HeadTailProperties, LenProperties, EmptySeq
<1>2. PICK j \in 1..Len(q) : q[j] = u
  BY DEF Exact
<1>3. 1 \in 1..Len(q) /\ 1 < j
  BY <1>1, <1>2
<1> QED
  BY <1>1, <1>2, <1>3 DEF Ordered

(* What processNext() changes of the phases.                                *)
LEMMA DispatchShape ==
  ASSUME NEW q \in Seq(Task), NEW a, NEW ph \in [Task -> Phases],
         NEW run, NEW tm,
         Exact(q, ph), Dispatch(q, a, ph, run, tm)
  PROVE  \/ (a >= MaxConcurrent \/ q = <<>>) /\ phase' = ph
         \/ /\ a < MaxConcurrent /\ q # <<>>
            /\ Head(q) \in Task /\ ph[Head(q)] = "queued"
            /\ phase' = [ph EXCEPT ![Head(q)] = "active"]
<1>1. CASE q # <<>>
  <2>1. Len(q) \in Nat /\ Len(q) > 0 /\ Head(q) = q[1] /\ Head(q) \in Task
    BY <1>1, HeadTailProperties, LenProperties, EmptySeq
  <2>2. ph[Head(q)] = "queued"
    BY <2>1 DEF Exact
  <2> QED
    BY <2>1, <2>2 DEF Dispatch
<1>2. CASE q = <<>>
  BY <1>2 DEF Dispatch
<1> QED
  BY <1>1, <1>2

(* processNext() starts the best of the waiting tasks, or none.             *)
LEMMA DispatchBest ==
  ASSUME NEW q \in Seq(Task), NEW a, NEW ph \in [Task -> Phases],
         NEW run, NEW tm, NEW tk \in [Task -> Nat],
         Exact(q, ph), Ordered(q, tk), Dispatch(q, a, ph, run, tm),
         NEW t \in Task, NEW u \in Task,
         ph[t] # "active", phase'[t] = "active", phase'[u] = "queued"
  PROVE  Ranks(tk, t, u)
<1>1. /\ q # <<>> /\ Head(q) \in Task
      /\ phase' = [ph EXCEPT ![Head(q)] = "active"]
  BY DispatchShape
<1>2. t = Head(q) /\ u # Head(q) /\ ph[u] = "queued"
  BY <1>1
<1> QED
  BY <1>1, <1>2, HeadIsBest

-----------------------------------------------------------------------------
(* The queue and the phases that add() hands to processNext().              *)
LEMMA AddHands ==
  ASSUME IInv, NEW t \in Task, Add(t)
  PROVE  /\ Insert(queue, t) \in Seq(Task)
         /\ [phase EXCEPT ![t] = "queued"] \in [Task -> Phases]
         /\ ticket' \in [Task -> Nat]
         /\ Exact(Insert(queue, t), [phase EXCEPT ![t] = "queued"])
         /\ Ordered(Insert(queue, t), ticket')
<1>1. /\ queue \in Seq(Task) /\ phase \in [Task -> Phases]
      /\ ticket \in [Task -> Nat] /\ stats.queued \in Nat
      /\ Exact(queue, phase) /\ Ordered(queue, ticket)
      /\ \A u \in Task : ticket[u] <= stats.queued
  BY DEF IInv, TypeOK, TicketsPast
<1>2. /\ phase[t] = "new"
      /\ ticket' = [ticket EXCEPT ![t] = stats.queued + 1]
  BY DEF Add
<1>3. \A i \in 1..Len(queue) : queue[i] # t
  BY <1>1, <1>2 DEF Exact
<1>4. Insert(queue, t) \in Seq(Task)
  <2>1. Cardinality(NotLower(queue, t)) \in 0..Len(queue)
    BY <1>1, NotLowerInitial
  <2> QED
    BY <1>1, <2>1, InsertShape
<1>5. Exact(Insert(queue, t), [phase EXCEPT ![t] = "queued"])
  BY <1>1, <1>2, InsertExact
<1>6. Ordered(Insert(queue, t), ticket')
  BY <1>1, <1>2, <1>3, InsertOrdered
<1>7. "queued" \in Phases
  BY DEF Phases
<1> QED
  BY <1>1, <1>2, <1>4, <1>5, <1>6, <1>7

(* The phases that the end of a task hands to it.                           *)
LEMMA EndHands ==
  ASSUME IInv, NEW t \in Task, NEW p \in Settled, phase[t] = "active"
  PROVE  /\ queue \in Seq(Task)
         /\ [phase EXCEPT ![t] = p] \in [Task -> Phases]
         /\ ticket \in [Task -> Nat]
         /\ Exact(queue, [phase EXCEPT ![t] = p])
         /\ Ordered(queue, ticket)
<1> DEFINE ph == [phase EXCEPT ![t] = p]
<1>1. /\ queue \in Seq(Task) /\ phase \in [Task -> Phases]
      /\ ticket \in [Task -> Nat]
      /\ Exact(queue, phase) /\ Ordered(queue, ticket)
  BY DEF IInv, TypeOK
<1>2. p \in Phases /\ p # "queued" /\ ph \in [Task -> Phases]
  BY <1>1 DEF Phases, Settled
<1>3. Exact(queue, ph)
  <2>1. \A i \in 1..Len(queue) : queue[i] \in Task /\ queue[i] # t
    BY <1>1, ElementOfSeq DEF Exact
  <2>2. \A i \in 1..Len(queue) : ph[queue[i]] = "queued"
    BY <1>1, <2>1 DEF Exact
  <2>3. \A u \in Task : ph[u] = "queued" => phase[u] = "queued"
    BY <1>1, <1>2
  <2> QED
    BY <1>1, <2>2, <2>3 DEF Exact
<1> QED
  BY <1>1, <1>2, <1>3

(* How a task that holds a slot ends.                                       *)
Ends(t) ==
  \E p \in Settled : \E run, tm :
    /\ phase[t] = "active"
    /\ Dispatch(queue, active - 1, [phase EXCEPT ![t] = p], run, tm)
    /\ ticket' = ticket /\ stats'.queued = stats.queued

(* Every step of the scheduler is an arrival, an end, or changes nothing    *)
(* that the pool knows of.                                                  *)
LEMMA ServeSteps ==
  ASSUME IInv, Serve
  PROVE  \/ \E t \in Task : Add(t)
         \/ \E t \in Task : Ends(t)
         \/ UNCHANGED <<phase, ticket, stats>>
<1> SUFFICES ASSUME NEW t \in Task, ~Add(t),
                    \/ FnReturns(t, "resolved", "completed")
                    \/ FnReturns(t, "rejected", "failed")
                    \/ Expire(t)
             PROVE  Ends(t) \/ UNCHANGED <<phase, ticket, stats>>
  BY DEF Serve
<1>1. stats \in [queued : Nat, completed : Nat, failed : Nat, timedOut : Nat]
  BY DEF IInv, TypeOK
<1>2. ASSUME NEW p \in {"resolved", "rejected"},
             NEW field \in {"completed", "failed"}, FnReturns(t, p, field)
      PROVE  Ends(t) \/ UNCHANGED <<phase, ticket, stats>>
  <2>1. CASE phase[t] \in Settled
    BY <1>2, <2>1 DEF FnReturns
  <2>2. CASE phase[t] \notin Settled
    <3>1. Release(t, p, field) /\ t \in running /\ ticket' = ticket
      BY <1>2, <2>2 DEF FnReturns
    <3>2. phase[t] = "active"
      BY <2>2, <3>1 DEF IInv, Calls, Settled
    <3>3. stats'.queued = stats.queued
      BY <1>1, <3>1 DEF Release
    <3>4. p \in Settled
      BY DEF Settled
    <3> QED
      BY <3>1, <3>2, <3>3, <3>4 DEF Release, Ends
  <2> QED
    BY <2>1, <2>2
<1>3. ASSUME Expire(t)
      PROVE  Ends(t)
  <2>1. phase[t] = "active" /\ "timedOut" \in Settled
    BY <1>3 DEF Expire, IInv, Calls, Settled
  <2>2. stats'.queued = stats.queued
    BY <1>1, <1>3 DEF Expire
  <2> QED
    BY <1>3, <2>1, <2>2 DEF Expire, Ends
<1> QED
  BY <1>2, <1>3

-----------------------------------------------------------------------------
(* Whenever a task is started, also after clear(), every task left waiting  *)
(* ranks behind it.                                                         *)
THEOREM SchedulerBestFirst == Spec => BestFirst
<1> DEFINE Best == \A t, u \in Task :
                     /\ phase[t] # "active" /\ phase'[t] = "active"
                     /\ phase'[u] = "queued"
                     => Before(t, u)'
<1>1. ASSUME IInv, Next
      PROVE  Best
  <2> SUFFICES ASSUME NEW t \in Task, NEW u \in Task,
                      phase[t] # "active", phase'[t] = "active", phase'[u] = "queued"
               PROVE  Ranks(ticket', t, u)
    BY DEF Before, Ranks
  <2>1. CASE Clear
    BY <1>1, <2>1 DEF Clear, IInv, TypeOK
  <2>2. ASSUME NEW v \in Task, Add(v)
        PROVE  Ranks(ticket', t, u)
    <3>1. [phase EXCEPT ![v] = "queued"][t] # "active"
      BY <1>1 DEF IInv, TypeOK
    <3>2. Dispatch(Insert(queue, v), active, [phase EXCEPT ![v] = "queued"], running, timers)
      BY <2>2 DEF Add
    <3> QED
      BY <1>1, <2>2, <3>1, <3>2, AddHands, DispatchBest
  <2>3. ASSUME NEW v \in Task, Ends(v)
        PROVE  Ranks(ticket', t, u)
    <3>0. PICK p \in Settled : \E run, tm :
            /\ phase[v] = "active"
            /\ Dispatch(queue, active - 1, [phase EXCEPT ![v] = p], run, tm)
            /\ ticket' = ticket
      BY <2>3 DEF Ends
    <3>1. PICK run, tm :
            /\ phase[v] = "active"
            /\ Dispatch(queue, active - 1, [phase EXCEPT ![v] = p], run, tm)
            /\ ticket' = ticket
      BY <3>0
    <3>2. [phase EXCEPT ![v] = p][t] # "active"
      BY <1>1 DEF IInv, TypeOK, Settled
    <3> QED
      BY <1>1, <3>1, <3>2, EndHands, DispatchBest
  <2>4. CASE UNCHANGED <<phase, ticket, stats>>
    BY <2>4
  <2> QED
    BY <1>1, <2>1, <2>2, <2>3, <2>4, ServeSteps DEF Next
<1>2. IInv /\ [Next]_vars => [Best]_vars
  BY <1>1
<1> QED
  BY <1>2, SchedulerInvariant, PTL DEF Spec, BestFirst

-----------------------------------------------------------------------------
(* A change of one phase is a change of one status.                         *)
LEMMA StatusesExcept ==
  ASSUME NEW ph \in [Task -> Phases], NEW t \in Task, NEW p
  PROVE  Statuses([ph EXCEPT ![t] = p]) = [Statuses(ph) EXCEPT ![t] = PoolStatus(p)]
  BY DEF Statuses

(* The pool counts its holders as the scheduler does.                       *)
LEMMA SameSize ==
  ASSUME NEW S
  PROVE  Pool!Cardinality(S) = Cardinality(S)
  BY Zenon DEF Pool!Cardinality, Cardinality

(* The statuses granted by the pool are what processNext() leaves.          *)
LEMMA DispatchGrants ==
  ASSUME NEW q \in Seq(Task), NEW a \in Int, NEW ph \in [Task -> Phases],
         NEW run, NEW tm, NEW tk \in [Task -> Nat],
         Exact(q, ph), Ordered(q, tk), a = Cardinality(Holders(ph)),
         Dispatch(q, a, ph, run, tm)
  PROVE  Statuses(phase') \in Pool!Granted(Statuses(ph), tk)
<1> DEFINE st == Statuses(ph)
<1>1. Pool!With(st, "holding") = Holders(ph)
  BY DEF Pool!With, Statuses, PoolStatus, Holders
<1>2. Pool!With(st, "waiting") = {t \in Task : ph[t] = "queued"}
  BY DEF Pool!With, Statuses, PoolStatus
<1>3. q = <<>> <=> {t \in Task : ph[t] = "queued"} = {}
  <2>1. ASSUME q = <<>>, NEW t \in Task, ph[t] = "queued"
        PROVE  FALSE
    <3>1. Len(q) = 0
      BY <2>1, EmptySeq
    <3> QED
      BY <2>1, <3>1 DEF Exact
  <2>2. ASSUME q # <<>>
        PROVE  Head(q) \in Task /\ ph[Head(q)] = "queued"
    <3>1. Len(q) \in Nat /\ Len(q) > 0 /\ Head(q) = q[1] /\ Head(q) \in Task
      BY <2>2, HeadTailProperties, LenProperties, EmptySeq
    <3> QED
      BY <3>1 DEF Exact
  <2> QED
    BY <2>1, <2>2
<1>4. CASE (a >= MaxConcurrent \/ q = <<>>) /\ phase' = ph
  <2>1. ~(Cardinality(Holders(ph)) < MaxConcurrent /\ {t \in Task : ph[t] = "queued"} # {})
    BY <1>3, <1>4, MaxConcurrentAssumption
  <2> HIDE DEF st
  <2>2. Pool!Granted(st, tk) = {st}
    BY <1>1, <1>2, <2>1, SameSize, Zenon DEF Pool!Granted
  <2> USE DEF st
  <2> QED
    BY <1>4, <2>2
<1>5. CASE /\ a < MaxConcurrent /\ q # <<>>
           /\ Head(q) \in Task /\ ph[Head(q)] = "queued"
           /\ phase' = [ph EXCEPT ![Head(q)] = "active"]
  <2> DEFINE h == Head(q)
  <2>1. ASSUME NEW u \in Task, ph[u] = "queued", u # h
        PROVE  Pool!Outranks(tk, h, u)
    <3>1. Ranks(tk, h, u)
      BY <1>5, <2>1, HeadIsBest
    <3> QED
      BY <3>1 DEF Ranks, Pool!Outranks
  <2>2. h \in Pool!Best(st, tk)
    BY <1>2, <1>5, <2>1 DEF Pool!Best
  <2>3. Cardinality(Pool!With(st, "holding")) < MaxConcurrent /\ Pool!With(st, "waiting") # {}
    BY <1>1, <1>2, <1>3, <1>5
  <2> DEFINE new == [st EXCEPT ![h] = "holding"]
  <2>4. new \in Pool!Granted(st, tk)
    <3>1. new \in {[st EXCEPT ![t] = "holding"] : t \in Pool!Best(st, tk)}
      BY <2>2, Zenon
    <3> HIDE DEF st, new
    <3> QED
      BY <2>3, <3>1, SameSize, Zenon DEF Pool!Granted
  <2>5. Statuses(phase') = new
    <3>1. PoolStatus("active") = "holding"
      BY DEF PoolStatus
    <3>2. h \in Task /\ phase' = [ph EXCEPT ![h] = "active"]
      BY <1>5
    <3> HIDE DEF h
    <3>3. Statuses([ph EXCEPT ![h] = "active"]) = [Statuses(ph) EXCEPT ![h] = PoolStatus("active")]
      BY <3>2, StatusesExcept
    <3> QED
      BY <3>1, <3>2, <3>3
  <2> QED
    BY <2>4, <2>5, Zenon
<1> QED
  BY <1>4, <1>5, DispatchShape

(* While nobody calls clear(), every callback of the scheduler is a step of *)
(* the pool, or one that the pool does not see.                             *)
LEMMA StepSimulates ==
  ASSUME ServingInv, [Serve]_vars
  PROVE  [Pool!PoolNext]_(Pool!poolVars)
<1>1. IInv /\ active = Cardinality(Holders(phase)) /\ phase \in [Task -> Phases] /\ active \in Int
  BY DEF ServingInv, IInv, TypeOK
<1>2. /\ Pool!poolVars = <<Statuses(phase), ticket, stats.queued>>
      /\ Pool!poolVars' = <<Statuses(phase'), ticket', stats'.queued>>
  BY DEF Pool!poolVars, Statuses
<1>3. ASSUME NEW t \in Task, Add(t)
      PROVE  Pool!Arrive(t)
  <2> DEFINE ph == [phase EXCEPT ![t] = "queued"]
  <2>1. /\ phase[t] = "new"
        /\ stats' = [stats EXCEPT !.queued = @ + 1]
        /\ ticket' = [ticket EXCEPT ![t] = stats.queued + 1]
        /\ Dispatch(Insert(queue, t), active, ph, running, timers)
    BY <1>3 DEF Add
  <2>2. stats'.queued = stats.queued + 1
    BY <1>1, <2>1 DEF IInv, TypeOK
  <2>3. active = Cardinality(Holders(ph))
    <3>1. "queued" \in Phases
      BY DEF Phases
    <3> QED
      BY <1>1, <2>1, <3>1, HoldersChange
  <2>4. /\ Insert(queue, t) \in Seq(Task) /\ ph \in [Task -> Phases] /\ ticket' \in [Task -> Nat]
        /\ Exact(Insert(queue, t), ph) /\ Ordered(Insert(queue, t), ticket')
    BY <1>1, <1>3, AddHands
  <2> HIDE DEF ph
  <2>5. Statuses(phase') \in Pool!Granted(Statuses(ph), ticket')
    BY <1>1, <2>1, <2>3, <2>4, DispatchGrants
  <2>6. Statuses(ph) = [Statuses(phase) EXCEPT ![t] = "waiting"]
    BY <1>1, StatusesExcept, ZenonT(60) DEF ph, PoolStatus
  <2>7. Statuses(phase)[t] = "idle"
    BY <2>1 DEF Statuses, PoolStatus
  <2> QED
    BY <2>1, <2>2, <2>5, <2>6, <2>7 DEF Pool!Arrive, Statuses
<1>4. ASSUME NEW t \in Task, Ends(t)
      PROVE  Pool!Leave(t)
  <2>0. PICK p \in Settled : \E run, tm :
          /\ phase[t] = "active"
          /\ Dispatch(queue, active - 1, [phase EXCEPT ![t] = p], run, tm)
          /\ ticket' = ticket /\ stats'.queued = stats.queued
    BY <1>4 DEF Ends
  <2>1. PICK run, tm :
          /\ phase[t] = "active"
          /\ Dispatch(queue, active - 1, [phase EXCEPT ![t] = p], run, tm)
          /\ ticket' = ticket /\ stats'.queued = stats.queued
    BY <2>0
  <2> DEFINE ph == [phase EXCEPT ![t] = p]
  <2>2. /\ queue \in Seq(Task) /\ ph \in [Task -> Phases] /\ ticket \in [Task -> Nat]
        /\ Exact(queue, ph) /\ Ordered(queue, ticket)
    BY <1>1, <2>1, EndHands
  <2>3. p \in Phases /\ p # "active"
    BY DEF Phases, Settled
  <2>4. active - 1 \in Int /\ active - 1 = Cardinality(Holders(ph))
    <3>1. Cardinality(Holders(ph)) = Cardinality(Holders(phase)) - 1
      BY <1>1, <2>1, <2>3, HoldersChange
    <3> QED
      BY <1>1, <3>1
  <2>5. Dispatch(queue, active - 1, ph, run, tm)
    BY <2>1
  <2> HIDE DEF ph
  <2>6. Statuses(phase') \in Pool!Granted(Statuses(ph), ticket)
    BY <2>2, <2>4, <2>5, DispatchGrants
  <2>7. Statuses(ph) = [Statuses(phase) EXCEPT ![t] = "gone"]
    BY <1>1, StatusesExcept DEF ph, PoolStatus, Settled
  <2>8. Statuses(phase)[t] = "holding"
    BY <2>1 DEF Statuses, PoolStatus
  <2> QED
    BY <2>1, <2>6, <2>7, <2>8 DEF Pool!Leave, Statuses
<1>5. CASE UNCHANGED <<phase, ticket, stats>>
  BY <1>2, <1>5
<1>6. CASE UNCHANGED vars
  BY <1>2, <1>6 DEF vars
<1> QED
  BY <1>1, <1>3, <1>4, <1>5, <1>6, ServeSteps DEF Pool!PoolNext

(* While nobody calls clear(), the sorted array, the counter of slots and   *)
(* the timers implement a pool that hands its slots to the best waiting     *)
(* task.                                                                    *)
THEOREM ServingImplementsPool == ServingSpec => ImplementsPool
<1>1. Init => Pool!PoolInit
  BY DEF Init, Pool!PoolInit, PoolStatus
<1>2. ServingInv /\ [Serve]_vars => [Pool!PoolNext]_(Pool!poolVars)
  BY StepSimulates
<1> QED
  BY <1>1, <1>2, ServingInvariant, PTL DEF ServingSpec, ImplementsPool, Pool!PoolSpec
=============================================================================
