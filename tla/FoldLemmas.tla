------------------------------- MODULE FoldLemmas -------------------------------
(***************************************************************************)
(* What the proofs about the models need of induction over data: numbers,  *)
(* the largest member of a finite set, left folds over sequences and sums  *)
(* over finite sets.  A fold of the community modules is a function chosen *)
(* by its recursive equation; the lemmas say that it exists and is unique, *)
(* for operations given as functions, and each proof carries them over to  *)
(* the operator that its model folds with.                                 *)
(***************************************************************************)
EXTENDS Integers, SequencesExt, FiniteSetTheorems, SequenceTheorems, WellFoundedInduction, TLAPS

(* A set of numbers has a least member.                                     *)
LEMMA LeastNat ==
  ASSUME NEW T \in SUBSET Nat, T # {}
  PROVE  \E x \in T : \A y \in T : ~(y < x)
<1>1. PICK x \in T : \A y \in T : ~(<<y, x>> \in OpToRel(<, Nat))
  BY NatLessThanWellFounded, WFMin
<1>2. ASSUME NEW y \in T, y < x
      PROVE  <<y, x>> \in OpToRel(<, Nat)
  <2>1. <<y, x>> \in Nat \X Nat /\ <<y, x>>[1] = y /\ <<y, x>>[2] = x
    OBVIOUS
  <2> QED
    BY <1>2, <2>1 DEF OpToRel
<1> QED
  BY <1>1, <1>2

(* Induction: a set with 0 and with the successor of each of its numbers    *)
(* has all of them.                                                         *)
LEMMA AllNat ==
  ASSUME NEW S, 0 \in S, \A n \in Nat : n \in S => n + 1 \in S
  PROVE  Nat \subseteq S
<1> DEFINE T == Nat \ S
<1> SUFFICES ASSUME T # {} PROVE FALSE
  OBVIOUS
<1>1. PICK x \in T : \A y \in T : ~(y < x)
  BY LeastNat
<1>2. x \in Nat /\ x # 0 /\ x - 1 \in Nat /\ x - 1 < x
  OBVIOUS
<1>3. x - 1 \in S
  BY <1>1, <1>2
<1> QED
  BY <1>2, <1>3

-----------------------------------------------------------------------------
(* Left folds.                                                              *)

(* A nonempty set of indices has a largest.                                 *)
LEMMA MaxIs ==
  ASSUME NEW n \in Nat, NEW s \in SUBSET (1..n), s # {}
  PROVE  Max(s) \in s /\ \A y \in s : Max(s) >= y
<1> DEFINE T == {n - i : i \in s}
<1>1. T \in SUBSET Nat /\ T # {}
  <2>1. \A i \in s : n - i \in Nat
    OBVIOUS
  <2> QED
    BY <2>1
<1>2. PICK x \in T : \A y \in T : ~(y < x)
  BY <1>1, LeastNat
<1>3. PICK m \in s : x = n - m
  OBVIOUS
<1>4. \A y \in s : m >= y
  <2> SUFFICES ASSUME NEW y \in s
               PROVE  m >= y
    OBVIOUS
  <2>1. n - y \in T
    OBVIOUS
  <2> QED
    BY <1>2, <1>3, <2>1
<1> QED
  BY <1>4 DEF Max

LEMMA MaxOfAll ==
  ASSUME NEW n \in Nat
  PROVE  Max(1..(n + 1)) = n + 1 /\ (1..(n + 1)) \ {n + 1} = 1..n
<1>1. 1..(n + 1) \in SUBSET (1..(n + 1)) /\ 1..(n + 1) # {} /\ n + 1 \in 1..(n + 1) /\ n + 1 \in Nat
  OBVIOUS
<1>2. Max(1..(n + 1)) \in 1..(n + 1) /\ Max(1..(n + 1)) >= n + 1
  BY <1>1, MaxIs
<1> QED
  BY <1>2

(* The rest of a set of indices without its largest.                        *)
LEMMA WithoutMax ==
  ASSUME NEW n \in Nat, NEW s \in SUBSET (1..(n + 1)), s # {}
  PROVE  Max(s) \in 1..(n + 1) /\ s \ {Max(s)} \in SUBSET (1..n)
<1>1. n + 1 \in Nat
  OBVIOUS
<1>2. Max(s) \in s /\ \A y \in s : Max(s) >= y
  BY <1>1, MaxIs
<1>3. ASSUME NEW y \in s \ {Max(s)}
      PROVE  y \in 1..n
  <2>1. y \in 1..(n + 1) /\ Max(s) \in 1..(n + 1) /\ Max(s) >= y /\ Max(s) # y
    BY <1>2
  <2> QED
    BY <2>1
<1> QED
  BY <1>2, <1>3

(* h is the run over q of the fold that begins with b and goes from x, by e, *)
(* to G[<<x, e>>].                                                          *)
IsRun(h, G, b, q) ==
  h = [s \in SUBSET (DOMAIN q) |-> IF s = {} THEN b ELSE G[<<h[s \ {Max(s)}], q[Max(s)]>>]]

FoldOf(G, b, q) == (CHOOSE h : IsRun(h, G, b, q))[DOMAIN q]

(* Two functions on sets of indices that begin alike and go on alike.       *)
GoOnAlike(f, h, n) ==
  \A s \in SUBSET (1..n) : s # {} /\ f[s \ {Max(s)}] = h[s \ {Max(s)}] => f[s] = h[s]

LEMMA RunsAgree ==
  ASSUME NEW n \in Nat, NEW f, NEW h, f[{}] = h[{}], GoOnAlike(f, h, n)
  PROVE  \A s \in SUBSET (1..n) : f[s] = h[s]
<1> DEFINE Same(m) == \A s \in SUBSET (1..m) : f[s] = h[s]
           S == {m \in Nat : m <= n => Same(m)}
<1>1. Same(0)
  <2>1. ASSUME NEW s \in SUBSET (1..0)
        PROVE  s = {}
    OBVIOUS
  <2> QED
    BY <2>1
<1>2. ASSUME NEW m \in Nat, m + 1 <= n, Same(m)
      PROVE  Same(m + 1)
  <2> SUFFICES ASSUME NEW s \in SUBSET (1..(m + 1)), s # {}
               PROVE  f[s] = h[s]
    OBVIOUS
  <2>1. s \ {Max(s)} \in SUBSET (1..m)
    BY WithoutMax
  <2>2. f[s \ {Max(s)}] = h[s \ {Max(s)}]
    BY <1>2, <2>1
  <2>3. s \in SUBSET (1..n)
    BY <1>2
  <2> QED
    BY <2>2, <2>3 DEF GoOnAlike
<1> HIDE DEF Same
<1>3. 0 \in S /\ \A m \in Nat : m \in S => m + 1 \in S
  BY <1>1, <1>2
<1>4. n \in S
  <2> HIDE DEF S
  <2> QED
    BY <1>3, AllNat
<1>5. Same(n)
  BY <1>4
<1> QED
  BY <1>5 DEF Same

(* A run exists, with values of the kind the operation is closed on.        *)
LEMMA RunExists ==
  ASSUME NEW D, NEW E, NEW G \in [D \X E -> D], NEW b \in D, NEW q \in Seq(E)
  PROVE  \E h \in [SUBSET (DOMAIN q) -> D] : IsRun(h, G, b, q)
<1> DEFINE Good(n, h) ==
             \A s \in SUBSET (1..n) :
               h[s] = IF s = {} THEN b ELSE G[<<h[s \ {Max(s)}], q[Max(s)]>>]
           Has(n) == \E h \in [SUBSET (1..n) -> D] : Good(n, h)
           S == {n \in Nat : n <= Len(q) => Has(n)}
<1>1. 0 \in S
  <2>1. SUBSET (1..0) = {{}}
    OBVIOUS
  <2>2. PICK h \in [SUBSET (1..0) -> D] : h = [s \in SUBSET (1..0) |-> b]
    OBVIOUS
  <2>3. Good(0, h)
    BY <2>1, <2>2
  <2>4. Has(0)
    BY <2>3
  <2> HIDE DEF Has
  <2> QED
    BY <2>4
<1>2. ASSUME NEW n \in Nat, n \in S
      PROVE  n + 1 \in S
  <2>0. (n + 1 <= Len(q) => Has(n)) /\ (n + 1 \in S <=> (n + 1 <= Len(q) => Has(n + 1)))
    <3> HIDE DEF Has
    <3> QED
      BY <1>2
  <2> SUFFICES ASSUME n + 1 <= Len(q)
               PROVE  Has(n + 1)
    BY <2>0
  <2>1. PICK f \in [SUBSET (1..n) -> D] : Good(n, f)
    BY <2>0
  <2> DEFINE h == [s \in SUBSET (1..(n + 1)) |->
                     IF s = {} THEN b ELSE G[<<f[s \ {Max(s)}], q[Max(s)]>>]]
  <2>2. ASSUME NEW s \in SUBSET (1..n)
        PROVE  h[s] = f[s]
    <3>1. s \in SUBSET (1..(n + 1))
      OBVIOUS
    <3> QED
      BY <2>1, <3>1
  <2>3. ASSUME NEW s \in SUBSET (1..(n + 1)), s # {}
        PROVE  /\ s \ {Max(s)} \in SUBSET (1..n)
               /\ G[<<f[s \ {Max(s)}], q[Max(s)]>>] \in D
    <3>1. Max(s) \in 1..(n + 1) /\ s \ {Max(s)} \in SUBSET (1..n)
      BY <2>3, WithoutMax
    <3>2. Max(s) \in DOMAIN q
      BY <3>1
    <3>3. f[s \ {Max(s)}] \in D /\ q[Max(s)] \in E
      BY <3>1, <3>2
    <3> QED
      BY <3>1, <3>3
  <2>4. h \in [SUBSET (1..(n + 1)) -> D]
    BY <2>3
  <2>5. ASSUME NEW s \in SUBSET (1..(n + 1))
        PROVE  h[s] = IF s = {} THEN b ELSE G[<<h[s \ {Max(s)}], q[Max(s)]>>]
    <3>1. h[s] = IF s = {} THEN b ELSE G[<<f[s \ {Max(s)}], q[Max(s)]>>]
      OBVIOUS
    <3> HIDE DEF h
    <3> QED
      BY <2>2, <2>3, <3>1
  <2> HIDE DEF h
  <2> QED
    BY <2>4, <2>5
<1>3. Len(q) \in S
  <2>1. Len(q) \in Nat
    OBVIOUS
  <2> HIDE DEF S
  <2> QED
    BY <1>1, <1>2, <2>1, AllNat
<1>4. PICK h \in [SUBSET (1..Len(q)) -> D] : Good(Len(q), h)
  <2>1. Has(Len(q))
    <3> HIDE DEF Has
    <3> QED
      BY <1>3
  <2> QED
    BY <2>1
<1>5. DOMAIN q = 1..Len(q)
  OBVIOUS
<1>6. h = [s \in SUBSET (DOMAIN q) |-> h[s]]
  BY <1>5
<1> QED
  BY <1>4, <1>5, <1>6 DEF IsRun

(* Whatever satisfies the equation of the run has its result.               *)
Follows(f, D, G, q) ==
  \A s \in SUBSET (DOMAIN q) :
    s # {} /\ f[s \ {Max(s)}] \in D => f[s] = G[<<f[s \ {Max(s)}], q[Max(s)]>>]

(* What is folded: from b in D, over a sequence of E, with a G that stays   *)
(* in D.                                                                    *)
Foldable(D, E, G, b, q) == G \in [D \X E -> D] /\ b \in D /\ q \in Seq(E)

LEMMA FoldIs ==
  ASSUME NEW D, NEW E, NEW G, NEW b, NEW q, Foldable(D, E, G, b, q),
         NEW f, f[{}] = b, Follows(f, D, G, q)
  PROVE  f[DOMAIN q] = FoldOf(G, b, q) /\ FoldOf(G, b, q) \in D
<1> G \in [D \X E -> D] /\ b \in D /\ q \in Seq(E)
  BY DEF Foldable
<1>1. PICK h \in [SUBSET (DOMAIN q) -> D] : IsRun(h, G, b, q)
  BY RunExists
<1>2. PICK g : IsRun(g, G, b, q) /\ FoldOf(G, b, q) = g[DOMAIN q]
  BY <1>1 DEF FoldOf
<1>3. Len(q) \in Nat /\ DOMAIN q = 1..Len(q)
  OBVIOUS
<1>4. ASSUME NEW s \in SUBSET (1..Len(q)), s # {}
      PROVE  s \in SUBSET (DOMAIN q) /\ s \ {Max(s)} \in SUBSET (DOMAIN q)
  BY <1>3
<1>5. h[{}] = b /\ g[{}] = b
  <2>1. {} \in SUBSET (DOMAIN q)
    OBVIOUS
  <2> QED
    BY <1>1, <1>2, <2>1 DEF IsRun
<1>6. ASSUME NEW s \in SUBSET (1..Len(q)), s # {}
      PROVE  /\ h[s] = G[<<h[s \ {Max(s)}], q[Max(s)]>>] /\ h[s \ {Max(s)}] \in D
             /\ g[s] = G[<<g[s \ {Max(s)}], q[Max(s)]>>]
  BY <1>1, <1>2, <1>4, <1>6 DEF IsRun
<1>7. \A s \in SUBSET (1..Len(q)) : g[s] = h[s]
  <2>1. GoOnAlike(g, h, Len(q))
    BY <1>6 DEF GoOnAlike
  <2>2. g[{}] = h[{}] /\ Len(q) \in Nat
    BY <1>3, <1>5
  <2> QED
    BY <2>1, <2>2, RunsAgree
<1>8. \A s \in SUBSET (1..Len(q)) : f[s] = h[s]
  <2>1. ASSUME NEW s \in SUBSET (1..Len(q)), s # {}, f[s \ {Max(s)}] = h[s \ {Max(s)}]
        PROVE  f[s] = h[s]
    BY <1>4, <1>6, <2>1 DEF Follows
  <2>2. GoOnAlike(f, h, Len(q))
    BY <2>1 DEF GoOnAlike
  <2>3. f[{}] = h[{}] /\ Len(q) \in Nat
    BY <1>3, <1>5
  <2> QED
    BY <2>2, <2>3, RunsAgree
<1>9. f[DOMAIN q] = h[DOMAIN q] /\ g[DOMAIN q] = h[DOMAIN q] /\ h[DOMAIN q] \in D
  <2>1. DOMAIN q \in SUBSET (DOMAIN q) /\ DOMAIN q \in SUBSET (1..Len(q))
    BY <1>3
  <2> QED
    BY <1>7, <1>8, <2>1
<1> QED
  BY <1>2, <1>9

LEMMA FoldType ==
  ASSUME NEW D, NEW E, NEW G, NEW b, NEW q, Foldable(D, E, G, b, q)
  PROVE  FoldOf(G, b, q) \in D
<1> G \in [D \X E -> D] /\ b \in D /\ q \in Seq(E)
  BY DEF Foldable
<1>1. PICK h \in [SUBSET (DOMAIN q) -> D] : IsRun(h, G, b, q)
  BY RunExists
<1>2. {} \in SUBSET (DOMAIN q)
  OBVIOUS
<1>3. h[{}] = b
  BY <1>1, <1>2 DEF IsRun
<1>4. ASSUME NEW s \in SUBSET (DOMAIN q), s # {}
      PROVE  h[s] = G[<<h[s \ {Max(s)}], q[Max(s)]>>]
  BY <1>1, <1>4 DEF IsRun
<1>5. Follows(h, D, G, q)
  BY <1>4 DEF Follows
<1> QED
  BY <1>3, <1>5, FoldIs

LEMMA FoldEmpty ==
  ASSUME NEW D, NEW E, NEW G \in [D \X E -> D], NEW b \in D
  PROVE  FoldOf(G, b, <<>>) = b
<1>1. <<>> \in Seq(E) /\ DOMAIN <<>> = {}
  OBVIOUS
<1>2. PICK h : h = [s \in SUBSET {} |-> b]
  OBVIOUS
<1>3. h[{}] = b /\ \A s \in SUBSET {} : s = {}
  BY <1>2
<1>4. h[DOMAIN <<>>] = FoldOf(G, b, <<>>)
  <2>1. Follows(h, D, G, <<>>)
    BY <1>1, <1>3 DEF Follows
  <2>2. Foldable(D, E, G, b, <<>>)
    BY <1>1 DEF Foldable
  <2> QED
    BY <1>1, <1>3, <2>1, <2>2, FoldIs
<1> QED
  BY <1>1, <1>3, <1>4

(* One more element is one more operation.                                  *)
LEMMA FoldAppend ==
  ASSUME NEW D, NEW E, NEW G, NEW b, NEW q, Foldable(D, E, G, b, q), NEW e \in E
  PROVE  FoldOf(G, b, Append(q, e)) = G[<<FoldOf(G, b, q), e>>]
<1> G \in [D \X E -> D] /\ b \in D /\ q \in Seq(E)
  BY DEF Foldable
<1> DEFINE n == Len(q)
<1>1. PICK r \in Seq(E) : r = Append(q, e)
  BY AppendProperties
<1>2. /\ n \in Nat /\ DOMAIN q = 1..n /\ DOMAIN r = 1..(n + 1)
      /\ r[n + 1] = e /\ \A i \in 1..n : r[i] = q[i]
  BY <1>1, AppendProperties
<1> HIDE DEF n
<1>3. PICK h \in [SUBSET (DOMAIN r) -> D] : IsRun(h, G, b, r)
  BY RunExists
<1>4. {} \in SUBSET (DOMAIN r)
  OBVIOUS
<1>5. h[{}] = b
  BY <1>3, <1>4 DEF IsRun
<1>6. ASSUME NEW s \in SUBSET (DOMAIN r), s # {}
      PROVE  h[s] = G[<<h[s \ {Max(s)}], r[Max(s)]>>]
  BY <1>3, <1>6 DEF IsRun
<1>7. h[DOMAIN r] = FoldOf(G, b, r)
  <2>1. Follows(h, D, G, r)
    BY <1>6 DEF Follows
  <2>2. Foldable(D, E, G, b, r)
    BY DEF Foldable
  <2> QED
    BY <1>5, <2>1, <2>2, FoldIs
<1>8. h[DOMAIN q] = FoldOf(G, b, q)
  <2>1. ASSUME NEW s \in SUBSET (DOMAIN q), s # {}
        PROVE  h[s] = G[<<h[s \ {Max(s)}], q[Max(s)]>>]
    <3>1. s \in SUBSET (DOMAIN r)
      BY <1>2
    <3>2. Max(s) \in 1..n
      BY <1>2, <2>1, MaxIs
    <3> QED
      BY <1>2, <1>6, <2>1, <3>1, <3>2
  <2>2. Follows(h, D, G, q)
    BY <2>1 DEF Follows
  <2>3. Foldable(D, E, G, b, q)
    BY DEF Foldable
  <2> QED
    BY <1>5, <2>2, <2>3, FoldIs
<1>9. h[DOMAIN r] = G[<<h[DOMAIN q], e>>]
  <2>1. Max(1..(n + 1)) = n + 1 /\ (1..(n + 1)) \ {n + 1} = 1..n
    BY <1>2, MaxOfAll
  <2>2. DOMAIN r \in SUBSET (DOMAIN r) /\ DOMAIN r # {}
    <3>1. n + 1 \in 1..(n + 1)
      BY <1>2
    <3> QED
      BY <1>2, <3>1
  <2> QED
    BY <1>2, <1>6, <2>1, <2>2, SMTT(30)
<1> QED
  BY <1>1, <1>7, <1>8, <1>9

LEMMA ConcatAppend ==
  ASSUME NEW E, NEW q \in Seq(E), NEW r \in Seq(E), NEW e \in E
  PROVE  q \o r \in Seq(E) /\ q \o Append(r, e) = Append(q \o r, e)
<1> DEFINE x == q \o Append(r, e)
           y == Append(q \o r, e)
<1>1. /\ Append(r, e) \in Seq(E) /\ Len(Append(r, e)) = Len(r) + 1
      /\ Append(r, e)[Len(r) + 1] = e /\ \A i \in 1..Len(r) : Append(r, e)[i] = r[i]
  BY AppendProperties
<1>2. /\ q \o r \in Seq(E) /\ Len(q \o r) = Len(q) + Len(r)
      /\ \A i \in 1..Len(q) + Len(r) : (q \o r)[i] = IF i <= Len(q) THEN q[i] ELSE r[i - Len(q)]
  BY ConcatProperties
<1>3. /\ x \in Seq(E) /\ Len(x) = Len(q) + Len(r) + 1
      /\ \A i \in 1..Len(q) + Len(r) + 1 : x[i] = IF i <= Len(q) THEN q[i] ELSE Append(r, e)[i - Len(q)]
  BY <1>1, ConcatProperties, SMTT(30)
<1>4. /\ y \in Seq(E) /\ Len(y) = Len(q) + Len(r) + 1 /\ y[Len(q) + Len(r) + 1] = e
      /\ \A i \in 1..Len(q) + Len(r) : y[i] = (q \o r)[i]
  BY <1>2, AppendProperties
<1>5. Len(q) \in Nat /\ Len(r) \in Nat
  OBVIOUS
<1> HIDE DEF x, y
<1>6. ASSUME NEW i \in 1..Len(q) + Len(r) + 1
      PROVE  x[i] = y[i]
  <2>1. CASE i <= Len(q)
    <3>1. i \in 1..Len(q) + Len(r)
      BY <1>5, <2>1
    <3> QED
      BY <1>2, <1>3, <1>4, <2>1, <3>1
  <2>2. CASE i > Len(q) /\ i <= Len(q) + Len(r)
    <3>1. i - Len(q) \in 1..Len(r) /\ ~(i <= Len(q)) /\ i \in 1..Len(q) + Len(r)
      BY <1>5, <2>2
    <3> QED
      BY <1>1, <1>2, <1>3, <1>4, <3>1
  <2>3. CASE i = Len(q) + Len(r) + 1
    <3>1. i - Len(q) = Len(r) + 1 /\ ~(i <= Len(q))
      BY <1>5, <2>3
    <3> QED
      BY <1>1, <1>3, <1>4, <2>3, <3>1
  <2>4. i <= Len(q) \/ (i > Len(q) /\ i <= Len(q) + Len(r)) \/ i = Len(q) + Len(r) + 1
    BY <1>5
  <2> QED
    BY <2>1, <2>2, <2>3, <2>4, Zenon
<1>7. x = y
  BY <1>3, <1>4, <1>5, <1>6, SeqEqual
<1> QED
  BY <1>2, <1>7 DEF x, y

(* The prefixes of a sequence, one element after another.                   *)
LEMMA PrefixGrows ==
  ASSUME NEW E, NEW r \in Seq(E), NEW n \in Nat, n + 1 <= Len(r)
  PROVE  /\ r[n + 1] \in E /\ SubSeq(r, 1, n) \in Seq(E)
         /\ SubSeq(r, 1, n + 1) = Append(SubSeq(r, 1, n), r[n + 1])
<1> DEFINE Up(m) == SubSeq(r, 1, m)
<1>0. Len(r) \in Nat
  OBVIOUS
<1>1. n + 1 \in DOMAIN r /\ r[n + 1] \in E
  BY <1>0
<1>2. /\ Up(n) \in Seq(E) /\ Len(Up(n)) = n /\ \A i \in 1..n : Up(n)[i] = r[i]
      /\ Up(n + 1) \in Seq(E) /\ Len(Up(n + 1)) = n + 1 /\ \A i \in 1..(n + 1) : Up(n + 1)[i] = r[i]
  BY <1>0, SubSeqProperties
<1>6. SubSeq(r, 1, n) = Up(n) /\ SubSeq(r, 1, n + 1) = Up(n + 1)
  OBVIOUS
<1> HIDE DEF Up
<1>3. /\ Append(Up(n), r[n + 1]) \in Seq(E) /\ Len(Append(Up(n), r[n + 1])) = n + 1
      /\ Append(Up(n), r[n + 1])[n + 1] = r[n + 1]
      /\ \A i \in 1..n : Append(Up(n), r[n + 1])[i] = Up(n)[i]
  BY <1>1, <1>2, AppendProperties
<1>4. ASSUME NEW i \in 1..(n + 1)
      PROVE  Up(n + 1)[i] = Append(Up(n), r[n + 1])[i]
  <2>1. i \in 1..n \/ i = n + 1
    OBVIOUS
  <2> QED
    BY <1>2, <1>3, <2>1
<1>5. Up(n + 1) = Append(Up(n), r[n + 1])
  BY <1>2, <1>3, <1>4, SeqEqual
<1> QED
  BY <1>1, <1>2, <1>5, <1>6

(* What holds along a fold: where it begins, it is in Q[0], and each        *)
(* element takes it from Q[n] to Q[n + 1].                                  *)
Along(Q, D, G, q) ==
  \A n \in Nat : n + 1 <= Len(q) => \A x \in D : x \in Q[n] => G[<<x, q[n + 1]>>] \in Q[n + 1]

LEMMA FoldAlong ==
  ASSUME NEW D, NEW E, NEW G, NEW b, NEW q, Foldable(D, E, G, b, q),
         NEW Q, b \in Q[0], Along(Q, D, G, q)
  PROVE  \A n \in 0..Len(q) : FoldOf(G, b, SubSeq(q, 1, n)) \in Q[n]
<1> DEFINE Up(n) == SubSeq(q, 1, n)
           On(n) == FoldOf(G, b, Up(n)) \in Q[n]
           S == {n \in Nat : n <= Len(q) => On(n)}
<1> G \in [D \X E -> D] /\ b \in D /\ q \in Seq(E)
  BY DEF Foldable
<1>0. Len(q) \in Nat
  OBVIOUS
<1>1. On(0)
  <2>1. Up(0) = <<>>
    BY SubSeqEmpty
  <2>2. FoldOf(G, b, <<>>) = b
    BY FoldEmpty
  <2> HIDE DEF Up
  <2> QED
    BY <2>1, <2>2
<1>2. ASSUME NEW n \in Nat, n + 1 <= Len(q), On(n)
      PROVE  On(n + 1)
  <2>0. Up(n) \in Seq(E) /\ q[n + 1] \in E /\ Up(n + 1) = Append(Up(n), q[n + 1])
    BY <1>2, PrefixGrows
  <2>1. PICK u \in Seq(E), e \in E : u = Up(n) /\ e = q[n + 1] /\ Up(n + 1) = Append(u, e)
    BY <2>0
  <2>2. Foldable(D, E, G, b, u)
    BY DEF Foldable
  <2>3. FoldOf(G, b, Append(u, e)) = G[<<FoldOf(G, b, u), e>>] /\ FoldOf(G, b, u) \in D
    BY <2>2, FoldAppend, FoldType
  <2> HIDE DEF Up
  <2>4. G[<<FoldOf(G, b, u), e>>] \in Q[n + 1]
    BY <1>2, <2>1, <2>3 DEF Along
  <2> QED
    BY <2>1, <2>3, <2>4
<1>3. 0 \in S /\ \A n \in Nat : n \in S => n + 1 \in S
  <2> HIDE DEF On
  <2> QED
    BY <1>0, <1>1, <1>2
<1>4. Nat \subseteq S
  <2> HIDE DEF S
  <2> QED
    BY <1>3, AllNat
<1> QED
  BY <1>0, <1>4

(* Elements that change nothing.                                            *)
ChangesNothing(G, D, e) == \A x \in D : G[<<x, e>>] = x

LEMMA FoldIdleStep ==
  ASSUME NEW D, NEW E, NEW G, NEW b, NEW q, Foldable(D, E, G, b, q), NEW u \in Seq(E),
         NEW e \in E, ChangesNothing(G, D, e)
  PROVE  FoldOf(G, b, q \o Append(u, e)) = FoldOf(G, b, q \o u)
<1> G \in [D \X E -> D] /\ b \in D /\ q \in Seq(E)
  BY DEF Foldable
<1>1. q \o u \in Seq(E) /\ q \o Append(u, e) = Append(q \o u, e)
  BY ConcatAppend
<1>2. Foldable(D, E, G, b, q \o u)
  BY <1>1 DEF Foldable
<1>3. FoldOf(G, b, Append(q \o u, e)) = G[<<FoldOf(G, b, q \o u), e>>]
  BY <1>2, FoldAppend
<1>4. FoldOf(G, b, q \o u) \in D
  BY <1>2, FoldType
<1> QED
  BY <1>1, <1>3, <1>4 DEF ChangesNothing

LEMMA FoldIdle ==
  ASSUME NEW D, NEW E, NEW G, NEW b, NEW q, Foldable(D, E, G, b, q), NEW r \in Seq(E),
         \A i \in DOMAIN r : ChangesNothing(G, D, r[i])
  PROVE  FoldOf(G, b, q \o r) = FoldOf(G, b, q)
<1> DEFINE Up(n) == SubSeq(r, 1, n)
           Same(n) == FoldOf(G, b, q \o Up(n)) = FoldOf(G, b, q)
           S == {n \in Nat : n <= Len(r) => Same(n)}
<1>0. Len(r) \in Nat
  OBVIOUS
<1> q \in Seq(E)
  BY DEF Foldable
<1>1. Same(0)
  <2>1. Up(0) = <<>> /\ q \o <<>> = q
    BY SubSeqEmpty, ConcatEmptySeq
  <2> QED
    BY <2>1
<1>2. ASSUME NEW n \in Nat, n + 1 <= Len(r), Same(n)
      PROVE  Same(n + 1)
  <2>1. n + 1 \in DOMAIN r /\ r[n + 1] \in E
    BY <1>2
  <2>2. Up(n) \in Seq(E) /\ Up(n + 1) = Append(Up(n), r[n + 1])
    BY <1>2, PrefixGrows
  <2>3. PICK u \in Seq(E), e \in E : u = Up(n) /\ e = r[n + 1] /\ Up(n + 1) = Append(u, e)
    BY <2>1, <2>2
  <2> HIDE DEF Up
  <2>4. ChangesNothing(G, D, e)
    BY <2>1, <2>3
  <2>5. FoldOf(G, b, q \o Append(u, e)) = FoldOf(G, b, q \o u)
    BY <2>4, FoldIdleStep
  <2> QED
    BY <1>2, <2>3, <2>5 DEF Up
<1> HIDE DEF Same
<1>3. Len(r) \in S
  <2>1. 0 \in S
    BY <1>1
  <2>2. \A n \in Nat : n \in S => n + 1 \in S
    BY <1>0, <1>2
  <2> HIDE DEF S
  <2> QED
    BY <1>0, <2>1, <2>2, AllNat
<1>4. Same(Len(r))
  BY <1>0, <1>3
<1>5. Up(Len(r)) = r
  <2>1. Up(Len(r)) \in Seq(E) /\ Len(Up(Len(r))) = Len(r) /\ \A i \in 1..Len(r) : Up(Len(r))[i] = r[i]
    BY <1>0, SubSeqProperties
  <2> HIDE DEF Up
  <2> QED
    BY <1>0, <2>1, SeqEqual
<1> QED
  BY <1>4, <1>5 DEF Same

-----------------------------------------------------------------------------
(* Sums over finite sets, of the values of a function.                      *)

Summable(w, S) == IsFiniteSet(S) /\ \A x \in S : w[x] \in Int

Chosen(s) == CHOOSE x \in s : TRUE

SumRun(h, w, S) == h = [s \in SUBSET S |-> IF s = {} THEN 0 ELSE w[Chosen(s)] + h[s \ {Chosen(s)}]]

(* h has the sum of w over every subset of S.                               *)
Sums(h, w, S) == h \in [SUBSET S -> Int] /\ SumRun(h, w, S)

SameOn(v, w, S) == \A x \in S : v[x] = w[x]

LEMMA AnyIs ==
  ASSUME NEW S, IsFiniteSet(S), NEW s \in SUBSET S, NEW n \in Nat, s # {}
  PROVE  /\ Chosen(s) \in s /\ s \ {Chosen(s)} \in SUBSET S /\ IsFiniteSet(s)
         /\ Cardinality(s) <= n + 1 <=> Cardinality(s \ {Chosen(s)}) <= n
<1>1. Chosen(s) \in s /\ s \ {Chosen(s)} \in SUBSET S
  BY DEF Chosen
<1>2. IsFiniteSet(s)
  BY FS_Subset
<1>3. Cardinality(s \ {Chosen(s)}) = Cardinality(s) - 1 /\ Cardinality(s) \in Nat
  BY <1>1, <1>2, FS_RemoveElement, FS_CardinalityType
<1> QED
  BY <1>1, <1>2, <1>3

LEMMA OnlyEmptyHasNone ==
  ASSUME NEW S, IsFiniteSet(S), NEW s \in SUBSET S, Cardinality(s) <= 0
  PROVE  s = {}
<1>1. IsFiniteSet(s)
  BY FS_Subset
<1>2. Cardinality(s) \in Nat
  BY <1>1, FS_CardinalityType
<1> QED
  BY <1>1, <1>2, FS_EmptySet

(* The sums exist.                                                          *)
LEMMA SumsExist ==
  ASSUME NEW w, NEW S, Summable(w, S)
  PROVE  \E h : Sums(h, w, S)
<1> IsFiniteSet(S) /\ \A x \in S : w[x] \in Int
  BY DEF Summable
<1> DEFINE Good(n, h) ==
             \A s \in SUBSET S : Cardinality(s) <= n =>
               h[s] = IF s = {} THEN 0 ELSE w[Chosen(s)] + h[s \ {Chosen(s)}]
           Has(n) == \E h \in [SUBSET S -> Int] : Good(n, h)
           N == {n \in Nat : Has(n)}
<1>1. Has(0)
  <2> DEFINE h == [s \in SUBSET S |-> 0]
  <2>1. h \in [SUBSET S -> Int]
    OBVIOUS
  <2>2. Good(0, h)
    BY OnlyEmptyHasNone
  <2> HIDE DEF h
  <2> QED
    BY <2>1, <2>2
<1>2. ASSUME NEW n \in Nat, Has(n)
      PROVE  Has(n + 1)
  <2>1. PICK f \in [SUBSET S -> Int] : Good(n, f)
    BY <1>2
  <2> DEFINE h == [s \in SUBSET S |-> IF s = {} THEN 0 ELSE w[Chosen(s)] + f[s \ {Chosen(s)}]]
  <2>2. h \in [SUBSET S -> Int]
    <3>1. ASSUME NEW s \in SUBSET S, s # {}
          PROVE  w[Chosen(s)] + f[s \ {Chosen(s)}] \in Int
      BY <3>1 DEF Chosen
    <3> QED
      BY <3>1
  <2>3. ASSUME NEW s \in SUBSET S, Cardinality(s) <= n
        PROVE  h[s] = f[s]
    BY <2>1, <2>3
  <2>4. ASSUME NEW s \in SUBSET S, Cardinality(s) <= n + 1
        PROVE  h[s] = IF s = {} THEN 0 ELSE w[Chosen(s)] + h[s \ {Chosen(s)}]
    <3>1. h[s] = IF s = {} THEN 0 ELSE w[Chosen(s)] + f[s \ {Chosen(s)}]
      OBVIOUS
    <3> HIDE DEF h
    <3>2. CASE s = {}
      BY <3>1, <3>2
    <3>3. CASE s # {}
      <4>1. s \ {Chosen(s)} \in SUBSET S /\ Cardinality(s \ {Chosen(s)}) <= n
        BY <2>4, <3>3, AnyIs
      <4>2. h[s \ {Chosen(s)}] = f[s \ {Chosen(s)}]
        BY <2>3, <4>1
      <4> QED
        BY <3>1, <3>3, <4>2
    <3> QED
      BY <3>2, <3>3
  <2> HIDE DEF h
  <2>5. Good(n + 1, h)
    BY <2>4
  <2> QED
    BY <2>2, <2>5
<1>3. Has(Cardinality(S))
  <2> HIDE DEF Has
  <2>1. 0 \in N /\ \A n \in Nat : n \in N => n + 1 \in N
    BY <1>1, <1>2
  <2>2. Cardinality(S) \in Nat
    BY FS_CardinalityType
  <2>3. Cardinality(S) \in N
    <3> HIDE DEF N
    <3> QED
      BY <2>1, <2>2, AllNat
  <2> QED
    BY <2>3
<1>4. PICK h \in [SUBSET S -> Int] : Good(Cardinality(S), h)
  BY <1>3
<1>5. ASSUME NEW s \in SUBSET S
      PROVE  h[s] = IF s = {} THEN 0 ELSE w[Chosen(s)] + h[s \ {Chosen(s)}]
  <2>1. Cardinality(s) <= Cardinality(S)
    BY FS_Subset
  <2> QED
    BY <1>4, <2>1
<1> QED
  BY <1>4, <1>5 DEF Sums, SumRun

(* They are the same whichever larger set they are taken in.                *)
LEMMA SumsAgree ==
  ASSUME NEW w, NEW S, Summable(w, S), NEW h, Sums(h, w, S),
         NEW v, NEW T \in SUBSET S, SameOn(v, w, T),
         NEW f, SumRun(f, v, T)
  PROVE  f[T] = h[T]
<1> IsFiniteSet(S) /\ IsFiniteSet(T)
  BY FS_Subset DEF Summable
<1> DEFINE Same(n) == \A s \in SUBSET T : Cardinality(s) <= n => f[s] = h[s]
           N == {n \in Nat : Same(n)}
<1>0. ASSUME NEW s \in SUBSET T
      PROVE  /\ s = {} => f[s] = 0 /\ h[s] = 0
             /\ s # {} => /\ f[s] = v[Chosen(s)] + f[s \ {Chosen(s)}]
                          /\ h[s] = w[Chosen(s)] + h[s \ {Chosen(s)}]
  <2>1. s \in SUBSET S
    OBVIOUS
  <2> QED
    BY <2>1 DEF Sums, SumRun
<1>1. Same(0)
  <2>1. ASSUME NEW s \in SUBSET T, Cardinality(s) <= 0
        PROVE  f[s] = h[s]
    BY <1>0, <2>1, OnlyEmptyHasNone
  <2> QED
    BY <2>1
<1>2. ASSUME NEW n \in Nat, Same(n)
      PROVE  Same(n + 1)
  <2>1. ASSUME NEW s \in SUBSET T, Cardinality(s) <= n + 1, s # {}
        PROVE  f[s] = h[s]
    <3>1. /\ Chosen(s) \in s /\ s \ {Chosen(s)} \in SUBSET T /\ Cardinality(s \ {Chosen(s)}) <= n
      BY <2>1, AnyIs
    <3>2. f[s \ {Chosen(s)}] = h[s \ {Chosen(s)}] /\ v[Chosen(s)] = w[Chosen(s)]
      BY <1>2, <3>1 DEF SameOn
    <3> QED
      BY <1>0, <2>1, <3>2
  <2>2. ASSUME NEW s \in SUBSET T, s = {}
        PROVE  f[s] = h[s]
    BY <1>0, <2>2
  <2> QED
    BY <2>1, <2>2
<1>3. Same(Cardinality(T))
  <2> HIDE DEF Same
  <2>1. 0 \in N /\ \A n \in Nat : n \in N => n + 1 \in N
    BY <1>1, <1>2
  <2>2. Cardinality(T) \in Nat
    BY FS_CardinalityType
  <2>3. Cardinality(T) \in N
    <3> HIDE DEF N
    <3> QED
      BY <2>1, <2>2, AllNat
  <2> QED
    BY <2>3
<1>4. Cardinality(T) <= Cardinality(T) /\ T \in SUBSET T
  BY FS_CardinalityType
<1> QED
  BY <1>3, <1>4

(* What the community modules define is that sum.                           *)
LEMMA SumIs ==
  ASSUME NEW w, NEW S, Summable(w, S), NEW h, Sums(h, w, S), NEW T \in SUBSET S
  PROVE  SumFunctionOnSet(w, T) = h[T]
<1>1. Summable(w, T)
  BY FS_Subset DEF Summable
<1>2. PICK g : Sums(g, w, T)
  BY <1>1, SumsExist
<1>3. SumRun(g, w, T) /\ SameOn(w, w, T)
  BY <1>2 DEF Sums, SameOn
<1>4. PICK f : SumRun(f, w, T) /\ SumFunctionOnSet(w, T) = f[T]
  BY <1>3 DEF SumRun, SumFunctionOnSet, FoldFunctionOnSet, MapThenFoldSet, Chosen
<1>5. f[T] = h[T]
  BY <1>3, <1>4, SumsAgree
<1> QED
  BY <1>4, <1>5

(* Any member can be taken out.                                             *)
LEMMA SumsRemove ==
  ASSUME NEW w, NEW S, Summable(w, S), NEW h, Sums(h, w, S), NEW x \in S
  PROVE  h[S] = w[x] + h[S \ {x}]
<1> IsFiniteSet(S) /\ \A y \in S : w[y] \in Int
  BY DEF Summable
<1> DEFINE Out(n) == \A s \in SUBSET S : Cardinality(s) <= n => \A y \in s : h[s] = w[y] + h[s \ {y}]
           N == {n \in Nat : Out(n)}
<1>0. ASSUME NEW s \in SUBSET S
      PROVE  h[s] \in Int /\ (s # {} => h[s] = w[Chosen(s)] + h[s \ {Chosen(s)}])
  BY DEF Sums, SumRun
<1>1. Out(0)
  BY OnlyEmptyHasNone
<1>2. ASSUME NEW n \in Nat, Out(n)
      PROVE  Out(n + 1)
  <2> SUFFICES ASSUME NEW s \in SUBSET S, Cardinality(s) <= n + 1, NEW y \in s
               PROVE  h[s] = w[y] + h[s \ {y}]
    OBVIOUS
  <2>1. PICK z \in s : z = Chosen(s)
    BY DEF Chosen
  <2>2. h[s] = w[z] + h[s \ {z}]
    BY <1>0, <2>1
  <2>3. CASE y = z
    BY <2>2, <2>3
  <2>4. CASE y # z
    <3>1. /\ IsFiniteSet(s) /\ s \ {y} \in SUBSET S /\ s \ {z} \in SUBSET S
          /\ Cardinality(s \ {y}) = Cardinality(s) - 1
          /\ Cardinality(s \ {z}) = Cardinality(s) - 1
          /\ Cardinality(s) \in Nat
      BY FS_Subset, FS_RemoveElement, FS_CardinalityType
    <3>2. Cardinality(s \ {y}) <= n /\ Cardinality(s \ {z}) <= n
      BY <3>1
    <3>3. y \in s \ {z} /\ z \in s \ {y} /\ (s \ {z}) \ {y} = (s \ {y}) \ {z}
      BY <2>4
    <3>4. h[s \ {z}] = w[y] + h[(s \ {z}) \ {y}]
      BY <1>2, <3>1, <3>2, <3>3
    <3>5. h[s \ {y}] = w[z] + h[(s \ {y}) \ {z}]
      BY <1>2, <3>1, <3>2, <3>3
    <3>6. (s \ {z}) \ {y} \in SUBSET S
      OBVIOUS
    <3>7. PICK u : u = (s \ {z}) \ {y} /\ u = (s \ {y}) \ {z} /\ u \in SUBSET S
      BY <3>3, <3>6
    <3>8. w[y] \in Int /\ w[z] \in Int /\ h[u] \in Int
      BY <1>0, <3>7
    <3>9. h[s] = w[z] + h[s \ {z}] /\ h[s \ {z}] = w[y] + h[u] /\ h[s \ {y}] = w[z] + h[u]
      BY <2>2, <3>4, <3>5, <3>7
    <3> QED
      BY <3>8, <3>9
  <2> QED
    BY <2>3, <2>4
<1>3. Out(Cardinality(S))
  <2> HIDE DEF Out
  <2>1. 0 \in N /\ \A n \in Nat : n \in N => n + 1 \in N
    BY <1>1, <1>2
  <2>2. Cardinality(S) \in Nat
    BY FS_CardinalityType
  <2>3. Cardinality(S) \in N
    <3> HIDE DEF N
    <3> QED
      BY <2>1, <2>2, AllNat
  <2> QED
    BY <2>3
<1>4. Cardinality(S) <= Cardinality(S) /\ S \in SUBSET S
  BY FS_CardinalityType
<1> QED
  BY <1>3, <1>4

LEMMA SumType ==
  ASSUME NEW w, NEW S, Summable(w, S)
  PROVE  SumFunctionOnSet(w, S) \in Int
<1>1. PICK h : Sums(h, w, S)
  BY SumsExist
<1>2. SumFunctionOnSet(w, S) = h[S]
  BY <1>1, SumIs
<1> QED
  BY <1>1, <1>2 DEF Sums

LEMMA SumEmpty ==
  ASSUME NEW w
  PROVE  SumFunctionOnSet(w, {}) = 0
<1>1. Summable(w, {})
  BY FS_EmptySet DEF Summable
<1>2. PICK h : Sums(h, w, {})
  BY <1>1, SumsExist
<1>3. SumFunctionOnSet(w, {}) = h[{}]
  BY <1>1, <1>2, SumIs
<1> QED
  BY <1>2, <1>3 DEF Sums, SumRun

LEMMA SumZero ==
  ASSUME NEW S, IsFiniteSet(S)
  PROVE  SumFunctionOnSet([x \in S |-> 0], S) = 0
<1> DEFINE w == [x \in S |-> 0]
           h == [s \in SUBSET S |-> 0]
<1>1. Summable(w, S)
  BY DEF Summable
<1>2. Sums(h, w, S)
  <2>1. ASSUME NEW s \in SUBSET S, s # {}
        PROVE  w[Chosen(s)] + h[s \ {Chosen(s)}] = 0
    <3>1. Chosen(s) \in S
      BY <2>1 DEF Chosen
    <3> QED
      BY <3>1
  <2>2. h \in [SUBSET S -> Int]
    OBVIOUS
  <2>3. ASSUME NEW s \in SUBSET S
        PROVE  h[s] = IF s = {} THEN 0 ELSE w[Chosen(s)] + h[s \ {Chosen(s)}]
    BY <2>1
  <2>4. h = [s \in SUBSET S |-> h[s]]
    OBVIOUS
  <2> HIDE DEF h
  <2> QED
    BY <2>2, <2>3, <2>4 DEF Sums, SumRun
<1>3. h[S] = 0
  OBVIOUS
<1> HIDE DEF h
<1>4. SumFunctionOnSet(w, S) = h[S]
  BY <1>1, <1>2, SumIs
<1> QED
  BY <1>3, <1>4

LEMMA SumRemove ==
  ASSUME NEW w, NEW S, Summable(w, S), NEW x \in S
  PROVE  /\ Summable(w, S \ {x})
         /\ SumFunctionOnSet(w, S) = w[x] + SumFunctionOnSet(w, S \ {x})
<1>1. PICK h : Sums(h, w, S)
  BY SumsExist
<1>2. SumFunctionOnSet(w, S) = h[S] /\ SumFunctionOnSet(w, S \ {x}) = h[S \ {x}]
  BY <1>1, SumIs
<1>3. h[S] = w[x] + h[S \ {x}]
  BY <1>1, SumsRemove
<1>4. Summable(w, S \ {x})
  BY FS_Subset DEF Summable
<1> QED
  BY <1>2, <1>3, <1>4

LEMMA SumAdd ==
  ASSUME NEW w, NEW S, Summable(w, S), NEW x, x \notin S, w[x] \in Int
  PROVE  /\ Summable(w, S \cup {x})
         /\ SumFunctionOnSet(w, S \cup {x}) = w[x] + SumFunctionOnSet(w, S)
<1>1. Summable(w, S \cup {x})
  BY FS_AddElement DEF Summable
<1>2. (S \cup {x}) \ {x} = S /\ x \in S \cup {x}
  OBVIOUS
<1>3. SumFunctionOnSet(w, S \cup {x}) = w[x] + SumFunctionOnSet(w, (S \cup {x}) \ {x})
  BY <1>1, <1>2, SumRemove
<1> QED
  BY <1>1, <1>2, <1>3

(* A sum of natural numbers is one.                                         *)
LEMMA SumNat ==
  ASSUME NEW w, NEW S, IsFiniteSet(S), \A x \in S : w[x] \in Nat
  PROVE  SumFunctionOnSet(w, S) \in Nat
<1> DEFINE Good(n) == \A T \in SUBSET S : Cardinality(T) <= n => SumFunctionOnSet(w, T) \in Nat
           N == {n \in Nat : Good(n)}
<1>1. Good(0)
  <2>1. ASSUME NEW T \in SUBSET S, Cardinality(T) <= 0
        PROVE  SumFunctionOnSet(w, T) \in Nat
    BY <2>1, OnlyEmptyHasNone, SumEmpty
  <2> QED
    BY <2>1
<1>2. ASSUME NEW n \in Nat, Good(n)
      PROVE  Good(n + 1)
  <2>1. ASSUME NEW T \in SUBSET S, Cardinality(T) <= n + 1, T # {}
        PROVE  SumFunctionOnSet(w, T) \in Nat
    <3>1. PICK x \in S : x = Chosen(T) /\ x \in T
      BY <2>1, AnyIs
    <3>2. Cardinality(T \ {x}) <= n /\ T \ {x} \in SUBSET S
      BY <2>1, <3>1, AnyIs
    <3>3. Summable(w, T)
      BY FS_Subset DEF Summable
    <3>4. SumFunctionOnSet(w, T) = w[x] + SumFunctionOnSet(w, T \ {x})
      BY <3>1, <3>3, SumRemove
    <3>5. SumFunctionOnSet(w, T \ {x}) \in Nat /\ w[x] \in Nat
      BY <1>2, <3>2
    <3> QED
      BY <3>4, <3>5
  <2>2. ASSUME NEW T \in SUBSET S, T = {}
        PROVE  SumFunctionOnSet(w, T) \in Nat
    BY <2>2, SumEmpty
  <2> QED
    BY <2>1, <2>2
<1>3. Good(Cardinality(S))
  <2> HIDE DEF Good
  <2>1. 0 \in N /\ \A n \in Nat : n \in N => n + 1 \in N
    BY <1>1, <1>2
  <2>2. Cardinality(S) \in Nat
    BY FS_CardinalityType
  <2>3. Cardinality(S) \in N
    <3> HIDE DEF N
    <3> QED
      BY <2>1, <2>2, AllNat
  <2> QED
    BY <2>3
<1>4. Cardinality(S) <= Cardinality(S) /\ S \in SUBSET S
  BY FS_CardinalityType
<1> QED
  BY <1>3, <1>4

LEMMA SumSame ==
  ASSUME NEW w, NEW S, Summable(w, S), NEW v, SameOn(v, w, S)
  PROVE  SumFunctionOnSet(v, S) = SumFunctionOnSet(w, S)
<1>1. Summable(v, S)
  BY DEF Summable, SameOn
<1>2. PICK h : Sums(h, w, S)
  BY SumsExist
<1>3. PICK f : Sums(f, v, S)
  BY <1>1, SumsExist
<1>4. SumFunctionOnSet(w, S) = h[S] /\ SumFunctionOnSet(v, S) = f[S]
  BY <1>1, <1>2, <1>3, SumIs
<1>5. SumRun(f, v, S)
  BY <1>3 DEF Sums
<1>6. f[S] = h[S]
  BY <1>2, <1>5, SumsAgree
<1> QED
  BY <1>4, <1>6

(* A change of one value changes the sum by as much.                        *)
LEMMA SumChanges ==
  ASSUME NEW w, NEW S, Summable(w, S), NEW x \in S, NEW v, NEW d \in Int,
         v[x] = w[x] + d, SameOn(v, w, S \ {x})
  PROVE  /\ Summable(v, S)
         /\ SumFunctionOnSet(v, S) = SumFunctionOnSet(w, S) + d
<1>1. Summable(w, S \ {x}) /\ SumFunctionOnSet(w, S) = w[x] + SumFunctionOnSet(w, S \ {x})
  BY SumRemove
<1>2. Summable(v, S)
  BY DEF Summable, SameOn
<1>3. SumFunctionOnSet(v, S) = v[x] + SumFunctionOnSet(v, S \ {x})
  BY <1>2, SumRemove
<1>4. SumFunctionOnSet(v, S \ {x}) = SumFunctionOnSet(w, S \ {x})
  BY <1>1, SumSame
<1>5. SumFunctionOnSet(w, S \ {x}) \in Int /\ w[x] \in Int
  BY <1>1, SumType DEF Summable
<1> QED
  BY <1>1, <1>2, <1>3, <1>4, <1>5

-----------------------------------------------------------------------------
(* What passes a filter of a sequence, in the order of the sequence.        *)

(* Induction along a sequence.                                              *)
LEMMA AllSeq ==
  ASSUME NEW E, NEW T, <<>> \in T,
         \A q \in Seq(E) : q \in T => \A e \in E : Append(q, e) \in T
  PROVE  Seq(E) \subseteq T
<1> SUFFICES ASSUME NEW q \in Seq(E)
             PROVE  q \in T
  OBVIOUS
<1> DEFINE S == {n \in Nat : n <= Len(q) => SubSeq(q, 1, n) \in T}
<1>0. Len(q) \in Nat
  OBVIOUS
<1>1. 0 \in S
  <2>1. SubSeq(q, 1, 0) = <<>>
    BY SubSeqEmpty
  <2> QED
    BY <2>1
<1>2. ASSUME NEW n \in Nat, n \in S
      PROVE  n + 1 \in S
  <2> SUFFICES ASSUME n + 1 <= Len(q)
               PROVE  SubSeq(q, 1, n + 1) \in T
    OBVIOUS
  <2>1. SubSeq(q, 1, n) \in Seq(E) /\ q[n + 1] \in E /\ SubSeq(q, 1, n + 1) = Append(SubSeq(q, 1, n), q[n + 1])
    BY <1>2, PrefixGrows
  <2>2. SubSeq(q, 1, n) \in T
    BY <1>0, <1>2
  <2> QED
    BY <2>1, <2>2
<1>3. Len(q) \in S
  <2> HIDE DEF S
  <2> QED
    BY <1>0, <1>1, <1>2, AllNat
<1>4. SubSeq(q, 1, Len(q)) = q
  BY SubSeqFull
<1>5. Len(q) <= Len(q) => SubSeq(q, 1, Len(q)) \in T
  BY <1>3
<1> HIDE DEF S
<1>6. SubSeq(q, 1, Len(q)) \in T
  BY <1>0, <1>5
<1> QED
  BY <1>4, <1>6, Zenon

-----------------------------------------------------------------------------
(* A sieve: a fold that takes over w[e] for the elements e in W.            *)

(* What is taken over of which elements.                                    *)
Takes(E, V, W, w) == w \in [E -> V]

Sieve(E, V, W, w) == [x \in Seq(V) \X E |-> IF x[2] \in W THEN Append(x[1], w[x[2]]) ELSE x[1]]

Sieved(E, V, W, w, q) == FoldOf(Sieve(E, V, W, w), <<>>, q)

(* The function such a fold is the value of.                                *)
Sifts(f, W, w, q) ==
  f = [s \in SUBSET (DOMAIN q) |->
         IF s = {} THEN <<>>
         ELSE IF q[Max(s)] \in W
              THEN Append(f[s \ {Max(s)}], w[q[Max(s)]])
              ELSE f[s \ {Max(s)}]]

LEMMA SieveIs ==
  ASSUME NEW E, NEW V, NEW W, NEW w, Takes(E, V, W, w), NEW q \in Seq(E)
  PROVE  /\ \A k \in Seq(V), e \in E :
              Sieve(E, V, W, w)[<<k, e>>] = IF e \in W THEN Append(k, w[e]) ELSE k
         /\ Foldable(Seq(V), E, Sieve(E, V, W, w), <<>>, q)
<1>1. ASSUME NEW k \in Seq(V), NEW e \in E
      PROVE  Append(k, w[e]) \in Seq(V)
  BY DEF Takes
<1>2. Sieve(E, V, W, w) \in [Seq(V) \X E -> Seq(V)]
  BY <1>1 DEF Sieve
<1>3. \A k \in Seq(V), e \in E :
        Sieve(E, V, W, w)[<<k, e>>] = IF e \in W THEN Append(k, w[e]) ELSE k
  BY DEF Sieve
<1>4. <<>> \in Seq(V)
  OBVIOUS
<1> QED
  BY <1>2, <1>3, <1>4 DEF Foldable

LEMMA SieveRuns ==
  ASSUME NEW E, NEW V, NEW W, NEW w, Takes(E, V, W, w), NEW q \in Seq(E)
  PROVE  /\ \E f : Sifts(f, W, w, q)
         /\ \A f : Sifts(f, W, w, q) => f[DOMAIN q] = Sieved(E, V, W, w, q)
<1> DEFINE D == Seq(V)
           G == Sieve(E, V, W, w)
<1>0. Len(q) \in Nat /\ DOMAIN q = 1..Len(q) /\ <<>> \in D
  OBVIOUS
<1>1. /\ \A k \in D, e \in E : G[<<k, e>>] = IF e \in W THEN Append(k, w[e]) ELSE k
      /\ Foldable(D, E, G, <<>>, q)
  BY SieveIs
<1> HIDE DEF G, D
<1>2. G \in [D \X E -> D]
  BY <1>1 DEF Foldable
<1>3. ASSUME NEW s \in SUBSET (DOMAIN q), s # {}
      PROVE  q[Max(s)] \in E /\ s \ {Max(s)} \in SUBSET (DOMAIN q)
  <2>1. Max(s) \in DOMAIN q
    BY <1>0, <1>3, MaxIs
  <2> QED
    BY <1>0, <2>1
<1>4. PICK h \in [SUBSET (DOMAIN q) -> D] : IsRun(h, G, <<>>, q)
  BY <1>0, <1>2, RunExists
<1>5. Sifts(h, W, w, q)
  <2>1. ASSUME NEW s \in SUBSET (DOMAIN q), s # {}
        PROVE  h[s] = IF q[Max(s)] \in W
                      THEN Append(h[s \ {Max(s)}], w[q[Max(s)]])
                      ELSE h[s \ {Max(s)}]
    BY <1>1, <1>3, <1>4, <2>1 DEF IsRun
  <2>2. {} \in SUBSET (DOMAIN q) => h[{}] = <<>>
    BY <1>4 DEF IsRun
  <2> QED
    BY <1>4, <2>1, <2>2 DEF Sifts
<1>6. ASSUME NEW f, Sifts(f, W, w, q)
      PROVE  f[DOMAIN q] = Sieved(E, V, W, w, q)
  <2>1. {} \in SUBSET (DOMAIN q)
    OBVIOUS
  <2>2. f[{}] = <<>>
    BY <1>6, <2>1 DEF Sifts
  <2>3. ASSUME NEW s \in SUBSET (DOMAIN q), s # {}, f[s \ {Max(s)}] \in D
        PROVE  f[s] = G[<<f[s \ {Max(s)}], q[Max(s)]>>]
    <3>1. f[s] = IF q[Max(s)] \in W
                 THEN Append(f[s \ {Max(s)}], w[q[Max(s)]])
                 ELSE f[s \ {Max(s)}]
      BY <1>6, <2>3 DEF Sifts
    <3> QED
      BY <1>1, <1>3, <2>3, <3>1
  <2>4. Follows(f, D, G, q)
    BY <2>3 DEF Follows
  <2> QED
    BY <1>1, <2>2, <2>4, FoldIs DEF Sieved, G
<1> QED
  BY <1>5, <1>6

LEMMA SievedType ==
  ASSUME NEW E, NEW V, NEW W, NEW w, Takes(E, V, W, w), NEW q \in Seq(E)
  PROVE  Sieved(E, V, W, w, q) \in Seq(V)
<1>1. Foldable(Seq(V), E, Sieve(E, V, W, w), <<>>, q)
  BY SieveIs
<1> QED
  BY <1>1, FoldType DEF Sieved

LEMMA SievedEmpty ==
  ASSUME NEW E, NEW V, NEW W, NEW w, Takes(E, V, W, w)
  PROVE  Sieved(E, V, W, w, <<>>) = <<>>
<1>1. <<>> \in Seq(E) /\ <<>> \in Seq(V)
  OBVIOUS
<1>2. Foldable(Seq(V), E, Sieve(E, V, W, w), <<>>, <<>>)
  BY <1>1, SieveIs
<1> QED
  BY <1>1, <1>2, FoldEmpty DEF Sieved, Foldable

LEMMA SievedAppend ==
  ASSUME NEW E, NEW V, NEW W, NEW w, Takes(E, V, W, w), NEW q \in Seq(E), NEW e \in E
  PROVE  Sieved(E, V, W, w, Append(q, e))
           = IF e \in W THEN Append(Sieved(E, V, W, w, q), w[e]) ELSE Sieved(E, V, W, w, q)
<1>1. /\ \A k \in Seq(V), d \in E :
           Sieve(E, V, W, w)[<<k, d>>] = IF d \in W THEN Append(k, w[d]) ELSE k
      /\ Foldable(Seq(V), E, Sieve(E, V, W, w), <<>>, q)
  BY SieveIs
<1>2. FoldOf(Sieve(E, V, W, w), <<>>, Append(q, e))
        = Sieve(E, V, W, w)[<<FoldOf(Sieve(E, V, W, w), <<>>, q), e>>]
  BY <1>1, FoldAppend
<1>3. FoldOf(Sieve(E, V, W, w), <<>>, q) \in Seq(V)
  BY <1>1, FoldType
<1> QED
  BY <1>1, <1>2, <1>3 DEF Sieved

LEMMA SievedConcat ==
  ASSUME NEW E, NEW V, NEW W, NEW w, Takes(E, V, W, w), NEW q \in Seq(E), NEW r \in Seq(E)
  PROVE  Sieved(E, V, W, w, q \o r) = Sieved(E, V, W, w, q) \o Sieved(E, V, W, w, r)
<1>a. \A s \in Seq(E), e \in E :
        Sieved(E, V, W, w, Append(s, e))
          = IF e \in W THEN Append(Sieved(E, V, W, w, s), w[e]) ELSE Sieved(E, V, W, w, s)
  BY SievedAppend
<1> DEFINE F(s) == Sieved(E, V, W, w, s)
           T == {s \in Seq(E) : F(q \o s) = F(q) \o F(s)}
<1>0. \A s \in Seq(E) : F(s) \in Seq(V)
  BY SievedType
<1>1. <<>> \in T
  <2>1. q \o <<>> = q /\ F(<<>>) = <<>> /\ F(q) \o <<>> = F(q) /\ <<>> \in Seq(E)
    BY <1>0, SievedEmpty, ConcatEmptySeq
  <2> HIDE DEF F
  <2> QED
    BY <2>1
<1>2. ASSUME NEW s \in Seq(E), s \in T, NEW e \in E
      PROVE  Append(s, e) \in T
  <2>1. q \o s \in Seq(E) /\ q \o Append(s, e) = Append(q \o s, e) /\ Append(s, e) \in Seq(E)
    BY ConcatAppend
  <2>2. /\ F(Append(q \o s, e)) = IF e \in W THEN Append(F(q \o s), w[e]) ELSE F(q \o s)
        /\ F(Append(s, e)) = IF e \in W THEN Append(F(s), w[e]) ELSE F(s)
    <3> HIDE DEF T
    <3> QED
      BY <1>a, <2>1
  <2>3. F(q \o s) = F(q) \o F(s)
    BY <1>2
  <2>4. F(q) \in Seq(V) /\ F(s) \in Seq(V) /\ w[e] \in V
    BY <1>0 DEF Takes
  <2> HIDE DEF F
  <2>5. F(q) \o Append(F(s), w[e]) = Append(F(q) \o F(s), w[e])
    BY <2>4, ConcatAppend
  <2> QED
    BY <2>1, <2>2, <2>3, <2>5
<1>3. r \in T
  <2> HIDE DEF T
  <2> QED
    BY <1>1, <1>2, AllSeq
<1> QED
  BY <1>3

(* Nothing is taken over, or everything.                                    *)
NoneIn(q, W) == \A i \in 1..Len(q) : q[i] \notin W
AllIn(q, W) == \A i \in 1..Len(q) : q[i] \in W

LEMMA SievedNone ==
  ASSUME NEW E, NEW V, NEW W, NEW w, Takes(E, V, W, w), NEW q \in Seq(E), NoneIn(q, W)
  PROVE  Sieved(E, V, W, w, q) = <<>>
<1>a. \A s \in Seq(E), e \in E :
        Sieved(E, V, W, w, Append(s, e))
          = IF e \in W THEN Append(Sieved(E, V, W, w, s), w[e]) ELSE Sieved(E, V, W, w, s)
  BY SievedAppend
<1> DEFINE F(s) == Sieved(E, V, W, w, s)
           T == {s \in Seq(E) : (\A i \in 1..Len(s) : s[i] \notin W) => F(s) = <<>>}
<1>1. <<>> \in T
  BY SievedEmpty
<1>2. ASSUME NEW s \in Seq(E), s \in T, NEW e \in E
      PROVE  Append(s, e) \in T
  <2>1. /\ Append(s, e) \in Seq(E) /\ Len(Append(s, e)) = Len(s) + 1 /\ Len(s) \in Nat
        /\ Append(s, e)[Len(s) + 1] = e /\ \A i \in 1..Len(s) : Append(s, e)[i] = s[i]
    BY AppendProperties
  <2>2. F(Append(s, e)) = IF e \in W THEN Append(F(s), w[e]) ELSE F(s)
    <3> HIDE DEF T
    <3> QED
      BY <1>a
  <2> HIDE DEF F
  <2>3. ASSUME \A i \in 1..(Len(s) + 1) : Append(s, e)[i] \notin W
        PROVE  e \notin W /\ \A i \in 1..Len(s) : s[i] \notin W
    <3>1. Len(s) + 1 \in 1..(Len(s) + 1) /\ \A i \in 1..Len(s) : i \in 1..(Len(s) + 1)
      BY <2>1
    <3> QED
      BY <2>1, <2>3, <3>1
  <2> QED
    BY <1>2, <2>1, <2>2, <2>3
<1>3. q \in T
  <2> HIDE DEF T
  <2> QED
    BY <1>1, <1>2, AllSeq
<1> QED
  BY <1>3 DEF NoneIn

LEMMA SievedAll ==
  ASSUME NEW E, NEW V, NEW W, NEW w, Takes(E, V, W, w), NEW q \in Seq(E), AllIn(q, W)
  PROVE  /\ Len(Sieved(E, V, W, w, q)) = Len(q)
         /\ \A i \in 1..Len(q) : Sieved(E, V, W, w, q)[i] = w[q[i]]
<1>a. \A s \in Seq(E), e \in E :
        Sieved(E, V, W, w, Append(s, e))
          = IF e \in W THEN Append(Sieved(E, V, W, w, s), w[e]) ELSE Sieved(E, V, W, w, s)
  BY SievedAppend
<1> DEFINE F(s) == Sieved(E, V, W, w, s)
           T == {s \in Seq(E) : (\A i \in 1..Len(s) : s[i] \in W)
                                  => /\ Len(F(s)) = Len(s)
                                     /\ \A i \in 1..Len(s) : F(s)[i] = w[s[i]]}
<1>1. <<>> \in T
  BY SievedEmpty
<1>2. ASSUME NEW s \in Seq(E), s \in T, NEW e \in E
      PROVE  Append(s, e) \in T
  <2>1. /\ Append(s, e) \in Seq(E) /\ Len(Append(s, e)) = Len(s) + 1 /\ Len(s) \in Nat
        /\ Append(s, e)[Len(s) + 1] = e /\ \A i \in 1..Len(s) : Append(s, e)[i] = s[i]
    BY AppendProperties
  <2>2. F(Append(s, e)) = IF e \in W THEN Append(F(s), w[e]) ELSE F(s)
    <3> HIDE DEF T
    <3> QED
      BY <1>a
  <2>3. F(s) \in Seq(V) /\ w[e] \in V
    BY SievedType DEF Takes
  <2> HIDE DEF F
  <2>4. ASSUME \A i \in 1..(Len(s) + 1) : Append(s, e)[i] \in W
        PROVE  /\ Len(F(Append(s, e))) = Len(s) + 1
               /\ \A i \in 1..(Len(s) + 1) : F(Append(s, e))[i] = w[Append(s, e)[i]]
    <3>1. Len(s) + 1 \in 1..(Len(s) + 1) /\ \A i \in 1..Len(s) : i \in 1..(Len(s) + 1)
      BY <2>1
    <3>2. e \in W /\ \A i \in 1..Len(s) : s[i] \in W
      BY <2>1, <2>4, <3>1
    <3>3. F(Append(s, e)) = Append(F(s), w[e]) /\ Len(F(s)) = Len(s)
          /\ \A i \in 1..Len(s) : F(s)[i] = w[s[i]]
      BY <1>2, <2>2, <3>2
    <3>4. /\ Len(Append(F(s), w[e])) = Len(s) + 1 /\ Append(F(s), w[e])[Len(s) + 1] = w[e]
          /\ \A i \in 1..Len(s) : Append(F(s), w[e])[i] = F(s)[i]
      BY <2>3, <3>3, AppendProperties
    <3>5. \A i \in 1..(Len(s) + 1) : i \in 1..Len(s) \/ i = Len(s) + 1
      BY <2>1
    <3> QED
      BY <2>1, <3>3, <3>4, <3>5
  <2> QED
    BY <2>1, <2>4
<1>3. q \in T
  <2> HIDE DEF T
  <2> QED
    BY <1>1, <1>2, AllSeq
<1> QED
  BY <1>3 DEF AllIn

(* Two sieves that agree about the elements of a sequence.                  *)
AgreeOn(q, W, X) == \A i \in 1..Len(q) : q[i] \in W <=> q[i] \in X

LEMMA SievedSame ==
  ASSUME NEW E, NEW V, NEW W, NEW X, NEW w, Takes(E, V, W, w), Takes(E, V, X, w), NEW q \in Seq(E),
         AgreeOn(q, W, X)
  PROVE  Sieved(E, V, W, w, q) = Sieved(E, V, X, w, q)
<1>a. \A s \in Seq(E), e \in E :
        Sieved(E, V, W, w, Append(s, e))
          = IF e \in W THEN Append(Sieved(E, V, W, w, s), w[e]) ELSE Sieved(E, V, W, w, s)
  BY SievedAppend
<1> DEFINE F(s) == Sieved(E, V, W, w, s)
           H(s) == Sieved(E, V, X, w, s)
           T == {s \in Seq(E) : (\A i \in 1..Len(s) : s[i] \in W <=> s[i] \in X) => F(s) = H(s)}
<1>1. <<>> \in T
  BY SievedEmpty
<1>2. ASSUME NEW s \in Seq(E), s \in T, NEW e \in E
      PROVE  Append(s, e) \in T
  <2>1. /\ Append(s, e) \in Seq(E) /\ Len(Append(s, e)) = Len(s) + 1 /\ Len(s) \in Nat
        /\ Append(s, e)[Len(s) + 1] = e /\ \A i \in 1..Len(s) : Append(s, e)[i] = s[i]
    BY AppendProperties
  <2>2. F(Append(s, e)) = IF e \in W THEN Append(F(s), w[e]) ELSE F(s)
    <3> HIDE DEF T
    <3> QED
      BY <1>a
  <2>3. H(Append(s, e)) = IF e \in X THEN Append(H(s), w[e]) ELSE H(s)
    <3> HIDE DEF T
    <3> QED
      BY SievedAppend
  <2> HIDE DEF F, H
  <2>4. ASSUME \A i \in 1..(Len(s) + 1) : Append(s, e)[i] \in W <=> Append(s, e)[i] \in X
        PROVE  (e \in W <=> e \in X) /\ \A i \in 1..Len(s) : s[i] \in W <=> s[i] \in X
    <3>1. Len(s) + 1 \in 1..(Len(s) + 1) /\ \A i \in 1..Len(s) : i \in 1..(Len(s) + 1)
      BY <2>1
    <3> QED
      BY <2>1, <2>4, <3>1
  <2> QED
    BY <1>2, <2>1, <2>2, <2>3, <2>4
<1>3. q \in T
  <2> HIDE DEF T
  <2> QED
    BY <1>1, <1>2, AllSeq
<1> QED
  BY <1>3 DEF AgreeOn
=============================================================================
