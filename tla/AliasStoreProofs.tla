---------------------------- MODULE AliasStoreProofs ----------------------------
(***************************************************************************)
(* Proofs about what the routing of a request rests on: the aliases of     *)
(* AliasStore, for any number of processes, names and defaults; the files  *)
(* of RoutingEngine, for all providers, policies and contents; and the     *)
(* score of ProviderHealthTracker, for all caps, windows and latencies.    *)
(***************************************************************************)
EXTENDS AliasStore, RoutingEngine, FoldLemmas

USE AliasAssumption DEF AliasAssumption

-----------------------------------------------------------------------------
(* The records of the calls.                                                *)

LEMMA IdleTyped == Idle \in Calls
  BY DEF Idle, Calls, Steps

LEMMA SpoiltTyped ==
  ASSUME NEW c \in Calls
  PROVE  /\ Spoilt(c) \in Calls
         /\ Spoilt(c).id = c.id /\ Spoilt(c).name = c.name /\ Spoilt(c).k = c.k
         /\ Spoilt(c).at \in {c.at, "spoilt"}
  BY DEF Calls, Spoilt, Steps

LEMMA AfterCreateTyped ==
  ASSUME NEW c \in Calls
  PROVE  /\ AfterCreate(c) \in Calls /\ AfterCreate(c).at \in {"idle", "defaults"}
         /\ AfterCreate(c).at = "defaults" => AfterCreate(c).k # 0
<1>1. CASE c.k = 0
  BY <1>1, IdleTyped DEF AfterCreate, Idle
<1>2. CASE c.k # 0
  <2>1. AfterCreate(c) = [c EXCEPT !.at = "defaults", !.k = c.k + 1]
    BY <1>2 DEF AfterCreate
  <2>2. c.k + 1 \in Nat
    BY DEF Calls
  <2> DEFINE m == c.k + 1
  <2>3. AfterCreate(c) = [c EXCEPT !.at = "defaults", !.k = m] /\ m \in Nat
    BY <2>1, <2>2
  <2>4. m # 0
    BY <2>2, <1>2 DEF Calls
  <2> HIDE DEF m
  <2>5. [c EXCEPT !.at = "defaults", !.k = m] \in Calls
    BY <2>3 DEF Calls, Steps
  <2>6. /\ [c EXCEPT !.at = "defaults", !.k = m].at = "defaults"
        /\ [c EXCEPT !.at = "defaults", !.k = m].k = m
    BY DEF Calls
  <2> QED BY <2>3, <2>4, <2>5, <2>6
<1> QED BY <1>1, <1>2

LEMMA ReadingTyped ==
  ASSUME NEW depth \in Nat, now \in Nat
  PROVE  Reading(depth) \in Calls /\ Reading(depth).at = "read"
<1> DEFINE since == now
<1>1. Reading(depth) = [Idle EXCEPT !.at = "read", !.depth = depth, !.since = since]
  BY DEF Reading
<1>2. since \in Nat
  OBVIOUS
<1> HIDE DEF since
<1> QED BY <1>1, <1>2, IdleTyped DEF Calls, Steps

(* What a process holds between two statements: an id that was given out    *)
(* before, and whose alias, if it is still there, has the name that was     *)
(* asked for.                                                               *)
Holds(c, names, last) ==
  /\ c.at \in {"stats", "record"} => c.id \in 1..last
  /\ c.at = "record" => c.name \in Name /\ names[c.id] \in {c.name, NoName}
  /\ c.at = "insert" => c.name \in Name
  /\ c.at = "defaults" => c.k # 0

HoldsAll == \A p \in Process : Holds(call[p], name, sequence)

(* The inductive invariant adds to the types what the processes hold, and   *)
(* says of each id what UsageCounted says of each name.                     *)
Counted ==
  /\ \A i \in Id : i \notin rows => total[i] = 0
  /\ \A i \in Id : name[i] # NoName => credited[name[i]] = total[i]
  /\ \A n \in Name : Named(n) = {} => credited[n] = 0

StoreInv == TypeOK /\ Counted /\ HoldsAll

LEMMA StoreInitially == Init => StoreInv
<1> SUFFICES ASSUME Init PROVE StoreInv
  OBVIOUS
<1>1. TypeOK
  BY IdleTyped DEF Init, TypeOK, NoRow, NoList, Id
<1>2. Counted
  BY DEF Init, Counted, NoRow
<1>3. HoldsAll
  BY DEF Init, HoldsAll, Holds, Idle
<1> QED BY <1>1, <1>2, <1>3 DEF StoreInv

(* A statement of p: the calls of the others at most lose their             *)
(* transaction, and ids are never given out again.                          *)
LEMMA CallsKept ==
  ASSUME TypeOK, HoldsAll, NEW p \in Process, NEW c \in Calls,
         Becomes(p, c) \/ Wrote(p, c),
         sequence' \in Nat, sequence' >= sequence,
         \A i \in 1..sequence : name'[i] \in {name[i], NoName},
         Holds(c, name', sequence')
  PROVE  HoldsAll' /\ call' \in [Process -> Calls]
<1>1. call \in [Process -> Calls] /\ sequence \in Nat
  BY DEF TypeOK
<1>2. ASSUME NEW q \in Process
      PROVE  /\ call'[q] \in {c, call[q], Spoilt(call[q])}
             /\ Holds(call'[q], name', sequence')
  <2>1. call[q] \in Calls /\ Holds(call[q], name, sequence)
    BY <1>1 DEF HoldsAll
  <2>2. Holds(call[q], name', sequence')
    BY <1>1, <2>1 DEF Holds
  <2>3. Holds(Spoilt(call[q]), name', sequence')
    <3>1. /\ Spoilt(call[q]).id = call[q].id /\ Spoilt(call[q]).name = call[q].name
          /\ Spoilt(call[q]).k = call[q].k
          /\ Spoilt(call[q]).at \in {call[q].at, "spoilt"}
      BY <2>1, SpoiltTyped
    <3> QED BY <2>2, <3>1 DEF Holds
  <2>4. call'[q] \in {c, call[q], Spoilt(call[q])}
    <3>1. CASE Becomes(p, c)
      BY <1>1, <3>1 DEF Becomes
    <3>2. CASE Wrote(p, c)
      BY <3>2 DEF Wrote
    <3> QED BY <3>1, <3>2
  <2> QED BY <2>2, <2>3, <2>4
<1>3. \A q \in Process : call'[q] \in Calls
  BY <1>1, <1>2, SpoiltTyped
<1>4. DOMAIN call' = Process /\ call' = [q \in Process |-> call'[q]]
  <2>1. CASE Becomes(p, c)
    BY <1>1, <2>1 DEF Becomes
  <2>2. CASE Wrote(p, c)
    BY <2>2 DEF Wrote
  <2> QED BY <2>1, <2>2
<1> QED BY <1>2, <1>3, <1>4 DEF HoldsAll

LEMMA FlipsTyped ==
  ASSUME TypeOK, Noted, now' = now
  PROVE  flips' \in [Name -> 0..now']
  BY DEF TypeOK, Noted

(* A statement that writes nothing.                                         *)
LEMMA QuietKeeps ==
  ASSUME StoreInv, NEW p \in Process, NEW c \in Calls, Becomes(p, c),
         UNCHANGED <<table, statistics, credited, now>>, flips' \in [Name -> 0..now'],
         cache' \in [Process -> [names : SUBSET Name, at : Nat]],
         Holds(c, name, sequence)
  PROVE  StoreInv'
<1>1. TypeOK /\ Counted /\ HoldsAll /\ name' = name /\ sequence' = sequence
  BY DEF StoreInv, table
<1>2. sequence \in Nat /\ \A i \in 1..sequence : name'[i] \in {name[i], NoName}
  BY <1>1 DEF TypeOK
<1>3. HoldsAll' /\ call' \in [Process -> Calls]
  BY <1>1, <1>2, CallsKept
<1>4. TypeOK'
  BY <1>1, <1>3 DEF TypeOK, table, statistics
<1>5. Counted'
  BY <1>1 DEF Counted, table, statistics, Named
<1> QED BY <1>3, <1>4, <1>5 DEF StoreInv

-----------------------------------------------------------------------------
(* The first statement of a request only reads.                             *)

LEMMA RequestKeeps ==
  ASSUME StoreInv, NEW p \in Process, Request(p)
  PROVE  StoreInv'
<1>1. TypeOK
  BY DEF StoreInv
<1>2. /\ flips \in [Name -> 0..now] /\ now \in Nat
      /\ cache \in [Process -> [names : SUBSET Name, at : Nat]]
      /\ sequence \in Nat /\ name \in [Id -> Name \cup {NoName}]
      /\ \A i \in Id : i > sequence => name[i] = NoName
  BY <1>1 DEF TypeOK
<1>3. ASSUME NEW c \in Calls, Begin(p, c),
             UNCHANGED <<table, statistics, cache, now, history>>, Holds(c, name, sequence)
      PROVE  StoreInv'
  BY <1>2, <1>3, QuietKeeps DEF Begin, Becomes, history
<1>4. \A n \in Name : \A i \in Named(n) : i \in 1..sequence /\ i \in 0..MaxId /\ name[i] = n
  BY <1>2 DEF Named, Id
<1>5. ASSUME NEW n \in Name, NEW e \in BOOLEAN, CreateCheck(p, n, e) PROVE StoreInv'
  <2> DEFINE c == [Idle EXCEPT !.at = "insert", !.name = n, !.on = e]
  <2>1. c \in Calls
    BY IdleTyped DEF Calls, Steps
  <2>2. Holds(c, name, sequence)
    BY DEF Idle, Holds
  <2> HIDE DEF c
  <2>3. Begin(p, c) /\ UNCHANGED <<table, statistics, cache, now, history>>
    BY <1>5 DEF CreateCheck, c
  <2> QED BY <1>3, <2>1, <2>2, <2>3
<1>6. ASSUME NEW n \in Name, NEW e \in BOOLEAN, NEW s \in {"update", "delete"},
             Find(p, n, s, e)
      PROVE StoreInv'
  <2>1. PICK i \in Named(n) :
          Begin(p, [Idle EXCEPT !.at = s, !.name = n, !.id = i, !.on = e])
    BY <1>6 DEF Find
  <2> DEFINE c == [Idle EXCEPT !.at = s, !.name = n, !.id = i, !.on = e]
  <2>2. i \in 1..sequence /\ i \in 0..MaxId /\ name[i] = n
    BY <1>4
  <2>3. c \in Calls
    BY <2>2 DEF Idle, Calls, Steps
  <2>4. Holds(c, name, sequence)
    BY <2>2 DEF Idle, Holds
  <2> HIDE DEF c
  <2>5. Begin(p, c)
    BY <2>1 DEF c
  <2>6. UNCHANGED <<table, statistics, cache, now, history>>
    BY <1>6 DEF Find
  <2> QED BY <1>3, <2>3, <2>4, <2>5, <2>6
<1>7. ASSUME NEW B \in SUBSET Name, NEW e \in BOOLEAN, NEW o \in BOOLEAN, ImportBegin(p, B, e, o)
      PROVE StoreInv'
  <2> DEFINE c == [Idle EXCEPT !.at = "importing", !.names = B, !.on = e, !.over = o]
  <2>1. c \in Calls
    BY IdleTyped DEF Calls, Steps
  <2>2. Holds(c, name, sequence)
    BY DEF Idle, Holds
  <2> HIDE DEF c
  <2>3. Begin(p, c) /\ UNCHANGED <<table, statistics, cache, now, history>>
    BY <1>7 DEF ImportBegin, c
  <2> QED BY <1>3, <2>1, <2>2, <2>3
<1>8. ASSUME NEW n \in Name, Resolve(p, n) PROVE StoreInv'
  <2>1. PICK i \in Named(n) : Begin(p, [Idle EXCEPT !.at = "record", !.name = n, !.id = i])
    BY <1>8 DEF Resolve
  <2> DEFINE c == [Idle EXCEPT !.at = "record", !.name = n, !.id = i]
  <2>2. i \in 1..sequence /\ i \in 0..MaxId /\ name[i] = n
    BY <1>4
  <2>3. c \in Calls
    BY <2>2 DEF Idle, Calls, Steps
  <2>4. Holds(c, name, sequence)
    BY <2>2 DEF Idle, Holds
  <2> HIDE DEF c
  <2>5. Begin(p, c)
    BY <2>1 DEF c
  <2>6. UNCHANGED <<table, statistics, cache, now, history>>
    BY <1>8 DEF Resolve
  <2> QED BY <1>3, <2>3, <2>4, <2>5, <2>6
<1>9. Reading(1) \in Calls /\ Holds(Reading(1), name, sequence)
  BY <1>2, ReadingTyped DEF Holds
<1>10. CASE GetModels(p)
  BY <1>3, <1>9, <1>10 DEF GetModels
<1>11. CASE Refresh(p)
  <2>1. cache' \in [Process -> [names : SUBSET Name, at : Nat]]
    BY <1>2, <1>11 DEF Refresh, NoList
  <2> QED BY <1>2, <1>9, <1>11, <2>1, QuietKeeps DEF Refresh, Begin, Becomes, history
<1> QED BY <1>5, <1>6, <1>7, <1>8, <1>10, <1>11 DEF Request

-----------------------------------------------------------------------------
(* The later statements.                                                    *)

LEMMA CallTyped ==
  ASSUME TypeOK, NEW p \in Process
  PROVE  call[p] \in Calls
  BY DEF TypeOK

LEMMA IdleHolds ==
  ASSUME NEW names, NEW last
  PROVE  Holds(Idle, names, last)
  BY DEF Holds, Idle

LEMMA AfterCreateHolds ==
  ASSUME NEW c \in Calls, NEW names, NEW last
  PROVE  Holds(AfterCreate(c), names, last)
  BY AfterCreateTyped DEF Holds

(* What a statement has to establish, once the calls are as they should be. *)
LEMMA WriteKeeps ==
  ASSUME StoreInv, NEW p \in Process, NEW c \in Calls, Becomes(p, c) \/ Wrote(p, c),
         UNCHANGED <<cache, now>>, flips' \in [Name -> 0..now'],
         credited' \in [Name -> Nat], total' \in [Id -> Nat],
         name' \in [Id -> Name \cup {NoName}], sequence' \in 0..MaxId,
         sequence' >= sequence, \A i \in 1..sequence : name'[i] \in {name[i], NoName},
         \A i, j \in Id : name'[i] = name'[j] /\ name'[i] # NoName => i = j,
         \A i \in Id : i > sequence' => name'[i] = NoName,
         enabled' \subseteq Id, rows' \subseteq Id,
         \A i \in enabled' \cup rows' : name'[i] # NoName,
         Counted', Holds(c, name', sequence')
  PROVE  StoreInv'
<1>1. TypeOK /\ HoldsAll /\ sequence' \in Nat
  BY DEF StoreInv
<1>2. HoldsAll' /\ call' \in [Process -> Calls]
  BY <1>1, CallsKept
<1>3. TypeOK'
  BY <1>1, <1>2 DEF TypeOK
<1> QED BY <1>2, <1>3 DEF StoreInv

LEMMA InsertedTyped ==
  ASSUME NEW c \in Calls, NEW i \in 1..MaxId
  PROVE  LET d == [c EXCEPT !.at = "stats", !.id = i]
         IN  d \in Calls /\ d.at = "stats" /\ d.id = i
<1>1. i \in 0..MaxId
  OBVIOUS
<1> QED BY <1>1 DEF Calls, Steps

LEMMA InsertKeeps ==
  ASSUME StoreInv, NEW p \in Process, Insert(p)
  PROVE  StoreInv'
<1> DEFINE c == call[p]
           i == NewId
<1>1. TypeOK /\ Counted /\ HoldsAll /\ c \in Calls /\ Holds(c, name, sequence)
  BY CallTyped DEF StoreInv, HoldsAll
<1>2. c.at = "insert" /\ c.name \in Name /\ UNCHANGED <<statistics, cache, now, credited>>
  BY <1>1 DEF Insert, Holds
<1>3. CASE /\ Named(c.name) = {} /\ i \in Id
           /\ name' = [name EXCEPT ![i] = c.name]
           /\ enabled' = IF c.on THEN enabled \cup {i} ELSE enabled
           /\ sequence' = i
           /\ Wrote(p, [c EXCEPT !.at = "stats", !.id = i])
           /\ Noted
  <2> DEFINE d == [c EXCEPT !.at = "stats", !.id = i]
  <2>1. i = sequence + 1 /\ sequence \in Nat /\ i \in 1..MaxId
    BY <1>1, <1>3 DEF NewId, TypeOK, Id
  <2>2. d \in Calls
    BY <1>1, <2>1, InsertedTyped
  <2>3. d.at = "stats" /\ d.id = i
    BY <1>1, <2>1, InsertedTyped
  <2>4. Holds(d, name', sequence')
    BY <1>3, <2>1, <2>3 DEF Holds
  <2>5. flips' \in [Name -> 0..now']
    BY <1>1, <1>2, <1>3, FlipsTyped
  <2>6. /\ name[i] = NoName /\ i \notin rows /\ total[i] = 0 /\ credited[c.name] = 0
        /\ \A j \in Id : name[j] # c.name
    BY <1>1, <1>2, <1>3, <2>1 DEF TypeOK, Counted, Named, Id
  <2>7. /\ name'[i] = c.name /\ \A j \in Id : j # i => name'[j] = name[j]
        /\ name' \in [Id -> Name \cup {NoName}]
    BY <1>1, <1>2, <1>3 DEF TypeOK
  <2>8. Counted'
    <3>1. rows' = rows /\ total' = total /\ credited' = credited
      BY <1>2 DEF statistics
    <3>2. \A j \in Id : j \notin rows' => total'[j] = 0
      BY <1>1, <3>1 DEF Counted
    <3>3. \A j \in Id : name'[j] # NoName => credited'[name'[j]] = total'[j]
      BY <1>1, <2>6, <2>7, <3>1 DEF Counted
    <3>4. \A n \in Name : Named(n)' = {} => credited'[n] = 0
      BY <1>1, <2>6, <2>7, <3>1 DEF Counted, Named
    <3> QED BY <3>2, <3>3, <3>4 DEF Counted
  <2>9. /\ \A j, k \in Id : name'[j] = name'[k] /\ name'[j] # NoName => j = k
        /\ \A j \in Id : j > sequence' => name'[j] = NoName
        /\ \A j \in 1..sequence : name'[j] \in {name[j], NoName}
    BY <1>1, <1>3, <2>1, <2>6, <2>7, SMTT(30) DEF TypeOK, Id
  <2>10. /\ enabled' \subseteq Id /\ rows' \subseteq Id
         /\ \A j \in enabled' \cup rows' : name'[j] # NoName
    BY <1>1, <1>2, <1>3, <2>6, <2>7 DEF TypeOK, statistics
  <2>11. /\ sequence' \in 0..MaxId /\ sequence' >= sequence
         /\ total' \in [Id -> Nat] /\ credited' \in [Name -> Nat] /\ UNCHANGED <<cache, now>>
    BY <1>1, <1>2, <1>3, <2>1 DEF TypeOK, statistics
  <2>12. Wrote(p, d)
    BY <1>3
  <2> HIDE DEF c, i, d
  <2> QED BY <2>2, <2>4, <2>5, <2>7, <2>8, <2>9, <2>10, <2>11, <2>12, WriteKeeps
<1>4. CASE Becomes(p, AfterCreate(c)) /\ UNCHANGED <<table, flips>>
  <2>1. AfterCreate(c) \in Calls /\ Holds(AfterCreate(c), name, sequence)
    BY <1>1, AfterCreateTyped, AfterCreateHolds
  <2>2. /\ flips' \in [Name -> 0..now'] /\ cache' \in [Process -> [names : SUBSET Name, at : Nat]]
    BY <1>1, <1>2, <1>4 DEF TypeOK
  <2> QED BY <1>2, <1>4, <2>1, <2>2, QuietKeeps
<1> QED BY <1>3, <1>4 DEF Insert

LEMMA InsertStatsKeeps ==
  ASSUME StoreInv, NEW p \in Process, InsertStats(p)
  PROVE  StoreInv'
<1> DEFINE c == call[p]
           d == AfterCreate(c)
<1>1. TypeOK /\ Counted /\ HoldsAll /\ c \in Calls /\ Holds(c, name, sequence)
  BY CallTyped DEF StoreInv, HoldsAll
<1>2. c.at = "stats" /\ UNCHANGED <<table, total, cache, now, history>>
  BY DEF InsertStats
<1>3. d \in Calls /\ Holds(d, name, sequence)
  BY <1>1, AfterCreateTyped, AfterCreateHolds
<1>4. /\ flips' \in [Name -> 0..now'] /\ credited' \in [Name -> Nat] /\ total' \in [Id -> Nat]
      /\ cache' \in [Process -> [names : SUBSET Name, at : Nat]]
      /\ UNCHANGED <<name, sequence, enabled, total, credited, cache, now>>
  BY <1>1, <1>2 DEF TypeOK, table, history
<1>5. CASE Alive(c.id) /\ rows' = rows \cup {c.id} /\ Wrote(p, d)
  <2>1. Counted'
    BY <1>1, <1>4, <1>5 DEF Counted, Named
  <2>2. /\ name' \in [Id -> Name \cup {NoName}] /\ sequence' \in 0..MaxId
        /\ sequence' >= sequence /\ \A i \in 1..sequence : name'[i] \in {name[i], NoName}
        /\ \A i, j \in Id : name'[i] = name'[j] /\ name'[i] # NoName => i = j
        /\ \A i \in Id : i > sequence' => name'[i] = NoName
    BY <1>1, <1>4 DEF TypeOK
  <2>3. /\ enabled' \subseteq Id /\ rows' \subseteq Id
        /\ \A i \in enabled' \cup rows' : name'[i] # NoName
    BY <1>1, <1>4, <1>5 DEF TypeOK, Alive
  <2>4. Holds(d, name', sequence')
    BY <1>3, <1>4
  <2> HIDE DEF c, d
  <2> QED BY <1>3, <1>4, <1>5, <2>1, <2>2, <2>3, <2>4, WriteKeeps
<1>6. CASE Becomes(p, d) /\ UNCHANGED rows
  BY <1>1, <1>2, <1>3, <1>4, <1>6, QuietKeeps DEF statistics, history
<1> QED BY <1>5, <1>6 DEF InsertStats

LEMMA UpdateRowKeeps ==
  ASSUME StoreInv, NEW p \in Process, UpdateRow(p)
  PROVE  StoreInv'
<1> DEFINE c == call[p]
<1>1. TypeOK /\ Counted /\ HoldsAll /\ c \in Calls
  BY CallTyped DEF StoreInv
<1>2. /\ UNCHANGED <<name, sequence, rows, total, cache, now, credited>>
      /\ Becomes(p, Idle) \/ Wrote(p, Idle)
  BY DEF UpdateRow, statistics
<1>3. flips' \in [Name -> 0..now']
  BY <1>1, <1>2, FlipsTyped DEF UpdateRow
<1>4. enabled' \subseteq Id /\ \A i \in enabled' : name'[i] # NoName
  <2>1. enabled' \subseteq enabled \/ (Alive(c.id) /\ enabled' \subseteq enabled \cup {c.id})
    BY DEF UpdateRow
  <2> QED BY <1>1, <1>2, <2>1 DEF TypeOK, Alive
<1>5. Counted'
  BY <1>1, <1>2 DEF Counted, Named
<1>6. /\ credited' \in [Name -> Nat] /\ total' \in [Id -> Nat]
      /\ name' \in [Id -> Name \cup {NoName}] /\ sequence' \in 0..MaxId
      /\ sequence' >= sequence /\ \A i \in 1..sequence : name'[i] \in {name[i], NoName}
      /\ \A i, j \in Id : name'[i] = name'[j] /\ name'[i] # NoName => i = j
      /\ \A i \in Id : i > sequence' => name'[i] = NoName
      /\ rows' \subseteq Id /\ \A i \in enabled' \cup rows' : name'[i] # NoName
  BY <1>1, <1>2, <1>4 DEF TypeOK
<1>7. Holds(Idle, name', sequence')
  BY IdleHolds
<1> QED BY <1>2, <1>3, <1>4, <1>5, <1>6, <1>7, IdleTyped, WriteKeeps

LEMMA DeleteRowKeeps ==
  ASSUME StoreInv, NEW p \in Process, DeleteRow(p)
  PROVE  StoreInv'
<1> DEFINE i == call[p].id
<1>1. TypeOK /\ Counted /\ HoldsAll
  BY DEF StoreInv
<1>2. UNCHANGED <<sequence, cache, now>>
  BY DEF DeleteRow
<1>3. Holds(Idle, name', sequence')
  BY IdleHolds
<1>4. CASE /\ Alive(i) /\ name' = [name EXCEPT ![i] = NoName]
           /\ enabled' = enabled \ {i}
           /\ rows' = rows \ {i} /\ total' = [total EXCEPT ![i] = 0]
           /\ credited' = [credited EXCEPT ![name[i]] = 0]
           /\ Wrote(p, Idle) /\ Noted
  <2> HIDE DEF i
  <2>1. i \in Id /\ name[i] \in Name /\ name[i] # NoName
    BY <1>1, <1>4 DEF TypeOK, Alive
  <2>2. flips' \in [Name -> 0..now']
    BY <1>1, <1>2, <1>4, FlipsTyped
  <2>3. /\ name'[i] = NoName /\ \A j \in Id : j # i => name'[j] = name[j]
        /\ name' \in [Id -> Name \cup {NoName}]
    BY <1>1, <1>4, <2>1 DEF TypeOK
  <2>4. /\ total'[i] = 0 /\ \A j \in Id : j # i => total'[j] = total[j]
        /\ total' \in [Id -> Nat]
    BY <1>1, <1>4, <2>1 DEF TypeOK
  <2>5. /\ credited'[name[i]] = 0 /\ credited' \in [Name -> Nat]
        /\ \A n \in Name : n # name[i] => credited'[n] = credited[n]
    BY <1>1, <1>4, <2>1 DEF TypeOK
  <2>6. \A j, k \in Id : name[j] = name[k] /\ name[j] # NoName => j = k
    BY <1>1 DEF TypeOK
  <2>7. Counted'
    <3>1. \A j \in Id : j \notin rows' => total'[j] = 0
      BY <1>1, <1>4, <2>4 DEF Counted
    <3>2. \A j \in Id : name'[j] # NoName => credited'[name'[j]] = total'[j]
      <4> SUFFICES ASSUME NEW j \in Id, name'[j] # NoName
                   PROVE  credited'[name'[j]] = total'[j]
        OBVIOUS
      <4>1. j # i /\ name'[j] = name[j] /\ name[j] # name[i] /\ name[j] \in Name
        BY <1>1, <2>1, <2>3, <2>6 DEF TypeOK
      <4> QED BY <1>1, <2>4, <2>5, <4>1 DEF Counted
    <3>3. \A n \in Name : Named(n)' = {} => credited'[n] = 0
      <4> SUFFICES ASSUME NEW n \in Name, n # name[i], Named(n)' = {} PROVE credited'[n] = 0
        BY <2>5
      <4>1. Named(n) = {}
        BY <2>3 DEF Named
      <4> QED BY <1>1, <2>5, <4>1 DEF Counted
    <3> QED BY <3>1, <3>2, <3>3 DEF Counted
  <2>8. /\ \A j, k \in Id : name'[j] = name'[k] /\ name'[j] # NoName => j = k
        /\ \A j \in Id : j > sequence' => name'[j] = NoName
        /\ \A j \in 1..sequence : name'[j] \in {name[j], NoName}
    <3>1. sequence' = sequence /\ 1..sequence \subseteq Id
      BY <1>1, <1>2 DEF TypeOK, Id
    <3>2. \A j \in Id : name'[j] \in {name[j], NoName}
      BY <2>3
    <3>3. \A j \in Id : j > sequence => name[j] = NoName
      BY <1>1 DEF TypeOK
    <3> QED BY <2>3, <2>6, <3>1, <3>2, <3>3
  <2>9. /\ enabled' \subseteq Id /\ rows' \subseteq Id
        /\ \A j \in enabled' \cup rows' : name'[j] # NoName
    BY <1>1, <1>4, <2>3 DEF TypeOK
  <2>10. sequence' \in 0..MaxId /\ sequence' >= sequence
    BY <1>1, <1>2 DEF TypeOK
  <2> QED BY <1>2, <1>3, <1>4, <2>2, <2>3, <2>4, <2>5, <2>7, <2>8, <2>9, <2>10, IdleTyped, WriteKeeps
<1>5. CASE Becomes(p, Idle) /\ UNCHANGED <<name, enabled, statistics, history>>
  <2>1. /\ flips' \in [Name -> 0..now'] /\ cache' \in [Process -> [names : SUBSET Name, at : Nat]]
    BY <1>1, <1>2, <1>5 DEF TypeOK, history
  <2>2. Holds(Idle, name, sequence)
    BY IdleHolds
  <2> QED BY <1>2, <1>5, <2>1, <2>2, IdleTyped, QuietKeeps DEF table, history
<1> QED BY <1>4, <1>5 DEF DeleteRow

(* The rows that an import adds.                                            *)
LEMMA ImportEndKeeps ==
  ASSUME StoreInv, NEW p \in Process, ImportEnd(p)
  PROVE  StoreInv'
<1> DEFINE c == call[p]
           missing == {n \in c.names : Named(n) = {}}
           known == IF c.over THEN UNION {Named(n) : n \in c.names} ELSE {}
           size == Cardinality(missing)
           new == (sequence + 1)..(sequence + size)
<1>1. TypeOK /\ Counted /\ HoldsAll /\ c \in Calls
  BY CallTyped DEF StoreInv
<1>2. UNCHANGED <<total, cache, now, credited>> /\ (Becomes(p, Idle) \/ Wrote(p, Idle)) /\ Noted
  BY DEF ImportEnd
<1>3. /\ new \subseteq Id /\ sequence' = sequence + size /\ rows' = rows \cup new
      /\ enabled' \subseteq enabled \cup known \cup new
      /\ \E f \in [new -> missing] :
           /\ \A i, j \in new : f[i] = f[j] => i = j
           /\ name' = [i \in Id |-> IF i \in new THEN f[i] ELSE name[i]]
  BY DEF ImportEnd
<1>4. missing \subseteq Name /\ \A n \in missing : \A i \in Id : name[i] # n
  BY <1>1 DEF Calls, Named
<1>5. known \subseteq {i \in Id : name[i] # NoName}
  BY <1>1 DEF Calls, Named
<1>6. IsFiniteSet(missing) /\ size \in Nat
  BY <1>4, FS_Subset, FS_CardinalityType
<1> HIDE DEF c, missing, known, size
<1>7. sequence \in Nat /\ sequence <= MaxId /\ MaxId \in Nat
  BY <1>1 DEF TypeOK
<1>8. sequence' \in 0..MaxId /\ sequence' >= sequence
  <2>1. CASE size = 0
    BY <1>3, <1>7, <2>1
  <2>2. CASE size > 0
    <3>1. sequence + size \in new
      BY <1>6, <1>7, <2>2
    <3>2. sequence + size \in 1..MaxId /\ sequence' = sequence + size
      BY <1>3, <3>1 DEF Id
    <3> HIDE DEF new
    <3> QED BY <1>6, <1>7, <2>2, <3>2
  <2> QED BY <1>6, <2>1, <2>2
<1>9. \A i \in new : i > sequence /\ i <= sequence' /\ name[i] = NoName /\ total[i] = 0
  <2> SUFFICES ASSUME NEW i \in new
               PROVE  i > sequence /\ i <= sequence' /\ name[i] = NoName /\ total[i] = 0
    OBVIOUS
  <2>1. i > sequence /\ i <= sequence' /\ i \in Id
    BY <1>3, <1>6, <1>7
  <2>2. name[i] = NoName
    BY <1>1, <2>1 DEF TypeOK
  <2>3. i \notin rows
    BY <1>1, <2>2 DEF TypeOK
  <2> QED BY <1>1, <2>1, <2>2, <2>3 DEF Counted
<1>10. \A i \in Id : i \notin new /\ i <= sequence' => i <= sequence
  BY <1>3, <1>6, <1>7 DEF Id
<1>11. PICK f \in [new -> missing] :
         /\ \A i, j \in new : f[i] = f[j] => i = j
         /\ name' = [i \in Id |-> IF i \in new THEN f[i] ELSE name[i]]
  BY <1>3
<1> HIDE DEF new
<1>12. /\ \A i \in new : i \in Id /\ name'[i] = f[i] /\ f[i] \in missing /\ f[i] \in Name
       /\ \A i \in Id : i \notin new => name'[i] = name[i]
       /\ name' = [i \in Id |-> name'[i]]
  BY <1>3, <1>4, <1>11
<1>13. name' \in [Id -> Name \cup {NoName}]
  BY <1>1, <1>12 DEF TypeOK
<1>14. \A i, j \in Id : name'[i] = name'[j] /\ name'[i] # NoName => i = j
  <2>1. \A i, j \in Id : name[i] = name[j] /\ name[i] # NoName => i = j
    BY <1>1 DEF TypeOK
  <2> SUFFICES ASSUME NEW i \in Id, NEW j \in Id, name'[i] = name'[j], name'[i] # NoName
               PROVE  i = j
    OBVIOUS
  <2>2. CASE i \in new /\ j \in new
    BY <1>11, <1>12, <2>2
  <2>3. CASE i \in new /\ j \notin new
    BY <1>4, <1>12, <2>3
  <2>4. CASE i \notin new /\ j \in new
    BY <1>4, <1>12, <2>4
  <2>5. CASE i \notin new /\ j \notin new
    BY <1>12, <2>1, <2>5
  <2> QED BY <2>2, <2>3, <2>4, <2>5
<1>15. \A i \in Id : i > sequence' => name'[i] = NoName
  <2> SUFFICES ASSUME NEW i \in Id, i > sequence' PROVE name'[i] = NoName
    OBVIOUS
  <2>1. i \notin new /\ i > sequence
    BY <1>3, <1>6, <1>7, <1>8 DEF Id, new
  <2> QED BY <1>1, <1>12, <2>1 DEF TypeOK
<1>16. \A i \in 1..sequence : name'[i] \in {name[i], NoName}
  <2> SUFFICES ASSUME NEW i \in 1..sequence PROVE name'[i] = name[i]
    OBVIOUS
  <2>1. i \in Id /\ i \notin new
    BY <1>6, <1>7 DEF Id, new
  <2> QED BY <1>12, <2>1
<1>17. /\ enabled' \subseteq Id /\ rows' \subseteq Id
       /\ \A i \in enabled' \cup rows' : name'[i] # NoName
  <2>1. \A i \in enabled \cup rows \cup known : i \in Id /\ name[i] # NoName
    BY <1>1, <1>5 DEF TypeOK
  <2>2. \A i \in enabled' \cup rows' : i \in new \/ i \in enabled \cup rows \cup known
    BY <1>3
  <2>3. \A i \in new : name'[i] # NoName
    BY <1>12
  <2> QED BY <1>12, <2>1, <2>2, <2>3
<1>18. Counted'
  <2>1. \A i \in Id : i \notin rows' => total'[i] = 0
    BY <1>1, <1>2, <1>3 DEF Counted
  <2>2. \A i \in Id : name'[i] # NoName => credited'[name'[i]] = total'[i]
    <3> SUFFICES ASSUME NEW i \in Id, name'[i] # NoName
                 PROVE  credited'[name'[i]] = total'[i]
      OBVIOUS
    <3>1. CASE i \in new
      <4>1. f[i] \in Name /\ Named(f[i]) = {}
        BY <1>4, <1>12, <3>1 DEF Named
      <4>2. credited[f[i]] = 0
        BY <1>1, <4>1 DEF Counted
      <4> QED BY <1>2, <1>9, <1>12, <3>1, <4>2
    <3>2. CASE i \notin new
      BY <1>1, <1>2, <1>12, <3>2 DEF Counted
    <3> QED BY <3>1, <3>2
  <2>3. \A n \in Name : Named(n)' = {} => credited'[n] = 0
    <3> SUFFICES ASSUME NEW n \in Name, Named(n)' = {} PROVE credited'[n] = 0
      OBVIOUS
    <3>1. \A i \in Id : name[i] # n
      <4> SUFFICES ASSUME NEW i \in Id, name[i] = n PROVE FALSE
        OBVIOUS
      <4>1. i \notin new
        BY <1>9
      <4> QED BY <1>12, <4>1 DEF Named
    <3> QED BY <1>1, <1>2, <3>1 DEF Counted, Named
  <2> QED BY <2>1, <2>2, <2>3 DEF Counted
<1>19. /\ flips' \in [Name -> 0..now'] /\ credited' \in [Name -> Nat] /\ total' \in [Id -> Nat]
       /\ UNCHANGED <<cache, now>>
  BY <1>1, <1>2, FlipsTyped DEF TypeOK
<1>20. Holds(Idle, name', sequence')
  BY IdleHolds
<1> QED BY <1>2, <1>8, <1>13, <1>14, <1>15, <1>16, <1>17, <1>18, <1>19, <1>20, IdleTyped, WriteKeeps

LEMMA RecordKeeps ==
  ASSUME StoreInv, NEW p \in Process, Record(p)
  PROVE  StoreInv'
<1> DEFINE c == call[p]
           i == c.id
           n == c.name
<1>1. TypeOK /\ Counted /\ HoldsAll /\ c \in Calls /\ Holds(c, name, sequence)
  BY CallTyped DEF StoreInv, HoldsAll
<1>2. c.at = "record" /\ UNCHANGED <<table, cache, now, flips>>
  BY DEF Record
<1>3. n \in Name /\ name[i] \in {n, NoName}
  BY <1>1, <1>2 DEF Holds
<1>4. Holds(Idle, name', sequence') /\ Holds(Idle, name, sequence)
  BY IdleHolds
<1>5. /\ flips' \in [Name -> 0..now'] /\ UNCHANGED <<name, sequence, enabled, cache, now>>
      /\ cache' \in [Process -> [names : SUBSET Name, at : Nat]]
  BY <1>1, <1>2 DEF TypeOK, table
<1>6. CASE /\ Alive(i) /\ rows' = rows \cup {i} /\ total' = [total EXCEPT ![i] = @ + 1]
           /\ credited' = [credited EXCEPT ![n] = @ + 1] /\ Wrote(p, Idle)
  <2> HIDE DEF c, i, n
  <2>1. i \in Id /\ name[i] = n /\ n \in Name
    BY <1>3, <1>6 DEF Alive
  <2>2. /\ total'[i] = total[i] + 1 /\ \A j \in Id : j # i => total'[j] = total[j]
        /\ total' \in [Id -> Nat]
    BY <1>1, <1>6, <2>1 DEF TypeOK
  <2>3. /\ credited'[n] = credited[n] + 1 /\ \A m \in Name : m # n => credited'[m] = credited[m]
        /\ credited' \in [Name -> Nat]
    BY <1>1, <1>6, <2>1 DEF TypeOK
  <2>4. name \in [Id -> Name \cup {NoName}]
        /\ \A j, k \in Id : name[j] = name[k] /\ name[j] # NoName => j = k
    BY <1>1 DEF TypeOK
  <2>5. Counted'
    <3>1. \A j \in Id : j \notin rows' => total'[j] = 0
      BY <1>1, <1>6, <2>2 DEF Counted
    <3>2. \A j \in Id : name'[j] # NoName => credited'[name'[j]] = total'[j]
      <4> SUFFICES ASSUME NEW j \in Id, name[j] # NoName PROVE credited'[name[j]] = total'[j]
        BY <1>5
      <4>1. credited[name[j]] = total[j] /\ name[j] \in Name
        BY <1>1, <2>4 DEF Counted
      <4>2. CASE j = i
        BY <2>1, <2>2, <2>3, <4>1, <4>2
      <4>3. CASE j # i
        BY <2>1, <2>2, <2>3, <2>4, <4>1, <4>3
      <4> QED BY <4>2, <4>3
    <3>3. \A m \in Name : Named(m)' = {} => credited'[m] = 0
      BY <1>1, <1>5, <2>1, <2>3 DEF Counted, Named
    <3> QED BY <3>1, <3>2, <3>3 DEF Counted
  <2>6. /\ name' \in [Id -> Name \cup {NoName}] /\ sequence' \in 0..MaxId
        /\ sequence' >= sequence /\ \A j \in 1..sequence : name'[j] \in {name[j], NoName}
        /\ \A j, k \in Id : name'[j] = name'[k] /\ name'[j] # NoName => j = k
        /\ \A j \in Id : j > sequence' => name'[j] = NoName
        /\ enabled' \subseteq Id
    BY <1>1, <1>5 DEF TypeOK
  <2>7. rows' \subseteq Id /\ \A j \in enabled' \cup rows' : name'[j] # NoName
    BY <1>1, <1>5, <1>6, <2>1 DEF TypeOK
  <2> QED BY <1>4, <1>5, <1>6, <2>2, <2>3, <2>5, <2>6, <2>7, IdleTyped, WriteKeeps
<1>7. CASE Becomes(p, Idle) /\ UNCHANGED <<statistics, credited>>
  BY <1>2, <1>4, <1>5, <1>7, IdleTyped, QuietKeeps
<1> QED BY <1>6, <1>7 DEF Record

(* The statements that only read, and the end of a process.                 *)
LEMMA ReadingKeeps ==
  ASSUME StoreInv, NEW p \in Process,
         ImportFails(p) \/ ReadAll(p) \/ Build(p) \/ Defaults(p) \/ Crash(p)
  PROVE  StoreInv'
<1> DEFINE c == call[p]
<1>1. TypeOK /\ c \in Calls
  BY CallTyped DEF StoreInv
<1>2. /\ flips \in [Name -> 0..now] /\ now \in Nat
      /\ cache \in [Process -> [names : SUBSET Name, at : Nat]]
  BY <1>1 DEF TypeOK
<1>3. ASSUME NEW d \in Calls, Becomes(p, d), Holds(d, name, sequence),
             UNCHANGED <<table, statistics, now, history>>,
             cache' \in [Process -> [names : SUBSET Name, at : Nat]]
      PROVE  StoreInv'
  BY <1>2, <1>3, QuietKeeps DEF history
<1>4. Idle \in Calls /\ Holds(Idle, name, sequence)
  BY IdleTyped, IdleHolds
<1>5. CASE ImportFails(p)
  BY <1>2, <1>3, <1>4, <1>5 DEF ImportFails
<1>6. CASE Crash(p)
  <2>1. cache' \in [Process -> [names : SUBSET Name, at : Nat]]
    BY <1>2, <1>6 DEF Crash, NoList
  <2> QED BY <1>3, <1>4, <1>6, <2>1 DEF Crash
<1>7. CASE ReadAll(p)
  <2> DEFINE s == Shown
             d == [c EXCEPT !.at = "build", !.names = s]
  <2>1. s \subseteq Name
    BY <1>1 DEF Shown, TypeOK, Id
  <2>2. Becomes(p, d) /\ UNCHANGED <<table, statistics, cache, now, history>>
    BY <1>7 DEF ReadAll
  <2> HIDE DEF c, s
  <2>3. d \in Calls /\ d.at = "build"
    BY <1>1, <2>1 DEF Calls, Steps
  <2>4. Holds(d, name, sequence)
    BY <2>3 DEF Holds
  <2> HIDE DEF d
  <2> QED BY <1>2, <1>3, <2>2, <2>3, <2>4
<1>8. CASE Build(p)
  <2>1. UNCHANGED <<table, statistics, now, history>>
    BY <1>8 DEF Build
  <2>2. CASE c.names # {}
    <3>1. Becomes(p, Idle) /\ cache' = [cache EXCEPT ![p] = [names |-> c.names, at |-> c.since]]
      BY <1>8, <2>2 DEF Build
    <3>2. c.names \in SUBSET Name /\ c.since \in Nat
      BY <1>1 DEF Calls
    <3> HIDE DEF c
    <3>3. cache' \in [Process -> [names : SUBSET Name, at : Nat]]
      BY <1>2, <3>1, <3>2
    <3> QED BY <1>3, <1>4, <2>1, <3>1, <3>3
  <2>3. CASE c.names = {}
    <3> DEFINE d == [c EXCEPT !.at = "defaults", !.k = 1]
    <3>1. Becomes(p, d) /\ UNCHANGED cache
      BY <1>8, <2>3 DEF Build
    <3> HIDE DEF c
    <3>2. d \in Calls /\ d.at = "defaults" /\ d.k = 1
      BY <1>1 DEF Calls, Steps
    <3>3. Holds(d, name, sequence)
      BY <3>2 DEF Holds
    <3> HIDE DEF d
    <3> QED BY <1>2, <1>3, <2>1, <3>1, <3>2, <3>3
  <2> QED BY <2>2, <2>3
<1>9. CASE Defaults(p)
  <2>1. c.at = "defaults" /\ c.k \in Nat /\ c.depth \in Nat
        /\ UNCHANGED <<table, statistics, cache, now, history>>
    BY <1>1, <1>9 DEF Defaults, Calls
  <2>2. ASSUME c.k <= Len(Default), c.k # 0,
               Becomes(p, [c EXCEPT !.at = "insert", !.name = Default[c.k], !.on = TRUE])
        PROVE  StoreInv'
    <3> DEFINE n == Default[c.k]
               d == [c EXCEPT !.at = "insert", !.name = n, !.on = TRUE]
    <3>1. n \in Name
      BY <2>1, <2>2
    <3>2. Becomes(p, d)
      BY <2>2
    <3> HIDE DEF c, n
    <3>3. d \in Calls /\ d.at = "insert" /\ d.name = n
      BY <1>1, <3>1 DEF Calls, Steps
    <3>4. Holds(d, name, sequence)
      BY <3>1, <3>3 DEF Holds
    <3> HIDE DEF d
    <3> QED BY <1>2, <1>3, <2>1, <3>2, <3>3, <3>4
  <2>3. ASSUME Becomes(p, [c EXCEPT !.k = c.k + 1])
        PROVE  StoreInv'
    <3> DEFINE m == c.k + 1
               d == [c EXCEPT !.k = m]
    <3>1. m \in Nat /\ m # 0
      BY <2>1
    <3>2. Becomes(p, d)
      BY <2>3
    <3> HIDE DEF m
    <3>3. d \in Calls /\ d.at = "defaults" /\ d.k = m
      BY <1>1, <2>1, <3>1 DEF Calls, Steps
    <3>4. Holds(d, name, sequence)
      BY <3>1, <3>3 DEF Holds
    <3> HIDE DEF d
    <3> QED BY <1>2, <1>3, <2>1, <3>2, <3>3, <3>4
  <2>4. ASSUME Becomes(p, Reading(c.depth + 1))
        PROVE  StoreInv'
    <3>1. Reading(c.depth + 1) \in Calls /\ Reading(c.depth + 1).at = "read"
      BY <1>2, <2>1, ReadingTyped
    <3>2. Holds(Reading(c.depth + 1), name, sequence)
      BY <3>1 DEF Holds
    <3> QED BY <1>2, <1>3, <2>1, <2>4, <3>1, <3>2
  <2>5. ASSUME Becomes(p, Idle) PROVE StoreInv'
    BY <1>2, <1>3, <1>4, <2>1, <2>5
  <2>6. c.k # 0
    BY <2>1 DEF StoreInv, HoldsAll, Holds
  <2> QED BY <1>9, <2>2, <2>3, <2>4, <2>5, <2>6 DEF Defaults
<1> QED BY <1>5, <1>6, <1>7, <1>8, <1>9

LEMMA TickKeeps ==
  ASSUME StoreInv, Tick
  PROVE  StoreInv'
<1>1. TypeOK /\ Counted /\ HoldsAll
  BY DEF StoreInv
<1>2. /\ UNCHANGED <<name, enabled, sequence, rows, total, call, cache, flips, credited>>
      /\ now' = now + 1
  BY DEF Tick, table, statistics, history
<1>3. TypeOK'
  BY <1>1, <1>2 DEF TypeOK
<1>4. Counted' /\ HoldsAll'
  BY <1>1, <1>2 DEF Counted, HoldsAll, Named
<1> QED BY <1>3, <1>4 DEF StoreInv

LEMMA NextKeeps == StoreInv /\ [Next]_vars => StoreInv'
<1> SUFFICES ASSUME StoreInv, [Next]_vars PROVE StoreInv'
  OBVIOUS
<1>1. CASE Tick
  BY <1>1, TickKeeps
<1>2. ASSUME NEW p \in Process, Request(p) PROVE StoreInv'
  BY <1>2, RequestKeeps
<1>3. ASSUME NEW p \in Process, Statement(p) PROVE StoreInv'
  BY <1>3, InsertKeeps, InsertStatsKeeps, UpdateRowKeeps, DeleteRowKeeps, ImportEndKeeps,
     RecordKeeps, ReadingKeeps DEF Statement
<1>4. ASSUME NEW p \in Process, Crash(p) PROVE StoreInv'
  BY <1>4, ReadingKeeps
<1>5. CASE UNCHANGED vars
  <2>1. TypeOK /\ Counted /\ HoldsAll
    BY DEF StoreInv
  <2>2. UNCHANGED <<name, enabled, sequence, rows, total, call, cache, now, flips, credited>>
    BY <1>5 DEF vars, table, statistics, history
  <2>3. TypeOK'
    BY <2>1, <2>2 DEF TypeOK
  <2>4. Counted' /\ HoldsAll'
    BY <2>1, <2>2 DEF Counted, HoldsAll, Named
  <2> QED BY <2>3, <2>4 DEF StoreInv
<1> QED BY <1>1, <1>2, <1>3, <1>4, <1>5 DEF Next

(* Whatever the processes do between each other's statements, and wherever  *)
(* they end: StoreInv holds.                                                *)
THEOREM StoreInvariant == Spec => []StoreInv
<1>1. Init => StoreInv
  BY StoreInitially
<1>2. StoreInv /\ [Next]_vars => StoreInv'
  BY NextKeeps
<1> QED BY <1>1, <1>2, PTL DEF Spec

(* TypeOK: the types, and that a name has one alias, of the database that   *)
(* several processes write.                                                 *)
THEOREM AliasTypeOK == Spec => []TypeOK
<1>1. StoreInv => TypeOK
  BY DEF StoreInv
<1> QED BY <1>1, StoreInvariant, PTL

(* UsageCounted: the statistics of an alias count exactly the requests that *)
(* were answered with it since it was created.  As names are unique and ids *)
(* are never given out again, the id that a request found still means the   *)
(* alias it asked for, or none.                                             *)
THEOREM AliasUsageCounted == Spec => []UsageCounted
<1>1. StoreInv => UsageCounted
  <2> SUFFICES ASSUME StoreInv, NEW n \in Name
               PROVE  credited[n] = IF \E i \in Named(n) : i \in rows
                                    THEN total[CHOOSE i \in Named(n) : TRUE] ELSE 0
    BY DEF UsageCounted
  <2>1. TypeOK /\ Counted
    BY DEF StoreInv
  <2>2. \A i, j \in Named(n) : i = j
    BY <2>1 DEF TypeOK, Named
  <2>3. \A i \in Named(n) : i \in Id /\ credited[n] = total[i]
    BY <2>1 DEF Counted, Named
  <2>4. CASE \E i \in Named(n) : i \in rows
    <3>1. (CHOOSE i \in Named(n) : TRUE) \in Named(n)
      BY <2>4
    <3> QED BY <2>3, <2>4, <3>1
  <2>5. CASE Named(n) # {} /\ \A i \in Named(n) : i \notin rows
    <3>1. PICK i \in Named(n) : TRUE
      BY <2>5
    <3>2. total[i] = 0
      BY <2>1, <2>3, <2>5, <3>1 DEF Counted
    <3> QED BY <2>3, <2>5, <3>1, <3>2
  <2>6. CASE Named(n) = {}
    BY <2>1, <2>6 DEF Counted
  <2> QED BY <2>4, <2>5, <2>6
<1> QED BY <1>1, StoreInvariant, PTL

-----------------------------------------------------------------------------
(* The lists.                                                               *)

(* What a list dated t says of a name that has not changed since.           *)
FreshBy(names, t) == \A n \in Name : flips[n] < t => (n \in names <=> n \in Shown)

StillFresh(names, t) == \A n \in Name : flips'[n] < t => (n \in names <=> n \in Shown')

ListInv ==
  \A p \in Process :
    /\ cache[p].at <= now /\ FreshBy(cache[p].names, cache[p].at)
    /\ call[p].at \in {"read", "build"} => call[p].since <= now
    /\ call[p].at = "build" => FreshBy(call[p].names, call[p].since)

(* A step either leaves the names shown alone or notes which of them change *)
(* (Noted); a list keeps what it says of the others.                        *)
ShownNoted == (Shown' = Shown /\ flips' = flips) \/ Noted

LEMMA FreshKept ==
  ASSUME TypeOK, ShownNoted, NEW names, NEW t \in Nat, t <= now, FreshBy(names, t)
  PROVE  StillFresh(names, t)
<1> SUFFICES ASSUME NEW n \in Name, flips'[n] < t
             PROVE  n \in names <=> n \in Shown'
  BY DEF StillFresh
<1>1. now \in Nat
  BY DEF TypeOK
<1>2. CASE Shown' = Shown /\ flips' = flips
  BY <1>2 DEF FreshBy
<1>3. CASE Noted
  <2>1. flips'[n] = IF (n \in Shown) = (n \in Shown') THEN flips[n] ELSE now
    BY <1>3 DEF Noted
  <2>2. (n \in Shown) = (n \in Shown')
    BY <1>1, <2>1
  <2> QED BY <2>1, <2>2 DEF FreshBy
<1> QED BY <1>2, <1>3 DEF ShownNoted

(* A step of p: the other processes go on with the call they had.           *)
LEMMA ListsKept ==
  ASSUME TypeOK, ListInv, ShownNoted, UNCHANGED now,
         NEW p \in Process, NEW c \in Calls, Becomes(p, c) \/ Wrote(p, c),
         c.at \in {"read", "build"} => c.since <= now,
         c.at = "build" => StillFresh(c.names, c.since),
         \A q \in Process \ {p} : cache'[q] = cache[q],
         cache'[p].at <= now /\ StillFresh(cache'[p].names, cache'[p].at)
  PROVE  ListInv'
<1> SUFFICES ASSUME NEW q \in Process
             PROVE  /\ cache'[q].at <= now' /\ StillFresh(cache'[q].names, cache'[q].at)
                    /\ call'[q].at \in {"read", "build"} => call'[q].since <= now'
                    /\ call'[q].at = "build" => StillFresh(call'[q].names, call'[q].since)
  BY DEF ListInv, FreshBy, StillFresh
<1>1. /\ call \in [Process -> Calls] /\ now \in Nat
      /\ cache \in [Process -> [names : SUBSET Name, at : Nat]]
  BY DEF TypeOK
<1>2. CASE q = p
  <2>1. call'[p] = c
    <3>1. CASE Becomes(p, c)
      BY <1>1, <3>1 DEF Becomes
    <3>2. CASE Wrote(p, c)
      BY <3>2 DEF Wrote
    <3> QED BY <3>1, <3>2
  <2> QED BY <1>2, <2>1
<1>3. CASE q # p
  <2>1. call'[q] \in {call[q], Spoilt(call[q])}
    <3>1. CASE Becomes(p, c)
      BY <1>1, <1>3, <3>1 DEF Becomes
    <3>2. CASE Wrote(p, c)
      BY <1>3, <3>2 DEF Wrote
    <3> QED BY <3>1, <3>2
  <2>2. call'[q].at \in {"read", "build"} => call'[q] = call[q]
    <3>1. call[q] \in Calls
      BY <1>1
    <3>2. Spoilt(call[q]) = call[q] \/ Spoilt(call[q]).at = "spoilt"
      BY <3>1 DEF Spoilt, Calls
    <3> QED BY <2>1, <3>2
  <2>3. cache'[q].at <= now' /\ StillFresh(cache'[q].names, cache'[q].at)
    <3>1. cache[q].at \in Nat /\ cache[q].at <= now /\ FreshBy(cache[q].names, cache[q].at)
      BY <1>1 DEF ListInv
    <3> DEFINE names == cache[q].names
               t == cache[q].at
    <3>2. StillFresh(names, t)
      <4> HIDE DEF names, t
      <4>1. t \in Nat /\ t <= now /\ FreshBy(names, t)
        BY <3>1 DEF names, t
      <4> QED BY <4>1, FreshKept
    <3> QED BY <1>3, <3>1, <3>2
  <2>4. call'[q].at \in {"read", "build"} => call'[q].since <= now'
    BY <2>2 DEF ListInv
  <2>5. call'[q].at = "build" => StillFresh(call'[q].names, call'[q].since)
    <3> SUFFICES ASSUME call'[q].at = "build" PROVE StillFresh(call'[q].names, call'[q].since)
      OBVIOUS
    <3>1. call'[q] = call[q] /\ call[q].at = "build" /\ call[q].since \in Nat
      BY <1>1, <2>2 DEF Calls
    <3>2. call[q].since <= now /\ FreshBy(call[q].names, call[q].since)
      BY <3>1 DEF ListInv
    <3> DEFINE names == call[q].names
               t == call[q].since
    <3>3. StillFresh(names, t)
      <4> HIDE DEF names, t
      <4>1. t \in Nat /\ t <= now /\ FreshBy(names, t)
        BY <3>1, <3>2 DEF names, t
      <4> QED BY <4>1, FreshKept
    <3> QED BY <3>1, <3>3 DEF FreshBy
  <2> QED BY <2>3, <2>4, <2>5
<1> QED BY <1>2, <1>3

(* The steps after which p is neither reading nor building, and has the     *)
(* list it had.                                                             *)
LEMMA OthersKeepLists ==
  ASSUME TypeOK, ListInv, ShownNoted, UNCHANGED <<now, cache>>,
         NEW p \in Process, NEW c \in Calls, Becomes(p, c) \/ Wrote(p, c),
         c.at \notin {"read", "build"}
  PROVE  ListInv'
<1> DEFINE names == cache[p].names
           t == cache[p].at
<1>1. t \in Nat /\ t <= now /\ FreshBy(names, t)
  BY DEF TypeOK, ListInv
<1>2. StillFresh(names, t)
  <2> HIDE DEF names, t
  <2> QED BY <1>1, FreshKept
<1>3. cache'[p].at <= now /\ StillFresh(cache'[p].names, cache'[p].at)
  BY <1>1, <1>2
<1> QED BY <1>3, ListsKept

LEMMA ShownStays == UNCHANGED <<name, enabled, flips>> => ShownNoted
  BY DEF ShownNoted, Shown

LEMMA RequestKeepsLists ==
  ASSUME TypeOK, ListInv, NEW p \in Process, Request(p)
  PROVE  ListInv'
<1>1. /\ now \in Nat /\ name \in [Id -> Name \cup {NoName}]
      /\ cache \in [Process -> [names : SUBSET Name, at : Nat]]
  BY DEF TypeOK
<1>2. ASSUME NEW c \in Calls, Begin(p, c), c.at \notin {"read", "build"},
             UNCHANGED <<table, statistics, cache, now, history>>
      PROVE  ListInv'
  <2>1. ShownNoted
    BY <1>2, ShownStays DEF table, history
  <2> QED BY <1>2, <2>1, OthersKeepLists DEF Begin, Becomes
<1>3. \A n \in Name : \A i \in Named(n) : i \in 0..MaxId
  BY DEF Named, Id
<1>4. ASSUME NEW n \in Name, NEW e \in BOOLEAN, CreateCheck(p, n, e) PROVE ListInv'
  <2> DEFINE c == [Idle EXCEPT !.at = "insert", !.name = n, !.on = e]
  <2>1. c \in Calls /\ c.at = "insert"
    BY IdleTyped DEF Calls, Steps
  <2> HIDE DEF c
  <2>2. Begin(p, c) /\ UNCHANGED <<table, statistics, cache, now, history>>
    BY <1>4 DEF CreateCheck, c
  <2> QED BY <1>2, <2>1, <2>2
<1>5. ASSUME NEW n \in Name, NEW e \in BOOLEAN, NEW s \in {"update", "delete"},
             Find(p, n, s, e)
      PROVE ListInv'
  <2>1. PICK i \in Named(n) :
          Begin(p, [Idle EXCEPT !.at = s, !.name = n, !.id = i, !.on = e])
    BY <1>5 DEF Find
  <2> DEFINE c == [Idle EXCEPT !.at = s, !.name = n, !.id = i, !.on = e]
  <2>2. i \in 0..MaxId
    BY <1>3
  <2>3. c \in Calls /\ c.at = s
    BY <2>2, IdleTyped DEF Calls, Steps
  <2> HIDE DEF c
  <2>4. Begin(p, c)
    BY <2>1 DEF c
  <2>5. UNCHANGED <<table, statistics, cache, now, history>>
    BY <1>5 DEF Find
  <2> QED BY <1>2, <2>3, <2>4, <2>5
<1>6. ASSUME NEW B \in SUBSET Name, NEW e \in BOOLEAN, NEW o \in BOOLEAN, ImportBegin(p, B, e, o)
      PROVE ListInv'
  <2> DEFINE c == [Idle EXCEPT !.at = "importing", !.names = B, !.on = e, !.over = o]
  <2>1. c \in Calls /\ c.at = "importing"
    BY IdleTyped DEF Calls, Steps
  <2> HIDE DEF c
  <2>2. Begin(p, c) /\ UNCHANGED <<table, statistics, cache, now, history>>
    BY <1>6 DEF ImportBegin, c
  <2> QED BY <1>2, <2>1, <2>2
<1>7. ASSUME NEW n \in Name, Resolve(p, n) PROVE ListInv'
  <2>1. PICK i \in Named(n) : Begin(p, [Idle EXCEPT !.at = "record", !.name = n, !.id = i])
    BY <1>7 DEF Resolve
  <2> DEFINE c == [Idle EXCEPT !.at = "record", !.name = n, !.id = i]
  <2>2. i \in 0..MaxId
    BY <1>3
  <2>3. c \in Calls /\ c.at = "record"
    BY <2>2, IdleTyped DEF Calls, Steps
  <2> HIDE DEF c
  <2>4. Begin(p, c)
    BY <2>1 DEF c
  <2>5. UNCHANGED <<table, statistics, cache, now, history>>
    BY <1>7 DEF Resolve
  <2> QED BY <1>2, <2>3, <2>4, <2>5
<1>8. ASSUME Begin(p, Reading(1)), UNCHANGED <<table, statistics, now, history>>,
             UNCHANGED cache \/ cache' = [cache EXCEPT ![p] = NoList]
      PROVE  ListInv'
  <2>1. Reading(1) \in Calls /\ Reading(1).at = "read" /\ Reading(1).since = now
    BY <1>1, ReadingTyped DEF Reading, Idle
  <2>2. ShownNoted
    BY <1>8, ShownStays DEF table, history
  <2>3. \A q \in Process \ {p} : cache'[q] = cache[q]
    BY <1>1, <1>8
  <2>4. cache'[p].at <= now /\ StillFresh(cache'[p].names, cache'[p].at)
    <3>1. CASE UNCHANGED cache
      <4>1. cache[p].at <= now /\ FreshBy(cache[p].names, cache[p].at)
        BY DEF ListInv
      <4>2. cache'[p] = cache[p] /\ flips' = flips /\ Shown' = Shown
        BY <1>8, <3>1 DEF table, history, Shown
      <4> QED BY <4>1, <4>2 DEF FreshBy, StillFresh
    <3>2. CASE cache' = [cache EXCEPT ![p] = NoList]
      <4>1. cache'[p] = NoList /\ NoList.at = 0
        BY <1>1, <3>2 DEF NoList
      <4>2. \A n \in Name : flips'[n] \in Nat
        BY <1>1, <1>8 DEF TypeOK, history
      <4> QED BY <1>1, <4>1, <4>2 DEF StillFresh
    <3> QED BY <1>8, <3>1, <3>2
  <2> DEFINE c == Reading(1)
  <2>5. /\ Becomes(p, c) /\ UNCHANGED now
        /\ c \in Calls /\ c.at = "read" /\ c.since = now /\ now <= now
    BY <1>1, <1>8, <2>1 DEF Begin, Becomes
  <2> HIDE DEF c
  <2> QED BY <2>2, <2>3, <2>4, <2>5, ListsKept
<1>9. CASE GetModels(p)
  BY <1>8, <1>9 DEF GetModels
<1>10. CASE Refresh(p)
  BY <1>8, <1>10 DEF Refresh
<1> QED BY <1>4, <1>5, <1>6, <1>7, <1>9, <1>10 DEF Request

(* What the defaults go on with.                                            *)
LEMMA DefaultsCall ==
  ASSUME StoreInv, NEW p \in Process, Defaults(p)
  PROVE  \E c \in Calls : /\ Becomes(p, c) /\ c.at # "build"
                          /\ c.at = "read" => c.since = now
<1> DEFINE c == call[p]
<1>1. TypeOK /\ c \in Calls /\ now \in Nat
  BY CallTyped DEF StoreInv, TypeOK
<1>2. c.at = "defaults" /\ c.k \in Nat /\ c.depth \in Nat /\ c.k # 0
  BY <1>1 DEF Defaults, Calls, StoreInv, HoldsAll, Holds
<1>3. ASSUME c.k <= Len(Default),
             Becomes(p, [c EXCEPT !.at = "insert", !.name = Default[c.k], !.on = TRUE])
      PROVE  \E d \in Calls : Becomes(p, d) /\ d.at = "insert"
  <2> DEFINE n == Default[c.k]
             d == [c EXCEPT !.at = "insert", !.name = n, !.on = TRUE]
  <2>1. n \in Name
    BY <1>2, <1>3
  <2>2. Becomes(p, d)
    BY <1>3
  <2> HIDE DEF c, n
  <2>3. d \in Calls /\ d.at = "insert"
    BY <1>1, <2>1 DEF Calls, Steps
  <2> QED BY <2>2, <2>3
<1>4. ASSUME Becomes(p, [c EXCEPT !.k = c.k + 1])
      PROVE  \E d \in Calls : Becomes(p, d) /\ d.at = "defaults"
  <2> DEFINE m == c.k + 1
             d == [c EXCEPT !.k = m]
  <2>1. m \in Nat
    BY <1>2
  <2>2. Becomes(p, d)
    BY <1>4
  <2> HIDE DEF m
  <2>3. d \in Calls /\ d.at = "defaults"
    BY <1>1, <1>2, <2>1 DEF Calls, Steps
  <2> QED BY <2>2, <2>3
<1>5. ASSUME Becomes(p, Reading(c.depth + 1))
      PROVE  \E d \in Calls : Becomes(p, d) /\ d.at = "read" /\ d.since = now
  <2>1. Reading(c.depth + 1) \in Calls /\ Reading(c.depth + 1).at = "read"
    BY <1>1, <1>2, ReadingTyped
  <2>2. Reading(c.depth + 1).since = now
    BY DEF Reading, Idle
  <2> QED BY <1>5, <2>1, <2>2
<1>6. Idle \in Calls /\ Idle.at = "idle"
  BY IdleTyped DEF Idle
<1> QED BY <1>3, <1>4, <1>5, <1>6 DEF Defaults

(* The statements that touch no list.                                       *)
LEMMA StatementKeepsLists ==
  ASSUME StoreInv, ListInv, NEW p \in Process,
         Insert(p) \/ InsertStats(p) \/ UpdateRow(p) \/ DeleteRow(p) \/ ImportEnd(p)
           \/ ImportFails(p) \/ Record(p) \/ Defaults(p)
  PROVE  ListInv'
<1>1. TypeOK /\ call[p] \in Calls
  BY CallTyped DEF StoreInv
<1>2. ShownNoted /\ UNCHANGED <<now, cache>>
  BY DEF Insert, InsertStats, UpdateRow, DeleteRow, ImportEnd, ImportFails, Record, Defaults,
         ShownNoted, Shown, table, statistics, history
<1>3. AfterCreate(call[p]) \in Calls /\ AfterCreate(call[p]).at \notin {"read", "build"}
  BY <1>1, AfterCreateTyped
<1>4. Idle \in Calls /\ Idle.at \notin {"read", "build"}
  BY IdleTyped DEF Idle
<1>5. CASE Insert(p)
  <2> DEFINE i == NewId
             c == [call[p] EXCEPT !.at = "stats", !.id = i]
  <2>1. Becomes(p, AfterCreate(call[p])) \/ (i \in Id /\ Wrote(p, c))
    BY <1>5 DEF Insert
  <2>2. CASE Becomes(p, AfterCreate(call[p]))
    BY <1>1, <1>2, <1>3, <2>2, OthersKeepLists
  <2>3. CASE i \in Id /\ Wrote(p, c)
    <3>1. i \in 1..MaxId
      BY <2>3 DEF Id
    <3> HIDE DEF i
    <3>2. c \in Calls /\ c.at = "stats"
      <4> DEFINE d == call[p]
      <4>1. d \in Calls /\ c = [d EXCEPT !.at = "stats", !.id = i]
        BY <1>1
      <4> HIDE DEF c, d
      <4> QED BY <3>1, <4>1, InsertedTyped
    <3> QED BY <1>1, <1>2, <2>3, <3>2, OthersKeepLists
  <2> QED BY <2>1, <2>2, <2>3
<1>6. CASE InsertStats(p)
  <2>1. Becomes(p, AfterCreate(call[p])) \/ Wrote(p, AfterCreate(call[p]))
    BY <1>6 DEF InsertStats
  <2> QED BY <1>1, <1>2, <1>3, <2>1, OthersKeepLists
<1>7. CASE UpdateRow(p) \/ DeleteRow(p) \/ ImportEnd(p) \/ ImportFails(p) \/ Record(p)
  <2>1. Becomes(p, Idle) \/ Wrote(p, Idle)
    BY <1>7 DEF UpdateRow, DeleteRow, ImportEnd, ImportFails, Record
  <2> QED BY <1>1, <1>2, <1>4, <2>1, OthersKeepLists
<1>8. CASE Defaults(p)
  <2>1. PICK c \in Calls : /\ Becomes(p, c) /\ c.at # "build"
                           /\ c.at = "read" => c.since = now
    BY <1>8, DefaultsCall
  <2>2. now \in Nat /\ now <= now
    BY <1>1 DEF TypeOK
  <2>3. cache'[p].at <= now /\ StillFresh(cache'[p].names, cache'[p].at)
    <3>1. cache' = cache /\ flips' = flips /\ Shown' = Shown
      BY <1>8 DEF Defaults, table, history, Shown
    <3> QED BY <3>1 DEF ListInv, FreshBy, StillFresh
  <2>4. \A q \in Process \ {p} : cache'[q] = cache[q]
    BY <1>2
  <2>5. /\ c.at \in {"read", "build"} => c.since <= now
        /\ c.at = "build" => StillFresh(c.names, c.since)
    BY <2>1, <2>2
  <2>6. Becomes(p, c) \/ Wrote(p, c)
    BY <2>1
  <2> QED BY <1>1, <1>2, <2>3, <2>4, <2>5, <2>6, ListsKept
<1> QED BY <1>5, <1>6, <1>7, <1>8

(* The statements that make a list, the end of a process, and time.         *)
LEMMA ListsMade ==
  ASSUME StoreInv, ListInv, NEW p \in Process, ReadAll(p) \/ Build(p) \/ Crash(p)
  PROVE  ListInv'
<1> DEFINE c == call[p]
<1>1. /\ TypeOK /\ c \in Calls /\ now \in Nat
      /\ name \in [Id -> Name \cup {NoName}] /\ flips \in [Name -> 0..now]
      /\ cache \in [Process -> [names : SUBSET Name, at : Nat]]
      /\ \A i \in enabled : i \in Id /\ name[i] # NoName
  BY CallTyped DEF StoreInv, TypeOK
<1>2. ShownNoted /\ Shown' = Shown /\ flips' = flips /\ UNCHANGED now
  BY DEF ReadAll, Build, Crash, ShownNoted, Shown, table, history
<1>3. cache[p].at <= now /\ FreshBy(cache[p].names, cache[p].at)
  BY DEF ListInv
<1>4. c.at \in {"read", "build"} => c.since <= now
  BY DEF ListInv
<1>5. c.at = "build" => FreshBy(c.names, c.since)
  BY DEF ListInv
<1>6. Idle \in Calls /\ Idle.at \notin {"read", "build"}
  BY IdleTyped DEF Idle
<1>7. CASE ReadAll(p)
  <2> DEFINE s == Shown
             d == [c EXCEPT !.at = "build", !.names = s]
  <2>1. s \subseteq Name /\ s = Shown
    BY <1>1 DEF Shown
  <2>2. Becomes(p, d) /\ UNCHANGED cache /\ c.at = "read"
    BY <1>7 DEF ReadAll
  <2> HIDE DEF c, s
  <2>3. d \in Calls /\ d.at = "build" /\ d.names = s /\ d.since = c.since
    BY <1>1, <2>1 DEF Calls, Steps
  <2> HIDE DEF d
  <2>4. StillFresh(d.names, d.since) /\ d.since <= now
    BY <1>2, <1>4, <2>1, <2>2, <2>3 DEF StillFresh
  <2>5. cache'[p].at <= now /\ StillFresh(cache'[p].names, cache'[p].at)
    BY <1>2, <1>3, <2>2 DEF FreshBy, StillFresh
  <2>6. \A q \in Process \ {p} : cache'[q] = cache[q]
    BY <2>2
  <2> QED BY <1>1, <1>2, <2>2, <2>3, <2>4, <2>5, <2>6, ListsKept
<1>8. CASE Build(p) /\ c.names # {}
  <2>1. /\ Becomes(p, Idle) /\ c.at = "build"
        /\ cache' = [cache EXCEPT ![p] = [names |-> c.names, at |-> c.since]]
    BY <1>8 DEF Build
  <2> HIDE DEF c
  <2>2. cache'[p].names = c.names /\ cache'[p].at = c.since
    BY <1>1, <2>1
  <2>3. cache'[p].at <= now /\ StillFresh(cache'[p].names, cache'[p].at)
    BY <1>2, <1>4, <1>5, <2>1, <2>2 DEF FreshBy, StillFresh
  <2>4. \A q \in Process \ {p} : cache'[q] = cache[q]
    BY <1>1, <2>1
  <2> QED BY <1>1, <1>2, <1>6, <2>1, <2>3, <2>4, ListsKept
<1>9. CASE Build(p) /\ c.names = {}
  <2> DEFINE d == [c EXCEPT !.at = "defaults", !.k = 1]
  <2>1. Becomes(p, d) /\ UNCHANGED cache
    BY <1>9 DEF Build
  <2> HIDE DEF c
  <2>2. d \in Calls /\ d.at = "defaults"
    BY <1>1 DEF Calls, Steps
  <2> HIDE DEF d
  <2> QED BY <1>1, <1>2, <2>1, <2>2, OthersKeepLists
<1>10. CASE Crash(p)
  <2>1. Becomes(p, Idle) /\ cache' = [cache EXCEPT ![p] = NoList]
    BY <1>10 DEF Crash
  <2>2. cache'[p] = NoList /\ NoList.at = 0
    BY <1>1, <2>1 DEF NoList
  <2>3. cache'[p].at <= now /\ StillFresh(cache'[p].names, cache'[p].at)
    BY <1>1, <1>2, <2>2 DEF StillFresh
  <2>4. \A q \in Process \ {p} : cache'[q] = cache[q]
    BY <1>1, <2>1
  <2> QED BY <1>1, <1>2, <1>6, <2>1, <2>3, <2>4, ListsKept
<1> QED BY <1>7, <1>8, <1>9, <1>10

LEMMA ListsNext == StoreInv /\ ListInv /\ [Next]_vars => ListInv'
<1> SUFFICES ASSUME StoreInv, ListInv, [Next]_vars PROVE ListInv'
  OBVIOUS
<1>1. TypeOK
  BY DEF StoreInv
<1>2. ASSUME UNCHANGED <<name, enabled, call, cache, flips>>, now' \in {now, now + 1}
      PROVE  ListInv'
  <2>1. /\ now \in Nat /\ call \in [Process -> Calls]
        /\ cache \in [Process -> [names : SUBSET Name, at : Nat]]
    BY <1>1 DEF TypeOK
  <2>2. ASSUME NEW t \in Nat, t <= now PROVE t <= now'
    BY <1>2, <2>1, <2>2
  <2>3. \A p \in Process : cache[p].at \in Nat /\ call[p].since \in Nat
    BY <2>1 DEF Calls
  <2>4. Shown' = Shown
    BY <1>2 DEF Shown
  <2> SUFFICES ASSUME NEW p \in Process
               PROVE  /\ cache[p].at <= now' /\ StillFresh(cache[p].names, cache[p].at)
                      /\ call[p].at \in {"read", "build"} => call[p].since <= now'
                      /\ call[p].at = "build" => StillFresh(call[p].names, call[p].since)
    BY <1>2 DEF ListInv, FreshBy, StillFresh
  <2>5. /\ cache[p].at <= now /\ FreshBy(cache[p].names, cache[p].at)
        /\ call[p].at \in {"read", "build"} => call[p].since <= now
        /\ call[p].at = "build" => FreshBy(call[p].names, call[p].since)
    BY DEF ListInv
  <2> QED BY <1>2, <2>2, <2>3, <2>4, <2>5 DEF FreshBy, StillFresh
<1>3. CASE Tick
  BY <1>2, <1>3 DEF Tick, table, history
<1>4. CASE UNCHANGED vars
  BY <1>2, <1>4 DEF vars, table, history
<1>5. ASSUME NEW p \in Process, Request(p) PROVE ListInv'
  BY <1>1, <1>5, RequestKeepsLists
<1>6. ASSUME NEW p \in Process, Statement(p) PROVE ListInv'
  BY <1>6, StatementKeepsLists, ListsMade DEF Statement
<1>7. ASSUME NEW p \in Process, Crash(p) PROVE ListInv'
  BY <1>7, ListsMade
<1> QED BY <1>3, <1>4, <1>5, <1>6, <1>7 DEF Next

(* ListFresh: a list that getModels() may still return is right about every *)
(* name that has not changed for CACHE_TTL_MS.  It is dated before it was   *)
(* read, and nothing changes a name without its being noted later than that.*)
THEOREM AliasListFresh == Spec => []ListFresh
<1>1. Init => ListInv
  <2> SUFFICES ASSUME Init PROVE ListInv
    OBVIOUS
  <2>1. /\ now = 1 /\ \A n \in Name : flips[n] = 0
        /\ \A p \in Process : cache[p].at = 0 /\ call[p].at = "idle"
    BY DEF Init, NoList, Idle
  <2> QED BY <2>1 DEF ListInv, FreshBy
<1>2. StoreInv /\ StoreInv' /\ ListInv /\ [Next]_vars => ListInv'
  BY ListsNext
<1>3. StoreInv /\ ListInv => ListFresh
  <2> SUFFICES ASSUME StoreInv, ListInv, NEW p \in Process, Usable(cache[p]),
                      NEW n \in Name, flips[n] <= now - CacheTTL
               PROVE  n \in cache[p].names <=> n \in Shown
    BY DEF ListFresh
  <2>1. now \in Nat /\ flips[n] \in Nat /\ cache[p].at \in Nat /\ CacheTTL \in Nat
    BY DEF StoreInv, TypeOK
  <2>2. now - cache[p].at < CacheTTL
    BY DEF Usable
  <2>3. flips[n] < cache[p].at
    BY <2>1, <2>2
  <2> QED BY <2>3 DEF ListInv, FreshBy
<1> QED BY <1>1, <1>2, <1>3, StoreInvariant, PTL DEF Spec

HIDE AliasAssumption DEF AliasAssumption

-----------------------------------------------------------------------------
(* RoutingEngine: the two configuration files and what the routing engine   *)
(* has loaded of them, for all providers, policies and contents.            *)

(* What a policy that has been loaded owes its file.                        *)
PolicyLoaded == policyFile # Refused /\ (policyFile # Missing => policy = policyFile)

(* What providers that have been loaded owe theirs.                         *)
ProvidersLoaded ==
  /\ providersFile.state \in {"valid", "missing"}
  /\ providersFile.state # "missing" => providers = providersFile.on

(* ReloadAgrees between the two reads of a reload: the policy is that of    *)
(* its file unless somebody has written since the reload began.             *)
RoutingInv ==
  /\ writes \in Nat /\ began \in Nat /\ agreed \in Nat
  /\ agreed <= began /\ began <= writes
  /\ policyFile \in Policies \cup {Refused, Missing}
  /\ agreed = writes => PolicyLoaded /\ ProvidersLoaded
  /\ reloading /\ began = writes => PolicyLoaded

LEMMA InitiallyAgreed == RoutingInit => RoutingInv
  BY RoutingAssumption DEF RoutingInit, RoutingInv, PolicyLoaded, ProvidersLoaded

LEMMA ReloadPolicyKeeps == RoutingInv /\ ReloadPolicy => RoutingInv'
<1> SUFFICES ASSUME RoutingInv, ReloadPolicy
             PROVE  RoutingInv'
  OBVIOUS
<1>1. /\ ~reloading /\ began' = writes /\ reloading' = (policyFile # Refused)
      /\ policy' = IF policyFile \in Policies THEN policyFile ELSE policy
      /\ UNCHANGED <<policyFile, providersFile, writes, providers, agreed>>
  BY DEF ReloadPolicy, files
<1>2. began' \in Nat /\ agreed' <= began' /\ began' <= writes'
  BY <1>1 DEF RoutingInv
<1>3. (agreed = writes => PolicyLoaded /\ ProvidersLoaded)'
  <2>1. PolicyLoaded => PolicyLoaded'
    BY <1>1 DEF PolicyLoaded
  <2>2. ProvidersLoaded => ProvidersLoaded'
    BY <1>1 DEF ProvidersLoaded
  <2> QED
    BY <1>1, <2>1, <2>2 DEF RoutingInv
<1>4. (reloading /\ began = writes => PolicyLoaded)'
  BY <1>1 DEF RoutingInv, PolicyLoaded
<1> QED
  BY <1>1, <1>2, <1>3, <1>4 DEF RoutingInv

LEMMA ReloadProvidersKeeps == RoutingInv /\ ReloadProviders => RoutingInv'
<1> SUFFICES ASSUME RoutingInv, ReloadProviders
             PROVE  RoutingInv'
  OBVIOUS
<1>1. /\ reloading /\ reloading' = FALSE
      /\ agreed' = IF providersFile.state \in {"valid", "missing"} THEN began ELSE agreed
      /\ providers' = IF providersFile.state = "valid" THEN providersFile.on ELSE providers
      /\ UNCHANGED <<policyFile, providersFile, writes, policy, began>>
  BY DEF ReloadProviders, files
<1>2. agreed' \in Nat /\ agreed' <= began' /\ began' <= writes'
  BY <1>1 DEF RoutingInv
<1>3. PolicyLoaded' <=> PolicyLoaded
  BY <1>1 DEF PolicyLoaded
<1>4. (agreed = writes => PolicyLoaded /\ ProvidersLoaded)'
  <2>1. CASE providersFile.state \in {"valid", "missing"}
    BY <1>1, <1>3, <2>1 DEF RoutingInv, ProvidersLoaded
  <2>2. CASE providersFile.state \notin {"valid", "missing"}
    BY <1>1, <2>2 DEF RoutingInv, ProvidersLoaded
  <2> QED
    BY <2>1, <2>2
<1> QED
  BY <1>1, <1>2, <1>4 DEF RoutingInv

(* What is written may disagree with what is loaded until the next reload.  *)
LEMMA EditKeeps == RoutingInv /\ Write => RoutingInv'
<1> SUFFICES ASSUME RoutingInv, Write
             PROVE  RoutingInv'
  OBVIOUS
<1>1. /\ writes' = writes + 1
      /\ policyFile' = policyFile \/ policyFile' \in Policies \cup {Refused, Missing}
      /\ UNCHANGED <<policy, providers, reloading, began, agreed>>
  BY DEF Write, loaded
<1> QED
  BY <1>1 DEF RoutingInv

LEMMA OthersKeep == RoutingInv /\ UNCHANGED <<files, loaded>> => RoutingInv'
  BY DEF RoutingInv, PolicyLoaded, ProvidersLoaded, files, loaded

LEMMA RoutingStep == RoutingInv /\ [RoutingNext]_routingVars => RoutingInv'
  BY ReloadPolicyKeeps, ReloadProvidersKeeps, EditKeeps, OthersKeep DEF RoutingNext, Handle, routingVars

LEMMA AgreedIsSeen == RoutingInv => ReloadAgrees
<1> SUFFICES ASSUME RoutingInv, agreed = writes
             PROVE  /\ PolicyLoaded
                    /\ providersFile.state # "missing" =>
                         /\ \A p \in Provider : Resolves(p) <=> p \in providersFile.on
                         /\ \A p \in Candidates : Resolves(p)
                         /\ policyFile # Missing =>
                              Chain(policy, providers) = Chain(policyFile, providersFile.on)
  BY DEF ReloadAgrees, PolicyLoaded
<1>1. PolicyLoaded /\ ProvidersLoaded
  BY DEF RoutingInv
<1>2. Candidates \subseteq providersFile.on
  BY DEF Candidates
<1> QED
  BY <1>1, <1>2 DEF PolicyLoaded, ProvidersLoaded, Resolves

(* Whatever files an administrator writes and whenever, also between the    *)
(* two reads of a reload: after a reload that reports success both halves   *)
(* of the engine see the configuration that the reload found, until         *)
(* somebody writes again.                                                   *)
THEOREM RoutingReloadAgrees == RoutingSpec => []ReloadAgrees
  BY InitiallyAgreed, RoutingStep, AgreedIsSeen, PTL DEF RoutingSpec

-----------------------------------------------------------------------------
(* The score of the tracker, of numbers: s of t requests were successes,    *)
(* the latency l of at most a, f recent failures, and k in a row.           *)

Whole(t, a) == t * a * RecentCap * StreakCap

Weighted(s, t, l, a, f, k) ==
    80 * s * a * RecentCap * StreakCap
  + 50 * (a - l) * t * RecentCap * StreakCap
  + 40 * (RecentCap - f) * t * a * StreakCap
  + 30 * (StreakCap - k) * t * a * RecentCap

Score(s, t, l, a, f, k) == (Weighted(s, t, l, a, f, k) + Whole(t, a)) \div (2 * Whole(t, a))

(* What the arguments of a score are.                                       *)
Parts(s, t, l, a, f, k) ==
  /\ s \in Nat /\ t \in Nat \ {0} /\ l \in Nat /\ a \in Nat \ {0} /\ f \in Nat /\ k \in Nat
  /\ s <= t /\ l <= a /\ f <= RecentCap /\ k <= StreakCap

LEMMA Caps == /\ LatencyCap \in Nat \ {0} /\ RecentCap \in Nat \ {0} /\ StreakCap \in Nat \ {0}
              /\ LatencyWindow \in Nat \ {0} /\ RecentWindow \in Nat \ {0}
  BY TrackerAssumption DEF TrackerAssumption

LEMMA Times ==
  ASSUME NEW x \in Nat, NEW y \in Nat, NEW z \in Nat
  PROVE  /\ x * z \in Nat /\ (x # 0 /\ z # 0 => x * z # 0)
         /\ x <= y => x * z <= y * z
  OBVIOUS

(* Rounding to the nearest number is monotonic.                             *)
LEMMA Rounds ==
  ASSUME NEW n \in Nat, NEW d \in Nat \ {0}, NEW m \in Nat, NEW e \in Nat \ {0}
  PROVE  /\ (n + d) \div (2 * d) \in Nat
         /\ \A q \in Nat : 2 * q * d <= n + d <=> q <= (n + d) \div (2 * d)
         /\ n * e <= m * d => (n + d) \div (2 * d) <= (m + e) \div (2 * e)
<1> DEFINE x == (n + d) \div (2 * d)
           y == (m + e) \div (2 * e)
<1>1. n + d \in Nat /\ 2 * d \in Nat /\ 2 * d > 0 /\ m + e \in Nat /\ 2 * e \in Nat /\ 2 * e > 0
  OBVIOUS
<1>2. x \in Nat /\ x * (2 * d) <= n + d /\ n + d < (x + 1) * (2 * d)
  BY <1>1
<1>3. y \in Nat /\ y * (2 * e) <= m + e /\ m + e < (y + 1) * (2 * e)
  BY <1>1
<1> HIDE DEF x, y
<1>4. ASSUME NEW q \in Nat
      PROVE  2 * q * d <= n + d <=> q <= x
  BY <1>1, <1>2
<1>5. ASSUME n * e <= m * d
      PROVE  x <= y
  <2>1. x * (2 * d) * e <= (n + d) * e
    BY <1>2
  <2>2. (n + d) * e = n * e + d * e /\ (m + e) * d = m * d + d * e
    OBVIOUS
  <2>3. (m + e) * d < (y + 1) * (2 * e) * d
    BY <1>3
  <2>4. x * (2 * d) * e < (y + 1) * (2 * e) * d
    BY <1>2, <1>3, <1>5, <2>1, <2>2, <2>3
  <2>5. /\ x * (2 * d) * e = x * (2 * d * e)
        /\ (y + 1) * (2 * e) * d = (y + 1) * (2 * d * e)
        /\ 2 * d * e \in Nat /\ 2 * d * e > 0
    BY <1>2, <1>3
  <2> QED
    BY <1>2, <1>3, <2>4, <2>5
<1> QED
  BY <1>2, <1>4, <1>5 DEF x, y

LEMMA WeightedType ==
  ASSUME NEW s, NEW t, NEW l, NEW a, NEW f, NEW k, Parts(s, t, l, a, f, k)
  PROVE  /\ Whole(t, a) \in Nat \ {0} /\ Weighted(s, t, l, a, f, k) \in Nat
         /\ Weighted(s, t, l, a, f, k) <= 200 * Whole(t, a)
<1>1. /\ s \in Nat /\ t \in Nat \ {0} /\ l \in Nat /\ a \in Nat \ {0} /\ f \in Nat /\ k \in Nat
      /\ s <= t /\ l <= a /\ f <= RecentCap /\ k <= StreakCap
  BY DEF Parts
<1>2. PICK R \in Nat \ {0}, S \in Nat \ {0} : R = RecentCap /\ S = StreakCap
  BY Caps
<1>3. Whole(t, a) = t * a * R * S /\ t * a * R * S \in Nat \ {0}
  BY <1>1, <1>2 DEF Whole
<1>4. 80 * s * a * R * S \in Nat /\ 80 * s * a * R * S <= 80 * (t * a * R * S)
  BY <1>1, <1>2
<1>5. 50 * (a - l) * t * R * S \in Nat /\ 50 * (a - l) * t * R * S <= 50 * (t * a * R * S)
  BY <1>1, <1>2
<1>6. 40 * (R - f) * t * a * S \in Nat /\ 40 * (R - f) * t * a * S <= 40 * (t * a * R * S)
  BY <1>1, <1>2
<1>7. 30 * (S - k) * t * a * R \in Nat /\ 30 * (S - k) * t * a * R <= 30 * (t * a * R * S)
  BY <1>1, <1>2
<1>8. Weighted(s, t, l, a, f, k) = 80 * s * a * R * S + 50 * (a - l) * t * R * S
                                   + 40 * (R - f) * t * a * S + 30 * (S - k) * t * a * R
  BY <1>2 DEF Weighted
<1> QED
  BY <1>3, <1>4, <1>5, <1>6, <1>7, <1>8

(* A score is between 0.0 and 1.0.                                          *)
LEMMA ScoreType ==
  ASSUME NEW s, NEW t, NEW l, NEW a, NEW f, NEW k, Parts(s, t, l, a, f, k)
  PROVE  Score(s, t, l, a, f, k) \in 0..100
<1>1. PICK n \in Nat, d \in Nat \ {0} : n = Weighted(s, t, l, a, f, k) /\ d = Whole(t, a) /\ n <= 200 * d
  BY WeightedType
<1>2. PICK x : x = (n + d) \div (2 * d)
  OBVIOUS
<1>3. x \in Nat /\ (101 <= x => 2 * 101 * d <= n + d)
  BY <1>2, Rounds
<1>4. x \in 0..100
  BY <1>1, <1>3
<1>5. Score(s, t, l, a, f, k) = x
  BY <1>1, <1>2 DEF Score
<1> QED
  BY <1>4, <1>5

(* Without failures in a row, and within four tenths of the latency that    *)
(* scores nothing, it is above the threshold.                               *)
LEMMA ScoreAbove ==
  ASSUME NEW s, NEW t, NEW l, NEW a, NEW f, Parts(s, t, l, a, f, 0), 10 * l <= 4 * a
  PROVE  Score(s, t, l, a, f, 0) >= 30
<1>1. /\ s \in Nat /\ t \in Nat \ {0} /\ l \in Nat /\ a \in Nat \ {0} /\ f \in Nat
      /\ s <= t /\ l <= a /\ f <= RecentCap
  BY DEF Parts
<1>2. PICK R \in Nat \ {0}, S \in Nat \ {0} : R = RecentCap /\ S = StreakCap
  BY Caps
<1>3. PICK d \in Nat \ {0} : d = Whole(t, a) /\ d = t * a * R * S
  BY <1>1, <1>2, WeightedType DEF Whole
<1>4. PICK n \in Nat : n = Weighted(s, t, l, a, f, 0)
  BY WeightedType
<1>5. 80 * s * a * R * S \in Nat /\ 40 * (R - f) * t * a * S \in Nat
  BY <1>1, <1>2
<1>6. 30 * (S - 0) * t * a * R = 30 * d
  BY <1>1, <1>2, <1>3
<1>7. 50 * (a - l) * t * R * S \in Nat /\ 50 * (a - l) * t * R * S >= 30 * d
  <2>1. 30 * a <= 50 * (a - l)
    BY <1>1
  <2>2. (30 * a) * (t * R * S) <= (50 * (a - l)) * (t * R * S)
    BY <1>1, <1>2, <2>1, Times
  <2> QED
    BY <1>1, <1>2, <1>3, <2>2
<1>8. n = 80 * s * a * R * S + 50 * (a - l) * t * R * S
          + 40 * (R - f) * t * a * S + 30 * (S - 0) * t * a * R
  BY <1>2, <1>4 DEF Weighted
<1>9. 2 * 30 * d <= n + d
  BY <1>5, <1>6, <1>7, <1>8
<1> QED
  BY <1>3, <1>4, <1>9, Rounds DEF Score

(* Fewer successes of those asked, more latency, more failures: not a       *)
(* better score.                                                            *)
LEMMA ScoreFollows ==
  ASSUME NEW s, NEW t, NEW l, NEW a, NEW f, NEW k, Parts(s, t, l, a, f, k),
         NEW u, NEW v, NEW m, NEW b, NEW g, NEW j, Parts(u, v, m, b, g, j),
         s * v <= u * t, m * a <= l * b, g <= f, j <= k
  PROVE  Score(s, t, l, a, f, k) <= Score(u, v, m, b, g, j)
<1>1. /\ s \in Nat /\ t \in Nat \ {0} /\ l \in Nat /\ a \in Nat \ {0} /\ f \in Nat /\ k \in Nat
      /\ l <= a /\ f <= RecentCap /\ k <= StreakCap
      /\ u \in Nat /\ v \in Nat \ {0} /\ m \in Nat /\ b \in Nat \ {0} /\ g \in Nat /\ j \in Nat
      /\ m <= b /\ g <= RecentCap /\ j <= StreakCap
  BY DEF Parts
<1>2. PICK R \in Nat \ {0}, S \in Nat \ {0} : R = RecentCap /\ S = StreakCap
  BY Caps
<1>3. PICK d \in Nat \ {0}, e \in Nat \ {0} :
        /\ d = Whole(t, a) /\ d = t * a * R * S
        /\ e = Whole(v, b) /\ e = v * b * R * S
  BY <1>1, <1>2, WeightedType DEF Whole
<1>4. PICK n \in Nat, o \in Nat : n = Weighted(s, t, l, a, f, k) /\ o = Weighted(u, v, m, b, g, j)
  BY WeightedType
<1>5. (80 * s * a * R * S) * e <= (80 * u * b * R * S) * d
  <2>1. PICK c \in Nat : c = 80 * a * b * R * S * R * S
    BY <1>1, <1>2
  <2>2. (s * v) * c <= (u * t) * c
    BY <1>1, <2>1, Times
  <2>3. (80 * s * a * R * S) * e = (s * v) * c /\ (80 * u * b * R * S) * d = (u * t) * c
    BY <1>1, <1>2, <1>3, <2>1
  <2> QED
    BY <2>2, <2>3
<1>6. (50 * (a - l) * t * R * S) * e <= (50 * (b - m) * v * R * S) * d
  <2>1. PICK c \in Nat : c = 50 * t * v * R * S * R * S
    BY <1>1, <1>2
  <2>2. /\ (a - l) * b \in Nat /\ (b - m) * a \in Nat /\ (a - l) * b <= (b - m) * a
    BY <1>1
  <2>3. ((a - l) * b) * c <= ((b - m) * a) * c
    BY <2>1, <2>2, Times
  <2>4. /\ (50 * (a - l) * t * R * S) * e = ((a - l) * b) * c
        /\ (50 * (b - m) * v * R * S) * d = ((b - m) * a) * c
    BY <1>1, <1>2, <1>3, <2>1
  <2> QED
    BY <2>3, <2>4
<1>7. (40 * (R - f) * t * a * S) * e <= (40 * (R - g) * v * b * S) * d
  <2>1. PICK c \in Nat : c = 40 * t * a * S * v * b * R * S
    BY <1>1, <1>2
  <2>2. (R - f) * c <= (R - g) * c
    BY <1>1, <1>2, <2>1, Times
  <2>3. /\ (40 * (R - f) * t * a * S) * e = (R - f) * c
        /\ (40 * (R - g) * v * b * S) * d = (R - g) * c
    BY <1>1, <1>2, <1>3, <2>1
  <2> QED
    BY <2>2, <2>3
<1>8. (30 * (S - k) * t * a * R) * e <= (30 * (S - j) * v * b * R) * d
  <2>1. PICK c \in Nat : c = 30 * t * a * R * v * b * R * S
    BY <1>1, <1>2
  <2>2. (S - k) * c <= (S - j) * c
    BY <1>1, <1>2, <2>1, Times
  <2>3. /\ (30 * (S - k) * t * a * R) * e = (S - k) * c
        /\ (30 * (S - j) * v * b * R) * d = (S - j) * c
    BY <1>1, <1>2, <1>3, <2>1
  <2> QED
    BY <2>2, <2>3
<1>9. n * e <= o * d
  <2>1. PICK n1 \in Nat, n2 \in Nat, n3 \in Nat, n4 \in Nat :
          /\ n1 = 80 * s * a * R * S /\ n2 = 50 * (a - l) * t * R * S
          /\ n3 = 40 * (R - f) * t * a * S /\ n4 = 30 * (S - k) * t * a * R
    BY <1>1, <1>2
  <2>2. PICK o1 \in Nat, o2 \in Nat, o3 \in Nat, o4 \in Nat :
          /\ o1 = 80 * u * b * R * S /\ o2 = 50 * (b - m) * v * R * S
          /\ o3 = 40 * (R - g) * v * b * S /\ o4 = 30 * (S - j) * v * b * R
    BY <1>1, <1>2
  <2>3. n = n1 + n2 + n3 + n4 /\ o = o1 + o2 + o3 + o4
    BY <1>2, <1>4, <2>1, <2>2 DEF Weighted
  <2>4. n1 * e <= o1 * d /\ n2 * e <= o2 * d /\ n3 * e <= o3 * d /\ n4 * e <= o4 * d
    BY <1>5, <1>6, <1>7, <1>8, <2>1, <2>2
  <2>5. /\ n * e = n1 * e + n2 * e + n3 * e + n4 * e
        /\ o * d = o1 * d + o2 * d + o3 * d + o4 * d
    BY <1>3, <2>3
  <2> QED
    BY <2>4, <2>5
<1> QED
  BY <1>3, <1>4, <1>9, Rounds DEF Score

-----------------------------------------------------------------------------
(* The score of a record.                                                   *)
ScoreOf(rec, recent) ==
  LET a == rec.avg[2] * LatencyCap IN
  Score(rec.successes, IF rec.total = 0 THEN 1 ELSE rec.total, AtMost(rec.avg[1], a), a,
        AtMost(recent, RecentCap), AtMost(rec.streak, StreakCap))

RecordOK(rec) ==
  /\ rec \in Records
  /\ rec.total = rec.successes + rec.failures
  /\ rec.streak <= rec.failures

LEMMA HealthScoreIs ==
  ASSUME NEW p
  PROVE  HealthScore(p) = IF record[p].authDisabled THEN 0 ELSE ScoreOf(record[p], recentFailures)
  BY DEF HealthScore, ScoreOf, Score, Weighted, Whole

LEMMA PartsOf ==
  ASSUME NEW rec, RecordOK(rec), NEW recent \in Nat,
         NEW a, a = rec.avg[2] * LatencyCap
  PROVE  Parts(rec.successes, IF rec.total = 0 THEN 1 ELSE rec.total, AtMost(rec.avg[1], a), a,
               AtMost(recent, RecentCap), AtMost(rec.streak, StreakCap))
<1>1. /\ rec.successes \in Nat /\ rec.failures \in Nat /\ rec.total \in Nat /\ rec.streak \in Nat
      /\ rec.avg[1] \in Nat /\ rec.avg[2] \in Nat /\ rec.avg[2] # 0
      /\ rec.total = rec.successes + rec.failures
  BY DEF RecordOK, Records
<1>2. LatencyCap \in Nat /\ LatencyCap # 0 /\ RecentCap \in Nat /\ StreakCap \in Nat
  BY Caps
<1>3. a \in Nat /\ a # 0
  BY <1>1, <1>2, Times
<1>4. AtMost(rec.avg[1], a) \in Nat /\ AtMost(rec.avg[1], a) <= a
  BY <1>1, <1>3 DEF AtMost
<1>5. /\ AtMost(recent, RecentCap) \in Nat /\ AtMost(recent, RecentCap) <= RecentCap
      /\ AtMost(rec.streak, StreakCap) \in Nat /\ AtMost(rec.streak, StreakCap) <= StreakCap
  BY <1>1, <1>2 DEF AtMost
<1>6. /\ (IF rec.total = 0 THEN 1 ELSE rec.total) \in Nat \ {0}
      /\ rec.successes <= IF rec.total = 0 THEN 1 ELSE rec.total
  BY <1>1
<1> QED
  BY <1>1, <1>3, <1>4, <1>5, <1>6 DEF Parts

LEMMA ScoreOfType ==
  ASSUME NEW rec, RecordOK(rec), NEW recent \in Nat
  PROVE  ScoreOf(rec, recent) \in 0..100
  BY PartsOf, ScoreType DEF ScoreOf

LEMMA Recovered ==
  ASSUME NEW rec, RecordOK(rec), NEW recent \in Nat, rec.streak = 0,
         10 * rec.avg[1] <= 4 * rec.avg[2] * LatencyCap
  PROVE  ScoreOf(rec, recent) >= 30
<1>1. PICK a : a = rec.avg[2] * LatencyCap
  OBVIOUS
<1>2. rec.avg[1] \in Nat /\ a \in Nat /\ LatencyCap \in Nat /\ rec.avg[2] \in Nat
  BY <1>1, Caps, Times DEF RecordOK, Records
<1>3. 10 * AtMost(rec.avg[1], a) <= 4 * a
  <2>1. 10 * rec.avg[1] <= 4 * a
    BY <1>1, <1>2
  <2> QED
    BY <1>2, <2>1 DEF AtMost
<1>4. AtMost(rec.streak, StreakCap) = 0
  BY Caps DEF AtMost
<1> QED
  BY <1>1, <1>3, <1>4, PartsOf, ScoreAbove DEF ScoreOf

(* One more failure, or one more success with no more latency.              *)
LEMMA Worse ==
  ASSUME NEW rec, RecordOK(rec), NEW recent \in Nat, NEW new, RecordOK(new), NEW later \in Nat,
         new.successes = rec.successes, new.total = rec.total + 1, new.avg = rec.avg,
         rec.streak <= new.streak, recent <= later
  PROVE  ScoreOf(new, later) <= ScoreOf(rec, recent)
<1>1. PICK a : a = rec.avg[2] * LatencyCap
  OBVIOUS
<1>2. PICK l \in Nat : l = AtMost(rec.avg[1], a) /\ a \in Nat
  BY <1>1, PartsOf DEF Parts
<1>3. PICK s \in Nat, t \in Nat, v \in Nat :
        /\ s = rec.successes /\ t = rec.total + 1 /\ v = IF rec.total = 0 THEN 1 ELSE rec.total
        /\ v <= t /\ t = IF new.total = 0 THEN 1 ELSE new.total
  BY DEF RecordOK, Records
<1>4. s * v <= s * t /\ l * a <= l * a
  BY <1>2, <1>3
<1>5. AtMost(recent, RecentCap) <= AtMost(later, RecentCap)
  BY Caps DEF AtMost
<1>6. AtMost(rec.streak, StreakCap) <= AtMost(new.streak, StreakCap)
  BY Caps DEF AtMost, RecordOK, Records
<1>7. Parts(s, v, l, a, AtMost(recent, RecentCap), AtMost(rec.streak, StreakCap))
  BY <1>1, <1>2, <1>3, PartsOf
<1>8. Parts(s, t, l, a, AtMost(later, RecentCap), AtMost(new.streak, StreakCap))
  BY <1>1, <1>2, <1>3, PartsOf
<1>9. /\ ScoreOf(rec, recent) = Score(s, v, l, a, AtMost(recent, RecentCap), AtMost(rec.streak, StreakCap))
      /\ ScoreOf(new, later) = Score(s, t, l, a, AtMost(later, RecentCap), AtMost(new.streak, StreakCap))
  BY <1>1, <1>2, <1>3 DEF ScoreOf
<1> QED
  BY <1>4, <1>5, <1>6, <1>7, <1>8, <1>9, ScoreFollows

(* The share of the latency, cut off where it scores nothing.               *)
LEMMA Shares ==
  ASSUME NEW x \in Nat, NEW y \in Nat \ {0}, NEW z \in Nat, NEW w \in Nat \ {0},
         NEW c \in Nat \ {0}, z * y <= x * w
  PROVE  AtMost(z, w * c) * (y * c) <= AtMost(x, y * c) * (w * c)
<1>1. PICK a \in Nat \ {0}, b \in Nat \ {0} : a = y * c /\ b = w * c
  BY Times
<1>2. z * a <= x * b
  <2>1. (z * y) * c <= (x * w) * c
    BY Times
  <2> QED
    BY <1>1, <2>1
<1>3. CASE x < a
  <2>1. AtMost(x, a) = x /\ AtMost(z, b) \in Nat /\ AtMost(z, b) <= z
    BY <1>1, <1>3 DEF AtMost
  <2>2. AtMost(z, b) * a <= z * a
    BY <1>1, <2>1, Times
  <2> QED
    BY <1>1, <1>2, <2>1, <2>2
<1>4. CASE ~(x < a)
  <2>1. AtMost(x, a) = a /\ AtMost(z, b) \in Nat /\ AtMost(z, b) <= b
    BY <1>1, <1>4 DEF AtMost
  <2>2. AtMost(z, b) * a <= b * a
    BY <1>1, <2>1, Times
  <2> QED
    BY <1>1, <2>1, <2>2
<1> QED
  BY <1>3, <1>4

LEMMA Better ==
  ASSUME NEW rec, RecordOK(rec), NEW recent \in Nat, NEW new, RecordOK(new),
         new.successes = rec.successes + 1, new.total = rec.total + 1, new.streak = 0,
         new.avg[1] * rec.avg[2] <= rec.avg[1] * new.avg[2]
  PROVE  ScoreOf(rec, recent) <= ScoreOf(new, recent)
<1>1. PICK x \in Nat, y \in Nat \ {0}, z \in Nat, w \in Nat \ {0}, c \in Nat \ {0} :
        /\ x = rec.avg[1] /\ y = rec.avg[2] /\ z = new.avg[1] /\ w = new.avg[2] /\ c = LatencyCap
        /\ z * y <= x * w
  BY Caps DEF RecordOK, Records
<1>2. PICK a, b : a = y * c /\ b = w * c
  OBVIOUS
<1>3. AtMost(z, b) * a <= AtMost(x, a) * b
  BY <1>1, <1>2, Shares
<1>4. PICK s \in Nat, t \in Nat, v \in Nat :
        /\ s = rec.successes /\ t = rec.total + 1 /\ v = IF rec.total = 0 THEN 1 ELSE rec.total
        /\ new.successes = s + 1 /\ t = IF new.total = 0 THEN 1 ELSE new.total
        /\ s <= v /\ ((v = t /\ s = 0) \/ t = v + 1)
  BY DEF RecordOK, Records
<1>5. s * t <= (s + 1) * v
  BY <1>4
<1>6. /\ AtMost(new.streak, StreakCap) = 0 /\ 0 <= AtMost(rec.streak, StreakCap)
      /\ AtMost(recent, RecentCap) <= AtMost(recent, RecentCap)
  BY Caps DEF AtMost, RecordOK, Records
<1>7. Parts(s, v, AtMost(x, a), a, AtMost(recent, RecentCap), AtMost(rec.streak, StreakCap))
  BY <1>1, <1>2, <1>4, PartsOf
<1>8. Parts(s + 1, t, AtMost(z, b), b, AtMost(recent, RecentCap), AtMost(new.streak, StreakCap))
  BY <1>1, <1>2, <1>4, PartsOf
<1>9. /\ ScoreOf(rec, recent)
           = Score(s, v, AtMost(x, a), a, AtMost(recent, RecentCap), AtMost(rec.streak, StreakCap))
      /\ ScoreOf(new, recent)
           = Score(s + 1, t, AtMost(z, b), b, AtMost(recent, RecentCap), AtMost(new.streak, StreakCap))
  BY <1>1, <1>2, <1>4 DEF ScoreOf
<1> QED
  BY <1>3, <1>5, <1>6, <1>7, <1>8, <1>9, ScoreFollows

-----------------------------------------------------------------------------
(* The tracker in the routing engine.                                       *)

TrackerInv ==
  /\ tracked \in SUBSET Provider
  /\ record \in [Provider -> Records]
  /\ latencies \in Seq(Latency) /\ Len(latencies) <= LatencyWindow
  /\ recentFailures \in 0..RecentWindow
  /\ \A p \in Provider :
       /\ RecordOK(record[p])
       /\ AtMost(record[p].streak, RecentWindow) <= recentFailures
       /\ p \notin tracked => record[p] = Fresh

EnabledTyped == providersFile.on \in SUBSET Provider

(* A window is never empty after a sample and never larger than its size.   *)
LEMMA PushedIs ==
  ASSUME NEW s \in Seq(Latency), Len(s) <= LatencyWindow, NEW x \in Latency
  PROVE  /\ Pushed(s, x, LatencyWindow) \in Seq(Latency)
         /\ Len(Pushed(s, x, LatencyWindow)) \in 1..LatencyWindow
<1>1. Append(s, x) \in Seq(Latency) /\ Len(Append(s, x)) = Len(s) + 1 /\ Len(s) \in Nat
  BY AppendProperties
<1>2. Append(s, x) # <<>>
  BY <1>1
<1>3. Tail(Append(s, x)) \in Seq(Latency) /\ Len(Tail(Append(s, x))) = Len(s)
  BY <1>1, <1>2, HeadTailProperties
<1>4. LatencyWindow \in Nat /\ LatencyWindow # 0
  BY Caps
<1> QED
  BY <1>1, <1>3, <1>4 DEF Pushed

LEMMA AverageIs ==
  ASSUME NEW s \in Seq(Latency), Len(s) # 0
  PROVE  <<SumFunction(s), Len(s)>> \in Nat \X (Nat \ {0})
<1>1. DOMAIN s = 1..Len(s) /\ Len(s) \in Int /\ Len(s) \in Nat /\ \A i \in DOMAIN s : s[i] \in Latency
  OBVIOUS
<1>2. IsFiniteSet(DOMAIN s) /\ \A i \in DOMAIN s : s[i] \in Nat
  <2>1. Latency \subseteq Nat
    BY TrackerAssumption DEF TrackerAssumption
  <2>2. PICK n \in Int : n = Len(s)
    BY <1>1
  <2>3. IsFiniteSet(1..n)
    BY FS_Interval
  <2> QED
    BY <1>1, <2>1, <2>2, <2>3
<1>3. SumFunction(s) \in Nat
  BY <1>1, <1>2, SumNat DEF SumFunction
<1> QED
  BY <1>1, <1>3

LEMMA TrackerInitially == RoutingInit => TrackerInv /\ EnabledTyped
<1> SUFFICES ASSUME RoutingInit PROVE TrackerInv /\ EnabledTyped
  OBVIOUS
<1>1. Fresh \in Records /\ RecordOK(Fresh) /\ Fresh.streak = 0
  BY DEF Fresh, Records, RecordOK
<1>2. /\ tracked = {} /\ record = [p \in Provider |-> Fresh] /\ latencies = <<>> /\ recentFailures = 0
      /\ providersFile.on = Provider
  BY DEF RoutingInit, TrackerInit
<1>3. latencies \in Seq(Latency) /\ Len(latencies) = 0
  BY <1>2
<1>4. AtMost(0, RecentWindow) = 0
  BY Caps DEF AtMost
<1> HIDE DEF Fresh
<1> QED
  BY <1>1, <1>2, <1>3, <1>4, Caps DEF TrackerInv, EnabledTyped

(* A success recorded for p, a failure, and p re-enabled.                   *)
LEMMA SuccessKeeps ==
  ASSUME TrackerInv, NEW p \in Provider, NEW latency \in Latency, RecordSuccess(p, latency)
  PROVE  TrackerInv'
<1>1. /\ latencies' \in Seq(Latency) /\ Len(latencies') \in 1..LatencyWindow
  BY PushedIs DEF TrackerInv, RecordSuccess
<1>2. PICK avg \in Nat \X (Nat \ {0}) : avg = <<SumFunction(latencies'), Len(latencies')>>
  <2>1. latencies' \in Seq(Latency) /\ Len(latencies') # 0
    BY <1>1
  <2> QED
    BY <2>1, AverageIs
<1>3. /\ tracked' = tracked \cup {p} /\ recentFailures' = recentFailures
      /\ record' = [record EXCEPT ![p] = [record[p] EXCEPT !.total = @ + 1, !.successes = @ + 1,
                                                           !.streak = 0, !.avg = avg]]
  BY <1>2 DEF RecordSuccess, TrackerInv
<1>4. record[p] \in Records /\ RecordOK(record[p])
  BY DEF TrackerInv
<1>5. PICK rec : rec = [record[p] EXCEPT !.total = @ + 1, !.successes = @ + 1, !.streak = 0, !.avg = avg]
  OBVIOUS
<1>6. rec \in Records /\ RecordOK(rec) /\ rec.streak = 0
  <2>1. PICK n \in Nat, m \in Nat : n = record[p].total + 1 /\ m = record[p].successes + 1
    <3>1. record[p].total \in Nat /\ record[p].successes \in Nat
      BY <1>4 DEF Records
    <3> QED
      BY <3>1
  <2>2. rec = [record[p] EXCEPT !.total = n, !.successes = m, !.streak = 0, !.avg = avg]
    BY <1>5, <2>1, Zenon
  <2>3. /\ rec \in Records /\ rec.total = n /\ rec.successes = m
        /\ rec.failures = record[p].failures /\ rec.streak = 0
    <3>1. 0 \in Nat
      OBVIOUS
    <3> QED
      BY <1>4, <2>2, <3>1, Zenon DEF Records
  <2>4. record[p].total = record[p].successes + record[p].failures
        /\ record[p].successes \in Nat /\ record[p].failures \in Nat
    BY <1>4 DEF Records, RecordOK
  <2> QED
    BY <2>1, <2>3, <2>4 DEF RecordOK
<1>7. AtMost(0, RecentWindow) <= recentFailures
  BY Caps DEF AtMost, TrackerInv
<1>8. record' = [record EXCEPT ![p] = rec]
  BY <1>3, <1>5
<1>9. tracked' \in SUBSET Provider /\ record' \in [Provider -> Records]
  BY <1>3, <1>6, <1>8 DEF TrackerInv
<1>10. ASSUME NEW q \in Provider
       PROVE  /\ RecordOK(record'[q])
              /\ AtMost(record'[q].streak, RecentWindow) <= recentFailures
              /\ q \notin tracked' => record'[q] = Fresh
  <2>1. CASE q = p
    BY <1>3, <1>6, <1>7, <1>8, <2>1 DEF TrackerInv
  <2>2. CASE q # p
    BY <1>3, <1>8, <2>2 DEF TrackerInv
  <2> QED
    BY <2>1, <2>2
<1> QED
  BY <1>1, <1>3, <1>9, <1>10 DEF TrackerInv

LEMMA FailureKeeps ==
  ASSUME TrackerInv, NEW p \in Provider, NEW auth \in BOOLEAN, Failed(p, auth),
         tracked' \in SUBSET Provider, tracked \cup {p} \subseteq tracked'
  PROVE  TrackerInv'
<1>1. /\ latencies' = latencies /\ recentFailures' = AtMost(recentFailures + 1, RecentWindow)
      /\ record' = [record EXCEPT ![p] = [record[p] EXCEPT !.total = @ + 1, !.failures = @ + 1,
                                            !.streak = @ + 1, !.authDisabled = @ \/ auth]]
  BY DEF Failed, TrackerInv
<1>2. record[p] \in Records /\ RecordOK(record[p])
  BY DEF TrackerInv
<1>3. PICK rec : rec = [record[p] EXCEPT !.total = @ + 1, !.failures = @ + 1,
                                         !.streak = @ + 1, !.authDisabled = @ \/ auth]
  OBVIOUS
<1>4. rec \in Records /\ RecordOK(rec) /\ rec.streak = record[p].streak + 1
  <2>1. PICK off \in BOOLEAN : off = (record[p].authDisabled \/ auth)
    OBVIOUS
  <2>2. PICK n \in Nat, m \in Nat, k \in Nat :
          n = record[p].total + 1 /\ m = record[p].failures + 1 /\ k = record[p].streak + 1
    <3>1. record[p].total \in Nat /\ record[p].failures \in Nat /\ record[p].streak \in Nat
      BY <1>2 DEF Records
    <3>2. record[p].total + 1 \in Nat /\ record[p].failures + 1 \in Nat /\ record[p].streak + 1 \in Nat
      BY <3>1, Z3
    <3> QED
      BY <3>2, Zenon
  <2>3. rec = [record[p] EXCEPT !.total = n, !.failures = m, !.streak = k, !.authDisabled = off]
    BY <1>3, <2>1, <2>2, Zenon
  <2>4. /\ rec \in Records /\ rec.total = n /\ rec.successes = record[p].successes
        /\ rec.failures = m /\ rec.streak = k
    BY <1>2, <2>3, Zenon DEF Records
  <2>5. /\ record[p].total = record[p].successes + record[p].failures
        /\ record[p].streak <= record[p].failures
        /\ record[p].successes \in Nat /\ record[p].failures \in Nat /\ record[p].streak \in Nat
    BY <1>2 DEF Records, RecordOK
  <2> QED
    BY <2>2, <2>4, <2>5 DEF RecordOK
<1>5. /\ recentFailures \in Nat /\ recentFailures' \in 0..RecentWindow /\ recentFailures <= recentFailures'
      /\ \A k \in Nat : AtMost(k, RecentWindow) <= recentFailures =>
           AtMost(k + 1, RecentWindow) <= recentFailures'
  BY <1>1, Caps DEF AtMost, TrackerInv
<1>6. record' = [record EXCEPT ![p] = rec]
  BY <1>1, <1>3
<1>7. record' \in [Provider -> Records]
  BY <1>4, <1>6 DEF TrackerInv
<1>8. ASSUME NEW q \in Provider
      PROVE  /\ RecordOK(record'[q])
             /\ AtMost(record'[q].streak, RecentWindow) <= recentFailures'
             /\ q \notin tracked' => record'[q] = Fresh
  <2>1. CASE q = p
    <3>1. record[p].streak \in Nat /\ AtMost(record[p].streak, RecentWindow) <= recentFailures
      BY DEF TrackerInv, RecordOK, Records
    <3>2. record'[q] = rec
      BY <1>6, <2>1 DEF TrackerInv
    <3> QED
      BY <1>4, <1>5, <2>1, <3>1, <3>2
  <2>2. CASE q # p
    <3>1. record'[q] = record[q] /\ AtMost(record[q].streak, RecentWindow) \in Nat
      BY <1>6, <2>2, Caps DEF TrackerInv, AtMost, RecordOK, Records
    <3> QED
      BY <1>5, <3>1 DEF TrackerInv
  <2> QED
    BY <2>1, <2>2
<1> QED
  BY <1>1, <1>5, <1>7, <1>8 DEF TrackerInv

LEMMA ReenableKeeps ==
  ASSUME TrackerInv, NEW p \in Provider, Reenable(p)
  PROVE  TrackerInv'
<1>1. /\ UNCHANGED <<tracked, latencies, recentFailures>>
      /\ record' = [record EXCEPT ![p] = [record[p] EXCEPT !.streak = 0, !.authDisabled = FALSE]]
  BY DEF Reenable, TrackerInv
<1>2. record[p] \in Records /\ RecordOK(record[p])
  BY DEF TrackerInv
<1>3. PICK rec : rec = [record[p] EXCEPT !.streak = 0, !.authDisabled = FALSE]
  OBVIOUS
<1>4. rec \in Records /\ RecordOK(rec) /\ rec.streak = 0
  <2>1. /\ rec \in Records /\ rec.streak = 0 /\ rec.total = record[p].total
        /\ rec.successes = record[p].successes /\ rec.failures = record[p].failures
    <3>1. 0 \in Nat
      OBVIOUS
    <3> QED
      BY <1>2, <1>3, <3>1, Zenon DEF Records
  <2>2. record[p].total = record[p].successes + record[p].failures /\ record[p].failures \in Nat
    BY <1>2 DEF Records, RecordOK
  <2> QED
    BY <2>1, <2>2 DEF RecordOK
<1>5. AtMost(0, RecentWindow) <= recentFailures
  BY Caps DEF AtMost, TrackerInv
<1>6. record' = [record EXCEPT ![p] = rec] /\ record' \in [Provider -> Records]
  BY <1>1, <1>3, <1>4 DEF TrackerInv
<1>7. record[p] = Fresh => rec = Fresh
  <2>1. rec = [total |-> record[p].total, successes |-> record[p].successes,
               failures |-> record[p].failures, streak |-> 0,
               avg |-> record[p].avg, authDisabled |-> FALSE]
    BY <1>2, <1>3, Zenon DEF Records
  <2>2. ASSUME record[p] = Fresh
        PROVE  /\ record[p].total = 0 /\ record[p].successes = 0 /\ record[p].failures = 0
               /\ record[p].avg = <<0, 1>>
    BY <2>2, SMT DEF Fresh
  <2> QED
    BY <2>1, <2>2, Zenon DEF Fresh
<1>8. ASSUME NEW q \in Provider
      PROVE  /\ RecordOK(record'[q])
             /\ AtMost(record'[q].streak, RecentWindow) <= recentFailures
             /\ q \notin tracked => record'[q] = Fresh
  <2>1. CASE q = p
    BY <1>4, <1>5, <1>6, <1>7, <2>1 DEF TrackerInv
  <2>2. CASE q # p
    BY <1>6, <2>2 DEF TrackerInv
  <2> QED
    BY <2>1, <2>2
<1> QED
  BY <1>1, <1>6, <1>8 DEF TrackerInv

LEMMA TrackerStep ==
  ASSUME TrackerInv, EnabledTyped, [RoutingNext]_routingVars
  PROVE  TrackerInv' /\ EnabledTyped'
<1>1. ASSUME NEW p \in Provider, NEW latency \in Latency, ReportSuccess(p, latency)
      PROVE  TrackerInv'
  BY <1>1, SuccessKeeps DEF ReportSuccess
<1>2. ASSUME NEW p \in Provider, NEW auth \in BOOLEAN, ReportFailure(p, auth)
      PROVE  TrackerInv'
  <2>1. /\ Failed(p, auth)
        /\ tracked' = tracked \cup {p} \cup (IF auth THEN {} ELSE providersFile.on)
    BY <1>2 DEF ReportFailure
  <2>2. tracked' \in SUBSET Provider /\ tracked \cup {p} \subseteq tracked'
    BY <2>1 DEF TrackerInv, EnabledTyped
  <2> QED
    BY <2>1, <2>2, FailureKeeps
<1>3. ASSUME NEW p \in Provider, Reenable(p)
      PROVE  TrackerInv'
  BY <1>3, ReenableKeeps
<1>4. ASSUME Order
      PROVE  TrackerInv'
  <2>1. /\ tracked' = tracked \cup providersFile.on
        /\ UNCHANGED <<record, latencies, recentFailures>>
    BY <1>4 DEF Order, Consult
  <2>2. tracked' \in SUBSET Provider
    BY <2>1 DEF TrackerInv, EnabledTyped
  <2> QED
    BY <2>1, <2>2 DEF TrackerInv
<1>5. ASSUME UNCHANGED trackerVars
      PROVE  TrackerInv'
  BY <1>5 DEF TrackerInv, trackerVars
<1>6. CASE Handle
  <2>1. TrackerInv'
    BY <1>1, <1>2, <1>3, <1>4, <1>6 DEF Handle
  <2>2. EnabledTyped'
    BY <1>6 DEF Handle, files, EnabledTyped
  <2> QED
    BY <2>1, <2>2
<1>7. CASE ReloadPolicy \/ ReloadProviders \/ UNCHANGED routingVars
  <2>1. UNCHANGED trackerVars /\ UNCHANGED files
    BY <1>7 DEF ReloadPolicy, ReloadProviders, routingVars
  <2> QED
    BY <1>5, <2>1 DEF files, EnabledTyped
<1>8. CASE Write
  <2>1. UNCHANGED trackerVars
    BY <1>8 DEF Write
  <2>2. providersFile' = providersFile \/ providersFile' \in Contents
    BY <1>8 DEF Write
  <2>3. \A c \in Contents : c.on \in SUBSET Provider
    BY RoutingAssumption
  <2>4. EnabledTyped'
    BY <2>2, <2>3 DEF EnabledTyped
  <2> QED
    BY <1>5, <2>1, <2>4
<1> QED
  BY <1>6, <1>7, <1>8 DEF RoutingNext

LEMMA TrackerInvariant == RoutingSpec => [](TrackerInv /\ EnabledTyped)
<1>1. TrackerInv /\ EnabledTyped /\ [RoutingNext]_routingVars => (TrackerInv /\ EnabledTyped)'
  BY TrackerStep
<1> QED
  BY <1>1, TrackerInitially, PTL DEF RoutingSpec

LEMMA TrackedTyped == TrackerInv => TrackerTypeOK
<1> SUFFICES ASSUME TrackerInv PROVE TrackerTypeOK
  OBVIOUS
<1>1. ASSUME NEW p \in Provider
      PROVE  HealthScore(p) \in 0..100
  <2>1. RecordOK(record[p]) /\ recentFailures \in Nat
    BY DEF TrackerInv
  <2>2. ScoreOf(record[p], recentFailures) \in 0..100
    BY <2>1, ScoreOfType
  <2> QED
    BY <2>2, HealthScoreIs
<1>2. \A p \in Provider : /\ record[p].total = record[p].successes + record[p].failures
                          /\ record[p].streak <= record[p].failures
  BY DEF TrackerInv, RecordOK
<1> QED
  BY <1>1, <1>2 DEF TrackerInv, TrackerTypeOK

(* The tracker's counters hang together, and its scores are between 0 and   *)
(* 1, whatever the caps and windows and however the requests come.          *)
THEOREM RoutingTrackerTypeOK == RoutingSpec => []TrackerTypeOK
  BY TrackerInvariant, TrackedTyped, PTL

(* Whatever lies behind a provider, and whatever the others have done to    *)
(* the window of failures they share: it is used again while its last       *)
(* request did not fail and it answers within four tenths of the cap.       *)
THEOREM RoutingRecoveredIsEligible == RoutingSpec => []RecoveredIsEligible
<1>1. TrackerInv => RecoveredIsEligible
  <2> SUFFICES ASSUME TrackerInv, NEW p \in Provider, record[p].streak = 0, ~record[p].authDisabled,
                      10 * record[p].avg[1] <= 4 * record[p].avg[2] * LatencyCap
               PROVE  Healthy(p)
    BY DEF RecoveredIsEligible
  <2>1. RecordOK(record[p]) /\ recentFailures \in Nat
    BY DEF TrackerInv
  <2>2. ScoreOf(record[p], recentFailures) >= 30
    BY <2>1, Recovered
  <2> QED
    BY <2>2, HealthScoreIs DEF Healthy
<1> QED
  BY <1>1, TrackerInvariant, PTL

(* What a step of the engine does to the record of a provider.              *)
Grows(p) ==
  /\ record'[p].failures > record[p].failures =>
       /\ record'[p].successes = record[p].successes /\ record'[p].total = record[p].total + 1
       /\ record'[p].avg = record[p].avg /\ record[p].streak <= record'[p].streak
       /\ record[p].authDisabled => record'[p].authDisabled
       /\ recentFailures <= recentFailures'
  /\ record'[p].successes > record[p].successes =>
       /\ record'[p].successes = record[p].successes + 1 /\ record'[p].total = record[p].total + 1
       /\ record'[p].streak = 0 /\ recentFailures' = recentFailures
       /\ record[p].authDisabled <=> record'[p].authDisabled

LEMMA ScoresFollow ==
  ASSUME TrackerInv, TrackerInv', NEW p \in Provider, Grows(p)
  PROVE  /\ record'[p].failures > record[p].failures => HealthScore(p)' <= HealthScore(p)
         /\ /\ record'[p].successes > record[p].successes
            /\ record'[p].avg[1] * record[p].avg[2] <= record[p].avg[1] * record'[p].avg[2]
            => HealthScore(p)' >= HealthScore(p)
<1>1. /\ RecordOK(record[p]) /\ RecordOK(record'[p])
      /\ recentFailures \in Nat /\ recentFailures' \in Nat
  BY DEF TrackerInv
<1>2. /\ HealthScore(p) = IF record[p].authDisabled THEN 0 ELSE ScoreOf(record[p], recentFailures)
      /\ HealthScore(p)' = IF record'[p].authDisabled THEN 0 ELSE ScoreOf(record'[p], recentFailures')
  <2>1. HealthScore(p)' = IF record'[p].authDisabled THEN 0 ELSE ScoreOf(record'[p], recentFailures')
    BY DEF HealthScore, ScoreOf, Score, Weighted, Whole
  <2> QED
    BY <2>1, HealthScoreIs
<1>3. PICK x \in Nat, y \in Nat : x = ScoreOf(record[p], recentFailures) /\ y = ScoreOf(record'[p], recentFailures')
  <2>1. ScoreOf(record[p], recentFailures) \in Nat
    BY <1>1, ScoreOfType
  <2>2. ScoreOf(record'[p], recentFailures') \in Nat
    BY <1>1, ScoreOfType
  <2> QED
    BY <2>1, <2>2, Zenon
<1>4. ASSUME record'[p].failures > record[p].failures
      PROVE  HealthScore(p)' <= HealthScore(p)
  <2>1. y <= x
    BY <1>1, <1>3, <1>4, Worse DEF Grows
  <2>2. record[p].authDisabled => record'[p].authDisabled
    BY <1>4 DEF Grows
  <2> QED
    BY <1>2, <1>3, <2>1, <2>2
<1>5. ASSUME record'[p].successes > record[p].successes,
             record'[p].avg[1] * record[p].avg[2] <= record[p].avg[1] * record'[p].avg[2]
      PROVE  HealthScore(p)' >= HealthScore(p)
  <2>1. x <= y
    BY <1>1, <1>3, <1>5, Better DEF Grows
  <2>2. record[p].authDisabled <=> record'[p].authDisabled
    BY <1>5 DEF Grows
  <2> QED
    BY <1>2, <1>3, <2>1, <2>2
<1> QED
  BY <1>4, <1>5

LEMMA SuccessGrows ==
  ASSUME TrackerInv, NEW p \in Provider, NEW latency, RecordSuccess(p, latency), NEW q \in Provider
  PROVE  Grows(q)
<1>1. /\ recentFailures' = recentFailures /\ \A r \in Provider \ {p} : record'[r] = record[r]
      /\ record'[p] = [record[p] EXCEPT !.total = @ + 1, !.successes = @ + 1, !.streak = 0,
                                        !.avg = <<SumFunction(latencies'), Len(latencies')>>]
  BY DEF RecordSuccess, TrackerInv
<1>2. \A r \in Provider : record[r] \in Records /\ record[r].failures \in Nat /\ record[r].successes \in Nat
  BY DEF TrackerInv, Records
<1>3. CASE q # p
  BY <1>1, <1>2, <1>3 DEF Grows
<1>4. CASE q = p
  <2>1. /\ record'[p].failures = record[p].failures /\ record'[p].successes = record[p].successes + 1
        /\ record'[p].total = record[p].total + 1 /\ record'[p].streak = 0
        /\ record'[p].authDisabled = record[p].authDisabled
    BY <1>1, <1>2, Zenon DEF Records
  <2>2. ~(record'[p].failures > record[p].failures)
    BY <1>2, <2>1
  <2> QED
    BY <1>1, <1>4, <2>1, <2>2 DEF Grows
<1> QED
  BY <1>3, <1>4

LEMMA FailureGrows ==
  ASSUME TrackerInv, NEW p \in Provider, NEW auth \in BOOLEAN, Failed(p, auth), NEW q \in Provider
  PROVE  Grows(q)
<1>1. /\ \A r \in Provider \ {p} : record'[r] = record[r]
      /\ record'[p] = [record[p] EXCEPT !.total = @ + 1, !.failures = @ + 1, !.streak = @ + 1,
                                        !.authDisabled = @ \/ auth]
  BY DEF Failed, TrackerInv
<1>2. \A r \in Provider : /\ record[r] \in Records /\ record[r].streak \in Nat
                          /\ record[r].failures \in Nat /\ record[r].successes \in Nat
  BY DEF TrackerInv, Records
<1>3. recentFailures <= recentFailures'
  BY Caps DEF Failed, TrackerInv, AtMost
<1>4. CASE q # p
  BY <1>1, <1>2, <1>4 DEF Grows
<1>5. CASE q = p
  <2>1. /\ record'[p].successes = record[p].successes /\ record'[p].total = record[p].total + 1
        /\ record'[p].avg = record[p].avg /\ record'[p].streak = record[p].streak + 1
        /\ record'[p].authDisabled = (record[p].authDisabled \/ auth)
    BY <1>1, <1>2, Zenon DEF Records
  <2>2. ~(record'[p].successes > record[p].successes) /\ record[p].streak <= record'[p].streak
    BY <1>2, <2>1
  <2> QED
    BY <1>3, <1>5, <2>1, <2>2 DEF Grows
<1> QED
  BY <1>4, <1>5

LEMMA StepGrows ==
  ASSUME TrackerInv, [RoutingNext]_routingVars, NEW p \in Provider
  PROVE  Grows(p)
<1>1. \A q \in Provider : record[q] \in Records /\ record[q].failures \in Nat /\ record[q].successes \in Nat
  BY DEF TrackerInv, Records
<1>2. ASSUME NEW q \in Provider, Reenable(q)
      PROVE  Grows(p)
  <2>1. /\ \A r \in Provider \ {q} : record'[r] = record[r]
        /\ record'[q] = [record[q] EXCEPT !.streak = 0, !.authDisabled = FALSE]
    BY <1>2 DEF Reenable, TrackerInv
  <2>2. record'[q].failures = record[q].failures /\ record'[q].successes = record[q].successes
    BY <1>1, <2>1, Zenon DEF Records
  <2>3. record'[p].failures = record[p].failures /\ record'[p].successes = record[p].successes
    BY <2>1, <2>2, Zenon
  <2>4. ~(record'[p].failures > record[p].failures) /\ ~(record'[p].successes > record[p].successes)
    BY <1>1, <2>3
  <2> QED
    BY <2>4, Zenon DEF Grows
<1>3. ASSUME UNCHANGED record
      PROVE  Grows(p)
  BY <1>1, <1>3 DEF Grows
<1>4. ASSUME NEW q \in Provider, NEW latency \in Latency, ReportSuccess(q, latency)
      PROVE  Grows(p)
  BY <1>4, SuccessGrows DEF ReportSuccess
<1>5. ASSUME NEW q \in Provider, NEW auth \in BOOLEAN, ReportFailure(q, auth)
      PROVE  Grows(p)
  BY <1>5, FailureGrows DEF ReportFailure
<1>6. CASE Handle
  BY <1>2, <1>3, <1>4, <1>5, <1>6 DEF Handle, Order, Consult
<1>7. CASE ReloadPolicy \/ ReloadProviders \/ Write \/ UNCHANGED routingVars
  BY <1>3, <1>7 DEF ReloadPolicy, ReloadProviders, Write, routingVars, trackerVars
<1> QED
  BY <1>6, <1>7 DEF RoutingNext

(* However requests, reloads and edits follow each other: a failure never   *)
(* raises the score of the provider that failed, and a success lowers it    *)
(* only by a longer average latency.                                        *)
THEOREM RoutingScoreFollowsOutcomes == RoutingSpec => ScoreFollowsOutcomes
<1> DEFINE Follow ==
      \A p \in Provider :
        /\ record'[p].failures > record[p].failures => HealthScore(p)' <= HealthScore(p)
        /\ /\ record'[p].successes > record[p].successes
           /\ record'[p].avg[1] * record[p].avg[2] <= record[p].avg[1] * record'[p].avg[2]
           => HealthScore(p)' >= HealthScore(p)
<1>1. TrackerInv /\ EnabledTyped /\ [RoutingNext]_routingVars => Follow
  <2> SUFFICES ASSUME TrackerInv, EnabledTyped, [RoutingNext]_routingVars, NEW p \in Provider
               PROVE  /\ record'[p].failures > record[p].failures => HealthScore(p)' <= HealthScore(p)
                      /\ /\ record'[p].successes > record[p].successes
                         /\ record'[p].avg[1] * record[p].avg[2] <= record[p].avg[1] * record'[p].avg[2]
                         => HealthScore(p)' >= HealthScore(p)
    OBVIOUS
  <2>1. TrackerInv' /\ Grows(p)
    BY TrackerStep, StepGrows
  <2> QED
    BY <2>1, ScoresFollow
<1> QED
  BY <1>1, TrackerInvariant, PTL DEF RoutingSpec, ScoreFollowsOutcomes

-----------------------------------------------------------------------------
(* The order of the providers.                                              *)

(* The binary search of Position, for the set T of the places before which  *)
(* the provider to be inserted belongs.                                     *)
Mid(left, right) == (left + right) \div 2

Probe(h, T, left, right) ==
  IF left = right THEN left
  ELSE IF Mid(left, right) + 1 \in T
       THEN h[<<left, Mid(left, right)>>] ELSE h[<<Mid(left, right) + 1, right>>]

IsSearch(h, n, T) == h = [span \in (0..n) \X (0..n) |-> Probe(h, T, span[1], span[2])]

LEMMA MidIs ==
  ASSUME NEW left \in Nat, NEW right \in Nat, left # right
  PROVE  /\ Mid(left, right) \in Nat
         /\ left < right => left <= Mid(left, right) /\ Mid(left, right) < right
         /\ right < left => right <= Mid(left, right) /\ Mid(left, right) < left
  BY DEF Mid

(* Both ways to go on are spans, and shorter ones where there is anything   *)
(* between left and right.                                                  *)
LEMMA ProbeGoesOn ==
  ASSUME NEW n \in Nat, NEW left \in 0..n, NEW right \in 0..n, left # right
  PROVE  /\ Mid(left, right) \in 0..n /\ Mid(left, right) + 1 \in 1..n
         /\ left < right => /\ Mid(left, right) - left < right - left
                            /\ right - (Mid(left, right) + 1) < right - left
         /\ right < left => /\ Mid(left, right) - left < 0
                            /\ right - (Mid(left, right) + 1) < 0
<1>1. left \in Nat /\ right \in Nat /\ left <= n /\ right <= n
  OBVIOUS
<1>2. PICK mid \in Nat : mid = Mid(left, right)
  BY <1>1, MidIs
<1> QED
  BY <1>1, <1>2, MidIs

LEMMA SearchExists ==
  ASSUME NEW n \in Nat, NEW T
  PROVE  \E h : IsSearch(h, n, T)
<1> DEFINE Good(m, h) ==
             \A left \in 0..n, right \in 0..n :
               right - left < m => h[<<left, right>>] = Probe(h, T, left, right)
           Has(m) == \E h \in [(0..n) \X (0..n) -> Nat] : Good(m, h)
           S == {m \in Nat : Has(m)}
<1>1. Has(0)
  <2>1. PICK h \in [(0..n) \X (0..n) -> Nat] : h = [span \in (0..n) \X (0..n) |-> 0]
    OBVIOUS
  <2>2. \A left \in 0..n, right \in 0..n : h[<<left, right>>] = 0
    BY <2>1
  <2>3. ASSUME NEW left \in 0..n, NEW right \in 0..n, right - left < 0
        PROVE  h[<<left, right>>] = Probe(h, T, left, right)
    <3>1. left # right
      BY <2>3
    <3>2. Mid(left, right) \in 0..n /\ Mid(left, right) + 1 \in 0..n
      BY <3>1, ProbeGoesOn
    <3> QED
      BY <2>2, <3>1, <3>2 DEF Probe
  <2> QED
    BY <2>3
<1>2. ASSUME NEW m \in Nat, Has(m)
      PROVE  Has(m + 1)
  <2>1. PICK f \in [(0..n) \X (0..n) -> Nat] : Good(m, f)
    BY <1>2
  <2>2. PICK h : h = [span \in (0..n) \X (0..n) |->
                        IF span[2] - span[1] = m THEN Probe(f, T, span[1], span[2]) ELSE f[span]]
    OBVIOUS
  <2>3. ASSUME NEW left \in 0..n, NEW right \in 0..n
        PROVE  h[<<left, right>>] = IF right - left = m THEN Probe(f, T, left, right) ELSE f[<<left, right>>]
    BY <2>2
  <2>4. ASSUME NEW left \in 0..n, NEW right \in 0..n
        PROVE  Probe(f, T, left, right) \in Nat
    <3>1. CASE left = right
      BY <3>1 DEF Probe
    <3>2. CASE left # right
      <4>1. Mid(left, right) \in 0..n /\ Mid(left, right) + 1 \in 0..n
        BY <3>2, ProbeGoesOn
      <4> QED
        BY <3>2, <4>1 DEF Probe
    <3> QED
      BY <3>1, <3>2
  <2>5. h \in [(0..n) \X (0..n) -> Nat]
    <3>1. ASSUME NEW span \in (0..n) \X (0..n)
          PROVE  h[span] \in Nat
      <4>1. span[1] \in 0..n /\ span[2] \in 0..n /\ f[span] \in Nat
        OBVIOUS
      <4>2. Probe(f, T, span[1], span[2]) \in Nat
        BY <2>4, <4>1
      <4> QED
        BY <2>2, <4>1, <4>2
    <3> QED
      BY <2>2, <3>1
  <2>6. ASSUME NEW left \in 0..n, NEW right \in 0..n, right - left < m + 1
        PROVE  h[<<left, right>>] = Probe(h, T, left, right)
    <3>1. Probe(h, T, left, right) = Probe(f, T, left, right)
      <4>1. CASE left = right
        BY <4>1 DEF Probe
      <4>2. CASE left # right
        <5>1. PICK mid \in 0..n : mid = Mid(left, right)
          BY <4>2, ProbeGoesOn
        <5>2. mid + 1 \in 0..n /\ mid - left # m /\ right - (mid + 1) # m
          <6>1. /\ mid \in 0..n /\ mid + 1 \in 1..n
                /\ left < right => mid - left < right - left /\ right - (mid + 1) < right - left
                /\ right < left => mid - left < 0 /\ right - (mid + 1) < 0
            BY <4>2, <5>1, ProbeGoesOn
          <6>2. left < right \/ right < left
            BY <4>2
          <6> QED
            BY <2>6, <6>1, <6>2
        <5>3. h[<<left, mid>>] = f[<<left, mid>>] /\ h[<<mid + 1, right>>] = f[<<mid + 1, right>>]
          BY <2>3, <5>2
        <5> QED
          BY <4>2, <5>1, <5>3 DEF Probe
      <4> QED
        BY <4>1, <4>2
    <3>2. right - left = m \/ f[<<left, right>>] = Probe(f, T, left, right)
      <4>1. right - left = m \/ right - left < m
        BY <2>6
      <4> QED
        BY <2>1, <4>1
    <3> QED
      BY <2>3, <3>1, <3>2
  <2> QED
    BY <2>5, <2>6
<1>3. Has(n + 1)
  <2> HIDE DEF Has
  <2>1. 0 \in S /\ \A m \in Nat : m \in S => m + 1 \in S
    BY <1>1, <1>2
  <2>2. Nat \subseteq S
    <3> HIDE DEF S
    <3> QED
      BY <2>1, AllNat
  <2> QED
    BY <2>2
<1>4. PICK h \in [(0..n) \X (0..n) -> Nat] : Good(n + 1, h)
  BY <1>3
<1>5. ASSUME NEW span \in (0..n) \X (0..n)
      PROVE  h[span] = Probe(h, T, span[1], span[2])
  <2>1. PICK left \in 0..n, right \in 0..n : span = <<left, right>>
    OBVIOUS
  <2>2. right - left < n + 1 /\ span[1] = left /\ span[2] = right
    BY <2>1
  <2> QED
    BY <1>4, <2>1, <2>2
<1> QED
  BY <1>5 DEF IsSearch

(* Where the search ends: not in T to the left, in T to the right.          *)
Boundary(k, n, T) == k \in 0..n /\ (k # 0 => k \notin T) /\ (k # n => k + 1 \in T)

LEMMA SearchFinds ==
  ASSUME NEW n \in Nat, NEW T, NEW h, IsSearch(h, n, T)
  PROVE  Boundary(h[<<0, n>>], n, T)
<1> DEFINE Good(m) ==
             \A left \in 0..n, right \in 0..n :
               /\ left <= right /\ right - left <= m
               /\ (left # 0 => left \notin T) /\ (right # n => right + 1 \in T)
               => Boundary(h[<<left, right>>], n, T)
           S == {m \in Nat : Good(m)}
<1>1. ASSUME NEW left \in 0..n, NEW right \in 0..n
      PROVE  h[<<left, right>>] = Probe(h, T, left, right)
  BY DEF IsSearch
<1>2. ASSUME NEW left \in 0..n, left # 0 => left \notin T, left # n => left + 1 \in T
      PROVE  Boundary(h[<<left, left>>], n, T)
  <2>1. h[<<left, left>>] = left
    BY <1>1 DEF Probe
  <2> QED
    BY <1>2, <2>1 DEF Boundary
<1>3. Good(0)
  <2>1. ASSUME NEW left \in 0..n, NEW right \in 0..n, left <= right, right - left <= 0
        PROVE  right = left
    BY <2>1
  <2> QED
    BY <1>2, <2>1
<1>4. ASSUME NEW m \in Nat, Good(m)
      PROVE  Good(m + 1)
  <2> SUFFICES ASSUME NEW left \in 0..n, NEW right \in 0..n, left <= right, right - left <= m + 1,
                      left # 0 => left \notin T, right # n => right + 1 \in T
               PROVE  Boundary(h[<<left, right>>], n, T)
    OBVIOUS
  <2>1. CASE left = right
    BY <1>2, <2>1
  <2>2. CASE left < right
    <3>1. PICK mid \in Nat : mid = Mid(left, right)
      BY <2>2, MidIs
    <3>2. left <= mid /\ mid < right /\ mid \in 0..n /\ mid + 1 \in 0..n
      BY <2>2, <3>1, MidIs
    <3>3. mid - left <= m /\ right - (mid + 1) <= m /\ mid + 1 <= right /\ mid # n /\ mid + 1 # 0
      BY <2>2, <3>2
    <3>4. h[<<left, right>>] = IF mid + 1 \in T THEN h[<<left, mid>>] ELSE h[<<mid + 1, right>>]
      BY <1>1, <2>2, <3>1 DEF Probe
    <3>5. mid + 1 \in T => Boundary(h[<<left, mid>>], n, T)
      BY <1>4, <3>2, <3>3
    <3>6. mid + 1 \notin T => Boundary(h[<<mid + 1, right>>], n, T)
      BY <1>4, <3>2, <3>3
    <3> QED
      BY <3>4, <3>5, <3>6
  <2> QED
    BY <2>1, <2>2
<1>5. Good(n)
  <2> HIDE DEF Good
  <2>1. 0 \in S /\ \A m \in Nat : m \in S => m + 1 \in S
    BY <1>3, <1>4
  <2>2. Nat \subseteq S
    <3> HIDE DEF S
    <3> QED
      BY <2>1, AllNat
  <2> QED
    BY <2>2
<1>6. 0 \in 0..n /\ n \in 0..n /\ 0 <= n /\ n - 0 <= n
  OBVIOUS
<1> QED
  BY <1>5, <1>6

-----------------------------------------------------------------------------
Scored == \A p \in Provider : HealthScore(p) \in Int

(* The comparator is no order, but between neighbours it says enough: who   *)
(* goes before is no more than a hundredth behind, and so is who follows.   *)
LEMMA BeforeIs ==
  ASSUME Scored, NEW p \in Provider, NEW q \in Provider
  PROVE  /\ Before(p, q) => HealthScore(q) - HealthScore(p) <= 1
         /\ ~Before(p, q) => HealthScore(p) - HealthScore(q) <= 1
<1>1. PICK a \in Int, b \in Int : a = HealthScore(p) /\ b = HealthScore(q)
  BY DEF Scored
<1>2. CASE a = b \/ (a - b = 1 /\ a \in NoApart) \/ (b - a = 1 /\ b \in NoApart)
  <2>1. b - a <= 1 /\ a - b <= 1
    BY <1>2
  <2> QED
    BY <1>1, <2>1
<1>3. CASE ~(a = b \/ (a - b = 1 /\ a \in NoApart) \/ (b - a = 1 /\ b \in NoApart))
  <2>1. Before(p, q) <=> a > b
    BY <1>1, <1>3 DEF Before
  <2>2. (a > b => b - a <= 1) /\ (~(a > b) => a - b <= 1)
    OBVIOUS
  <2> QED
    BY <1>1, <2>1, <2>2
<1> QED
  BY <1>2, <1>3

(* The place of an insertion is between one that goes before and one that   *)
(* does not.                                                                *)
LEMMA PositionIs ==
  ASSUME NEW s \in Seq(Provider), NEW p
  PROVE  /\ Position(s, p) \in 0..Len(s)
         /\ Position(s, p) # 0 => ~Before(p, s[Position(s, p)])
         /\ Position(s, p) # Len(s) => Before(p, s[Position(s, p) + 1])
<1> DEFINE n == Len(s)
           T == {i \in 1..n : Before(p, s[i])}
           Searched(f) == f = [span \in (0..n) \X (0..n) |->
             IF span[1] = span[2] THEN span[1]
             ELSE IF Before(p, s[((span[1] + span[2]) \div 2) + 1])
                  THEN f[<<span[1], (span[1] + span[2]) \div 2>>]
                  ELSE f[<<((span[1] + span[2]) \div 2) + 1, span[2]>>]]
<1>0. n \in Nat
  OBVIOUS
<1>1. ASSUME NEW span \in (0..n) \X (0..n), span[1] # span[2]
      PROVE  /\ Mid(span[1], span[2]) = (span[1] + span[2]) \div 2
             /\ Mid(span[1], span[2]) + 1 \in T <=> Before(p, s[((span[1] + span[2]) \div 2) + 1])
  <2>1. span[1] \in 0..n /\ span[2] \in 0..n
    OBVIOUS
  <2>2. Mid(span[1], span[2]) + 1 \in 1..n
    BY <1>0, <1>1, <2>1, ProbeGoesOn
  <2> QED
    BY <2>2 DEF Mid
<1>2. ASSUME NEW f, NEW span \in (0..n) \X (0..n)
      PROVE  Probe(f, T, span[1], span[2]) =
             IF span[1] = span[2] THEN span[1]
             ELSE IF Before(p, s[((span[1] + span[2]) \div 2) + 1])
                  THEN f[<<span[1], (span[1] + span[2]) \div 2>>]
                  ELSE f[<<((span[1] + span[2]) \div 2) + 1, span[2]>>]
  <2> HIDE DEF T, n
  <2> QED
    BY <1>1 DEF Probe
<1>3. ASSUME NEW f
      PROVE  Searched(f) <=> IsSearch(f, n, T)
  <2> DEFINE Goes(span) ==
               IF span[1] = span[2] THEN span[1]
               ELSE IF Before(p, s[((span[1] + span[2]) \div 2) + 1])
                    THEN f[<<span[1], (span[1] + span[2]) \div 2>>]
                    ELSE f[<<((span[1] + span[2]) \div 2) + 1, span[2]>>]
  <2>1. \A span \in (0..n) \X (0..n) : Probe(f, T, span[1], span[2]) = Goes(span)
    BY <1>2
  <2>2. Searched(f) <=> f = [span \in (0..n) \X (0..n) |-> Goes(span)]
    OBVIOUS
  <2> HIDE DEF T, n, Goes, Searched
  <2>3. [span \in (0..n) \X (0..n) |-> Probe(f, T, span[1], span[2])]
          = [span \in (0..n) \X (0..n) |-> Goes(span)]
    BY <2>1
  <2> QED
    BY <2>2, <2>3 DEF IsSearch
<1>4. \E f : Searched(f)
  <2>1. PICK f : IsSearch(f, n, T)
    <3> HIDE DEF T, n
    <3> QED
      BY <1>0, SearchExists
  <2> HIDE DEF Searched
  <2> QED
    BY <1>3, <2>1
<1>5. PICK f : Searched(f) /\ Position(s, p) = f[<<0, n>>]
  BY <1>4 DEF Position
<1>6. Boundary(f[<<0, n>>], n, T)
  <2>1. IsSearch(f, n, T)
    <3> HIDE DEF Searched
    <3> QED
      BY <1>3, <1>5
  <2> HIDE DEF T, n
  <2> QED
    BY <1>0, <2>1, SearchFinds
<1>7. PICK k : k = Position(s, p)
  OBVIOUS
<1>8. k \in 0..n /\ (k # 0 => k \notin T) /\ (k # n => k + 1 \in T)
  BY <1>5, <1>6, <1>7 DEF Boundary
<1>9. k # 0 => k \in 1..n
  BY <1>0, <1>8
<1> QED
  BY <1>7, <1>8, <1>9

(* An insertion at any place.                                               *)
InsertedAt(s, e, k) == SubSeq(s, 1, k) \o <<e>> \o SubSeq(s, k + 1, Len(s))

LEMMA InsertIs ==
  ASSUME NEW E, NEW s \in Seq(E), NEW e \in E, NEW k \in 0..Len(s)
  PROVE  /\ InsertedAt(s, e, k) \in Seq(E) /\ Len(InsertedAt(s, e, k)) = Len(s) + 1
         /\ \A i \in 1..(Len(s) + 1) :
              InsertedAt(s, e, k)[i] = IF i <= k THEN s[i] ELSE IF i = k + 1 THEN e ELSE s[i - 1]
<1> SUFFICES ASSUME NEW r, r = InsertedAt(s, e, k)
             PROVE  /\ r \in Seq(E) /\ Len(r) = Len(s) + 1
                    /\ \A i \in 1..(Len(s) + 1) :
                         r[i] = IF i <= k THEN s[i] ELSE IF i = k + 1 THEN e ELSE s[i - 1]
  OBVIOUS
<1> DEFINE n == Len(s)
<1>1. n \in Nat /\ k \in Nat /\ k <= n /\ k + 1 \in Int /\ n \in Int /\ 1 \in Int /\ k \in Int
  OBVIOUS
<1>2. PICK a : a = SubSeq(s, 1, k)
  OBVIOUS
<1>3. a \in Seq(E) /\ Len(a) = k /\ \A i \in 1..k : a[i] = s[i]
  <2>1. \A i \in 1..k : s[i] \in E
    BY <1>1
  <2>2. /\ a \in Seq(E) /\ Len(a) = (IF 1 <= k THEN k - 1 + 1 ELSE 0)
        /\ \A i \in 1..(k - 1 + 1) : a[i] = s[1 + i - 1]
    BY <1>1, <1>2, <2>1, SubSeqProperties
  <2> QED
    BY <1>1, <2>2
<1>4. PICK c : c = SubSeq(s, k + 1, n)
  OBVIOUS
<1>5. c \in Seq(E) /\ Len(c) = n - k /\ \A i \in 1..(n - k) : c[i] = s[k + i]
  <2>1. \A i \in (k + 1)..n : s[i] \in E
    BY <1>1
  <2>2. /\ c \in Seq(E) /\ Len(c) = (IF k + 1 <= n THEN n - (k + 1) + 1 ELSE 0)
        /\ \A i \in 1..(n - (k + 1) + 1) : c[i] = s[k + 1 + i - 1]
    BY <1>1, <1>4, <2>1, SubSeqProperties
  <2>3. (IF k + 1 <= n THEN n - (k + 1) + 1 ELSE 0) = n - k /\ n - (k + 1) + 1 = n - k
    BY <1>1
  <2>4. \A i \in 1..(n - k) : k + 1 + i - 1 = k + i
    BY <1>1
  <2> HIDE DEF n
  <2> QED
    BY <2>2, <2>3, <2>4
<1>6. <<e>> \in Seq(E) /\ Len(<<e>>) = 1 /\ <<e>>[1] = e
  OBVIOUS
<1>7. PICK d : d = a \o <<e>>
  OBVIOUS
<1>8. d \in Seq(E) /\ Len(d) = k + 1 /\ \A i \in 1..(k + 1) : d[i] = IF i <= k THEN s[i] ELSE e
  <2>1. /\ d \in Seq(E) /\ Len(d) = k + 1
        /\ \A i \in 1..(k + 1) : d[i] = IF i <= k THEN a[i] ELSE <<e>>[i - k]
    BY <1>3, <1>6, <1>7, ConcatProperties
  <2>2. \A i \in 1..(k + 1) : i <= k \/ i - k = 1
    BY <1>1
  <2>3. \A i \in 1..(k + 1) : i <= k => i \in 1..k
    BY <1>1
  <2> QED
    BY <1>3, <1>6, <2>1, <2>2, <2>3
<1> HIDE DEF n
<1>9. r = d \o c
  BY <1>2, <1>4, <1>7 DEF n, InsertedAt
<1>10. /\ r \in Seq(E) /\ Len(r) = (k + 1) + (n - k)
       /\ \A i \in 1..((k + 1) + (n - k)) : r[i] = IF i <= k + 1 THEN d[i] ELSE c[i - (k + 1)]
  <2>0. d \in Seq(E) /\ c \in Seq(E)
    BY <1>5, <1>8
  <2>1. /\ r \in Seq(E) /\ Len(r) = Len(d) + Len(c)
        /\ \A i \in 1..(Len(d) + Len(c)) : r[i] = IF i <= Len(d) THEN d[i] ELSE c[i - Len(d)]
    BY <1>9, <2>0, ConcatProperties
  <2>2. Len(d) = k + 1 /\ Len(c) = n - k
    BY <1>5, <1>8
  <2> QED
    BY <2>1, <2>2
<1>11. (k + 1) + (n - k) = n + 1
  BY <1>1
<1>12. ASSUME NEW i \in 1..(n + 1)
       PROVE  r[i] = IF i <= k THEN s[i] ELSE IF i = k + 1 THEN e ELSE s[i - 1]
  <2>0. i \in Int /\ 1 <= i /\ i <= n + 1 /\ k \in Int /\ n \in Int
    BY <1>1
  <2>1. CASE i <= k + 1
    <3>1. i \in 1..(k + 1) /\ i \in 1..((k + 1) + (n - k))
      BY <1>11, <2>0, <2>1
    <3>2. r[i] = IF i <= k THEN s[i] ELSE e
      BY <1>8, <1>10, <2>1, <3>1
    <3>3. ~(i <= k) => i = k + 1
      BY <2>0, <2>1
    <3> QED
      BY <3>2, <3>3
  <2>2. CASE ~(i <= k + 1)
    <3>1. i - (k + 1) \in 1..(n - k) /\ k + (i - (k + 1)) = i - 1 /\ ~(i <= k) /\ i # k + 1
      BY <1>1, <2>2
    <3>2. r[i] = c[i - (k + 1)]
      BY <1>10, <1>11, <2>2
    <3> QED
      BY <1>5, <3>1, <3>2
  <2> QED
    BY <2>1, <2>2
<1> QED
  BY <1>10, <1>11, <1>12 DEF n

(* Nobody comes right after one who is more than a hundredth worse.         *)
Chained(s) == \A i \in 1..(Len(s) - 1) : HealthScore(s[i + 1]) - HealthScore(s[i]) <= 1

LEMMA InsertedIs ==
  ASSUME NEW s \in Seq(Provider), NEW p \in Provider
  PROVE  /\ Inserted(s, p) \in Seq(Provider) /\ Len(Inserted(s, p)) = Len(s) + 1
         /\ ToSet(Inserted(s, p)) = ToSet(s) \cup {p}
         /\ Scored /\ Chained(s) => Chained(Inserted(s, p))
<1> DEFINE n == Len(s)
<1>1. PICK k : k = Position(s, p)
  OBVIOUS
<1>2. /\ k \in 0..n /\ n \in Nat
      /\ k # 0 => ~Before(p, s[k])
      /\ k # n => Before(p, s[k + 1])
  BY <1>1, PositionIs
<1>3. PICK r : r = Inserted(s, p)
  OBVIOUS
<1>4. r = InsertedAt(s, p, k)
  BY <1>1, <1>3 DEF Inserted, InsertedAt
<1>5. /\ r \in Seq(Provider) /\ Len(r) = n + 1
      /\ \A i \in 1..(n + 1) : r[i] = IF i <= k THEN s[i] ELSE IF i = k + 1 THEN p ELSE s[i - 1]
  <2>1. k \in 0..Len(s)
    BY <1>2
  <2>2. /\ r \in Seq(Provider) /\ Len(r) = Len(s) + 1
        /\ \A i \in 1..(Len(s) + 1) : r[i] = IF i <= k THEN s[i] ELSE IF i = k + 1 THEN p ELSE s[i - 1]
    <3>1. /\ InsertedAt(s, p, k) \in Seq(Provider) /\ Len(InsertedAt(s, p, k)) = Len(s) + 1
          /\ \A i \in 1..(Len(s) + 1) :
               InsertedAt(s, p, k)[i] = IF i <= k THEN s[i] ELSE IF i = k + 1 THEN p ELSE s[i - 1]
      BY <2>1, InsertIs
    <3> QED
      BY <1>4, <3>1
  <2> QED
    BY <2>2
<1>6. DOMAIN s = 1..n /\ DOMAIN r = 1..(n + 1) /\ \A i \in 1..n : s[i] \in Provider
  BY <1>5
<1> HIDE DEF n
<1>7. ToSet(r) = ToSet(s) \cup {p}
  <2>1. ASSUME NEW i \in 1..(n + 1)
        PROVE  r[i] \in ToSet(s) \cup {p}
    <3>1. i <= k => i \in 1..n
      BY <1>2
    <3>2. ~(i <= k) /\ i # k + 1 => i - 1 \in 1..n
      BY <1>2
    <3> QED
      BY <1>5, <1>6, <3>1, <3>2 DEF ToSet
  <2>2. ASSUME NEW i \in 1..n
        PROVE  s[i] \in ToSet(r)
    <3>1. CASE i <= k
      <4>1. i \in 1..(n + 1)
        BY <1>2
      <4> QED
        BY <1>5, <1>6, <3>1, <4>1 DEF ToSet
    <3>2. CASE ~(i <= k)
      <4>1. i + 1 \in 1..(n + 1) /\ ~(i + 1 <= k) /\ i + 1 # k + 1 /\ (i + 1) - 1 = i
        BY <1>2, <3>2
      <4>2. r[i + 1] = s[i]
        BY <1>5, <4>1
      <4> QED
        BY <1>6, <4>1, <4>2 DEF ToSet
    <3> QED
      BY <3>1, <3>2
  <2>3. p \in ToSet(r)
    <3>1. k + 1 \in 1..(n + 1) /\ ~(k + 1 <= k)
      BY <1>2
    <3>2. r[k + 1] = p
      BY <1>5, <3>1
    <3> QED
      BY <1>6, <3>1, <3>2 DEF ToSet
  <2> QED
    BY <1>6, <2>1, <2>2, <2>3 DEF ToSet
<1>8. ASSUME Scored, Chained(s)
      PROVE  Chained(r)
  <2>0. \A i \in 1..n : i < n => HealthScore(s[i + 1]) - HealthScore(s[i]) <= 1
    <3>1. \A i \in 1..n : i < n => i \in 1..(n - 1)
      BY <1>2
    <3> QED
      BY <1>8, <3>1 DEF Chained, n
  <2> SUFFICES ASSUME NEW i \in 1..n
               PROVE  HealthScore(r[i + 1]) - HealthScore(r[i]) <= 1
    <3>1. (n + 1) - 1 = n
      BY <1>2
    <3> QED
      BY <1>5, <3>1 DEF Chained
  <2>1. i \in 1..(n + 1) /\ i + 1 \in 1..(n + 1)
    BY <1>2
  <2>2. CASE i + 1 <= k
    <3>1. i <= k /\ i < n
      BY <1>2, <2>2
    <3>2. r[i] = s[i] /\ r[i + 1] = s[i + 1]
      BY <1>5, <2>1, <2>2, <3>1
    <3> QED
      BY <2>0, <3>1, <3>2
  <2>3. CASE i = k
    <3>1. i <= k /\ ~(i + 1 <= k) /\ i + 1 = k + 1 /\ k # 0 /\ k \in 1..n
      BY <1>2, <2>3
    <3>2. r[i] = s[k] /\ r[i + 1] = p
      BY <1>5, <2>1, <2>3, <3>1
    <3> QED
      BY <1>2, <1>6, <1>8, <3>1, <3>2, BeforeIs
  <2>4. CASE i = k + 1
    <3>1. ~(i <= k) /\ ~(i + 1 <= k) /\ i + 1 # k + 1 /\ (i + 1) - 1 = k + 1 /\ k # n /\ k + 1 \in 1..n
      BY <1>2, <2>4
    <3>2. r[i] = p /\ r[i + 1] = s[k + 1]
      BY <1>5, <2>1, <2>4, <3>1
    <3> QED
      BY <1>2, <1>6, <1>8, <3>1, <3>2, BeforeIs
  <2>5. CASE i > k + 1
    <3>1. /\ ~(i <= k) /\ ~(i + 1 <= k) /\ i # k + 1 /\ i + 1 # k + 1 /\ (i + 1) - 1 = i
          /\ i - 1 \in 1..n /\ i - 1 < n /\ (i - 1) + 1 = i
      BY <1>2, <2>5
    <3>2. r[i] = s[i - 1] /\ r[i + 1] = s[i]
      BY <1>5, <2>1, <3>1
    <3>3. HealthScore(s[(i - 1) + 1]) - HealthScore(s[i - 1]) <= 1
      BY <2>0, <3>1
    <3> QED
      BY <3>1, <3>2, <3>3
  <2>6. i + 1 <= k \/ i = k \/ i = k + 1 \/ i > k + 1
    BY <1>2
  <2> QED
    BY <2>2, <2>3, <2>4, <2>5, <2>6
<1> QED
  BY <1>3, <1>5, <1>7, <1>8 DEF n

(* One insertion after another.                                             *)
LEMMA InsertedAll ==
  ASSUME Scored, NEW b \in Seq(Provider), Chained(b), NEW q \in Seq(Provider),
         NEW r, r = FoldLeft(Inserted, b, q)
  PROVE  /\ r \in Seq(Provider) /\ Len(r) = Len(b) + Len(q)
         /\ ToSet(r) = ToSet(b) \cup ToSet(q)
         /\ Chained(r)
<1> DEFINE D == Seq(Provider)
           G == [x \in D \X Provider |-> Inserted(x[1], x[2])]
           Folded(f) == f = [s \in SUBSET (DOMAIN q) |->
             IF s = {} THEN b ELSE Inserted(f[s \ {Max(s)}], q[Max(s)])]
           Q == [n \in Nat |-> {s \in D : /\ Len(s) = Len(b) + n /\ Chained(s)
                                         /\ ToSet(s) = ToSet(b) \cup {q[i] : i \in 1..n}}]
<1>1. b \in D /\ q \in Seq(Provider) /\ Len(q) \in Nat /\ DOMAIN q = 1..Len(q) /\ Len(b) \in Nat
  OBVIOUS
<1>2. /\ \A s \in D, p \in Provider : G[<<s, p>>] = Inserted(s, p)
      /\ G \in [D \X Provider -> D]
  <2>1. ASSUME NEW s \in D, NEW p \in Provider
        PROVE  Inserted(s, p) \in D
    BY InsertedIs
  <2> QED
    BY <2>1
<1>3. ASSUME NEW n \in Nat, NEW s
      PROVE  s \in Q[n] <=> /\ s \in D /\ Len(s) = Len(b) + n /\ Chained(s)
                            /\ ToSet(s) = ToSet(b) \cup {q[i] : i \in 1..n}
  OBVIOUS
<1>4. ASSUME NEW s \in SUBSET (DOMAIN q), s # {}
      PROVE  q[Max(s)] \in Provider /\ s \ {Max(s)} \in SUBSET (DOMAIN q)
  <2>1. Max(s) \in DOMAIN q
    BY <1>1, <1>4, MaxIs
  <2> QED
    BY <1>1, <2>1
<1> HIDE DEF G, Q, D
<1>5. PICK h \in [SUBSET (DOMAIN q) -> D] : IsRun(h, G, b, q)
  BY <1>1, <1>2, RunExists
<1>6. Folded(h)
  <2>1. ASSUME NEW s \in SUBSET (DOMAIN q), s # {}
        PROVE  h[s] = Inserted(h[s \ {Max(s)}], q[Max(s)])
    BY <1>2, <1>4, <1>5, <2>1 DEF IsRun
  <2>2. {} \in SUBSET (DOMAIN q) => h[{}] = b
    BY <1>5 DEF IsRun
  <2> QED
    BY <1>5, <2>1, <2>2
<1>7. PICK f : Folded(f) /\ r = f[DOMAIN q]
  BY <1>6 DEF FoldLeft, MapThenFoldSet
<1>8. f[{}] = b /\ Follows(f, D, G, q)
  <2>1. {} \in SUBSET (DOMAIN q)
    OBVIOUS
  <2>2. ASSUME NEW s \in SUBSET (DOMAIN q), s # {}, f[s \ {Max(s)}] \in D
        PROVE  f[s] = G[<<f[s \ {Max(s)}], q[Max(s)]>>]
    BY <1>2, <1>4, <1>7, <2>2
  <2> QED
    BY <1>7, <2>1, <2>2 DEF Follows
<1> HIDE DEF Folded
<1>9. Foldable(D, Provider, G, b, q)
  BY <1>1, <1>2 DEF Foldable
<1>10. r = FoldOf(G, b, q)
  BY <1>7, <1>8, <1>9, FoldIs
<1>11. b \in Q[0]
  <2>1. {q[i] : i \in 1..0} = {} /\ Len(b) + 0 = Len(b)
    BY <1>1
  <2> QED
    BY <1>1, <1>3, <2>1
<1>12. Along(Q, D, G, q)
  <2> SUFFICES ASSUME NEW n \in Nat, n + 1 <= Len(q), NEW s \in D, s \in Q[n]
               PROVE  G[<<s, q[n + 1]>>] \in Q[n + 1]
    BY DEF Along
  <2>1. PICK p \in Provider : p = q[n + 1]
    BY <1>1
  <2>2. G[<<s, p>>] = Inserted(s, p)
    BY <1>2
  <2>3. Len(s) = Len(b) + n /\ Chained(s) /\ ToSet(s) = ToSet(b) \cup {q[i] : i \in 1..n}
    BY <1>3
  <2>4. s \in Seq(Provider)
    BY DEF D
  <2>5. /\ Inserted(s, p) \in D /\ Len(Inserted(s, p)) = Len(s) + 1
        /\ ToSet(Inserted(s, p)) = ToSet(s) \cup {p} /\ Chained(Inserted(s, p))
    BY <2>3, <2>4, InsertedIs DEF D
  <2>6. {q[i] : i \in 1..(n + 1)} = {q[i] : i \in 1..n} \cup {p}
    <3>1. \A i : i \in 1..(n + 1) <=> i \in 1..n \/ i = n + 1
      OBVIOUS
    <3> QED
      BY <2>1, <3>1
  <2>7. Len(b) + n + 1 = Len(b) + (n + 1) /\ n + 1 \in Nat
    BY <1>1
  <2> QED
    BY <1>3, <2>1, <2>2, <2>3, <2>5, <2>6, <2>7
<1>13. FoldOf(G, b, SubSeq(q, 1, Len(q))) \in Q[Len(q)]
  <2>1. \A n \in 0..Len(q) : FoldOf(G, b, SubSeq(q, 1, n)) \in Q[n]
    BY <1>9, <1>11, <1>12, FoldAlong
  <2>2. Len(q) \in 0..Len(q)
    BY <1>1
  <2> QED
    BY <2>1, <2>2
<1>14. r \in Q[Len(q)]
  <2>1. SubSeq(q, 1, Len(q)) = q
    BY SubSeqFull
  <2> QED
    BY <1>10, <1>13, <2>1
<1>15. {q[i] : i \in 1..Len(q)} = ToSet(q)
  BY <1>1 DEF ToSet
<1> QED
  BY <1>1, <1>3, <1>14, <1>15 DEF D

(* The order is a rearrangement of what is ranked, and chained.             *)
LEMMA RankedIs ==
  ASSUME Scored, NEW ids \in Seq(Provider)
  PROVE  /\ Ranked(ids) \in Seq(Provider) /\ Len(Ranked(ids)) = Len(ids)
         /\ ToSet(Ranked(ids)) = ToSet(ids) /\ Chained(Ranked(ids))
<1>1. CASE Len(ids) < 2
  <2>1. Ranked(ids) = ids
    BY <1>1 DEF Ranked
  <2>2. 1..(Len(ids) - 1) = {}
    BY <1>1
  <2> QED
    BY <2>1, <2>2 DEF Chained
<1>2. CASE ~(Len(ids) < 2)
  <2> DEFINE n == Len(ids)
             descending == Before(ids[2], ids[1])
             R == {m \in 2..n : \A i \in 2..m : Before(ids[i], ids[i - 1]) <=> descending}
             run == Max(R)
             first == SubSeq(ids, 1, run)
             b == IF descending THEN Reverse(first) ELSE first
             q == SubSeq(ids, run + 1, n)
  <2>0. n \in Nat /\ n >= 2 /\ DOMAIN ids = 1..n /\ \A i \in 1..n : ids[i] \in Provider
    BY <1>2
  <2>1. Ranked(ids) = FoldLeft(Inserted, b, q)
    BY <1>2 DEF Ranked
  <2> HIDE DEF descending
  <2>2. run \in R
    <3>1. 2 \in R
      <4>1. \A i \in 2..2 : i = 2 /\ i - 1 = 1
        OBVIOUS
      <4> QED
        BY <2>0, <4>1 DEF descending
    <3>2. R \in SUBSET (1..n) /\ R # {}
      BY <2>0, <3>1
    <3> HIDE DEF R
    <3> QED
      BY <2>0, <3>2, MaxIs
  <2>3. /\ run \in 2..n
        /\ \A i \in 2..run : Before(ids[i], ids[i - 1]) <=> descending
    BY <2>2
  <2> HIDE DEF run, R, n
  <2>4. PICK k : k = run
    OBVIOUS
  <2>5. k \in Nat /\ k >= 2 /\ k <= n
    BY <2>0, <2>3, <2>4
  <2>6. first \in Seq(Provider) /\ Len(first) = k /\ \A i \in 1..k : first[i] = ids[i]
    <3>1. \A i \in 1..k : ids[i] \in Provider
      BY <2>0, <2>5
    <3>2. /\ first \in Seq(Provider) /\ Len(first) = (IF 1 <= k THEN k - 1 + 1 ELSE 0)
          /\ \A i \in 1..(k - 1 + 1) : first[i] = ids[1 + i - 1]
      BY <2>4, <2>5, <3>1, SubSeqProperties
    <3> QED
      BY <2>5, <3>2
  <2>7. q \in Seq(Provider) /\ Len(q) = n - k /\ \A i \in 1..(n - k) : q[i] = ids[k + i]
    <3>1. \A i \in (k + 1)..n : ids[i] \in Provider
      BY <2>0, <2>5
    <3>2. /\ q \in Seq(Provider) /\ Len(q) = (IF k + 1 <= n THEN n - (k + 1) + 1 ELSE 0)
          /\ \A i \in 1..(n - (k + 1) + 1) : q[i] = ids[k + 1 + i - 1]
      BY <2>0, <2>4, <2>5, <3>1, SubSeqProperties
    <3> QED
      BY <2>0, <2>5, <3>2
  <2> HIDE DEF first, q
  <2>8. ASSUME NEW i \in 2..k
        PROVE  /\ ids[i] \in Provider /\ ids[i - 1] \in Provider
               /\ descending => HealthScore(ids[i - 1]) - HealthScore(ids[i]) <= 1
               /\ ~descending => HealthScore(ids[i]) - HealthScore(ids[i - 1]) <= 1
    <3>1. i \in 1..n /\ i - 1 \in 1..n
      BY <2>0, <2>5
    <3>2. PICK x \in Provider, y \in Provider : x = ids[i] /\ y = ids[i - 1]
      BY <2>0, <3>1
    <3>3. Before(x, y) <=> descending
      BY <2>3, <2>4, <3>2
    <3> QED
      BY <3>2, <3>3, BeforeIs
  <2>9. b \in Seq(Provider) /\ Len(b) = k /\ ToSet(b) = ToSet(first) /\ Chained(b)
    <3>1. CASE descending
      <4>1. b = [i \in 1..k |-> ids[(k - i) + 1]]
        <5>1. \A i \in 1..k : (k - i) + 1 \in 1..k
          BY <2>5
        <5> QED
          BY <2>6, <3>1, <5>1 DEF Reverse
      <4>2. \A i \in 1..k : (k - i) + 1 \in 1..k /\ (k - i) + 1 \in 1..n
        BY <2>0, <2>5
      <4>3. b \in Seq(Provider) /\ Len(b) = k /\ DOMAIN b = 1..k /\ \A i \in 1..k : b[i] = ids[(k - i) + 1]
        BY <2>0, <2>5, <4>1, <4>2
      <4>4. ToSet(b) = ToSet(first)
        <5>1. DOMAIN first = 1..k
          BY <2>6
        <5>2. \A i \in 1..k : b[i] = first[(k - i) + 1] /\ first[i] = b[(k - i) + 1]
          <6>1. \A i \in 1..k : (k - ((k - i) + 1)) + 1 = i
            BY <2>5
          <6> QED
            BY <2>6, <4>2, <4>3, <6>1
        <5>3. \A i \in 1..k : b[i] \in ToSet(first) /\ first[i] \in ToSet(b)
          <6> HIDE DEF b
          <6> QED
            BY <4>2, <4>3, <5>1, <5>2 DEF ToSet
        <5> HIDE DEF b
        <5> QED
          BY <4>3, <5>1, <5>3 DEF ToSet
      <4>5. ASSUME NEW i \in 1..(k - 1)
            PROVE  HealthScore(b[i + 1]) - HealthScore(b[i]) <= 1
        <5>1. PICK j \in 2..k : j = (k - i) + 1
          BY <2>5
        <5>2. i \in 1..k /\ i + 1 \in 1..k /\ (k - (i + 1)) + 1 = j - 1
          BY <2>5, <5>1
        <5>3. b[i] = ids[j] /\ b[i + 1] = ids[j - 1]
          BY <4>3, <5>1, <5>2
        <5> QED
          BY <2>8, <3>1, <5>3
      <4> HIDE DEF b
      <4> QED
        BY <4>3, <4>4, <4>5 DEF Chained
    <3>2. CASE ~descending
      <4>1. b = first
        BY <3>2
      <4>2. ASSUME NEW i \in 1..(k - 1)
            PROVE  HealthScore(first[i + 1]) - HealthScore(first[i]) <= 1
        <5>1. i \in 1..k /\ i + 1 \in 1..k /\ i + 1 \in 2..k /\ (i + 1) - 1 = i
          BY <2>5
        <5>2. first[i] = ids[i] /\ first[i + 1] = ids[i + 1]
          BY <2>6, <5>1
        <5>3. HealthScore(ids[i + 1]) - HealthScore(ids[(i + 1) - 1]) <= 1
          BY <2>8, <3>2, <5>1
        <5> QED
          BY <5>1, <5>2, <5>3
      <4> HIDE DEF b
      <4> QED
        BY <2>6, <4>1, <4>2 DEF Chained
    <3> QED
      BY <3>1, <3>2
  <2> HIDE DEF b
  <2>10. /\ Ranked(ids) \in Seq(Provider) /\ Len(Ranked(ids)) = Len(b) + Len(q)
         /\ ToSet(Ranked(ids)) = ToSet(b) \cup ToSet(q) /\ Chained(Ranked(ids))
    BY <2>1, <2>7, <2>9, InsertedAll
  <2>11. Len(b) + Len(q) = n
    BY <2>0, <2>5, <2>7, <2>9
  <2>12. ToSet(first) \cup ToSet(q) = ToSet(ids)
    <3>1. DOMAIN first = 1..k /\ DOMAIN q = 1..(n - k)
      BY <2>0, <2>5, <2>6, <2>7
    <3>2. ASSUME NEW i \in 1..k
          PROVE  first[i] = ids[i] /\ i \in 1..n
      BY <2>0, <2>5, <2>6
    <3>3. ASSUME NEW i \in 1..(n - k)
          PROVE  q[i] = ids[k + i] /\ k + i \in 1..n
      BY <2>0, <2>5, <2>7
    <3>4. ASSUME NEW i \in 1..n, i \notin 1..k
          PROVE  i - k \in 1..(n - k) /\ k + (i - k) = i
      BY <2>0, <2>5, <3>4
    <3>5. ASSUME NEW i \in 1..n
          PROVE  ids[i] \in ToSet(first) \cup ToSet(q)
      <4>1. CASE i \in 1..k
        BY <3>1, <3>2, <4>1 DEF ToSet
      <4>2. CASE i \notin 1..k
        <5>1. i - k \in 1..(n - k) /\ q[i - k] = ids[i]
          BY <3>3, <3>4, <4>2
        <5> QED
          BY <3>1, <5>1 DEF ToSet
      <4> QED
        BY <4>1, <4>2
    <3> QED
      BY <2>0, <3>1, <3>2, <3>3, <3>5 DEF ToSet
  <2> QED
    BY <2>9, <2>10, <2>11, <2>12 DEF n
<1> QED
  BY <1>1, <1>2

(* What is ranked names each of the wanted once.                            *)
LEMMA FilteredIs ==
  ASSUME NEW ids \in Seq(Provider), IsInjective(ids), NEW wanted, NEW r, r = Filtered(ids, wanted)
  PROVE  /\ r \in Seq(Provider) /\ ToSet(r) = ToSet(ids) \cap wanted
         /\ Len(r) = Cardinality(ToSet(r))
<1> DEFINE D == Seq(Provider)
           G == [x \in D \X Provider |-> IF x[2] \in wanted THEN Append(x[1], x[2]) ELSE x[1]]
           Folded(f) == f = [s \in SUBSET (DOMAIN ids) |->
             IF s = {} THEN <<>>
             ELSE IF ids[Max(s)] \in wanted
                  THEN Append(f[s \ {Max(s)}], ids[Max(s)])
                  ELSE f[s \ {Max(s)}]]
           Q == [n \in Nat |-> {s \in D : /\ ToSet(s) = {ids[i] : i \in 1..n} \cap wanted
                                         /\ IsFiniteSet(ToSet(s)) /\ Len(s) = Cardinality(ToSet(s))}]
<1>1. <<>> \in D /\ Len(ids) \in Nat /\ DOMAIN ids = 1..Len(ids)
  OBVIOUS
<1>2. /\ \A s \in D, p \in Provider : G[<<s, p>>] = IF p \in wanted THEN Append(s, p) ELSE s
      /\ G \in [D \X Provider -> D]
  <2>1. ASSUME NEW s \in D, NEW p \in Provider
        PROVE  Append(s, p) \in D
    OBVIOUS
  <2> QED
    BY <2>1
<1>3. ASSUME NEW n \in Nat, NEW s
      PROVE  s \in Q[n] <=> /\ s \in D /\ ToSet(s) = {ids[i] : i \in 1..n} \cap wanted
                            /\ IsFiniteSet(ToSet(s)) /\ Len(s) = Cardinality(ToSet(s))
  OBVIOUS
<1>4. ASSUME NEW s \in SUBSET (DOMAIN ids), s # {}
      PROVE  ids[Max(s)] \in Provider /\ s \ {Max(s)} \in SUBSET (DOMAIN ids)
  <2>1. Max(s) \in DOMAIN ids
    BY <1>1, <1>4, MaxIs
  <2> QED
    BY <1>1, <2>1
<1> HIDE DEF G, Q, D
<1>5. PICK h \in [SUBSET (DOMAIN ids) -> D] : IsRun(h, G, <<>>, ids)
  BY <1>1, <1>2, RunExists
<1>6. Folded(h)
  <2>1. ASSUME NEW s \in SUBSET (DOMAIN ids), s # {}
        PROVE  h[s] = IF ids[Max(s)] \in wanted
                      THEN Append(h[s \ {Max(s)}], ids[Max(s)])
                      ELSE h[s \ {Max(s)}]
    BY <1>2, <1>4, <1>5, <2>1 DEF IsRun
  <2>2. {} \in SUBSET (DOMAIN ids) => h[{}] = <<>>
    BY <1>5 DEF IsRun
  <2> QED
    BY <1>5, <2>1, <2>2
<1>7. PICK f : Folded(f) /\ r = f[DOMAIN ids]
  BY <1>6 DEF Filtered, FoldLeft, MapThenFoldSet
<1>8. f[{}] = <<>> /\ Follows(f, D, G, ids)
  <2>1. {} \in SUBSET (DOMAIN ids)
    OBVIOUS
  <2>2. ASSUME NEW s \in SUBSET (DOMAIN ids), s # {}, f[s \ {Max(s)}] \in D
        PROVE  f[s] = G[<<f[s \ {Max(s)}], ids[Max(s)]>>]
    BY <1>2, <1>4, <1>7, <2>2
  <2> QED
    BY <1>7, <2>1, <2>2 DEF Follows
<1> HIDE DEF Folded
<1>9. Foldable(D, Provider, G, <<>>, ids)
  BY <1>1, <1>2 DEF Foldable
<1>10. r = FoldOf(G, <<>>, ids)
  BY <1>7, <1>8, <1>9, FoldIs
<1>11. <<>> \in Q[0]
  <2>1. {ids[i] : i \in 1..0} = {} /\ Len(<<>>) = 0 /\ DOMAIN <<>> = {}
    OBVIOUS
  <2>2. ToSet(<<>>) = {}
    BY <2>1 DEF ToSet
  <2> QED
    BY <1>1, <1>3, <2>1, <2>2, FS_EmptySet
<1>12. Along(Q, D, G, ids)
  <2> SUFFICES ASSUME NEW n \in Nat, n + 1 <= Len(ids), NEW s \in D, s \in Q[n]
               PROVE  G[<<s, ids[n + 1]>>] \in Q[n + 1]
    BY DEF Along
  <2>1. PICK p \in Provider : p = ids[n + 1]
    BY <1>1
  <2>2. G[<<s, p>>] = IF p \in wanted THEN Append(s, p) ELSE s
    BY <1>2
  <2>3. /\ ToSet(s) = {ids[i] : i \in 1..n} \cap wanted
        /\ IsFiniteSet(ToSet(s)) /\ Len(s) = Cardinality(ToSet(s))
    BY <1>3
  <2>4. s \in Seq(Provider)
    BY DEF D
  <2>5. {ids[i] : i \in 1..(n + 1)} = {ids[i] : i \in 1..n} \cup {p}
    <3>1. \A i : i \in 1..(n + 1) <=> i \in 1..n \/ i = n + 1
      OBVIOUS
    <3> QED
      BY <2>1, <3>1
  <2>6. p \notin {ids[i] : i \in 1..n}
    <3>1. ASSUME NEW i \in 1..n
          PROVE  i \in DOMAIN ids /\ n + 1 \in DOMAIN ids /\ i # n + 1
      BY <1>1
    <3> QED
      BY <2>1, <3>1 DEF IsInjective
  <2>7. CASE p \in wanted
    <3>1. /\ Append(s, p) \in Seq(Provider) /\ Len(Append(s, p)) = Len(s) + 1
          /\ Append(s, p)[Len(s) + 1] = p /\ \A i \in 1..Len(s) : Append(s, p)[i] = s[i]
      BY <2>4, AppendProperties
    <3>2. PICK u \in Seq(Provider) : u = Append(s, p)
      BY <3>1
    <3>3. /\ Len(s) \in Nat /\ DOMAIN s = 1..Len(s) /\ DOMAIN u = 1..(Len(s) + 1)
          /\ \A i : i \in 1..(Len(s) + 1) <=> i \in 1..Len(s) \/ i = Len(s) + 1
      BY <2>4, <3>1, <3>2
    <3>4. ToSet(u) = ToSet(s) \cup {p}
      BY <3>1, <3>2, <3>3 DEF ToSet
    <3>5. p \notin ToSet(s)
      BY <2>3, <2>6
    <3>6. IsFiniteSet(ToSet(u)) /\ Cardinality(ToSet(u)) = Cardinality(ToSet(s)) + 1
      <4>1. /\ IsFiniteSet(ToSet(s) \cup {p})
            /\ Cardinality(ToSet(s) \cup {p}) = Cardinality(ToSet(s)) + 1
        BY <2>3, <3>5, FS_AddElement
      <4> QED
        BY <3>4, <4>1
    <3>7. ToSet(u) = {ids[i] : i \in 1..(n + 1)} \cap wanted
      BY <2>3, <2>5, <2>7, <3>4
    <3>8. u \in D /\ Len(u) = Cardinality(ToSet(u))
      BY <2>3, <3>1, <3>2, <3>6 DEF D
    <3> QED
      <4>1. G[<<s, ids[n + 1]>>] = u /\ n + 1 \in Nat
        BY <2>1, <2>2, <2>7, <3>2
      <4> QED
        BY <1>3, <3>6, <3>7, <3>8, <4>1
  <2>8. CASE p \notin wanted
    <3>1. ToSet(s) = {ids[i] : i \in 1..(n + 1)} \cap wanted
      BY <2>3, <2>5, <2>8
    <3> QED
      BY <1>3, <2>1, <2>2, <2>3, <2>8, <3>1
  <2> QED
    BY <2>7, <2>8
<1>13. FoldOf(G, <<>>, SubSeq(ids, 1, Len(ids))) \in Q[Len(ids)]
  <2>1. \A n \in 0..Len(ids) : FoldOf(G, <<>>, SubSeq(ids, 1, n)) \in Q[n]
    BY <1>9, <1>11, <1>12, FoldAlong
  <2>2. Len(ids) \in 0..Len(ids)
    BY <1>1
  <2> QED
    BY <2>1, <2>2
<1>14. r \in Q[Len(ids)]
  <2>1. SubSeq(ids, 1, Len(ids)) = ids
    BY SubSeqFull
  <2> QED
    BY <1>10, <1>13, <2>1
<1>15. {ids[i] : i \in 1..Len(ids)} = ToSet(ids)
  BY <1>1 DEF ToSet
<1> QED
  BY <1>1, <1>3, <1>14, <1>15 DEF D

(* Along a chain nobody is further behind than the places between.          *)
LEMMA ChainedBehind ==
  ASSUME Scored, NEW s \in Seq(Provider), Chained(s), NEW i \in 1..Len(s), NEW j \in i..Len(s)
  PROVE  HealthScore(s[j]) - HealthScore(s[i]) <= j - i
<1> DEFINE Good(m) == i + m <= Len(s) => HealthScore(s[i + m]) - HealthScore(s[i]) <= m
           S == {m \in Nat : Good(m)}
<1>1. Len(s) \in Nat /\ i \in Nat /\ j \in Nat /\ j - i \in Nat /\ i + (j - i) = j /\ j <= Len(s) /\ 1 <= i
  OBVIOUS
<1>2. \A x \in 1..Len(s) : s[x] \in Provider /\ HealthScore(s[x]) \in Int
  BY DEF Scored
<1>3. Good(0)
  <2>1. i + 0 = i /\ HealthScore(s[i]) \in Int
    BY <1>1, <1>2
  <2> QED
    BY <2>1
<1>4. ASSUME NEW m \in Nat, Good(m)
      PROVE  Good(m + 1)
  <2> SUFFICES ASSUME i + (m + 1) <= Len(s)
               PROVE  HealthScore(s[i + (m + 1)]) - HealthScore(s[i]) <= m + 1
    OBVIOUS
  <2>1. PICK x \in Nat : x = i + m
    BY <1>1
  <2>2. /\ x \in 1..(Len(s) - 1) /\ x \in 1..Len(s) /\ x + 1 \in 1..Len(s) /\ x <= Len(s)
        /\ i + (m + 1) = x + 1
    BY <1>1, <2>1
  <2>3. HealthScore(s[x]) - HealthScore(s[i]) <= m
    BY <1>4, <2>1, <2>2
  <2>4. HealthScore(s[x + 1]) - HealthScore(s[x]) <= 1
    BY <2>2 DEF Chained
  <2>5. PICK a \in Int, b \in Int, c \in Int :
          a = HealthScore(s[x + 1]) /\ b = HealthScore(s[x]) /\ c = HealthScore(s[i])
    BY <1>2, <2>2
  <2>6. a - c <= m + 1
    BY <2>3, <2>4, <2>5
  <2> QED
    BY <2>2, <2>5, <2>6
<1>5. Good(j - i)
  <2> HIDE DEF Good
  <2>1. 0 \in S /\ \A m \in Nat : m \in S => m + 1 \in S
    BY <1>3, <1>4
  <2>2. Nat \subseteq S
    <3> HIDE DEF S
    <3> QED
      BY <2>1, AllNat
  <2> QED
    BY <1>1, <2>2
<1> QED
  BY <1>1, <1>5

LEMMA OrderIs ==
  ASSUME Scored, providersFile.on \in SUBSET Provider
  PROVE  /\ RoutingOrder \in Seq(Provider) /\ Chained(RoutingOrder)
         /\ Len(RoutingOrder) = Cardinality(Candidates) /\ ToSet(RoutingOrder) = Candidates
<1>1. PICK ids : ids = Filtered(FileOrder, Candidates)
  OBVIOUS
<1>2. FileOrder \in Seq(Provider) /\ IsInjective(FileOrder) /\ ToSet(FileOrder) \cap Candidates = Candidates
  BY RoutingAssumption DEF Candidates
<1>3. ids \in Seq(Provider) /\ ToSet(ids) = Candidates /\ Len(ids) = Cardinality(Candidates)
  BY <1>1, <1>2, FilteredIs
<1> QED
  BY <1>1, <1>3, RankedIs DEF RoutingOrder

LEMMA RankedSoundly ==
  ASSUME Scored, providersFile.on \in SUBSET Provider
  PROVE  RankingSound
<1>1. PICK o : o = RoutingOrder
  OBVIOUS
<1>2. /\ o \in Seq(Provider) /\ Chained(o)
      /\ Len(o) = Cardinality(Candidates) /\ ToSet(o) = Candidates
  BY <1>1, OrderIs
<1>3. Len(o) \in Nat /\ DOMAIN o = 1..Len(o)
  BY <1>2
<1>4. ASSUME NEW p \in Provider, NEW q \in FailoverTargets(p)
      PROVE  /\ q # p
             /\ \A c \in Candidates \ {p} : HealthScore(c) - HealthScore(q) < Cardinality(Candidates)
  <2>1. PICK i \in 1..Len(o) : q = o[i] /\ o[i] # p /\ \A j \in 1..(i - 1) : o[j] = p
    BY <1>1, <1>3 DEF FailoverTargets
  <2>2. ASSUME NEW c \in Candidates \ {p}
        PROVE  HealthScore(c) - HealthScore(q) < Cardinality(Candidates)
    <3>1. PICK j \in 1..Len(o) : c = o[j]
      BY <1>2, <1>3 DEF ToSet
    <3>2. j \in i..Len(o)
      <4>1. j \notin 1..(i - 1)
        BY <2>1, <3>1
      <4> QED
        BY <1>3, <4>1
    <3>3. HealthScore(o[j]) - HealthScore(o[i]) <= j - i
      BY <1>2, <3>2, ChainedBehind
    <3>4. q \in Provider /\ c \in Provider
      BY <1>2, <2>1, <3>1
    <3>5. PICK a \in Int, b \in Int : a = HealthScore(c) /\ b = HealthScore(q)
      BY <3>4 DEF Scored
    <3>6. a - b < Len(o)
      BY <1>3, <2>1, <3>1, <3>2, <3>3, <3>5
    <3> QED
      BY <1>2, <3>5, <3>6
  <2> QED
    BY <2>1, <2>2
<1>5. \A i \in 1..(Len(o) - 1) : HealthScore(o[i + 1]) - HealthScore(o[i]) <= 1
  BY <1>2 DEF Chained
<1> QED
  BY <1>1, <1>2, <1>4, <1>5 DEF RankingSound

(* Whatever the reports, edits and reloads: the order names each candidate  *)
(* once, nobody comes right after one who is more than a hundredth worse,   *)
(* and whom a failover names is not the provider that failed, and no        *)
(* further behind any candidate than there are candidates.                  *)
THEOREM RoutingRankingSound == RoutingSpec => []RankingSound
<1>1. TrackerInv /\ EnabledTyped => RankingSound
  <2> SUFFICES ASSUME TrackerInv, EnabledTyped
               PROVE  RankingSound
    OBVIOUS
  <2>1. ASSUME NEW p \in Provider
        PROVE  HealthScore(p) \in Int
    <3>1. RecordOK(record[p]) /\ recentFailures \in Nat
      BY DEF TrackerInv
    <3>2. ScoreOf(record[p], recentFailures) \in Nat
      BY <3>1, ScoreOfType
    <3> QED
      BY <3>2, HealthScoreIs
  <2> QED
    BY <2>1, RankedSoundly DEF Scored, EnabledTyped
<1> QED
  BY <1>1, TrackerInvariant, PTL

=============================================================================
