------------------------------- MODULE AliasStore -------------------------------
(***************************************************************************)
(* Model aliases: src/src/repositories/alias-repository.ts, used through   *)
(* src/src/services/alias-resolver-engine.ts by the alias server, the      *)
(* routing engine and the pipeline, and through                            *)
(* src/src/services/virtual-model-service.ts by the compatibility server.  *)
(*                                                                         *)
(* These are processes of their own that open one SQLite file.  In each    *)
(* of them a call runs to its end in one callback, but between two of its  *)
(* statements the other processes go on: an action is one statement (or    *)
(* one transaction) with the code up to the next.  Targets, priorities and *)
(* descriptions are left out: no guard reads them.  Every alias is for a   *)
(* combo or a model, as TargetType says, and so a candidate for the list.  *)
(***************************************************************************)
EXTENDS Integers, Sequences, FiniteSets

CONSTANTS
  Process,       \* the processes that have the file open
  Admins,        \* those that serve src/src/gateway/routes/alias.routes.ts
  Resolvers,     \* those that resolve model names
  Listers,       \* those that serve the list of virtual models
  Name,          \* alias names
  NoName,        \* the name of a row that is not there
  Default,       \* the sequence of _getDefaultModels()
  CacheTTL,      \* CACHE_TTL_MS, in clock units
  StackDepth,    \* how often getModels() can call itself
  MaxId,         \* bound on the rows ever inserted
  MaxUses,       \* bound on the requests counted for an alias
  MaxTime        \* bound on the clock

ASSUME AliasAssumption ==
  /\ Admins \subseteq Process /\ Resolvers \subseteq Process /\ Listers \subseteq Process
  /\ NoName \notin Name /\ IsFiniteSet(Name)
  /\ Default \in Seq(Name)
  /\ {CacheTTL, StackDepth, MaxId, MaxUses, MaxTime} \subseteq Nat \ {0}

VARIABLES
  name,      \* the table aliases: names by id
  enabled,   \* the ids whose row says enabled = 1
  sequence,  \* sqlite_sequence: the last id given out
  rows,      \* the ids that have a row in alias_stats
  total,     \* their totalRequests
  call,      \* what each process is doing
  cache,     \* lastModelList and lastGeneratedAt of each lister
  now,       \* Date.now()
  flips,     \* history: when a name was last enabled or disabled
  credited   \* history: requests answered with the present holder of a name

table == <<name, enabled, sequence>>
statistics == <<rows, total>>
history == <<flips, credited>>
vars == <<table, statistics, call, cache, now, history>>

Id == 1..MaxId
NoRow == [i \in Id |-> NoName]
NoList == [names |-> {}, at |-> 0]

(* name, id, on (enabled), over (overwrite): of the call; names: the rows   *)
(* it has read or imports; k, depth, since: index into Default, recursion   *)
(* and start of getModels().                                                *)
Idle == [at |-> "idle", name |-> NoName, id |-> 0, on |-> FALSE, over |-> FALSE,
         names |-> {}, k |-> 0, depth |-> 0, since |-> 0]

Init ==
  /\ name = NoRow /\ enabled = {} /\ sequence = 0
  /\ rows = {} /\ total = [i \in Id |-> 0]
  /\ call = [p \in Process |-> Idle]
  /\ cache = [p \in Process |-> NoList]
  /\ now = 1
  /\ flips = [n \in Name |-> 0] /\ credited = [n \in Name |-> 0]

Named(n) == {i \in Id : name[i] = n}
Alive(i) == i \in Id /\ name[i] # NoName
Shown == {name[i] : i \in enabled}

-----------------------------------------------------------------------------
(* Statements.                                                              *)

Begin(p, c) == call[p] = Idle /\ call' = [call EXCEPT ![p] = c]

Becomes(p, c) == call' = [call EXCEPT ![p] = c]

(* A statement that has written: a transaction that has only read so far    *)
(* cannot write any more (SQLITE_BUSY_SNAPSHOT).                            *)
Spoilt(c) == IF c.at = "importing" THEN [c EXCEPT !.at = "spoilt"] ELSE c
Wrote(p, c) == call' = [q \in Process |-> IF q = p THEN c ELSE Spoilt(call[q])]

Noted == flips' = [n \in Name |-> IF (n \in Shown) = (n \in Shown') THEN flips[n] ELSE now]

(* create() returns or throws: a route is answered, the defaults go on.     *)
AfterCreate(c) == IF c.k = 0 THEN Idle ELSE [c EXCEPT !.at = "defaults", !.k = @ + 1]

(* Faulty variant: without AUTOINCREMENT SQLite takes the largest id in use *)
(* plus one.                                                                *)
ReusedId == 1 + CHOOSE m \in Id \cup {0} : /\ m = 0 \/ Alive(m)
                                           /\ \A i \in Id : Alive(i) => i <= m

NewId == sequence + 1

(* POST /api/aliases: no alias has the name yet.                            *)
CreateCheck(p, n, e) ==
  /\ p \in Admins /\ Named(n) = {}
  /\ Begin(p, [Idle EXCEPT !.at = "insert", !.name = n, !.on = e])
  /\ UNCHANGED <<table, statistics, cache, now, history>>

(* Faulty variant: a name that another process has taken meanwhile is       *)
(* inserted again, as if the column were not UNIQUE.                        *)
InsertUnchecked(p) ==
  LET c == call[p]
      i == NewId
  IN /\ c.at = "insert" /\ i \in Id
     /\ name' = [name EXCEPT ![i] = c.name]
     /\ enabled' = IF c.on THEN enabled \cup {i} ELSE enabled
     /\ sequence' = i
     /\ Wrote(p, [c EXCEPT !.at = "stats", !.id = i])
     /\ Noted
     /\ UNCHANGED <<statistics, cache, now, credited>>

(* create(): the first statement, which fails on a name that is taken.      *)
Insert(p) ==
  LET c == call[p]
      i == NewId
  IN /\ c.at = "insert"
     /\ \/ /\ Named(c.name) = {} /\ i \in Id
           /\ name' = [name EXCEPT ![i] = c.name]
           /\ enabled' = IF c.on THEN enabled \cup {i} ELSE enabled
           /\ sequence' = i
           /\ Wrote(p, [c EXCEPT !.at = "stats", !.id = i])
           /\ Noted
        \/ /\ Named(c.name) # {}
           /\ Becomes(p, AfterCreate(c))
           /\ UNCHANGED <<table, flips>>
     /\ UNCHANGED <<statistics, cache, now, credited>>

(* create(): the second statement, which fails when the alias has been      *)
(* deleted meanwhile, or used, so that it has its row already.              *)
InsertStats(p) ==
  LET c == call[p]
  IN /\ c.at = "stats"
     /\ \/ /\ Alive(c.id) /\ c.id \notin rows
           /\ rows' = rows \cup {c.id}
           /\ Wrote(p, AfterCreate(c))
        \/ /\ ~Alive(c.id) \/ c.id \in rows
           /\ Becomes(p, AfterCreate(c))
           /\ UNCHANGED rows
     /\ UNCHANGED <<table, total, cache, now, history>>

(* PUT, PATCH and DELETE /api/aliases/:name look for the id first.          *)
Find(p, n, statement, e) ==
  /\ p \in Admins
  /\ \E i \in Named(n) :
       Begin(p, [Idle EXCEPT !.at = statement, !.name = n, !.id = i, !.on = e])
  /\ UNCHANGED <<table, statistics, cache, now, history>>

(* update(), toggle(): the row may be gone, and then nothing is changed.  A *)
(* change of other columns only is a change of enabled to what it is.       *)
UpdateRow(p) ==
  LET c == call[p]
  IN /\ c.at = "update"
     /\ \/ Alive(c.id) /\ Wrote(p, Idle)
           /\ enabled' = IF c.on THEN enabled \cup {c.id} ELSE enabled \ {c.id}
        \/ ~Alive(c.id) /\ Becomes(p, Idle) /\ UNCHANGED enabled
     /\ UNCHANGED <<name, sequence, statistics, cache, now, credited>>
     /\ Noted

(* delete(): the statistics row goes with the alias (ON DELETE CASCADE).    *)
DeleteRow(p) ==
  LET c == call[p]
  IN /\ c.at = "delete"
     /\ \/ /\ Alive(c.id)
           /\ name' = [name EXCEPT ![c.id] = NoName]
           /\ enabled' = enabled \ {c.id}
           /\ rows' = rows \ {c.id} /\ total' = [total EXCEPT ![c.id] = 0]
           /\ credited' = [credited EXCEPT ![name[c.id]] = 0]
           /\ Wrote(p, Idle)
           /\ Noted
        \/ /\ ~Alive(c.id)
           /\ Becomes(p, Idle)
           /\ UNCHANGED <<name, enabled, statistics, history>>
     /\ UNCHANGED <<sequence, cache, now>>

-----------------------------------------------------------------------------
(* importAliases(): one transaction, which reads before it writes.          *)

(* names are those with a target; they all come with the same flag.         *)
ImportBegin(p, B, e, o) ==
  /\ p \in Admins
  /\ Begin(p, [Idle EXCEPT !.at = "importing", !.names = B, !.on = e, !.over = o])
  /\ UNCHANGED <<table, statistics, cache, now, history>>

ImportEnd(p) ==
  LET c == call[p]
      missing == {n \in c.names : Named(n) = {}}
      known == IF c.over THEN UNION {Named(n) : n \in c.names} ELSE {}
      new == (sequence + 1)..(sequence + Cardinality(missing))
  IN /\ c.at = "importing" /\ new \subseteq Id
     /\ \E f \in [new -> missing] :
          /\ \A i, j \in new : f[i] = f[j] => i = j
          /\ name' = [i \in Id |-> IF i \in new THEN f[i] ELSE name[i]]
     /\ enabled' = IF c.on THEN enabled \cup known \cup new ELSE enabled \ known
     /\ sequence' = sequence + Cardinality(missing)
     /\ rows' = rows \cup new
     /\ IF known \cup new = {} THEN Becomes(p, Idle) ELSE Wrote(p, Idle)
     /\ Noted
     /\ UNCHANGED <<total, cache, now, credited>>

(* The transaction is rolled back, if it had anything to write.             *)
ImportFails(p) ==
  /\ call[p].at = "spoilt"
  /\ Becomes(p, Idle)
  /\ UNCHANGED <<table, statistics, cache, now, history>>

-----------------------------------------------------------------------------
(* AliasResolverEngine.resolve().                                           *)

Resolve(p, n) ==
  /\ p \in Resolvers
  /\ \E i \in Named(n) \cap enabled :
       Begin(p, [Idle EXCEPT !.at = "record", !.name = n, !.id = i])
  /\ UNCHANGED <<table, statistics, cache, now, history>>

(* recordUsage(): inserts the row if there is none; if the alias has been   *)
(* deleted its foreign key fails, and resolve() with it.                    *)
Record(p) ==
  LET c == call[p]
  IN /\ c.at = "record"
     /\ \/ /\ Alive(c.id) /\ total[c.id] < MaxUses
           /\ rows' = rows \cup {c.id} /\ total' = [total EXCEPT ![c.id] = @ + 1]
           /\ credited' = [credited EXCEPT ![c.name] = @ + 1]
           /\ Wrote(p, Idle)
        \/ /\ ~Alive(c.id)
           /\ Becomes(p, Idle)
           /\ UNCHANGED <<statistics, credited>>
     /\ UNCHANGED <<table, cache, now, flips>>

-----------------------------------------------------------------------------
(* VirtualModelService.getModels().                                         *)

Usable(list) == list.names # {} /\ now - list.at < CacheTTL

Reading(depth) == [Idle EXCEPT !.at = "read", !.depth = depth, !.since = now]

GetModels(p) ==
  /\ p \in Listers /\ ~Usable(cache[p])
  /\ Begin(p, Reading(1))
  /\ UNCHANGED <<table, statistics, cache, now, history>>

(* POST /api/virtual-models/refresh.                                        *)
Refresh(p) ==
  /\ p \in Listers
  /\ Begin(p, Reading(1))
  /\ cache' = [cache EXCEPT ![p] = NoList]
  /\ UNCHANGED <<table, statistics, now, history>>

ReadAll(p) ==
  /\ call[p].at = "read"
  /\ Becomes(p, [call[p] EXCEPT !.at = "build", !.names = Shown])
  /\ UNCHANGED <<table, statistics, cache, now, history>>

(* Faulty variant: the list is dated when it is finished.                   *)
BuildDatedLate(p) ==
  LET c == call[p]
  IN /\ c.at = "build"
     /\ IF c.names # {}
        THEN Becomes(p, Idle) /\ cache' = [cache EXCEPT ![p] = [names |-> c.names, at |-> now]]
        ELSE Becomes(p, [c EXCEPT !.at = "defaults", !.k = 1]) /\ UNCHANGED cache
     /\ UNCHANGED <<table, statistics, now, history>>

(* The list is kept with the time at which its pass began; an empty one is  *)
(* not kept, and the defaults are looked at.                                *)
Build(p) ==
  LET c == call[p]
  IN /\ c.at = "build"
     /\ IF c.names # {}
        THEN Becomes(p, Idle) /\ cache' = [cache EXCEPT ![p] = [names |-> c.names, at |-> c.since]]
        ELSE Becomes(p, [c EXCEPT !.at = "defaults", !.k = 1]) /\ UNCHANGED cache
     /\ UNCHANGED <<table, statistics, now, history>>

(* The next default is created unless it exists, enabled or not; after the  *)
(* last one getModels() calls itself, for as long as the stack allows.      *)
Defaults(p) ==
  LET c == call[p]
  IN /\ c.at = "defaults"
     /\ \/ /\ c.k <= Len(Default) /\ Named(Default[c.k]) = {}
           /\ Becomes(p, [c EXCEPT !.at = "insert", !.name = Default[c.k], !.on = TRUE])
        \/ /\ c.k <= Len(Default) /\ Named(Default[c.k]) # {}
           /\ Becomes(p, [c EXCEPT !.k = @ + 1])
        \/ /\ c.k > Len(Default)
           /\ Becomes(p, IF c.depth < StackDepth THEN Reading(c.depth + 1) ELSE Idle)
     /\ UNCHANGED <<table, statistics, cache, now, history>>

-----------------------------------------------------------------------------

(* A process ends between two statements and is started again.              *)
Crash(p) ==
  /\ Becomes(p, Idle)
  /\ cache' = [cache EXCEPT ![p] = NoList]
  /\ UNCHANGED <<table, statistics, now, history>>

Tick ==
  /\ now < MaxTime
  /\ now' = now + 1
  /\ UNCHANGED <<table, statistics, call, cache, history>>

Request(p) ==
  \/ \E n \in Name, e \in BOOLEAN : CreateCheck(p, n, e)
  \/ \E n \in Name, e \in BOOLEAN : Find(p, n, "update", e)
  \/ \E n \in Name : Find(p, n, "delete", FALSE)
  \/ \E B \in (SUBSET Name) \ {{}}, e, o \in BOOLEAN : ImportBegin(p, B, e, o)
  \/ \E n \in Name : Resolve(p, n)
  \/ GetModels(p) \/ Refresh(p)

Statement(p) ==
  \/ Insert(p) \/ InsertStats(p) \/ UpdateRow(p) \/ DeleteRow(p)
  \/ ImportEnd(p) \/ ImportFails(p) \/ Record(p)
  \/ ReadAll(p) \/ Build(p) \/ Defaults(p)

Next == (\E p \in Process : Request(p) \/ Statement(p) \/ Crash(p)) \/ Tick

Spec == Init /\ [][Next]_vars

-----------------------------------------------------------------------------
(* Properties.                                                              *)

Steps == {"idle", "insert", "stats", "update", "delete", "importing", "spoilt",
          "record", "read", "build", "defaults"}
Calls ==
  [at : Steps, name : Name \cup {NoName}, id : 0..MaxId, on : BOOLEAN, over : BOOLEAN,
   names : SUBSET Name, k : Nat, depth : Nat, since : Nat]

(* Types; no two aliases have a name, whoever creates them at the same      *)
(* time; ids beyond the sequence are unused; statistics and flags belong to *)
(* an alias that is there.                                                  *)
TypeOK ==
  /\ name \in [Id -> Name \cup {NoName}]
  /\ \A i, j \in Id : name[i] = name[j] /\ name[i] # NoName => i = j
  /\ sequence \in 0..MaxId /\ \A i \in Id : i > sequence => name[i] = NoName
  /\ enabled \subseteq Id /\ rows \subseteq Id /\ total \in [Id -> Nat]
  /\ \A i \in enabled \cup rows : name[i] # NoName
  /\ call \in [Process -> Calls]
  /\ cache \in [Process -> [names : SUBSET Name, at : Nat]]
  /\ now \in Nat
  /\ flips \in [Name -> 0..now] /\ credited \in [Name -> Nat]

(* An alias's statistics say how many requests were answered with it since  *)
(* it was created: none is lost when its row is created after its first     *)
(* use, and none is counted for another alias, not even for one that was    *)
(* created under the same name while the request was being resolved.        *)
UsageCounted ==
  \A n \in Name :
    credited[n] = IF \E i \in Named(n) : i \in rows
                  THEN total[CHOOSE i \in Named(n) : TRUE] ELSE 0

(* A list that may still be served is at most CacheTTL old: what has not    *)
(* changed for so long is as the list says.                                 *)
ListFresh ==
  \A p \in Process : Usable(cache[p]) =>
    \A n \in Name : flips[n] <= now - CacheTTL => (n \in cache[p].names <=> n \in Shown)
=============================================================================
