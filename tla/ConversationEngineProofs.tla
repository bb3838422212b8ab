------------------------ MODULE ConversationEngineProofs ------------------------
(***************************************************************************)
(* For all addresses, conversations, limits and ages: the start of the     *)
(* process archives nothing that was used lately; the gate before the      *)
(* engine keeps its rate and its word; and what the engine has             *)
(* acknowledged is kept, and accounted for, whatever statement the process *)
(* ended at.                                                               *)
(***************************************************************************)
EXTENDS ConversationEngine, FoldLemmas

Columns == {"there", "active", "updatedAt", "tokens", "failovers", "compressed"}

Steps == {"begin", "event", "touch", "usage", "compress"}

(* The rows at time t.                                                      *)
RowsAt(cv, t) ==
  /\ DOMAIN cv = Conversation /\ cv = [c \in Conversation |-> cv[c]]
  /\ \A c \in Conversation :
       /\ DOMAIN cv[c] = Columns
       /\ cv[c].there \in BOOLEAN /\ cv[c].active \in BOOLEAN
       /\ cv[c].active => cv[c].there
       /\ cv[c].updatedAt \in Nat /\ cv[c].updatedAt <= t

(* A request that is being handled.                                         *)
Jobs ==
  [kind : {"open", "failover", "cycle"}, conv : Conversation, no : Nat, size : Nat,
   todo : Nat, tokens : Nat, lists : SUBSET Nat, step : Steps]

(* Nothing is used after its row was last dated: a cycle that has come to   *)
(* its usage has dated the row and no time has passed since.                *)
DatedInv ==
  /\ now \in Nat /\ count \in Nat
  /\ RowsAt(conv, now)
  /\ usedAt \in [Conversation -> Nat]
  /\ \A c \in Conversation : usedAt[c] <= now
  /\ \A c \in Conversation : conv[c].there => usedAt[c] <= conv[c].updatedAt
  /\ job = Idle \/ job \in Jobs
  /\ job.kind = "cycle" /\ job.step # "begin" => conv[job.conv].there
  /\ job.kind = "cycle" /\ job.step \in {"usage", "compress"} => conv[job.conv].updatedAt = now

(* Only a start of the process takes a conversation out of use.             *)
StaysActive == \A c \in Conversation : conv[c].active => conv'[c].active

LEMMA InitiallyDated == Init => DatedInv
<1> SUFFICES ASSUME Init
             PROVE  DatedInv
  OBVIOUS
<1>1. /\ now = 0 /\ count = 0 /\ job = Idle
      /\ conv = [c \in Conversation |-> NoRow] /\ usedAt = [c \in Conversation |-> 0]
  BY DEF Init
<1>2. DOMAIN NoRow = Columns /\ NoRow.there = FALSE /\ NoRow.active = FALSE /\ NoRow.updatedAt = 0
  BY DEF NoRow, Columns
<1>3. /\ DOMAIN conv = Conversation /\ conv = [c \in Conversation |-> conv[c]]
      /\ \A c \in Conversation : conv[c] = NoRow
  BY <1>1
<1>4. RowsAt(conv, now)
  <2>1. 0 \in Nat /\ 0 <= 0
    OBVIOUS
  <2> HIDE DEF NoRow
  <2> QED
    BY <1>1, <1>2, <1>3, <2>1, Zenon DEF RowsAt
<1>5. job.kind # "cycle"
  BY <1>1 DEF Idle
<1>6. usedAt \in [Conversation -> Nat] /\ \A c \in Conversation : usedAt[c] = 0
  BY <1>1
<1>7. \A c \in Conversation : ~conv[c].there
  BY <1>2, <1>3
<1> QED
  BY <1>1, <1>4, <1>5, <1>6, <1>7 DEF DatedInv

(* A column that is not named in an EXCEPT stays.                           *)
LEMMA RowExcept ==
  ASSUME NEW row, DOMAIN row = Columns, NEW f \in Columns, NEW v
  PROVE  /\ DOMAIN [row EXCEPT ![f] = v] = Columns
         /\ [row EXCEPT ![f] = v][f] = v
         /\ \A g \in Columns \ {f} : [row EXCEPT ![f] = v][g] = row[g]
  OBVIOUS

(* What an UPDATE of a row that is neither made nor archived does.          *)
Redated(c) ==
  /\ RowsAt(conv', now)
  /\ \A d \in Conversation \ {c} : conv'[d] = conv[d]
  /\ conv'[c].there = conv[c].there
  /\ conv[c].there => conv'[c].updatedAt = now
  /\ StaysActive

LEMMA UpdateRedates ==
  ASSUME DatedInv, NEW c \in Conversation, NEW row, DOMAIN row = Columns,
         row.there = conv[c].there, row.active \in BOOLEAN,
         conv[c].active => row.active,
         Update(c, row)
  PROVE  Redated(c)
<1> DEFINE new == [row EXCEPT !.updatedAt = now]
<1>1. /\ DOMAIN new = Columns /\ new.there = row.there /\ new.active = row.active
      /\ new.updatedAt = now
  BY RowExcept DEF Columns
<1>2. conv' = IF conv[c].there THEN [conv EXCEPT ![c] = new] ELSE conv
  BY DEF Update
<1> HIDE DEF new
<1>3. now \in Nat /\ RowsAt(conv, now)
  BY DEF DatedInv
<1>4. CASE ~conv[c].there
  BY <1>2, <1>3, <1>4 DEF Redated, StaysActive
<1>5. CASE conv[c].there
  <2>1. conv' = [conv EXCEPT ![c] = new]
    BY <1>2, <1>5
  <2>2. /\ DOMAIN conv' = Conversation /\ conv' = [d \in Conversation |-> conv'[d]]
        /\ conv'[c] = new
        /\ \A d \in Conversation \ {c} : conv'[d] = conv[d]
    BY <1>3, <2>1 DEF RowsAt
  <2>3. RowsAt(conv', now)
    <3>1. ASSUME NEW d \in Conversation
          PROVE  /\ DOMAIN conv'[d] = Columns
                 /\ conv'[d].there \in BOOLEAN /\ conv'[d].active \in BOOLEAN
                 /\ conv'[d].active => conv'[d].there
                 /\ conv'[d].updatedAt \in Nat /\ conv'[d].updatedAt <= now
      <4>1. CASE d = c
        <5>1. new.there = TRUE /\ new.active \in BOOLEAN /\ new.updatedAt = now
          BY <1>1, <1>3, <1>5 DEF RowsAt
        <5>2. conv'[d] = new
          BY <2>2, <4>1
        <5>3. DOMAIN new = Columns
          BY <1>1
        <5>4. now \in Nat /\ now <= now
          BY <1>3
        <5> QED
          BY <5>1, <5>2, <5>3, <5>4, Zenon
      <4>2. CASE d # c
        BY <1>3, <2>2, <4>2 DEF RowsAt
      <4> QED
        BY <4>1, <4>2
    <3> QED
      BY <2>2, <3>1 DEF RowsAt
  <2>4. StaysActive
    <3>1. ASSUME NEW d \in Conversation, conv[d].active
          PROVE  conv'[d].active
      <4>1. CASE d = c
        BY <1>1, <2>2, <3>1, <4>1
      <4>2. CASE d # c
        BY <2>2, <3>1, <4>2
      <4> QED
        BY <4>1, <4>2
    <3> QED
      BY <3>1 DEF StaysActive
  <2> QED
    BY <1>1, <1>5, <2>2, <2>3, <2>4 DEF Redated
<1> QED
  BY <1>4, <1>5

(* The updates of the handlers change no column that the dates are about.   *)
LEMMA HandlersRedate ==
  ASSUME DatedInv, NEW c \in Conversation, NEW row,
         \/ row = conv[c]
         \/ \E v : \/ row = [conv[c] EXCEPT !.tokens = v]
                   \/ row = [conv[c] EXCEPT !.failovers = v]
                   \/ row = [conv[c] EXCEPT !.compressed = v]
         \/ row = [conv[c] EXCEPT !.active = TRUE],
         Update(c, row)
  PROVE  Redated(c)
<1>1. DOMAIN conv[c] = Columns /\ conv[c].active \in BOOLEAN
  BY DEF DatedInv, RowsAt
<1>2. CASE row = conv[c]
  BY <1>1, <1>2, UpdateRedates
<1>3. ASSUME NEW f \in {"tokens", "failovers", "compressed"}, NEW v, row = [conv[c] EXCEPT ![f] = v]
      PROVE  Redated(c)
  <2>1. DOMAIN row = Columns /\ row.there = conv[c].there /\ row.active = conv[c].active
    BY <1>1, <1>3, RowExcept DEF Columns
  <2> QED
    BY <1>1, <2>1, UpdateRedates
<1>4. CASE row = [conv[c] EXCEPT !.active = TRUE]
  <2>1. DOMAIN row = Columns /\ row.there = conv[c].there /\ row.active = TRUE
    BY <1>1, <1>4, RowExcept DEF Columns
  <2> QED
    BY <2>1, UpdateRedates
<1> QED
  BY <1>2, <1>3, <1>4

-----------------------------------------------------------------------------
(* The steps.                                                               *)

(* A request ends with success: its conversation, if there is one, is dated *)
(* now.                                                                     *)
LEMMA AcknowledgeKeeps ==
  ASSUME DatedInv, NEW c \in Conversation, c = job.conv, Acknowledge(job),
         UNCHANGED <<now, count>>,
         RowsAt(conv', now),
         \A d \in Conversation \ {c} : conv'[d] = conv[d],
         conv'[c].there => conv'[c].updatedAt = now
  PROVE  DatedInv'
<1>1. job' = Idle /\ usedAt' = [usedAt EXCEPT ![c] = now] /\ now' = now /\ count' = count
  BY DEF Acknowledge
<1>2. now \in Nat /\ count \in Nat /\ usedAt \in [Conversation -> Nat]
  BY DEF DatedInv
<1>3. /\ usedAt' \in [Conversation -> Nat] /\ usedAt'[c] = now
      /\ \A d \in Conversation \ {c} : usedAt'[d] = usedAt[d]
  BY <1>1, <1>2
<1>4. ASSUME NEW d \in Conversation
      PROVE  /\ usedAt'[d] <= now
             /\ conv'[d].there => usedAt'[d] <= conv'[d].updatedAt
  <2>1. CASE d = c
    BY <1>2, <1>3, <2>1
  <2>2. CASE d # c
    BY <1>3, <2>2 DEF DatedInv
  <2> QED
    BY <2>1, <2>2
<1>5. job'.kind # "cycle"
  BY <1>1 DEF Idle
<1> QED
  BY <1>1, <1>2, <1>3, <1>4, <1>5 DEF DatedInv, RowsAt

(* A handler has redated the row of its conversation and goes on.           *)
LEMMA GoingOnKeeps ==
  ASSUME DatedInv, NEW c \in Conversation, Redated(c), UNCHANGED <<now, count, usedAt>>,
         job' \in Jobs, job'.conv = c,
         job'.kind = "cycle" => conv[c].there
  PROVE  DatedInv'
<1>1. /\ now \in Nat /\ count \in Nat /\ usedAt \in [Conversation -> Nat]
      /\ \A d \in Conversation : usedAt[d] <= now
  BY DEF DatedInv
<1>2. ASSUME NEW d \in Conversation, conv'[d].there
      PROVE  usedAt[d] <= conv'[d].updatedAt
  <2>1. CASE d = c
    BY <1>1, <1>2, <2>1 DEF Redated
  <2>2. CASE d # c
    BY <1>2, <2>2 DEF Redated, DatedInv
  <2> QED
    BY <2>1, <2>2
<1> QED
  BY <1>1, <1>2 DEF DatedInv, RowsAt, Redated

(* The shape of the request that is being handled.                          *)
LEMMA JobSteps ==
  ASSUME job \in Jobs, NEW s \in Steps, job' = [job EXCEPT !.step = s]
  PROVE  job' \in Jobs /\ job'.conv = job.conv /\ job'.kind = job.kind
  BY DEF Jobs

LEMMA Handled ==
  ASSUME DatedInv, NEW k, job.kind = k, k # "idle"
  PROVE  job \in Jobs /\ job.conv \in Conversation
<1>1. job # Idle
  BY DEF Idle
<1> QED
  BY <1>1 DEF DatedInv, Jobs

LEMMA OpenKeeps ==
  ASSUME DatedInv, Open, UNCHANGED now
  PROVE  DatedInv' /\ StaysActive
<1> DEFINE c == job.conv
<1>1. c \in Conversation
  BY Handled DEF Open
<1>2. now \in Nat /\ RowsAt(conv, now) /\ Acknowledge(job) /\ count' = count
  BY DEF Open, DatedInv
<1> HIDE DEF c
<1>3. CASE conv[c].there
  <2>1. Update(c, [conv[c] EXCEPT !.active = TRUE])
    BY <1>3 DEF Open, c
  <2>2. Redated(c)
    BY <1>1, <2>1, HandlersRedate
  <2> QED
    BY <1>1, <1>2, <1>3, <2>2, AcknowledgeKeeps DEF c, Redated
<1>4. CASE ~conv[c].there
  <2>1. conv' = [conv EXCEPT ![c] = NewRow]
    BY <1>4 DEF Open, c
  <2>2. DOMAIN NewRow = Columns /\ NewRow.there = TRUE /\ NewRow.active = TRUE /\ NewRow.updatedAt = now
    BY DEF NewRow, NoRow, Columns
  <2>3. /\ DOMAIN conv' = Conversation /\ conv' = [d \in Conversation |-> conv'[d]]
        /\ conv'[c] = NewRow
        /\ \A d \in Conversation \ {c} : conv'[d] = conv[d]
    BY <1>1, <1>2, <2>1 DEF RowsAt
  <2>4. RowsAt(conv', now)
    <3>1. ASSUME NEW d \in Conversation
          PROVE  /\ DOMAIN conv'[d] = Columns
                 /\ conv'[d].there \in BOOLEAN /\ conv'[d].active \in BOOLEAN
                 /\ conv'[d].active => conv'[d].there
                 /\ conv'[d].updatedAt \in Nat /\ conv'[d].updatedAt <= now
      <4>1. CASE d = c
        <5>1. conv'[d] = NewRow
          BY <2>3, <4>1
        <5>2. now \in Nat /\ now <= now
          BY <1>2
        <5> QED
          BY <2>2, <5>1, <5>2, Zenon
      <4>2. CASE d # c
        BY <1>2, <2>3, <4>2 DEF RowsAt
      <4> QED
        BY <4>1, <4>2
    <3> QED
      BY <2>3, <3>1 DEF RowsAt
  <2>5. StaysActive
    BY <1>2, <1>4, <2>3 DEF RowsAt, StaysActive
  <2> QED
    BY <1>1, <1>2, <2>2, <2>3, <2>4, <2>5, AcknowledgeKeeps DEF c
<1> QED
  BY <1>3, <1>4

LEMMA FailoverProviderKeeps ==
  ASSUME DatedInv, FailoverProvider, UNCHANGED now
  PROVE  DatedInv' /\ StaysActive
<1>1. job \in Jobs /\ job.conv \in Conversation /\ job.kind = "failover"
  BY Handled DEF FailoverProvider, At
<1>2. /\ Update(job.conv, conv[job.conv])
      /\ job' = [job EXCEPT !.step = "event"] /\ UNCHANGED <<count, usedAt>>
  BY DEF FailoverProvider, Go
<1>3. Redated(job.conv)
  BY <1>1, <1>2, HandlersRedate
<1>4. job' \in Jobs /\ job'.conv = job.conv /\ job'.kind = "failover"
  BY <1>1, <1>2, JobSteps DEF Steps
<1> QED
  BY <1>1, <1>2, <1>3, <1>4, GoingOnKeeps DEF Redated

LEMMA FailoverEventKeeps ==
  ASSUME DatedInv, FailoverEvent, UNCHANGED now
  PROVE  DatedInv' /\ StaysActive
<1>1. job.conv \in Conversation
  BY Handled DEF FailoverEvent, At
<1>2. /\ Update(job.conv, [conv[job.conv] EXCEPT !.failovers = Append(@, job.no)])
      /\ Acknowledge(job) /\ UNCHANGED count
  BY DEF FailoverEvent
<1>3. Redated(job.conv)
  BY <1>1, <1>2, HandlersRedate
<1> QED
  BY <1>1, <1>2, <1>3, AcknowledgeKeeps DEF Redated

(* A message is stored only for a conversation that is there, and rows are  *)
(* never removed.                                                           *)
LEMMA InsertMessageKeeps ==
  ASSUME DatedInv, InsertMessage, UNCHANGED now
  PROVE  DatedInv' /\ StaysActive
<1>1. job \in Jobs /\ job.conv \in Conversation /\ conv[job.conv].there
  BY Handled DEF InsertMessage, At
<1>2. job' = [job EXCEPT !.step = "touch"] /\ UNCHANGED <<conv, count, usedAt>>
  BY DEF InsertMessage, Go
<1>3. job' \in Jobs /\ job'.conv = job.conv /\ job'.step = "touch"
  BY <1>1, <1>2, JobSteps DEF Steps, Jobs
<1> QED
  BY <1>1, <1>2, <1>3 DEF DatedInv, RowsAt, StaysActive

LEMMA TouchKeeps ==
  ASSUME DatedInv, Touch, UNCHANGED now
  PROVE  DatedInv' /\ StaysActive
<1>1. job \in Jobs /\ job.conv \in Conversation /\ conv[job.conv].there
  BY Handled DEF Touch, At, DatedInv
<1>2. Update(job.conv, conv[job.conv]) /\ UNCHANGED <<count, usedAt>>
  BY DEF Touch
<1>3. Redated(job.conv)
  BY <1>1, <1>2, HandlersRedate
<1>4. job' \in Jobs /\ job'.conv = job.conv
  <2>1. PICK n \in Nat, s \in Steps : job' = [job EXCEPT !.todo = n, !.step = s]
    <3> DEFINE n == IF job.todo > 0 THEN job.todo - 1 ELSE 0
               s == CASE job.todo > 0 -> "begin"
                      [] job.todo = 0 /\ job.tokens > 0 -> "usage"
                      [] OTHER -> "compress"
    <3>1. n \in Nat /\ s \in Steps
      BY <1>1 DEF Jobs, Steps
    <3>2. job' = [job EXCEPT !.todo = n, !.step = s]
      BY DEF Touch
    <3> QED
      BY <3>1, <3>2
  <2> QED
    BY <1>1, <2>1 DEF Jobs
<1> QED
  BY <1>1, <1>2, <1>3, <1>4, GoingOnKeeps DEF Redated

LEMMA AddUsageKeeps ==
  ASSUME DatedInv, AddUsage, UNCHANGED now
  PROVE  DatedInv' /\ StaysActive
<1>1. job \in Jobs /\ job.conv \in Conversation /\ conv[job.conv].there
  BY Handled DEF AddUsage, At, DatedInv
<1>2. /\ Update(job.conv, [conv[job.conv] EXCEPT !.tokens = @ + job.tokens])
      /\ job' = [job EXCEPT !.step = "compress"] /\ UNCHANGED <<count, usedAt>>
  BY DEF AddUsage, Go
<1>3. Redated(job.conv)
  BY <1>1, <1>2, HandlersRedate
<1>4. job' \in Jobs /\ job'.conv = job.conv
  BY <1>1, <1>2, JobSteps DEF Steps
<1> QED
  BY <1>1, <1>2, <1>3, <1>4, GoingOnKeeps DEF Redated

(* A compression that has nothing to do leaves the row as the cycle has     *)
(* dated it.                                                                *)
LEMMA CompressKeeps ==
  ASSUME DatedInv, Compress, UNCHANGED now
  PROVE  DatedInv' /\ StaysActive
<1>1. /\ job.conv \in Conversation /\ conv[job.conv].there
      /\ conv[job.conv].updatedAt = now
  BY Handled DEF Compress, At, DatedInv
<1>2. Acknowledge(job) /\ UNCHANGED count
  BY DEF Compress
<1>3. CASE UNCHANGED conv
  BY <1>1, <1>2, <1>3, AcknowledgeKeeps DEF StaysActive, DatedInv
<1>4. ASSUME Update(job.conv, [conv[job.conv] EXCEPT !.compressed = Compressible(job.conv)])
      PROVE  DatedInv' /\ StaysActive
  <2>1. Redated(job.conv)
    BY <1>1, <1>4, HandlersRedate
  <2> QED
    BY <1>1, <1>2, <2>1, AcknowledgeKeeps DEF Redated
<1> QED
  BY <1>3, <1>4 DEF Compress

LEMMA InsertFailsKeeps ==
  ASSUME DatedInv, InsertFails, UNCHANGED now
  PROVE  DatedInv' /\ StaysActive
  BY DEF InsertFails, DatedInv, RowsAt, StaysActive, Idle

LEMMA StatementKeeps ==
  ASSUME DatedInv, Statement
  PROVE  DatedInv' /\ StaysActive
<1>1. UNCHANGED now
  BY DEF Statement, gateVars
<1> QED
  BY <1>1, OpenKeeps, FailoverProviderKeeps, FailoverEventKeeps, InsertMessageKeeps, TouchKeeps,
     AddUsageKeeps, CompressKeeps, InsertFailsKeeps DEF Statement

(* The start of the process keeps the dates and archives only what was      *)
(* updated, and so used, too long ago.                                      *)
LEMMA RestartArchives ==
  ASSUME DatedInv, Restart
  PROVE  /\ DatedInv'
         /\ \A c \in Conversation :
              conv[c].active /\ ~conv'[c].active => now - usedAt[c] > ArchiveAge
<1>1. conv' = Archived /\ job' = Idle /\ UNCHANGED <<now, count, usedAt>>
  BY DEF Restart
<1>2. /\ now \in Nat /\ RowsAt(conv, now) /\ ArchiveAge \in Nat
      /\ usedAt \in [Conversation -> Nat]
  BY EngineAssumption DEF DatedInv
<1>3. ASSUME NEW c \in Conversation
      PROVE  /\ DOMAIN conv'[c] = Columns
             /\ conv'[c].there = conv[c].there /\ conv'[c].updatedAt = conv[c].updatedAt
             /\ \/ conv'[c].active = conv[c].active
                \/ conv'[c].active = FALSE /\ conv[c].updatedAt < now - ArchiveAge
  <2>1. CASE conv[c].updatedAt < now - ArchiveAge
    <3>1. conv'[c] = [conv[c] EXCEPT !.active = FALSE]
      BY <1>1, <2>1 DEF Archived
    <3>2. DOMAIN conv[c] = Columns
      BY <1>2 DEF RowsAt
    <3>3. /\ DOMAIN [conv[c] EXCEPT !["active"] = FALSE] = Columns
          /\ [conv[c] EXCEPT !["active"] = FALSE]["active"] = FALSE
          /\ \A g \in Columns \ {"active"} : [conv[c] EXCEPT !["active"] = FALSE][g] = conv[c][g]
      BY <3>2, RowExcept DEF Columns
    <3>4. /\ DOMAIN conv'[c] = Columns /\ conv'[c].active = FALSE
          /\ conv'[c].there = conv[c].there /\ conv'[c].updatedAt = conv[c].updatedAt
      BY <3>1, <3>3 DEF Columns
    <3> QED
      BY <2>1, <3>4
  <2>2. CASE ~(conv[c].updatedAt < now - ArchiveAge)
    BY <1>1, <1>2, <2>2 DEF Archived, RowsAt
  <2> QED
    BY <2>1, <2>2
<1>4. DOMAIN conv' = Conversation /\ conv' = [c \in Conversation |-> conv'[c]]
  BY <1>1 DEF Archived
<1>5. RowsAt(conv', now)
  BY <1>2, <1>3, <1>4 DEF RowsAt
<1>6. job'.kind # "cycle"
  BY <1>1 DEF Idle
<1>7. DatedInv'
  BY <1>1, <1>3, <1>5, <1>6 DEF DatedInv, RowsAt
<1>8. ASSUME NEW c \in Conversation, conv[c].active, ~conv'[c].active
      PROVE  now - usedAt[c] > ArchiveAge
  <2>1. conv[c].updatedAt < now - ArchiveAge
    BY <1>3, <1>8
  <2>2. usedAt[c] <= conv[c].updatedAt /\ usedAt[c] \in Nat /\ conv[c].updatedAt \in Nat
    BY <1>2, <1>8 DEF DatedInv, RowsAt
  <2> QED
    BY <1>2, <2>1, <2>2
<1> QED
  BY <1>7, <1>8

(* A request that begins, or does not, writes nothing yet.                  *)
LEMMA ReceiveKeeps ==
  ASSUME DatedInv, NEW ip \in Client, Receive(ip)
  PROVE  DatedInv' /\ UNCHANGED conv
<1>1. /\ count' = count + 1 /\ UNCHANGED <<now, conv, usedAt>>
      /\ job' \in Requests
  BY DEF Receive
<1>2. count \in Nat
  BY DEF DatedInv
<1>3. job' \in Jobs /\ job'.step = "begin"
  BY <1>1, <1>2, EngineAssumption DEF Requests, Request, Jobs, Steps
<1> QED
  BY <1>1, <1>2, <1>3 DEF DatedInv, RowsAt

LEMMA TickKeeps ==
  ASSUME DatedInv, job = Idle, Tick, UNCHANGED engine
  PROVE  DatedInv' /\ UNCHANGED conv
<1>1. now' = now + 1 /\ UNCHANGED <<conv, count, job, usedAt>>
  BY DEF Tick, engine
<1>2. now \in Nat
  BY DEF DatedInv
<1>3. job'.kind # "cycle"
  BY <1>1 DEF Idle
<1>4. RowsAt(conv', now')
  BY <1>1, <1>2 DEF DatedInv, RowsAt
<1> QED
  BY <1>1, <1>2, <1>3, <1>4 DEF DatedInv

LEMMA NothingKeeps ==
  ASSUME DatedInv, UNCHANGED <<now, engine>>
  PROVE  DatedInv' /\ UNCHANGED conv
  BY DEF DatedInv, RowsAt, engine

LEMMA DatedStep ==
  ASSUME DatedInv, [Next]_vars
  PROVE  /\ DatedInv'
         /\ \A c \in Conversation :
              conv[c].active /\ ~conv'[c].active => now - usedAt[c] > ArchiveAge
<1>1. ASSUME NEW ip \in Client, Receive(ip) \/ Reject(ip) \/ TurnAway(ip)
      PROVE  DatedInv' /\ UNCHANGED conv
  BY <1>1, ReceiveKeeps, NothingKeeps DEF Reject, TurnAway
<1>2. CASE Clean /\ UNCHANGED engine
  BY <1>2, NothingKeeps DEF Clean
<1>3. CASE job = Idle /\ Tick /\ UNCHANGED engine
  BY <1>3, TickKeeps
<1>4. CASE UNCHANGED vars
  BY <1>4, NothingKeeps DEF vars, gateVars
<1> QED
  BY <1>1, <1>2, <1>3, <1>4, StatementKeeps, RestartArchives DEF Next, StaysActive

(* Whatever requests were handled, in whatever order and however often the  *)
(* process ended in the middle of them: its start archives no conversation  *)
(* that was used within ArchiveAge.                                         *)
THEOREM ConversationArchivedWasIdle == Spec => ArchivedWasIdle
<1>1. DatedInv /\ [Next]_vars =>
        [\A c \in Conversation :
           conv[c].active /\ ~conv'[c].active => now - usedAt[c] > ArchiveAge]_vars
  BY DatedStep
<1>2. DatedInv /\ [Next]_vars => DatedInv'
  BY DatedStep
<1> QED
  BY <1>1, <1>2, InitiallyDated, PTL DEF Spec, ArchivedWasIdle
-----------------------------------------------------------------------------
(* What is left of a sequence without its first k elements.                 *)
From(s, k) == SubSeq(s, k + 1, Len(s))

(* The gate.  For an address, its window, the requests let in, the end of   *)
(* its block and the time it was told to come back, at time t: the window   *)
(* is the tail of the requests, and what is missing from it is too old to   *)
(* count; and what is in it will be too old when the block ends.            *)
GateOf(w, s, b, u, t) ==
  /\ \A i \in DOMAIN s : s[i] <= t
  /\ \E k \in 0..Len(s) :
       /\ w = From(s, k)
       /\ \A i \in 1..k : s[i] < t - WindowMs
  /\ Len(w) <= MaxRequests
  /\ \A i \in DOMAIN s : Cardinality({j \in 1..i : s[j] >= s[i] - WindowMs}) <= MaxRequests
  /\ t < b => \A i \in DOMAIN w : w[i] + BlockDuration <= b
  /\ u # 0 => b <= u /\ \A i \in DOMAIN w : w[i] + BlockDuration <= u

GateInv ==
  /\ now \in Nat
  /\ window \in [Client -> Seq(Nat)] /\ served \in [Client -> Seq(Nat)]
  /\ blocked \in [Client -> Nat] /\ told \in [Client -> Nat]
  /\ \A ip \in Client : GateOf(window[ip], served[ip], blocked[ip], told[ip], now)

LEMMA GateNumbers ==
  /\ WindowMs \in Nat /\ MaxRequests \in Nat /\ BlockDuration \in Nat /\ Second \in Nat
  /\ MaxRequests > 0 /\ Second > 0 /\ BlockDuration > WindowMs
BY GateAssumption

(* What is shifted out of a window are the times at its head that are       *)
(* before the cutoff.                                                       *)
LEMMA ExpiredIs ==
  ASSUME NEW w \in Seq(Nat), NEW cutoff \in Int
  PROVE  /\ Expired(w, cutoff) \in 0..Len(w)
         /\ \A i \in 1..Expired(w, cutoff) : w[i] < cutoff
         /\ Expired(w, cutoff) < Len(w) => w[Expired(w, cutoff) + 1] >= cutoff
<1> DEFINE T == {n \in 0..Len(w) : n < Len(w) => w[n + 1] >= cutoff}
<1>1. Len(w) \in Nat /\ Len(w) \in T /\ T \in SUBSET Nat
  OBVIOUS
<1>2. PICK n \in T : \A m \in T : ~(m < n)
  BY <1>1, LeastNat
<1>3. ASSUME NEW i \in 1..n
      PROVE  w[i] < cutoff
  <2>1. i - 1 \in 0..Len(w) /\ i - 1 < n /\ i - 1 < Len(w) /\ (i - 1) + 1 = i /\ w[i] \in Nat
    BY <1>1
  <2>2. ~(w[i] >= cutoff)
    BY <1>2, <2>1
  <2> QED
    BY <2>1, <2>2
<1> QED
  BY <1>2, <1>3 DEF Expired

(* A window without what has expired.                                       *)
LEMMA RecentIs ==
  ASSUME GateInv, NEW ip \in Client
  PROVE  \E n \in 0..Len(window[ip]) :
           /\ Recent(ip) = From(window[ip], n)
           /\ \A i \in 1..n : window[ip][i] < now - WindowMs
           /\ n < Len(window[ip]) => window[ip][n + 1] >= now - WindowMs
<1>1. window[ip] \in Seq(Nat) /\ now - WindowMs \in Int
  BY GateNumbers DEF GateInv
<1> QED
  BY <1>1, ExpiredIs DEF Recent, From

(* A tail, and the tail of a tail.                                          *)
LEMMA FromIs ==
  ASSUME NEW s \in Seq(Nat), NEW k \in 0..Len(s)
  PROVE  /\ From(s, k) \in Seq(Nat) /\ Len(From(s, k)) = Len(s) - k
         /\ \A i \in 1..(Len(s) - k) : From(s, k)[i] = s[k + i]
  BY SubSeqProperties DEF From

LEMMA FromFrom ==
  ASSUME NEW s \in Seq(Nat), NEW k \in 0..Len(s), NEW n \in 0..(Len(s) - k)
  PROVE  k + n \in 0..Len(s) /\ From(From(s, k), n) = From(s, k + n)
<1> DEFINE w == From(s, k)
           v == From(w, n)
           u == From(s, k + n)
<1>1. Len(s) \in Nat /\ k + n \in 0..Len(s)
  OBVIOUS
<1>2. w \in Seq(Nat) /\ Len(w) = Len(s) - k /\ \A i \in 1..(Len(s) - k) : w[i] = s[k + i]
  BY FromIs
<1>3. u \in Seq(Nat) /\ Len(u) = Len(s) - (k + n)
      /\ \A i \in 1..(Len(s) - (k + n)) : u[i] = s[(k + n) + i]
  BY <1>1, FromIs
<1> HIDE DEF w, u
<1>4. v \in Seq(Nat) /\ Len(v) = Len(w) - n /\ \A i \in 1..(Len(w) - n) : v[i] = w[n + i]
  BY <1>2, FromIs
<1> HIDE DEF v
<1>5. Len(u) = Len(v)
  BY <1>1, <1>2, <1>3, <1>4
<1>7. ASSUME NEW i \in 1..Len(u)
      PROVE  u[i] = v[i]
  <2>1. i \in 1..(Len(s) - (k + n)) /\ i \in 1..(Len(w) - n) /\ n + i \in 1..(Len(s) - k)
        /\ (k + n) + i = k + (n + i)
    BY <1>1, <1>2, <1>3
  <2> QED
    BY <1>2, <1>3, <1>4, <2>1
<1>6. u = v
  BY <1>3, <1>4, <1>5, <1>7, SeqEqual
<1> QED
  BY <1>1, <1>6 DEF u, v, w

(* Time goes by.                                                            *)
LEMMA GateAges ==
  ASSUME NEW w \in Seq(Nat), NEW s \in Seq(Nat), NEW b \in Nat, NEW u \in Nat,
         NEW t \in Nat, NEW v \in Nat, t <= v, GateOf(w, s, b, u, t)
  PROVE  GateOf(w, s, b, u, v)
<1>1. \A i \in DOMAIN s : s[i] \in Nat /\ s[i] <= v
  BY DEF GateOf
<1>2. PICK k \in 0..Len(s) : w = From(s, k) /\ \A i \in 1..k : s[i] < t - WindowMs
  BY DEF GateOf
<1>3. \A i \in 1..k : s[i] < v - WindowMs
  BY <1>1, <1>2, GateNumbers
<1>4. v < b => t < b
  OBVIOUS
<1> QED
  BY <1>1, <1>2, <1>3, <1>4 DEF GateOf

(* What has expired is shifted out of the window.                           *)
LEMMA GateShifts ==
  ASSUME NEW w \in Seq(Nat), NEW s \in Seq(Nat), NEW b \in Nat, NEW u \in Nat,
         NEW t \in Nat, GateOf(w, s, b, u, t),
         NEW n \in 0..Len(w), \A i \in 1..n : w[i] < t - WindowMs,
         NEW v, v = From(w, n)
  PROVE  GateOf(v, s, b, u, t) /\ v \in Seq(Nat)
<1>1. PICK k \in 0..Len(s) : w = From(s, k) /\ \A i \in 1..k : s[i] < t - WindowMs
  BY DEF GateOf
<1>2. /\ w \in Seq(Nat) /\ Len(w) = Len(s) - k /\ Len(s) \in Nat /\ Len(w) \in Nat
      /\ \A i \in 1..Len(w) : w[i] = s[k + i]
  <2>1. /\ From(s, k) \in Seq(Nat) /\ Len(From(s, k)) = Len(s) - k
        /\ \A i \in 1..(Len(s) - k) : From(s, k)[i] = s[k + i]
    BY FromIs
  <2>2. Len(s) \in Nat /\ w = From(s, k)
    BY <1>1
  <2>3. w \in Seq(Nat) /\ Len(w) = Len(s) - k /\ Len(w) \in Nat
    BY <2>1, <2>2
  <2> QED
    BY <2>1, <2>2, <2>3
<1>8. /\ v \in Seq(Nat) /\ Len(v) = Len(w) - n
      /\ \A i \in 1..(Len(w) - n) : v[i] = w[n + i]
      /\ k + n \in 0..Len(s) /\ v = From(s, k + n)
  BY <1>1, <1>2, FromIs, FromFrom
<1>3. ASSUME NEW i \in 1..(k + n)
      PROVE  s[i] < t - WindowMs
  <2>1. CASE i <= k
    BY <1>1, <2>1
  <2>2. CASE i > k
    <3>1. i - k \in 1..n /\ i - k \in 1..Len(w) /\ k + (i - k) = i
      BY <2>2
    <3> QED
      BY <1>2, <1>8, <3>1
  <2> QED
    BY <2>1, <2>2
<1>4. Len(v) <= MaxRequests
  BY <1>2, <1>8, GateNumbers DEF GateOf
<1>5. ASSUME NEW i \in DOMAIN v
      PROVE  n + i \in DOMAIN w /\ v[i] = w[n + i]
  <2>1. DOMAIN v = 1..Len(v) /\ DOMAIN w = 1..Len(w) /\ Len(w) \in Nat
    BY <1>2, <1>8, LenProperties
  <2>2. i \in 1..(Len(w) - n)
    BY <1>2, <1>8, <2>1
  <2>3. n + i \in 1..Len(w)
    BY <2>1, <2>2, GateNumbers
  <2> QED
    BY <1>2, <1>8, <2>1, <2>2, <2>3
<1>6. ASSUME NEW z \in Nat, \A i \in DOMAIN w : w[i] + BlockDuration <= z
      PROVE  \A i \in DOMAIN v : v[i] + BlockDuration <= z
  BY <1>5, <1>6
<1>7. \E m \in 0..Len(s) : v = From(s, m) /\ \A i \in 1..m : s[i] < t - WindowMs
  BY <1>2, <1>8, <1>3
<1> QED
  BY <1>2, <1>8, <1>4, <1>6, <1>7 DEF GateOf

(* The window holds requests that were let in.                              *)
LEMMA HeldIsPast ==
  ASSUME NEW w \in Seq(Nat), NEW s \in Seq(Nat), NEW b, NEW u, NEW t \in Nat, GateOf(w, s, b, u, t)
  PROVE  \A i \in DOMAIN w : w[i] \in Nat /\ w[i] <= t
<1>1. PICK k \in 0..Len(s) : w = From(s, k)
  BY DEF GateOf
<1>2. Len(w) = Len(s) - k /\ \A i \in 1..(Len(s) - k) : w[i] = s[k + i]
  BY <1>1, FromIs
<1>3. ASSUME NEW i \in DOMAIN w
      PROVE  w[i] <= t
  <2>1. i \in 1..(Len(s) - k) /\ k + i \in DOMAIN s
    BY <1>2, SMTT(30)
  <2> QED
    BY <1>2, <2>1 DEF GateOf
<1> QED
  BY <1>3

(* Another request is let in at time t, when fewer than the limit are left  *)
(* of those that count.                                                     *)
LEMMA GateLetsIn ==
  ASSUME NEW w \in Seq(Nat), NEW s \in Seq(Nat), NEW b \in Nat, NEW u \in Nat,
         NEW t \in Nat, GateOf(w, s, b, u, t), Len(w) < MaxRequests,
         NEW v, v = Append(w, t), NEW q, q = Append(s, t)
  PROVE  GateOf(v, q, 0, 0, t)
<1>1. PICK k \in 0..Len(s) : w = From(s, k) /\ \A i \in 1..k : s[i] < t - WindowMs
  BY DEF GateOf
<1>2. Len(s) \in Nat /\ Len(w) = Len(s) - k /\ \A i \in 1..Len(w) : w[i] = s[k + i]
  <2>1. /\ Len(From(s, k)) = Len(s) - k
        /\ \A i \in 1..(Len(s) - k) : From(s, k)[i] = s[k + i]
    BY FromIs
  <2>2. Len(s) \in Nat /\ w = From(s, k)
    BY <1>1
  <2> QED
    BY <2>1, <2>2
<1>3. /\ q \in Seq(Nat) /\ Len(q) = Len(s) + 1 /\ q[Len(s) + 1] = t
      /\ \A i \in 1..Len(s) : q[i] = s[i]
      /\ v \in Seq(Nat) /\ Len(v) = Len(w) + 1 /\ v[Len(w) + 1] = t
      /\ \A i \in 1..Len(w) : v[i] = w[i]
  BY <1>2, AppendProperties
<1>4. \A i \in DOMAIN q : q[i] <= t
  BY <1>2, <1>3 DEF GateOf
<1>5. v = From(q, k) /\ \A i \in 1..k : q[i] < t - WindowMs
  <2> DEFINE x == From(q, k)
  <2>1. x \in Seq(Nat) /\ Len(x) = Len(q) - k /\ \A i \in 1..(Len(q) - k) : x[i] = q[k + i]
    <3>1. q \in Seq(Nat) /\ k \in 0..Len(q)
      BY <1>2, <1>3
    <3> QED
      BY <3>1, FromIs
  <2>2. Len(x) = Len(v)
    BY <1>2, <1>3, <2>1
  <2>3. ASSUME NEW i \in 1..Len(v)
        PROVE  v[i] = x[i]
    <3>1. CASE i <= Len(w)
      <4>1. i \in 1..Len(w) /\ k + i \in 1..Len(s) /\ i \in 1..(Len(q) - k)
        BY <1>2, <1>3, <3>1
      <4> QED
        BY <1>2, <1>3, <2>1, <4>1
    <3>2. CASE i = Len(w) + 1
      <4>1. i = Len(s) - k + 1 /\ k + i = Len(s) + 1 /\ i \in 1..(Len(q) - k)
        BY <1>2, <1>3, <3>2
      <4> QED
        BY <1>3, <2>1, <3>2, <4>1
    <3>3. i <= Len(w) \/ i = Len(w) + 1
      BY <1>2, <1>3
    <3> QED
      BY <3>1, <3>2, <3>3, Zenon
  <2> HIDE DEF x
  <2>4. v = x
    BY <1>3, <2>1, <2>2, <2>3, SeqEqual
  <2>5. \A i \in 1..k : q[i] = s[i]
    BY <1>2, <1>3
  <2> QED
    BY <1>1, <2>4, <2>5 DEF x
<1>6. Len(v) <= MaxRequests
  BY <1>2, <1>3, GateNumbers
<1>7. ASSUME NEW i \in DOMAIN q
      PROVE  Cardinality({j \in 1..i : q[j] >= q[i] - WindowMs}) <= MaxRequests
  <2>1. CASE i <= Len(s)
    <3>1. i \in DOMAIN s /\ q[i] = s[i] /\ \A j \in 1..i : q[j] = s[j]
      BY <1>2, <1>3, <2>1
    <3>2. {j \in 1..i : q[j] >= q[i] - WindowMs} = {j \in 1..i : s[j] >= s[i] - WindowMs}
      BY <3>1
    <3> QED
      BY <3>1, <3>2 DEF GateOf
  <2>2. CASE i = Len(s) + 1
    <3> DEFINE Count == {j \in 1..i : q[j] >= q[i] - WindowMs}
    <3>1. q[i] = t
      BY <1>3, <2>2
    <3>2. ASSUME NEW j \in Count
          PROVE  j \in (k + 1)..i
      <4>1. j \in 1..i /\ q[j] >= t - WindowMs
        BY <3>1
      <4>2. ~(j \in 1..k)
        <5> SUFFICES ASSUME j \in 1..k
                     PROVE  FALSE
          OBVIOUS
        <5>1. q[j] < t - WindowMs
          BY <1>5
        <5>2. q[j] = s[j] /\ s[j] \in Nat
          BY <1>2, <1>3, SMTT(30)
        <5> QED
          BY <4>1, <5>1, <5>2, GateNumbers
      <4> QED
        BY <4>1, <4>2
    <3>3. IsFiniteSet((k + 1)..i) /\ Cardinality((k + 1)..i) = Len(v)
      <4>1. k + 1 \in Int /\ i \in Int /\ k + 1 <= i /\ i - (k + 1) + 1 = Len(v)
        BY <1>2, <1>3, <2>2
      <4> QED
        BY <4>1, FS_Interval
    <3>4. Count \subseteq (k + 1)..i
      BY <3>2
    <3>5. IsFiniteSet(Count) /\ Cardinality(Count) <= Cardinality((k + 1)..i) /\ Cardinality(Count) \in Nat
      BY <3>3, <3>4, FS_Subset, FS_CardinalityType
    <3> HIDE DEF Count
    <3>6. Cardinality(Count) <= MaxRequests
      BY <1>3, <1>6, <3>3, <3>5, GateNumbers
    <3> QED
      BY <3>6 DEF Count
  <2>3. i <= Len(s) \/ i = Len(s) + 1
    BY <1>2, <1>3, LenProperties
  <2> QED
    BY <2>1, <2>2, <2>3, Zenon
<1>8. \E m \in 0..Len(q) : v = From(q, m) /\ \A i \in 1..m : q[i] < t - WindowMs
  <2>1. k \in 0..Len(q)
    BY <1>2, <1>3
  <2> QED
    BY <1>5, <2>1
<1>9. ~(t < 0)
  OBVIOUS
<1> QED
  BY <1>4, <1>6, <1>7, <1>8, <1>9 DEF GateOf

(* A refused request is told a time that is not too early.                  *)
LEMMA RoundedUp ==
  ASSUME NEW x \in Nat, NEW d \in Nat, d > 0
  PROVE  d * ((x + d - 1) \div d) \in Nat /\ d * ((x + d - 1) \div d) >= x
<1> DEFINE y == x + d - 1
<1>1. y \in Nat
  OBVIOUS
<1> HIDE DEF y
<1>2. y \div d \in Nat /\ d * (y \div d) > y - d
  BY <1>1
<1>3. d * (y \div d) \in Nat
  BY <1>2
<1>4. y = x + d - 1
  BY DEF y
<1>5. d * (y \div d) >= x
  BY <1>2, <1>3, <1>4
<1> QED
  BY <1>3, <1>5 DEF y

LEMMA ToldInTime ==
  ASSUME GateInv, NEW ip \in Client, NEW wait \in Nat, ComeBackAfter(ip, wait)
  PROVE  /\ told' \in [Client -> Nat] /\ told'[ip] >= now + wait
         /\ \A d \in Client \ {ip} : told'[d] = told[d]
<1> DEFINE rounded == Second * ((wait + Second - 1) \div Second)
<1>1. rounded \in Nat /\ rounded >= wait
  BY RoundedUp, GateNumbers
<1>2. told' = [told EXCEPT ![ip] = now + rounded]
  BY DEF ComeBackAfter
<1> HIDE DEF rounded
<1>3. now \in Nat /\ told \in [Client -> Nat]
  BY DEF GateInv
<1> QED
  BY <1>1, <1>2, <1>3

(* The steps of the gate.                                                   *)
LEMMA InitiallyGated ==
  ASSUME NEW ip \in Client, NEW t \in Nat
  PROVE  GateOf(<<>>, <<>>, 0, 0, t)
<1>1. <<>> \in Seq(Nat) /\ Len(<<>>) = 0 /\ DOMAIN <<>> = {}
  BY EmptySeq
<1>2. From(<<>>, 0) = <<>>
  <2>1. 0 \in 0..Len(<<>>)
    BY <1>1
  <2>2. PICK s \in Seq(Nat) : s = <<>> /\ Len(s) = 0
    BY <1>1
  <2>3. 0 \in 0..Len(s) /\ Len(s) - 0 = 0
    BY <2>2
  <2>4. From(s, 0) \in Seq(Nat) /\ Len(From(s, 0)) = Len(s) - 0
    BY <2>3, FromIs
  <2> QED
    BY <2>2, <2>3, <2>4, EmptySeq
<1>3. \E k \in 0..Len(<<>>) : <<>> = From(<<>>, k) /\ \A i \in 1..k : <<>>[i] < t - WindowMs
  <2>1. 0 \in 0..Len(<<>>) /\ \A i \in 1..0 : <<>>[i] < t - WindowMs
    BY <1>1
  <2> QED
    BY <1>2, <2>1
<1>4. ~(t < 0) /\ Len(<<>>) <= MaxRequests
  BY <1>1, GateNumbers
<1> QED
  BY <1>1, <1>3, <1>4 DEF GateOf

LEMMA ForgottenIsGated ==
  ASSUME now' \in Nat,
         window' = [ip \in Client |-> <<>>], blocked' = [ip \in Client |-> 0],
         served' = [ip \in Client |-> <<>>], told' = [ip \in Client |-> 0]
  PROVE  GateInv'
<1>1. <<>> \in Seq(Nat) /\ 0 \in Nat
  BY EmptySeq
<1>2. \A ip \in Client : GateOf(<<>>, <<>>, 0, 0, now')
  BY InitiallyGated
<1> QED
  BY <1>1, <1>2 DEF GateInv

LEMMA RefuseBlockedKeepsGate ==
  ASSUME GateInv, NEW ip \in Client, RefuseBlocked(ip), now' = now
  PROVE  GateInv'
<1>1. now \in Nat /\ blocked[ip] \in Nat /\ now < blocked[ip] /\ blocked[ip] - now \in Nat
      /\ UNCHANGED <<window, blocked, served>>
  BY DEF GateInv, RefuseBlocked, Blocked
<1>2. /\ told' \in [Client -> Nat] /\ told'[ip] >= now + (blocked[ip] - now)
      /\ \A d \in Client \ {ip} : told'[d] = told[d]
  BY <1>1, ToldInTime DEF RefuseBlocked
<1>3. ASSUME NEW d \in Client
      PROVE  GateOf(window[d], served[d], blocked[d], told'[d], now)
  <2>1. GateOf(window[d], served[d], blocked[d], told[d], now)
    BY DEF GateInv
  <2>2. CASE d = ip
    <3>1. told'[d] \in Nat /\ told'[d] >= blocked[d] /\ window[d] \in Seq(Nat)
      BY <1>1, <1>2, <2>2 DEF GateInv
    <3>2. \A i \in DOMAIN window[d] : window[d][i] \in Nat /\ window[d][i] + BlockDuration <= blocked[d]
      BY <1>1, <2>1, <2>2, <3>1 DEF GateOf
    <3>3. \A i \in DOMAIN window[d] : window[d][i] + BlockDuration <= told'[d]
      BY <1>1, <2>2, <3>1, <3>2, GateNumbers, SMTT(30)
    <3> QED
      BY <1>1, <2>1, <2>2, <3>1, <3>3 DEF GateOf
  <2>3. CASE d # ip
    BY <1>2, <2>1, <2>3
  <2> QED
    BY <2>2, <2>3
<1> QED
  BY <1>1, <1>2, <1>3 DEF GateInv

LEMMA RefuseFullKeepsGate ==
  ASSUME GateInv, NEW ip \in Client, RefuseFull(ip), now' = now
  PROVE  GateInv'
<1> DEFINE w == Recent(ip)
<1>1. /\ window' = [window EXCEPT ![ip] = w]
      /\ blocked' = [blocked EXCEPT ![ip] = now + BlockDuration]
      /\ UNCHANGED served
  BY DEF RefuseFull
<1>2. now \in Nat /\ BlockDuration \in Nat
      /\ window \in [Client -> Seq(Nat)] /\ served \in [Client -> Seq(Nat)]
      /\ blocked \in [Client -> Nat] /\ told \in [Client -> Nat]
  BY GateNumbers DEF GateInv
<1>3. /\ told' \in [Client -> Nat] /\ told'[ip] >= now + BlockDuration
      /\ \A d \in Client \ {ip} : told'[d] = told[d]
  BY <1>2, ToldInTime DEF RefuseFull
<1>4. GateOf(w, served[ip], blocked[ip], told[ip], now) /\ w \in Seq(Nat)
  BY <1>2, RecentIs, GateShifts DEF GateInv
<1> HIDE DEF w
<1>5. \A i \in DOMAIN w : w[i] \in Nat /\ w[i] <= now
  BY <1>2, <1>4, HeldIsPast
<1>6. ASSUME NEW d \in Client
      PROVE  GateOf(window'[d], served[d], blocked'[d], told'[d], now)
  <2>1. GateOf(window[d], served[d], blocked[d], told[d], now)
    BY DEF GateInv
  <2>2. CASE d = ip
    <3>1. window'[d] = w /\ blocked'[d] = now + BlockDuration /\ told'[d] \in Nat
      BY <1>1, <1>2, <1>3, <2>2
    <3>2. \A i \in DOMAIN w : w[i] + BlockDuration <= now + BlockDuration /\ w[i] + BlockDuration <= told'[ip]
      BY <1>2, <1>3, <1>5
    <3> QED
      BY <1>3, <1>4, <2>2, <3>1, <3>2 DEF GateOf
  <2>3. CASE d # ip
    BY <1>1, <1>2, <1>3, <2>1, <2>3
  <2> QED
    BY <2>2, <2>3
<1>7. window' \in [Client -> Seq(Nat)] /\ blocked' \in [Client -> Nat]
  BY <1>1, <1>2, <1>4
<1> QED
  BY <1>1, <1>2, <1>3, <1>6, <1>7 DEF GateInv

LEMMA LetInKeepsGate ==
  ASSUME GateInv, NEW ip \in Client, LetIn(ip), now' = now
  PROVE  GateInv'
<1> DEFINE w == Recent(ip)
<1>1. /\ window' = [window EXCEPT ![ip] = Append(w, now)] /\ blocked' = [blocked EXCEPT ![ip] = 0]
      /\ served' = [served EXCEPT ![ip] = Append(served[ip], now)] /\ told' = [told EXCEPT ![ip] = 0]
      /\ ~(Len(w) >= MaxRequests)
  BY DEF LetIn, Full
<1>2. now \in Nat
      /\ window \in [Client -> Seq(Nat)] /\ served \in [Client -> Seq(Nat)]
      /\ blocked \in [Client -> Nat] /\ told \in [Client -> Nat]
  BY DEF GateInv
<1>3. GateOf(w, served[ip], blocked[ip], told[ip], now) /\ w \in Seq(Nat)
  BY <1>2, RecentIs, GateShifts DEF GateInv
<1> HIDE DEF w
<1>4. Len(w) < MaxRequests
  BY <1>1, <1>3, GateNumbers
<1>5. GateOf(Append(w, now), Append(served[ip], now), 0, 0, now)
  BY <1>2, <1>3, <1>4, GateLetsIn
<1>6. Append(w, now) \in Seq(Nat) /\ Append(served[ip], now) \in Seq(Nat) /\ 0 \in Nat
  BY <1>2, <1>3, AppendProperties
<1>7. /\ window' \in [Client -> Seq(Nat)] /\ served' \in [Client -> Seq(Nat)]
      /\ blocked' \in [Client -> Nat] /\ told' \in [Client -> Nat]
  BY <1>1, <1>2, <1>6
<1>8. ASSUME NEW d \in Client
      PROVE  GateOf(window'[d], served'[d], blocked'[d], told'[d], now)
  <2>1. GateOf(window[d], served[d], blocked[d], told[d], now)
    BY DEF GateInv
  <2>2. CASE d = ip
    BY <1>1, <1>2, <1>5, <2>2
  <2>3. CASE d # ip
    BY <1>1, <1>2, <2>1, <2>3
  <2> QED
    BY <2>2, <2>3
<1> QED
  BY <1>2, <1>7, <1>8 DEF GateInv

LEMMA CleanKeepsGate ==
  ASSUME GateInv, Clean
  PROVE  GateInv'
<1>1. /\ window' = [ip \in Client |-> Recent(ip)]
      /\ blocked' = [ip \in Client |-> IF Blocked(ip) THEN blocked[ip] ELSE 0]
      /\ UNCHANGED <<now, served, told>>
  BY DEF Clean
<1>2. now \in Nat
      /\ window \in [Client -> Seq(Nat)] /\ served \in [Client -> Seq(Nat)]
      /\ blocked \in [Client -> Nat] /\ told \in [Client -> Nat]
  BY DEF GateInv
<1>3. ASSUME NEW d \in Client
      PROVE  /\ Recent(d) \in Seq(Nat)
             /\ GateOf(Recent(d), served[d], IF Blocked(d) THEN blocked[d] ELSE 0, told[d], now)
  <2>1. GateOf(Recent(d), served[d], blocked[d], told[d], now) /\ Recent(d) \in Seq(Nat)
    BY <1>2, RecentIs, GateShifts DEF GateInv
  <2>2. ASSUME told[d] # 0
        PROVE  0 <= told[d]
    BY <1>2
  <2>3. ~(now < 0)
    BY <1>2
  <2>4. CASE ~Blocked(d)
    BY <2>1, <2>2, <2>3, <2>4 DEF GateOf
  <2> QED
    BY <2>1, <2>4
<1>4. window' \in [Client -> Seq(Nat)] /\ blocked' \in [Client -> Nat]
  BY <1>1, <1>2, <1>3
<1> QED
  BY <1>1, <1>2, <1>3, <1>4 DEF GateInv

LEMMA TickKeepsGate ==
  ASSUME GateInv, Tick
  PROVE  GateInv'
<1>1. now' = now + 1 /\ UNCHANGED <<window, blocked, served, told>>
  BY DEF Tick, gate
<1>2. /\ now \in Nat /\ now' \in Nat /\ now <= now'
      /\ window \in [Client -> Seq(Nat)] /\ served \in [Client -> Seq(Nat)]
      /\ blocked \in [Client -> Nat] /\ told \in [Client -> Nat]
  BY <1>1 DEF GateInv
<1>3. ASSUME NEW d \in Client
      PROVE  GateOf(window[d], served[d], blocked[d], told[d], now')
  BY <1>2, GateAges DEF GateInv
<1> QED
  BY <1>1, <1>2, <1>3 DEF GateInv

LEMMA GateStep ==
  ASSUME GateInv, [Next]_vars
  PROVE  GateInv'
<1>1. ASSUME NEW ip \in Client, Receive(ip) \/ Reject(ip)
      PROVE  GateInv'
  BY <1>1, LetInKeepsGate DEF Receive, Reject
<1>2. ASSUME NEW ip \in Client, TurnAway(ip)
      PROVE  GateInv'
  BY <1>2, RefuseBlockedKeepsGate, RefuseFullKeepsGate DEF TurnAway, Refuse
<1>3. CASE Restart
  <2>1. now' \in Nat
    BY <1>3 DEF Restart, GateInv
  <2> QED
    BY <1>3, <2>1, ForgottenIsGated DEF Restart, GateForgets
<1>4. ASSUME UNCHANGED gateVars
      PROVE  GateInv'
  BY <1>4 DEF gateVars, gate, GateInv
<1> QED
  BY <1>1, <1>2, <1>3, <1>4, CleanKeepsGate, TickKeepsGate DEF Next, Statement, vars

LEMMA GateInvariant == Spec => []GateInv
<1>1. Init => GateInv
  <2> SUFFICES ASSUME Init
               PROVE  GateInv
    OBVIOUS
  <2>1. <<>> \in Seq(Nat) /\ 0 \in Nat
    BY EmptySeq
  <2>2. \A ip \in Client : GateOf(<<>>, <<>>, 0, 0, 0)
    BY InitiallyGated
  <2> QED
    BY <2>1, <2>2 DEF Init, GateInit, GateInv
<1>2. GateInv /\ [Next]_vars => GateInv'
  BY GateStep
<1> QED
  BY <1>1, <1>2, PTL DEF Spec

(* Whenever the clean-up timer fires and however blocks begin and end: for  *)
(* every limit and window, no address has more requests let in within a     *)
(* window than the limit.                                                   *)
THEOREM GateRateKept == Spec => []RateKept
<1>1. GateInv => RateKept
  BY DEF GateInv, GateOf, RateKept
<1> QED
  BY <1>1, GateInvariant, PTL

(* For every limit, window and longer block: an address that comes back     *)
(* when it was told to is let in, because by then whatever was in its       *)
(* window when it was blocked is too old to count.                          *)
THEOREM GateRetryHonoured == Spec => []RetryHonoured
<1>1. Spec => []GateInv
  BY GateInvariant
<1>2. GateInv => RetryHonoured
  <2> SUFFICES ASSUME GateInv, NEW ip \in Client, told[ip] # 0, now >= told[ip]
               PROVE  ~Blocked(ip) /\ ~Full(ip)
    BY DEF RetryHonoured
  <2>1. /\ now \in Nat /\ window[ip] \in Seq(Nat) /\ blocked[ip] \in Nat /\ told[ip] \in Nat
        /\ blocked[ip] <= told[ip]
        /\ \A i \in DOMAIN window[ip] : window[ip][i] + BlockDuration <= told[ip]
    BY DEF GateInv, GateOf
  <2>2. ~Blocked(ip)
    BY <2>1 DEF Blocked
  <2>3. PICK n \in 0..Len(window[ip]) :
          /\ Recent(ip) = From(window[ip], n)
          /\ n < Len(window[ip]) => window[ip][n + 1] >= now - WindowMs
    BY RecentIs
  <2>4. ~(n < Len(window[ip]))
    <3> SUFFICES ASSUME n < Len(window[ip])
                 PROVE  FALSE
      OBVIOUS
    <3>1. n + 1 \in DOMAIN window[ip] /\ window[ip][n + 1] \in Nat
      BY <2>1
    <3>2. window[ip][n + 1] + BlockDuration <= told[ip] /\ window[ip][n + 1] >= now - WindowMs
      BY <2>1, <2>3, <3>1
    <3> QED
      BY <2>1, <3>1, <3>2, GateNumbers
  <2>5. Len(window[ip]) \in Nat /\ n = Len(window[ip])
    BY <2>1, <2>4
  <2>6. Len(From(window[ip], n)) = Len(window[ip]) - n
    BY <2>1, FromIs
  <2>7. ~Full(ip)
    BY <2>3, <2>5, <2>6, GateNumbers DEF Full
  <2> QED
    BY <2>2, <2>7
<1> QED
  BY <1>1, <1>2, PTL

-----------------------------------------------------------------------------
(* What is kept.                                                            *)

Messages == [conv : Conversation, no : Nat, left : Nat, tokens : Nat, form : {"text", "list"}]

Busy == job.kind # "idle"

(* Nothing is kept in a row that is not there.                              *)
NoRowNothing ==
  \A c \in Conversation : ~conv[c].there => conv[c].tokens = 0 /\ conv[c].failovers = <<>>

(* The numbers of requests: the one being handled is the last that came.    *)
NumberInv ==
  /\ NoRowNothing
  /\ acked \in SUBSET Jobs /\ IsFiniteSet(acked)
  /\ \A r \in acked : r.no <= count /\ (Busy => r.no # job.no)
  /\ Busy => /\ job.no = count /\ job.todo <= job.size
             /\ job.kind # "cycle" => job.tokens = 0

(* How many messages a cycle has stored.                                    *)
Inserted ==
  IF job.step = "begin" THEN job.size - job.todo
  ELSE IF job.step = "touch" THEN (job.size - job.todo) + 1
  ELSE job.size + 1

(* From i to k, and nowhere else, a history has messages of a request of    *)
(* some size, beginning with the first.                                     *)
Block(h, no, size, i, k) ==
  \A j \in DOMAIN h : IF j \in i..k THEN h[j].no = no /\ h[j].left = i + size - j ELSE h[j].no # no

Stored(h, no, size) ==
  \E i \in DOMAIN h : i + size \in DOMAIN h /\ Block(h, no, size, i, i + size)

Storing(h, no, size, n) == n <= Len(h) /\ Block(h, no, size, Len(h) - n + 1, Len(h))

HistoryInv ==
  /\ message \in Seq(Messages)
  /\ \A c \in Conversation : \A j \in DOMAIN History(c) : History(c)[j].no <= count
  /\ \A r \in acked : r.kind = "cycle" => Stored(History(r.conv), r.no, r.size)
  /\ job.kind = "cycle" => Storing(History(job.conv), job.no, job.size, Inserted)

(* The events of a conversation: of different requests, and the            *)
(* acknowledged ones among them.                                            *)
EventsOf(c) ==
  /\ conv[c].failovers \in Seq(Nat)
  /\ \A i \in DOMAIN conv[c].failovers :
       /\ conv[c].failovers[i] <= count
       /\ Busy => conv[c].failovers[i] # job.no
       /\ \A k \in DOMAIN conv[c].failovers :
            conv[c].failovers[i] = conv[c].failovers[k] => i = k

HasEvent(r) == \E i \in DOMAIN conv[r.conv].failovers : conv[r.conv].failovers[i] = r.no

EventsInv ==
  /\ \A c \in Conversation : EventsOf(c)
  /\ \A r \in acked :
       /\ r.kind \in {"open", "cycle"} => conv[r.conv].there
       /\ r.kind = "failover" /\ KnownBefore(r) => HasEvent(r)

TokensOf == [r \in Jobs |-> r.tokens]
AckedTokens(c) == SumFunctionOnSet(TokensOf, {r \in acked : r.conv = c})

StoredIn(h) == SumFunctionOnSet([i \in DOMAIN h |-> h[i].tokens], DOMAIN h)

(* The tokens of the cycle being handled: counted and not acknowledged, or  *)
(* stored and not counted.                                                  *)
Counted(c) ==
  IF job.kind = "cycle" /\ job.conv = c /\ job.step = "compress" THEN job.tokens ELSE 0
Uncounted(c) ==
  IF job.kind = "cycle" /\ job.conv = c /\ (job.step = "usage" \/ (job.step = "touch" /\ job.todo = 0))
  THEN job.tokens ELSE 0

Account(c) ==
  /\ conv[c].tokens \in Nat
  /\ AckedTokens(c) + Counted(c) <= conv[c].tokens
  /\ conv[c].tokens + Uncounted(c) <= StoredIn(History(c))

AccountsInv == \A c \in Conversation : Account(c)

(* What a step does to what is kept: a row stays but for its dates.         *)
Stays(c) ==
  /\ conv'[c].tokens = conv[c].tokens /\ conv'[c].failovers = conv[c].failovers
  /\ conv[c].there => conv'[c].there

OthersStay == \A d \in Conversation : d # job.conv => Stays(d)

RowsStay == \A d \in Conversation : Stays(d)

(* The request being handled goes on.                                       *)
Goes(kind, step) ==
  /\ job \in Jobs /\ job' \in Jobs
  /\ \A f \in {"kind", "conv", "no", "size", "tokens"} : job'[f] = job[f]
  /\ job.kind = kind /\ job.step = step
  /\ UNCHANGED <<acked, count>>

(* It ends with success.                                                    *)
Ends(kind, step) ==
  /\ job \in Jobs /\ job.kind = kind /\ job.step = step
  /\ acked' = acked \cup {job} /\ job' = Idle /\ UNCHANGED <<message, count>>

(* Nothing is written, and a request may be given up.                       *)
Quiet ==
  /\ UNCHANGED <<message, acked, count>> /\ RowsStay
  /\ job' = job \/ job' = Idle

Received ==
  /\ UNCHANGED <<message, acked>> /\ RowsStay
  /\ job = Idle /\ count' = count + 1
  /\ job' \in Jobs /\ job'.no = count' /\ job'.todo = job'.size /\ job'.step = "begin"
  /\ job'.kind # "cycle" => job'.tokens = 0

Opened ==
  /\ \E s \in Steps : Ends("open", s)
  /\ RowsStay /\ conv'[job.conv].there

ProviderSet == Goes("failover", "begin") /\ RowsStay /\ UNCHANGED message /\ job'.todo = job.todo

EventSet ==
  /\ Ends("failover", "event")
  /\ OthersStay
  /\ conv'[job.conv].tokens = conv[job.conv].tokens
  /\ IF conv[job.conv].there
     THEN /\ conv'[job.conv].there
          /\ conv'[job.conv].failovers = Append(conv[job.conv].failovers, job.no)
     ELSE conv'[job.conv].failovers = conv[job.conv].failovers

Added ==
  /\ Goes("cycle", "begin") /\ job'.step = "touch" /\ job'.todo = job.todo
  /\ RowsStay /\ conv[job.conv].there
  /\ message' = Append(message, [conv |-> job.conv, no |-> job.no, left |-> job.todo,
                                 tokens |-> IF job.todo = 0 THEN job.tokens ELSE 0,
                                 form |-> IF job.todo \in job.lists THEN "list" ELSE "text"])

Touched ==
  /\ Goes("cycle", "touch") /\ RowsStay /\ UNCHANGED message
  /\ \/ job.todo > 0 /\ job'.todo = job.todo - 1 /\ job'.step = "begin"
     \/ /\ job.todo = 0 /\ job'.todo = 0
        /\ job'.step = IF job.tokens > 0 THEN "usage" ELSE "compress"

Used ==
  /\ Goes("cycle", "usage") /\ job'.step = "compress" /\ job'.todo = job.todo
  /\ OthersStay /\ UNCHANGED message
  /\ conv[job.conv].there /\ conv'[job.conv].there
  /\ conv'[job.conv].tokens = conv[job.conv].tokens + job.tokens
  /\ conv'[job.conv].failovers = conv[job.conv].failovers

Compressed ==
  /\ Ends("cycle", "compress")
  /\ RowsStay /\ conv'[job.conv].there

(* An UPDATE of one column.                                                 *)
LEMMA UpdateColumn ==
  ASSUME DatedInv, NEW c \in Conversation,
         NEW f \in {"active", "tokens", "failovers", "compressed"}, NEW v,
         Update(c, [conv[c] EXCEPT ![f] = v])
  PROVE  /\ \A d \in Conversation : d # c => Stays(d)
         /\ conv'[c].there = conv[c].there
         /\ f # "tokens" \/ ~conv[c].there => conv'[c].tokens = conv[c].tokens
         /\ f # "failovers" \/ ~conv[c].there => conv'[c].failovers = conv[c].failovers
         /\ conv[c].there => conv'[c][f] = v
<1> DEFINE row == [conv[c] EXCEPT ![f] = v]
           new == [row EXCEPT !.updatedAt = now]
<1>1. DOMAIN conv = Conversation /\ DOMAIN conv[c] = Columns /\ f \in Columns
  BY DEF DatedInv, RowsAt, Columns
<1>2. DOMAIN row = Columns /\ row[f] = v /\ \A g \in Columns \ {f} : row[g] = conv[c][g]
  BY <1>1, RowExcept
<1> HIDE DEF row
<1>3. \A g \in Columns \ {"updatedAt"} : new[g] = row[g]
  BY <1>2, RowExcept DEF Columns
<1>4. conv' = IF conv[c].there THEN [conv EXCEPT ![c] = new] ELSE conv
  BY DEF Update, row
<1> HIDE DEF new
<1>5. CASE ~conv[c].there
  BY <1>4, <1>5 DEF Stays
<1>6. CASE conv[c].there
  <2>1. conv'[c] = new /\ \A d \in Conversation : d # c => conv'[d] = conv[d]
    BY <1>1, <1>4, <1>6
  <2>2. \A g \in Columns \ {"updatedAt", f} : conv'[c][g] = conv[c][g]
    BY <1>2, <1>3, <2>1
  <2>3. conv'[c][f] = v
    BY <1>1, <1>2, <1>3, <2>1
  <2> QED
    BY <1>6, <2>1, <2>2, <2>3 DEF Stays, Columns
<1> QED
  BY <1>5, <1>6

LEMMA UpdateDate ==
  ASSUME DatedInv, NEW c \in Conversation, Update(c, conv[c])
  PROVE  RowsStay /\ conv'[c].there = conv[c].there
<1> DEFINE new == [conv[c] EXCEPT !.updatedAt = now]
<1>1. DOMAIN conv = Conversation /\ DOMAIN conv[c] = Columns
  BY DEF DatedInv, RowsAt
<1>2. \A g \in Columns \ {"updatedAt"} : new[g] = conv[c][g]
  BY <1>1, RowExcept DEF Columns
<1>3. conv' = IF conv[c].there THEN [conv EXCEPT ![c] = new] ELSE conv
  BY DEF Update
<1> HIDE DEF new
<1>4. \A d \in Conversation : conv'[d] = conv[d] \/ (d = c /\ conv'[d] = new)
  BY <1>1, <1>3
<1> QED
  BY <1>2, <1>4 DEF RowsStay, Stays, Columns

(* The request being handled stays what it is.                              *)
LEMMA JobGoesOn ==
  ASSUME job \in Jobs, NEW n \in Nat, NEW s \in Steps,
         job' = [job EXCEPT !.todo = n, !.step = s], UNCHANGED <<acked, count>>
  PROVE  Goes(job.kind, job.step) /\ job'.todo = n /\ job'.step = s
  BY DEF Goes, Jobs

LEMMA JobGoes ==
  ASSUME job \in Jobs, NEW s \in Steps, Go(s)
  PROVE  Goes(job.kind, job.step) /\ job'.todo = job.todo /\ job'.step = s /\ usedAt' = usedAt
<1>1. job' = [job EXCEPT !.step = s] /\ UNCHANGED <<acked, count, usedAt>>
  BY DEF Go
<1> QED
  BY <1>1 DEF Goes, Jobs

LEMMA OpenOpens ==
  ASSUME DatedInv, NoRowNothing,
         Open
  PROVE  Opened
<1>1. job \in Jobs /\ job.conv \in Conversation /\ job.step \in Steps /\ job.kind = "open"
  BY Handled DEF Open, Jobs
<1>2. Ends("open", job.step)
  BY <1>1 DEF Open, Acknowledge, Ends
<1>3. RowsStay /\ conv'[job.conv].there
  <2>1. CASE conv[job.conv].there
    <3>1. Update(job.conv, [conv[job.conv] EXCEPT !["active"] = TRUE])
      BY <2>1 DEF Open
    <3> QED
      BY <1>1, <2>1, <3>1, UpdateColumn DEF RowsStay, Stays
  <2>2. CASE ~conv[job.conv].there
    <3>1. conv' = [conv EXCEPT ![job.conv] = NewRow] /\ DOMAIN conv = Conversation
      BY <2>2 DEF Open, DatedInv, RowsAt
    <3>2. NewRow.there = TRUE /\ NewRow.tokens = 0 /\ NewRow.failovers = <<>>
      BY DEF NewRow, NoRow
    <3>3. conv'[job.conv] = NewRow /\ \A d \in Conversation : d # job.conv => conv'[d] = conv[d]
      BY <1>1, <3>1
    <3> HIDE DEF NewRow
    <3> QED
      BY <1>1, <2>2, <3>2, <3>3 DEF NoRowNothing, RowsStay, Stays
  <2> QED
    BY <2>1, <2>2
<1> QED
  BY <1>1, <1>2, <1>3 DEF Opened

LEMMA FailoverProviderSets ==
  ASSUME DatedInv, FailoverProvider
  PROVE  ProviderSet
<1>1. job \in Jobs /\ job.conv \in Conversation /\ job.kind = "failover" /\ job.step = "begin"
  BY Handled DEF FailoverProvider, At
<1>2. Go("event") /\ Update(job.conv, conv[job.conv]) /\ UNCHANGED message
  BY DEF FailoverProvider
<1>3. Goes(job.kind, job.step) /\ job'.todo = job.todo
  BY <1>1, <1>2, JobGoes DEF Steps
<1>4. RowsStay
  BY <1>1, <1>2, UpdateDate
<1> QED
  BY <1>1, <1>2, <1>3, <1>4 DEF ProviderSet

LEMMA FailoverEventSets ==
  ASSUME DatedInv, FailoverEvent
  PROVE  EventSet
<1>1. job \in Jobs /\ job.conv \in Conversation /\ job.kind = "failover" /\ job.step = "event"
  BY Handled DEF FailoverEvent, At
<1>2. Ends("failover", "event")
  BY <1>1 DEF FailoverEvent, Acknowledge, Ends
<1>3. Update(job.conv, [conv[job.conv] EXCEPT !["failovers"] = Append(conv[job.conv].failovers, job.no)])
  BY DEF FailoverEvent
<1>4. /\ \A d \in Conversation : d # job.conv => Stays(d)
      /\ conv'[job.conv].there = conv[job.conv].there
      /\ conv'[job.conv].tokens = conv[job.conv].tokens
      /\ ~conv[job.conv].there => conv'[job.conv].failovers = conv[job.conv].failovers
      /\ conv[job.conv].there =>
           conv'[job.conv].failovers = Append(conv[job.conv].failovers, job.no)
  BY <1>1, <1>3, UpdateColumn
<1> QED
  BY <1>2, <1>4 DEF EventSet, OthersStay

LEMMA InsertMessageAdds ==
  ASSUME DatedInv, InsertMessage
  PROVE  Added
<1>1. job \in Jobs /\ job.kind = "cycle" /\ job.step = "begin"
  BY Handled DEF InsertMessage, At
<1>2. Go("touch")
  BY DEF InsertMessage
<1>3. Goes(job.kind, job.step) /\ job'.todo = job.todo /\ job'.step = "touch"
  BY <1>1, <1>2, JobGoes DEF Steps
<1>4. RowsStay
  BY DEF InsertMessage, RowsStay, Stays
<1> QED
  BY <1>1, <1>3, <1>4 DEF InsertMessage, Added

LEMMA TouchTouches ==
  ASSUME DatedInv, Touch
  PROVE  Touched
<1>1. job \in Jobs /\ job.conv \in Conversation /\ job.kind = "cycle" /\ job.step = "touch"
  BY Handled DEF Touch, At
<1>2. job.todo \in Nat /\ job.tokens \in Nat
  BY <1>1 DEF Jobs
<1>3. RowsStay
  BY <1>1, UpdateDate DEF Touch
<1>4. UNCHANGED <<message, acked, count>>
  BY DEF Touch
<1>5. CASE job.todo > 0
  <2>1. job' = [job EXCEPT !.todo = job.todo - 1, !.step = "begin"]
    <3> DEFINE n == IF job.todo > 0 THEN job.todo - 1 ELSE 0
               s == CASE job.todo > 0 -> "begin"
                      [] job.todo = 0 /\ job.tokens > 0 -> "usage"
                      [] OTHER -> "compress"
    <3>1. n = job.todo - 1 /\ s = "begin"
      BY <1>2, <1>5
    <3>2. job' = [job EXCEPT !.todo = n, !.step = s]
      BY DEF Touch
    <3> HIDE DEF n, s
    <3> QED
      BY <3>1, <3>2
  <2>2. job.todo - 1 \in Nat
    BY <1>2, <1>5
  <2>3. Goes(job.kind, job.step) /\ job'.todo = job.todo - 1 /\ job'.step = "begin"
    BY <1>1, <1>4, <2>1, <2>2, JobGoesOn DEF Steps
  <2> QED
    BY <1>1, <1>3, <1>4, <1>5, <2>3 DEF Touched
<1>6. CASE job.todo = 0
  <2> DEFINE s == IF job.tokens > 0 THEN "usage" ELSE "compress"
  <2>1. job' = [job EXCEPT !.todo = 0, !.step = s]
    BY <1>6 DEF Touch
  <2>2. s \in Steps /\ 0 \in Nat
    BY DEF Steps
  <2> HIDE DEF s
  <2>3. Goes(job.kind, job.step) /\ job'.todo = 0 /\ job'.step = s
    BY <1>1, <1>4, <2>1, <2>2, JobGoesOn
  <2> QED
    BY <1>1, <1>3, <1>4, <1>6, <2>3 DEF Touched, s
<1> QED
  BY <1>2, <1>5, <1>6

LEMMA AddUsageCounts ==
  ASSUME DatedInv, AddUsage
  PROVE  Used
<1>1. /\ job \in Jobs /\ job.conv \in Conversation /\ conv[job.conv].there
      /\ job.kind = "cycle" /\ job.step = "usage"
  BY Handled DEF AddUsage, At, DatedInv
<1>2. Go("compress") /\ UNCHANGED message
  BY DEF AddUsage
<1>3. Goes(job.kind, job.step) /\ job'.todo = job.todo /\ job'.step = "compress"
  BY <1>1, <1>2, JobGoes DEF Steps
<1>4. Update(job.conv, [conv[job.conv] EXCEPT !["tokens"] = conv[job.conv].tokens + job.tokens])
  BY DEF AddUsage
<1>5. /\ \A d \in Conversation : d # job.conv => Stays(d)
      /\ conv'[job.conv].there = conv[job.conv].there
      /\ conv'[job.conv].failovers = conv[job.conv].failovers
      /\ conv'[job.conv].tokens = conv[job.conv].tokens + job.tokens
  BY <1>1, <1>4, UpdateColumn
<1> QED
  BY <1>1, <1>2, <1>3, <1>5 DEF Used, OthersStay

LEMMA CompressCompresses ==
  ASSUME DatedInv, Compress
  PROVE  Compressed
<1>1. /\ job \in Jobs /\ job.conv \in Conversation /\ conv[job.conv].there
      /\ job.kind = "cycle" /\ job.step = "compress"
  BY Handled DEF Compress, At, DatedInv
<1>2. Ends("cycle", "compress")
  BY <1>1 DEF Compress, Acknowledge, Ends
<1>3. RowsStay /\ conv'[job.conv].there
  <2>1. CASE UNCHANGED conv
    BY <1>1, <2>1 DEF RowsStay, Stays
  <2>2. ASSUME Update(job.conv, [conv[job.conv] EXCEPT !["compressed"] = Compressible(job.conv)])
        PROVE  RowsStay /\ conv'[job.conv].there
    <3> HIDE DEF Compressible
    <3> QED
      BY <1>1, <2>2, UpdateColumn DEF RowsStay, Stays
  <2> QED
    BY <2>1, <2>2 DEF Compress
<1> QED
  BY <1>2, <1>3 DEF Compressed

LEMMA RestartIsQuiet ==
  ASSUME DatedInv, Restart
  PROVE  Quiet
<1>1. conv' = Archived /\ job' = Idle /\ UNCHANGED <<message, acked, count>>
  BY DEF Restart
<1>2. ASSUME NEW c \in Conversation
      PROVE  Stays(c)
  <2>1. DOMAIN conv[c] = Columns
    BY DEF DatedInv, RowsAt
  <2>2. \A g \in Columns \ {"active"} : [conv[c] EXCEPT !["active"] = FALSE][g] = conv[c][g]
    BY <2>1, RowExcept DEF Columns
  <2>3. conv'[c] = conv[c] \/ conv'[c] = [conv[c] EXCEPT !["active"] = FALSE]
    BY <1>1 DEF Archived
  <2> QED
    BY <2>2, <2>3 DEF Stays, Columns
<1> QED
  BY <1>1, <1>2 DEF Quiet, RowsStay

LEMMA ReceiveReceives ==
  ASSUME DatedInv, NEW ip \in Client, Receive(ip)
  PROVE  Received
<1>1. /\ job = Idle /\ count' = count + 1 /\ UNCHANGED <<conv, message, acked>>
      /\ job' \in Requests
  BY DEF Receive
<1>2. count \in Nat
  BY DEF DatedInv
<1>3. /\ job' \in Jobs /\ job'.step = "begin" /\ job'.no = count + 1 /\ job'.todo = job'.size
      /\ job'.kind # "cycle" => job'.tokens = 0
  <2>1. PICK kind \in {"open", "failover", "cycle"}, c \in Conversation, n \in Nat, k \in Nat,
             lists \in SUBSET Nat :
          job' = Request(kind, c, n, k, lists) /\ (kind # "cycle" => k = 0)
    <3>1. CASE job' \in {Request(kind, c, 0, 0, {}) : kind \in {"open", "failover"}, c \in Conversation}
      BY <3>1
    <3>2. CASE job' \in {Request("cycle", c, n, k, lists) :
                           c \in Conversation, n \in 0..PerRequest, k \in Tokens, lists \in Lists}
      BY <3>2, EngineAssumption
    <3> QED
      BY <1>1, <3>1, <3>2 DEF Requests
  <2> QED
    BY <1>2, <2>1 DEF Request, Jobs, Steps
<1> QED
  BY <1>1, <1>3 DEF Received, RowsStay, Stays

(* Every step is one of these.                                              *)
LEMMA WhatSteps ==
  ASSUME DatedInv, NoRowNothing,
         [Next]_vars
  PROVE  \/ Quiet \/ Received \/ Opened \/ ProviderSet \/ EventSet
         \/ Added \/ Touched \/ Used \/ Compressed
<1>1. ASSUME UNCHANGED engine
      PROVE  Quiet
  BY <1>1 DEF engine, Quiet, RowsStay, Stays
<1>2. ASSUME NEW ip \in Client, Receive(ip) \/ Reject(ip) \/ TurnAway(ip)
      PROVE  Received \/ Quiet
  BY <1>1, <1>2, ReceiveReceives DEF Reject, TurnAway
<1>3. ASSUME InsertFails
      PROVE  Quiet
  BY <1>3 DEF InsertFails, Quiet, RowsStay, Stays
<1>4. CASE Statement
  BY <1>3, <1>4, OpenOpens, FailoverProviderSets, FailoverEventSets, InsertMessageAdds, TouchTouches,
     AddUsageCounts, CompressCompresses DEF Statement
<1> QED
  BY <1>1, <1>2, <1>4, RestartIsQuiet DEF Next, vars


-----------------------------------------------------------------------------
(* Histories and sums.                                                      *)

Histories == Seq(Messages)

PickOf(c) == [x \in Histories \X Messages |-> IF x[2].conv = c THEN Append(x[1], x[2]) ELSE x[1]]

LEMMA PickIs ==
  ASSUME NEW c
  PROVE  /\ PickOf(c) \in [Histories \X Messages -> Histories]
         /\ \A k \in Histories, m \in Messages :
              PickOf(c)[<<k, m>>] = IF m.conv = c THEN Append(k, m) ELSE k
<1>1. ASSUME NEW k \in Histories, NEW m \in Messages
      PROVE  Append(k, m) \in Histories
  BY AppendProperties DEF Histories
<1> QED
  BY <1>1 DEF PickOf

LEMMA HistoryIs ==
  ASSUME NEW c, NEW q \in Histories
  PROVE  HistoryIn(q, c) = FoldOf(PickOf(c), <<>>, q) /\ HistoryIn(q, c) \in Histories
<1> DEFINE Folded(f) == f = [s \in SUBSET (DOMAIN q) |->
             IF s = {} THEN <<>>
             ELSE IF q[Max(s)].conv = c
                  THEN Append(f[s \ {Max(s)}], q[Max(s)])
                  ELSE f[s \ {Max(s)}]]
<1>1. <<>> \in Histories /\ Len(q) \in Nat /\ DOMAIN q = 1..Len(q) /\ q \in Seq(Messages)
  BY DEF Histories
<1>2. /\ PickOf(c) \in [Histories \X Messages -> Histories]
      /\ \A k \in Histories, m \in Messages :
              PickOf(c)[<<k, m>>] = IF m.conv = c THEN Append(k, m) ELSE k
  BY PickIs
<1>3. ASSUME NEW s \in SUBSET (DOMAIN q), s # {}
      PROVE  q[Max(s)] \in Messages /\ s \ {Max(s)} \in SUBSET (DOMAIN q)
  <2>1. Max(s) \in DOMAIN q
    BY <1>1, <1>3, MaxIs
  <2> QED
    BY <1>1, <2>1
<1> HIDE DEF Histories
<1>4. PICK h \in [SUBSET (DOMAIN q) -> Histories] : IsRun(h, PickOf(c), <<>>, q)
  BY <1>1, <1>2, RunExists
<1>5. Folded(h)
  <2>1. ASSUME NEW s \in SUBSET (DOMAIN q), s # {}
        PROVE  h[s] = IF q[Max(s)].conv = c
                      THEN Append(h[s \ {Max(s)}], q[Max(s)])
                      ELSE h[s \ {Max(s)}]
    BY <1>2, <1>3, <1>4, <2>1, ZenonT(60) DEF IsRun
  <2>2. {} \in SUBSET (DOMAIN q) => h[{}] = <<>>
    BY <1>4 DEF IsRun
  <2> QED
    BY <1>4, <2>1, <2>2
<1>6. PICK f : Folded(f) /\ HistoryIn(q, c) = f[DOMAIN q]
  BY <1>5 DEF HistoryIn, FoldLeft, MapThenFoldSet
<1>7. f[{}] = <<>> /\ Follows(f, Histories, PickOf(c), q)
  <2>1. {} \in SUBSET (DOMAIN q)
    OBVIOUS
  <2>2. ASSUME NEW s \in SUBSET (DOMAIN q), s # {}, f[s \ {Max(s)}] \in Histories
        PROVE  f[s] = PickOf(c)[<<f[s \ {Max(s)}], q[Max(s)]>>]
    <3>1. f[s] = IF q[Max(s)].conv = c
                 THEN Append(f[s \ {Max(s)}], q[Max(s)])
                 ELSE f[s \ {Max(s)}]
      BY <1>6, <2>2
    <3>2. q[Max(s)] \in Messages
      BY <1>3, <2>2
    <3> HIDE DEF Folded
    <3> QED
      BY <1>2, <2>2, <3>1, <3>2
  <2> QED
    BY <1>6, <2>1, <2>2 DEF Follows
<1>8. Foldable(Histories, Messages, PickOf(c), <<>>, q)
  BY <1>1, <1>2 DEF Foldable
<1>9. f[DOMAIN q] = FoldOf(PickOf(c), <<>>, q) /\ FoldOf(PickOf(c), <<>>, q) \in Histories
  <2> HIDE DEF Folded
  <2> QED
    BY <1>7, <1>8, FoldIs
<1> QED
  BY <1>6, <1>9

LEMMA HistoryEmpty ==
  ASSUME NEW c
  PROVE  HistoryIn(<<>>, c) = <<>>
<1>1. <<>> \in Histories
  BY DEF Histories
<1>2. HistoryIn(<<>>, c) = FoldOf(PickOf(c), <<>>, <<>>)
  BY <1>1, HistoryIs
<1> QED
  BY <1>1, <1>2, PickIs, FoldEmpty

(* A message that is stored comes last in its history, and in no other.     *)
LEMMA HistoryGrows ==
  ASSUME NEW c, NEW q \in Histories, NEW m \in Messages
  PROVE  /\ Append(q, m) \in Histories
         /\ HistoryIn(Append(q, m), c) =
              IF m.conv = c THEN Append(HistoryIn(q, c), m) ELSE HistoryIn(q, c)
<1>1. Append(q, m) \in Histories
  BY AppendProperties DEF Histories
<1>2. Foldable(Histories, Messages, PickOf(c), <<>>, q)
  <2>1. <<>> \in Histories /\ q \in Seq(Messages)
    BY DEF Histories
  <2> QED
    BY <2>1, PickIs DEF Foldable
<1>3. FoldOf(PickOf(c), <<>>, Append(q, m)) = PickOf(c)[<<FoldOf(PickOf(c), <<>>, q), m>>]
  BY <1>2, FoldAppend
<1>4. /\ HistoryIn(q, c) = FoldOf(PickOf(c), <<>>, q) /\ HistoryIn(q, c) \in Histories
      /\ HistoryIn(Append(q, m), c) = FoldOf(PickOf(c), <<>>, Append(q, m))
  BY <1>1, HistoryIs
<1> QED
  BY <1>1, <1>3, <1>4, PickIs, ZenonT(60)

(* The sums of the module are sums of functions.                            *)
LEMMA TokensSum ==
  ASSUME NEW T \in SUBSET Jobs, IsFiniteSet(T)
  PROVE  /\ Summable(TokensOf, T)
         /\ MapThenSumSet(LAMBDA r : r.tokens, T) = SumFunctionOnSet(TokensOf, T)
<1>1. \A r \in T : TokensOf[r] = r.tokens /\ TokensOf[r] \in Int
  BY DEF TokensOf, Jobs
<1>2. Summable(TokensOf, T)
  BY <1>1 DEF Summable
<1>3. PICK h : Sums(h, TokensOf, T)
  BY <1>2, SumsExist
<1> DEFINE Run(g) == g = [s \in SUBSET T |-> IF s = {} THEN 0 ELSE Chosen(s).tokens + g[s \ {Chosen(s)}]]
<1>4. ASSUME NEW s \in SUBSET T, s # {}
      PROVE  Chosen(s) \in T /\ TokensOf[Chosen(s)] = Chosen(s).tokens
  BY <1>1, <1>4 DEF Chosen
<1>5. Run(h)
  BY <1>3, <1>4 DEF Sums, SumRun
<1>6. PICK f : Run(f) /\ MapThenSumSet(LAMBDA r : r.tokens, T) = f[T]
  BY <1>5 DEF MapThenSumSet, MapThenFoldSet, Chosen
<1>7. SumRun(f, TokensOf, T)
  BY <1>4, <1>6 DEF SumRun
<1>8. SameOn(TokensOf, TokensOf, T)
  BY DEF SameOn
<1> HIDE DEF Run
<1>9. f[T] = h[T] /\ SumFunctionOnSet(TokensOf, T) = h[T]
  BY <1>2, <1>3, <1>7, <1>8, SumsAgree, SumIs
<1> QED
  BY <1>2, <1>6, <1>9

LEMMA StoredSum ==
  ASSUME NEW h \in Histories
  PROVE  /\ Summable([i \in DOMAIN h |-> h[i].tokens], DOMAIN h)
         /\ FoldSeq(LAMBDA m, sum : m.tokens + sum, 0, h) = StoredIn(h)
<1> DEFINE T == DOMAIN h
           w == [i \in T |-> h[i].tokens]
<1>1. T = 1..Len(h) /\ Len(h) \in Nat /\ IsFiniteSet(T)
  BY FS_Interval DEF Histories
<1>2. \A i \in T : w[i] = h[i].tokens /\ w[i] \in Int
  <2>1. \A i \in T : h[i] \in Messages
    BY DEF Histories
  <2>2. \A i \in T : h[i].tokens \in Int
    BY <2>1 DEF Messages
  <2> QED
    BY <2>2
<1> HIDE DEF w
<1>3. Summable(w, T)
  BY <1>1, <1>2 DEF Summable
<1>4. PICK g : Sums(g, w, T)
  BY <1>3, SumsExist
<1> DEFINE Run(f) == f = [s \in SUBSET T |-> IF s = {} THEN 0 ELSE h[Chosen(s)].tokens + f[s \ {Chosen(s)}]]
<1>5. ASSUME NEW s \in SUBSET T, s # {}
      PROVE  Chosen(s) \in T /\ w[Chosen(s)] = h[Chosen(s)].tokens
  BY <1>2, <1>5 DEF Chosen
<1>6. Run(g)
  BY <1>4, <1>5 DEF Sums, SumRun
<1>7. PICK f : Run(f) /\ FoldSeq(LAMBDA m, sum : m.tokens + sum, 0, h) = f[T]
  BY <1>6 DEF FoldSeq, FoldFunction, FoldFunctionOnSet, MapThenFoldSet, Chosen
<1>8. SumRun(f, w, T)
  BY <1>5, <1>7 DEF SumRun
<1>9. SameOn(w, w, T)
  BY DEF SameOn
<1>10. f[T] = g[T] /\ SumFunctionOnSet(w, T) = g[T]
  <2> HIDE DEF Run, T
  <2> QED
    BY <1>3, <1>4, <1>8, <1>9, SumsAgree, SumIs
<1> QED
  BY <1>3, <1>7, <1>10 DEF StoredIn, w

LEMMA StoredAppend ==
  ASSUME NEW h \in Histories, NEW m \in Messages
  PROVE  StoredIn(Append(h, m)) = StoredIn(h) + m.tokens /\ StoredIn(h) \in Int
<1> DEFINE T == DOMAIN h
           w == [i \in T |-> h[i].tokens]
           n == Len(h) + 1
<1>1. PICK g \in Histories : g = Append(h, m)
  BY AppendProperties DEF Histories
<1> DEFINE v == [i \in DOMAIN g |-> g[i].tokens]
<1>2. /\ DOMAIN g = T \cup {n} /\ n \notin T /\ n \in DOMAIN g
      /\ g[n] = m /\ \A i \in T : g[i] = h[i]
  BY <1>1, AppendProperties DEF Histories
<1>3. Summable(w, T) /\ Summable(v, DOMAIN g)
  BY StoredSum
<1>4. SameOn(v, w, T) /\ v[n] = m.tokens /\ m.tokens \in Int
  BY <1>2 DEF SameOn, Messages
<1>5. StoredIn(h) = SumFunctionOnSet(w, T) /\ StoredIn(g) = SumFunctionOnSet(v, DOMAIN g)
  BY DEF StoredIn
<1> HIDE DEF T, w, v, n
<1>6. Summable(v, T)
  BY <1>3, <1>4 DEF Summable, SameOn
<1>7. SumFunctionOnSet(v, T \cup {n}) = v[n] + SumFunctionOnSet(v, T)
  BY <1>2, <1>4, <1>6, SumAdd
<1>8. SumFunctionOnSet(v, T) = SumFunctionOnSet(w, T) /\ SumFunctionOnSet(w, T) \in Int
  BY <1>3, <1>4, SumSame, SumType
<1> QED
  BY <1>1, <1>2, <1>4, <1>5, <1>7, <1>8


-----------------------------------------------------------------------------
(* The numbers of requests.                                                 *)

Step ==
  \/ Quiet \/ Received \/ Opened \/ ProviderSet \/ EventSet
  \/ Added \/ Touched \/ Used \/ Compressed

LEMMA IdleNext ==
  ASSUME job' = Idle
  PROVE  ~Busy' /\ job'.kind = "idle"
  BY DEF Idle, Busy

LEMMA StillNothing ==
  ASSUME NoRowNothing, Step
  PROVE  NoRowNothing'
<1> SUFFICES ASSUME NEW d \in Conversation, ~conv'[d].there
             PROVE  conv'[d].tokens = 0 /\ conv'[d].failovers = <<>>
  BY DEF NoRowNothing
<1>1. ~conv[d].there => conv[d].tokens = 0 /\ conv[d].failovers = <<>>
  BY DEF NoRowNothing
<1>2. ASSUME Stays(d)
      PROVE  conv'[d].tokens = 0 /\ conv'[d].failovers = <<>>
  BY <1>1, <1>2 DEF Stays
<1>3. CASE EventSet
  <2>1. CASE d = job.conv
    BY <1>1, <1>3, <2>1 DEF EventSet
  <2> QED
    BY <1>2, <1>3, <2>1 DEF EventSet, OthersStay
<1>4. CASE Used
  BY <1>2, <1>4 DEF Used, OthersStay
<1>5. CASE RowsStay
  BY <1>2, <1>5 DEF RowsStay
<1> QED
  BY <1>3, <1>4, <1>5 DEF Step, Quiet, Received, Opened, ProviderSet, Added, Touched, Compressed

(* What stays when a request goes on.                                       *)
LEMMA GoingOn ==
  ASSUME NEW k, NEW s, Goes(k, s)
  PROVE  /\ job \in Jobs /\ job' \in Jobs /\ Busy /\ Busy' /\ job.kind = k /\ job.step = s
         /\ job'.kind = job.kind /\ job'.conv = job.conv /\ job'.no = job.no
         /\ job'.size = job.size /\ job'.tokens = job.tokens
         /\ acked' = acked /\ count' = count
         /\ {job.no, job.size, job.todo, job.tokens, job'.todo} \in SUBSET Nat
         /\ job.conv \in Conversation /\ job.kind \in {"open", "failover", "cycle"}
  BY DEF Goes, Jobs, Busy

LEMMA Ending ==
  ASSUME NEW k, NEW s, Ends(k, s)
  PROVE  /\ job \in Jobs /\ Busy /\ ~Busy' /\ job.kind = k /\ job.step = s
         /\ job'.kind = "idle" /\ acked' = acked \cup {job} /\ count' = count /\ message' = message
         /\ {job.no, job.size, job.todo, job.tokens} \in SUBSET Nat
         /\ job.conv \in Conversation
<1>1. job' = Idle
  BY DEF Ends
<1>2. ~Busy' /\ job'.kind = "idle"
  BY <1>1, IdleNext
<1> QED
  BY <1>2 DEF Ends, Jobs, Busy

LEMMA NumberStep ==
  ASSUME DatedInv, NumberInv, Step
  PROVE  NumberInv'
<1>1. NoRowNothing'
  BY StillNothing DEF NumberInv
<1>2. /\ acked \in SUBSET Jobs /\ IsFiniteSet(acked) /\ count \in Nat
      /\ \A r \in acked : r.no <= count /\ r.no \in Nat /\ (Busy => r.no # job.no)
      /\ Busy => /\ job.no = count /\ job.todo <= job.size
                 /\ job.kind # "cycle" => job.tokens = 0
  BY DEF NumberInv, DatedInv, Jobs
<1>3. ASSUME UNCHANGED <<acked, count>>,
             \/ ~Busy'
             \/ /\ Busy /\ job'.no = job.no /\ job'.kind = job.kind /\ job'.tokens = job.tokens
                /\ job'.todo <= job'.size
      PROVE  NumberInv'
  BY <1>1, <1>2, <1>3 DEF NumberInv
<1>4. ASSUME NEW k, NEW s, Ends(k, s)
      PROVE  NumberInv'
  <2>1. job \in Jobs /\ Busy /\ ~Busy' /\ acked' = acked \cup {job} /\ count' = count
    BY <1>4, Ending
  <2>2. acked' \in SUBSET Jobs /\ IsFiniteSet(acked')
    BY <1>2, <2>1, FS_AddElement
  <2>3. \A r \in acked' : r.no <= count'
    BY <1>2, <2>1
  <2> QED
    BY <1>1, <2>1, <2>2, <2>3 DEF NumberInv
<1>5. ASSUME NEW k, NEW s, Goes(k, s), job'.todo <= job.todo
      PROVE  NumberInv'
  <2>1. /\ Busy /\ job'.no = job.no /\ job'.kind = job.kind /\ job'.tokens = job.tokens
        /\ job'.size = job.size /\ UNCHANGED <<acked, count>>
        /\ {job.size, job.todo, job'.todo} \in SUBSET Nat
    BY <1>5, GoingOn
  <2>2. job'.todo <= job'.size
    BY <1>2, <1>5, <2>1
  <2> QED
    BY <1>3, <2>1, <2>2
<1>6. CASE Quiet
  <2>1. CASE job' = job
    BY <1>2, <1>3, <1>6, <2>1 DEF Quiet, Busy
  <2>2. CASE job' = Idle
    BY <1>3, <1>6, <2>2, IdleNext DEF Quiet
  <2> QED
    BY <1>6, <2>1, <2>2 DEF Quiet
<1>7. CASE Received
  <2>1. /\ acked' = acked /\ count' = count + 1
        /\ job' \in Jobs /\ job'.no = count' /\ job'.todo = job'.size
        /\ job'.kind # "cycle" => job'.tokens = 0
    BY <1>7 DEF Received
  <2>2. \A r \in acked : r.no <= count' /\ r.no # job'.no
    BY <1>2, <2>1
  <2>3. job'.todo <= job'.size
    BY <2>1 DEF Jobs
  <2> QED
    BY <1>1, <1>2, <2>1, <2>2, <2>3 DEF NumberInv
<1>8. CASE ProviderSet
  <2>1. Goes("failover", "begin") /\ job'.todo = job.todo
    BY <1>8 DEF ProviderSet
  <2>2. job'.todo <= job.todo
    BY <2>1, GoingOn
  <2> QED
    BY <1>5, <2>1, <2>2
<1>9. CASE Added
  <2>1. Goes("cycle", "begin") /\ job'.todo = job.todo
    BY <1>9 DEF Added
  <2>2. job'.todo <= job.todo
    BY <2>1, GoingOn
  <2> QED
    BY <1>5, <2>1, <2>2
<1>10. CASE Touched
  <2>1. Goes("cycle", "touch") /\ ((job.todo > 0 /\ job'.todo = job.todo - 1) \/ job'.todo = job.todo)
    BY <1>10 DEF Touched
  <2>2. job'.todo <= job.todo
    BY <2>1, GoingOn
  <2> QED
    BY <1>5, <2>1, <2>2
<1>11. CASE Used
  <2>1. Goes("cycle", "usage") /\ job'.todo = job.todo
    BY <1>11 DEF Used
  <2>2. job'.todo <= job.todo
    BY <2>1, GoingOn
  <2> QED
    BY <1>5, <2>1, <2>2
<1> QED
  BY <1>4, <1>6, <1>7, <1>8, <1>9, <1>10, <1>11 DEF Step, Opened, EventSet, Compressed


-----------------------------------------------------------------------------
(* The messages of acknowledged cycles.                                     *)

LEMMA AreHistories ==
  ASSUME message \in Seq(Messages), NEW c
  PROVE  message \in Histories /\ History(c) \in Histories /\ History(c) = HistoryIn(message, c)
<1>1. message \in Histories
  BY DEF Histories
<1> QED
  BY <1>1, HistoryIs DEF History

(* A message of another request leaves a block where it is.                 *)
LEMMA StoredStays ==
  ASSUME NEW h \in Histories, NEW m \in Messages, NEW no, NEW size \in Nat, Stored(h, no, size),
         m.no # no
  PROVE  Stored(Append(h, m), no, size)
<1>1. PICK g : g = Append(h, m)
  OBVIOUS
<1>2. /\ Len(h) \in Nat /\ DOMAIN h = 1..Len(h) /\ DOMAIN g = 1..(Len(h) + 1)
      /\ g[Len(h) + 1] = m /\ \A j \in 1..Len(h) : g[j] = h[j]
  BY <1>1, AppendProperties DEF Histories
<1>3. PICK i \in DOMAIN h : i + size \in DOMAIN h /\ Block(h, no, size, i, i + size)
  BY DEF Stored
<1>4. i \in 1..Len(h) /\ i + size \in 1..Len(h)
  BY <1>2, <1>3
<1>5. ASSUME NEW j \in DOMAIN g
      PROVE  IF j \in i..(i + size) THEN g[j].no = no /\ g[j].left = i + size - j ELSE g[j].no # no
  <2>1. CASE j \in DOMAIN h
    BY <1>2, <1>3, <2>1 DEF Block
  <2>2. CASE j \notin DOMAIN h
    <3>1. j = Len(h) + 1 /\ j \notin i..(i + size)
      BY <1>2, <1>4, <2>2
    <3> QED
      BY <1>2, <3>1
  <2> QED
    BY <2>1, <2>2
<1>6. i \in DOMAIN g /\ i + size \in DOMAIN g
  BY <1>2, <1>4
<1>7. Stored(g, no, size)
  BY <1>5, <1>6 DEF Stored, Block
<1> QED
  BY <1>1, <1>7

(* The next message of the request being handled makes its block longer.    *)
LEMMA StoringGrows ==
  ASSUME NEW h \in Histories, NEW m \in Messages, NEW no, NEW size \in Nat, NEW n \in Nat,
         n <= size, Storing(h, no, size, n), m.no = no, m.left = size - n
  PROVE  Storing(Append(h, m), no, size, n + 1)
<1>1. PICK g : g = Append(h, m)
  OBVIOUS
<1>2. PICK l \in Nat : l = Len(h)
  BY DEF Histories
<1>3. /\ DOMAIN h = 1..l /\ DOMAIN g = 1..(l + 1) /\ Len(g) = l + 1
      /\ g[l + 1] = m /\ \A j \in 1..l : g[j] = h[j]
  BY <1>1, <1>2, AppendProperties DEF Histories
<1>4. n <= l /\ Block(h, no, size, l - n + 1, l)
  BY <1>2 DEF Storing
<1>5. ASSUME NEW j \in DOMAIN g
      PROVE  IF j \in (l - n + 1)..(l + 1)
             THEN g[j].no = no /\ g[j].left = (l - n + 1) + size - j
             ELSE g[j].no # no
  <2>1. CASE j \in DOMAIN h
    <3>1. j \in 1..l /\ g[j] = h[j]
      BY <1>3, <2>1
    <3>2. j \in (l - n + 1)..(l + 1) <=> j \in (l - n + 1)..l
      BY <3>1
    <3> QED
      BY <1>4, <2>1, <3>1, <3>2 DEF Block
  <2>2. CASE j \notin DOMAIN h
    <3>1. j = l + 1
      BY <1>3, <2>2
    <3>2. j \in (l - n + 1)..(l + 1) /\ (l - n + 1) + size - j = size - n
      BY <1>4, <3>1
    <3> QED
      BY <1>3, <3>1, <3>2
  <2> QED
    BY <2>1, <2>2
<1>6. Block(g, no, size, l - n + 1, l + 1)
  BY <1>5 DEF Block
<1>7. (l + 1) - (n + 1) + 1 = l - n + 1 /\ n + 1 <= l + 1
  BY <1>4
<1>8. Storing(g, no, size, n + 1)
  BY <1>3, <1>6, <1>7 DEF Storing
<1> QED
  BY <1>1, <1>8

(* A block that is complete is stored.                                      *)
LEMMA StoringCompletes ==
  ASSUME NEW h \in Histories, NEW no, NEW size \in Nat, Storing(h, no, size, size + 1)
  PROVE  Stored(h, no, size)
<1>1. PICK l \in Nat : l = Len(h) /\ DOMAIN h = 1..l
  BY DEF Histories
<1>2. size + 1 <= l /\ Block(h, no, size, l - (size + 1) + 1, l)
  BY <1>1 DEF Storing
<1>3. PICK i \in 1..l : i = l - (size + 1) + 1 /\ i + size = l
  BY <1>2
<1>4. l \in DOMAIN h
  BY <1>1, <1>3
<1> QED
  BY <1>1, <1>2, <1>3, <1>4 DEF Stored

(* How many are stored changes with a message only.                         *)
LEMMA InsertedStays ==
  ASSUME DatedInv, NumberInv, Touched \/ Used \/ ProviderSet, job'.kind = "cycle"
  PROVE  Inserted' = Inserted
<1>1. CASE Touched
  <2>1. Goes("cycle", "touch")
    BY <1>1 DEF Touched
  <2>2. job.todo \in Nat /\ job.size \in Nat /\ job'.size = job.size /\ job.step = "touch"
    BY <2>1, GoingOn
  <2>3. CASE job.todo > 0 /\ job'.todo = job.todo - 1 /\ job'.step = "begin"
    BY <2>2, <2>3 DEF Inserted
  <2>4. CASE job.todo = 0 /\ job'.step \in {"usage", "compress"}
    BY <2>2, <2>4 DEF Inserted
  <2> QED
    BY <1>1, <2>3, <2>4 DEF Touched
<1>2. CASE Used
  <2>1. Goes("cycle", "usage") /\ job'.step = "compress"
    BY <1>2 DEF Used
  <2>2. job'.size = job.size /\ job.step = "usage"
    BY <2>1, GoingOn
  <2> QED
    BY <2>1, <2>2 DEF Inserted
<1>3. CASE ProviderSet
  <2>1. Goes("failover", "begin")
    BY <1>3 DEF ProviderSet
  <2> QED
    BY <2>1, GoingOn
<1> QED
  BY <1>1, <1>2, <1>3


(* The messages stay, and so do the blocks of the acknowledged cycles.      *)
LEMMA HistoryStays ==
  ASSUME DatedInv, NumberInv, HistoryInv, UNCHANGED message, count' >= count, count' \in Nat,
         \A r \in acked' : r.kind = "cycle" => Stored(History(r.conv), r.no, r.size),
         job'.kind = "cycle" => Storing(History(job'.conv), job'.no, job'.size, Inserted')
  PROVE  HistoryInv'
<1>1. message \in Seq(Messages) /\ count \in Nat
  BY DEF HistoryInv, DatedInv
<1>2. \A c \in Conversation : History(c)' = History(c)
  BY DEF History
<1>3. ASSUME NEW c \in Conversation, NEW j \in DOMAIN History(c)
      PROVE  History(c)[j].no <= count'
  <2>1. History(c) \in Histories
    BY <1>1, AreHistories
  <2>2. History(c)[j].no \in Nat /\ History(c)[j].no <= count
    <3>1. History(c)[j] \in Messages
      BY <2>1 DEF Histories
    <3> QED
      BY <3>1 DEF HistoryInv, Messages
  <2> QED
    BY <1>1, <2>2
<1>4. \A r : History(r.conv)' = HistoryIn(message, r.conv)
  BY DEF History
<1> QED
  BY <1>1, <1>2, <1>3, <1>4 DEF HistoryInv, History

LEMMA HistoryAdds ==
  ASSUME DatedInv, NumberInv, HistoryInv, Added
  PROVE  HistoryInv'
<1> DEFINE m == [conv |-> job.conv, no |-> job.no, left |-> job.todo,
                 tokens |-> IF job.todo = 0 THEN job.tokens ELSE 0,
                 form |-> IF job.todo \in job.lists THEN "list" ELSE "text"]
<1>1. Goes("cycle", "begin") /\ job'.step = "touch" /\ job'.todo = job.todo
  BY DEF Added
<1>2. /\ Busy /\ job.kind = "cycle" /\ job.step = "begin" /\ job'.kind = "cycle"
      /\ job'.conv = job.conv /\ job'.no = job.no /\ job'.size = job.size
      /\ acked' = acked /\ count' = count /\ job.conv \in Conversation
      /\ job.no \in Nat /\ job.size \in Nat /\ job.todo \in Nat /\ job.tokens \in Nat
  BY <1>1, GoingOn
<1>3. /\ message \in Histories /\ count \in Nat /\ job.no = count /\ job.todo <= job.size
      /\ \A r \in acked : r.no # job.no /\ r \in Jobs
  BY <1>2 DEF HistoryInv, Histories, DatedInv, NumberInv
<1>4. m \in Messages /\ m.conv = job.conv /\ m.no = job.no /\ m.left = job.todo
  BY <1>2 DEF Messages
<1>5. message' = Append(message, m)
  BY DEF Added
<1> HIDE DEF m
<1>6. ASSUME NEW c
      PROVE  /\ History(c) = HistoryIn(message, c) /\ History(c) \in Histories
             /\ message' \in Histories /\ HistoryIn(message', c) \in Histories
             /\ HistoryIn(message', c) = IF job.conv = c THEN Append(History(c), m) ELSE History(c)
  <2>1. Append(message, m) \in Histories
        /\ HistoryIn(Append(message, m), c) =
              IF m.conv = c THEN Append(HistoryIn(message, c), m) ELSE HistoryIn(message, c)
    BY <1>3, <1>4, HistoryGrows
  <2>2. History(c) = HistoryIn(message, c) /\ HistoryIn(message, c) \in Histories
    BY <1>3, HistoryIs DEF History
  <2>3. HistoryIn(Append(message, m), c) \in Histories
    BY <2>1, HistoryIs
  <2> QED
    BY <1>4, <1>5, <2>1, <2>2, <2>3
<1>7. ASSUME NEW c \in Conversation, NEW j \in DOMAIN HistoryIn(message', c)
      PROVE  HistoryIn(message', c)[j].no <= count
  <2>1. PICK h \in Histories : h = History(c)
    BY <1>6
  <2>2. PICK g \in Histories : g = HistoryIn(message', c)
    BY <1>6
  <2>3. g = h \/ g = Append(h, m)
    BY <1>6, <2>1, <2>2
  <2>4. \A k \in DOMAIN h : h[k].no <= count
    BY <2>1 DEF HistoryInv
  <2>5. CASE g = h
    BY <1>7, <2>2, <2>4, <2>5
  <2>6. CASE g = Append(h, m)
    <3>1. DOMAIN g = 1..(Len(h) + 1) /\ g[Len(h) + 1] = m /\ \A k \in 1..Len(h) : g[k] = h[k]
          /\ DOMAIN h = 1..Len(h) /\ Len(h) \in Nat
      BY <2>6, AppendProperties DEF Histories
    <3>2. j \in DOMAIN g
      BY <1>7, <2>2
    <3>3. CASE j = Len(h) + 1
      BY <1>3, <1>4, <2>2, <3>1, <3>3
    <3>4. CASE j \in 1..Len(h)
      BY <2>2, <2>4, <3>1, <3>4
    <3> QED
      BY <3>1, <3>2, <3>3, <3>4
  <2> QED
    BY <2>3, <2>5, <2>6
<1>8. ASSUME NEW r \in acked, r.kind = "cycle"
      PROVE  Stored(HistoryIn(message', r.conv), r.no, r.size)
  <2>1. r.size \in Nat /\ m.no # r.no
    BY <1>3, <1>4 DEF Jobs
  <2>2. History(r.conv) \in Histories /\ Stored(History(r.conv), r.no, r.size)
    BY <1>6, <1>8 DEF HistoryInv
  <2>3. Stored(Append(History(r.conv), m), r.no, r.size)
    BY <1>4, <2>1, <2>2, StoredStays
  <2> QED
    BY <1>6, <2>2, <2>3
<1>9. Storing(HistoryIn(message', job.conv), job.no, job.size, Inserted')
  <2>1. PICK n \in Nat : n = job.size - job.todo
    BY <1>2, <1>3
  <2>2. n <= job.size /\ job.todo = job.size - n
    BY <1>2, <1>3, <2>1
  <2>3. Inserted = n /\ Inserted' = n + 1
    BY <1>1, <1>2, <2>1 DEF Inserted
  <2>4. Storing(History(job.conv), job.no, job.size, n)
    BY <1>2, <2>3 DEF HistoryInv
  <2>5. Storing(Append(History(job.conv), m), job.no, job.size, n + 1)
    BY <1>2, <1>4, <1>6, <2>2, <2>4, StoringGrows
  <2> QED
    BY <1>6, <2>3, <2>5
<1> QED
  <2>1. message' \in Seq(Messages)
    BY <1>6 DEF Histories
  <2> HIDE DEF Inserted
  <2> QED
    BY <1>2, <1>7, <1>8, <1>9, <2>1 DEF HistoryInv, History

LEMMA HistoryStep ==
  ASSUME DatedInv, NumberInv, HistoryInv, Step
  PROVE  HistoryInv'
<1>1. /\ count \in Nat /\ message \in Seq(Messages)
      /\ \A c \in Conversation : \A j \in DOMAIN History(c) : History(c)[j].no <= count
      /\ \A r \in acked : r.kind = "cycle" => Stored(History(r.conv), r.no, r.size)
      /\ job.kind = "cycle" => Storing(History(job.conv), job.no, job.size, Inserted)
      /\ Busy => job.no = count
  BY DEF HistoryInv, DatedInv, NumberInv
<1>2. CASE Quiet
  <2>1. UNCHANGED <<message, acked, count>>
    BY <1>2 DEF Quiet
  <2>2. CASE job' = job
    BY <1>1, <2>1, <2>2, HistoryStays DEF Inserted
  <2>3. CASE job' = Idle
    <3>1. job'.kind # "cycle"
      BY <2>3 DEF Idle
    <3> QED
      BY <1>1, <2>1, <3>1, HistoryStays
  <2> QED
    BY <1>2, <2>2, <2>3 DEF Quiet
<1>3. CASE Received
  <2>1. /\ acked' = acked /\ count' = count + 1 /\ message' = message
        /\ job' \in Jobs /\ job'.no = count' /\ job'.todo = job'.size /\ job'.step = "begin"
    BY <1>3 DEF Received
  <2>2. job'.conv \in Conversation /\ job'.size \in Nat
    BY <2>1 DEF Jobs
  <2>3. Inserted' = 0
    BY <2>1, <2>2 DEF Inserted
  <2>4. History(job'.conv) \in Histories
    BY <1>1, AreHistories
  <2>5. PICK h \in Histories : h = History(job'.conv)
    BY <2>4
  <2>6. Len(h) \in Nat /\ DOMAIN h = 1..Len(h)
    BY DEF Histories
  <2>7. \A j \in DOMAIN h : h[j].no # job'.no /\ j \notin (Len(h) - 0 + 1)..Len(h)
    <3> SUFFICES ASSUME NEW j \in DOMAIN h
                 PROVE  h[j].no # job'.no /\ j \notin (Len(h) - 0 + 1)..Len(h)
      OBVIOUS
    <3>0. h[j] \in Messages
      BY DEF Histories
    <3>1. h[j].no <= count /\ h[j].no \in Nat
      BY <1>1, <2>2, <2>5, <3>0 DEF Messages
    <3>2. h[j].no # job'.no
      BY <1>1, <2>1, <3>1
    <3> QED
      BY <2>6, <3>2
  <2>8. Storing(h, job'.no, job'.size, 0)
    BY <2>6, <2>7 DEF Storing, Block
  <2> QED
    BY <1>1, <2>1, <2>3, <2>5, <2>8, HistoryStays
<1>4. ASSUME NEW k \in {"open", "failover"}, NEW s, Ends(k, s)
      PROVE  HistoryInv'
  <2>1. job.kind = k /\ job'.kind = "idle" /\ acked' = acked \cup {job} /\ UNCHANGED <<count, message>>
    BY <1>4, Ending
  <2> QED
    BY <1>1, <2>1, HistoryStays
<1>5. CASE Compressed
  <2>1. /\ job.kind = "cycle" /\ job.step = "compress" /\ job'.kind = "idle" /\ job.size \in Nat
        /\ acked' = acked \cup {job} /\ UNCHANGED <<count, message>>
    BY <1>5, Ending DEF Compressed
  <2>2. Storing(History(job.conv), job.no, job.size, job.size + 1)
    BY <1>1, <2>1 DEF Inserted
  <2>3. History(job.conv) \in Histories
    BY <1>1, AreHistories
  <2>4. Stored(History(job.conv), job.no, job.size)
    BY <2>1, <2>2, <2>3, StoringCompletes
  <2> QED
    BY <1>1, <2>1, <2>4, HistoryStays
<1>6. CASE Touched \/ Used \/ ProviderSet
  <2>1. PICK k \in {"failover", "cycle"}, s \in Steps : Goes(k, s)
    BY <1>6 DEF Touched, Used, ProviderSet, Steps
  <2>2. /\ job'.kind = job.kind /\ job'.conv = job.conv /\ job'.no = job.no /\ job'.size = job.size
        /\ UNCHANGED <<acked, count, message>>
    BY <1>6, <2>1, GoingOn DEF Touched, Used, ProviderSet
  <2>3. job'.kind = "cycle" => Inserted' = Inserted
    BY <1>6, InsertedStays
  <2> QED
    BY <1>1, <2>2, <2>3, HistoryStays
<1> QED
  BY <1>2, <1>3, <1>4, <1>5, <1>6, HistoryAdds DEF Step, Opened, EventSet


-----------------------------------------------------------------------------
(* The events.                                                              *)

LEMMA EventsOfStay ==
  ASSUME NEW c, EventsOf(c), conv'[c].failovers = conv[c].failovers,
         count \in Nat, count' \in Nat, count <= count',
         \/ ~Busy'
         \/ Busy /\ job'.no = job.no
         \/ job'.no = count + 1
  PROVE  EventsOf(c)'
<1>1. /\ conv'[c].failovers \in Seq(Nat)
      /\ \A i \in DOMAIN conv'[c].failovers :
           /\ conv'[c].failovers[i] \in Nat /\ conv'[c].failovers[i] <= count
           /\ Busy => conv'[c].failovers[i] # job.no
           /\ \A k \in DOMAIN conv'[c].failovers :
                conv'[c].failovers[i] = conv'[c].failovers[k] => i = k
  BY DEF EventsOf
<1>2. PICK f : f = conv'[c].failovers
  OBVIOUS
<1>3. ASSUME NEW i \in DOMAIN f
      PROVE  f[i] <= count' /\ (Busy' => f[i] # job'.no)
  <2>1. f[i] \in Nat /\ f[i] <= count /\ (Busy => f[i] # job.no)
    BY <1>1, <1>2
  <2> QED
    BY <2>1
<1> QED
  BY <1>1, <1>2, <1>3 DEF EventsOf

(* The event of the request being handled is a new one.                     *)
LEMMA EventAdded ==
  ASSUME NEW c, EventsOf(c), Busy, job.no \in Nat, job.no <= count, count \in Nat,
         conv'[c].failovers = Append(conv[c].failovers, job.no), count' = count, ~Busy'
  PROVE  /\ EventsOf(c)'
         /\ \E i \in DOMAIN conv'[c].failovers : conv'[c].failovers[i] = job.no
         /\ \A i \in DOMAIN conv[c].failovers :
              i \in DOMAIN conv'[c].failovers /\ conv'[c].failovers[i] = conv[c].failovers[i]
<1>1. PICK f \in Seq(Nat) : f = conv[c].failovers
  BY DEF EventsOf
<1>2. PICK g : g = conv'[c].failovers
  OBVIOUS
<1>3. PICK l \in Nat : l = Len(f)
  OBVIOUS
<1>4. /\ g \in Seq(Nat) /\ DOMAIN g = 1..(l + 1) /\ g[l + 1] = job.no
      /\ DOMAIN f = 1..l /\ \A i \in 1..l : g[i] = f[i]
  BY <1>1, <1>2, <1>3, AppendProperties
<1>5. \A i \in 1..l : f[i] <= count /\ f[i] # job.no /\ \A k \in 1..l : f[i] = f[k] => i = k
  BY <1>1, <1>4 DEF EventsOf
<1>6. ASSUME NEW i \in 1..(l + 1)
      PROVE  g[i] <= count /\ \A k \in 1..(l + 1) : g[i] = g[k] => i = k
  <2>1. \A k \in 1..(l + 1) : k = l + 1 \/ k \in 1..l
    OBVIOUS
  <2> QED
    BY <1>4, <1>5, <2>1
<1>7. EventsOf(c)'
  BY <1>2, <1>4, <1>6 DEF EventsOf
<1>8. l + 1 \in DOMAIN g /\ \A i \in DOMAIN f : i \in DOMAIN g /\ g[i] = f[i]
  BY <1>4
<1> QED
  BY <1>1, <1>2, <1>4, <1>7, <1>8

(* Rows that are there stay, and events stay in them.                       *)
EventsGrow ==
  \A c \in Conversation :
    /\ conv[c].there => conv'[c].there
    /\ \A i \in DOMAIN conv[c].failovers :
         i \in DOMAIN conv'[c].failovers /\ conv'[c].failovers[i] = conv[c].failovers[i]

(* A request that is acknowledged now is known before no earlier one.       *)
LEMMA AckedEvents ==
  ASSUME NEW j, j = job, count \in Nat, NumberInv, EventsInv, EventsGrow, acked' \in SUBSET Jobs,
         acked' = acked \/ (acked' = acked \cup {job} /\ Busy)
  PROVE  /\ \A r \in acked :
              /\ r.kind \in {"open", "cycle"} => conv'[r.conv].there
              /\ r.kind = "failover" /\ KnownBefore(r)' => HasEvent(r)'
         /\ acked' # acked /\ KnownBefore(j)' => conv[j.conv].there
<1>1. acked \in SUBSET Jobs /\ \A r \in acked : r.no <= count /\ r.no \in Nat
  BY DEF NumberInv, Jobs
<1>2. Busy => job.no = count
  BY DEF NumberInv
<1>3. ASSUME NEW r \in acked
      PROVE  /\ r.kind \in {"open", "cycle"} => conv'[r.conv].there
             /\ r.kind = "failover" /\ KnownBefore(r)' => HasEvent(r)'
  <2>1. r.conv \in Conversation
    BY <1>1 DEF Jobs
  <2>2. r.kind \in {"open", "cycle"} => conv'[r.conv].there
    BY <2>1 DEF EventsInv, EventsGrow
  <2>3. ASSUME r.kind = "failover", KnownBefore(r)'
        PROVE  HasEvent(r)'
    <3>1. PICK q \in acked' : q.kind # "failover" /\ q.conv = r.conv /\ q.no < r.no
      BY <2>3 DEF KnownBefore
    <3>2. q \in acked
      <4>1. q = job /\ Busy => ~(q.no < r.no)
        BY <1>1, <1>2
      <4> QED
        BY <3>1, <4>1
    <3>3. KnownBefore(r)
      BY <3>1, <3>2 DEF KnownBefore
    <3>4. HasEvent(r)
      BY <2>3, <3>3 DEF EventsInv
    <3> QED
      BY <2>1, <3>4 DEF HasEvent, EventsGrow
  <2> QED
    BY <2>2, <2>3
<1>4. ASSUME acked' # acked, KnownBefore(j)'
      PROVE  conv[j.conv].there
  <2>1. PICK q \in acked' : q.kind # "failover" /\ q.conv = j.conv /\ q.no < j.no
    BY <1>4 DEF KnownBefore
  <2>2. q.no \in Nat /\ q.kind \in {"open", "failover", "cycle"}
    BY DEF Jobs
  <2>3. q # j
    BY <2>1, <2>2
  <2>4. q \in acked
    BY <2>1, <2>3
  <2>5. q.kind \in {"open", "cycle"}
    BY <2>1, <2>2
  <2>6. conv[q.conv].there
    BY <2>4, <2>5 DEF EventsInv
  <2> QED
    BY <2>1, <2>6
<1> QED
  BY <1>3, <1>4

LEMMA EventsStep ==
  ASSUME DatedInv, NumberInv, NumberInv', EventsInv, Step
  PROVE  EventsInv'
<1>1. /\ count \in Nat /\ acked' \in SUBSET Jobs /\ \A c \in Conversation : EventsOf(c)
      /\ Busy => job.no = count
  BY DEF DatedInv, NumberInv, EventsInv
<1>2. ASSUME RowsStay
      PROVE  EventsGrow /\ \A c \in Conversation : conv'[c].failovers = conv[c].failovers
  BY <1>2 DEF RowsStay, Stays, EventsGrow
<1>3. ASSUME RowsStay, acked' = acked, count' \in Nat, count <= count',
             ~Busy' \/ (Busy /\ job'.no = job.no) \/ job'.no = count + 1
      PROVE  EventsInv'
  <2>1. \A c \in Conversation : EventsOf(c)'
    BY <1>1, <1>2, <1>3, EventsOfStay
  <2>2. \A r \in acked : /\ r.kind \in {"open", "cycle"} => conv'[r.conv].there
                         /\ r.kind = "failover" /\ KnownBefore(r)' => HasEvent(r)'
    BY <1>1, <1>2, <1>3, AckedEvents
  <2> QED
    BY <1>3, <2>1, <2>2 DEF EventsInv
<1>4. ASSUME RowsStay, NEW k \in {"open", "cycle"}, NEW s, Ends(k, s), conv'[job.conv].there
      PROVE  EventsInv'
  <2>1. Busy /\ ~Busy' /\ job.kind = k /\ acked' = acked \cup {job} /\ count' = count
    BY <1>4, Ending
  <2>2. \A c \in Conversation : EventsOf(c)'
    BY <1>1, <1>2, <1>4, <2>1, EventsOfStay
  <2>3. \A r \in acked : /\ r.kind \in {"open", "cycle"} => conv'[r.conv].there
                         /\ r.kind = "failover" /\ KnownBefore(r)' => HasEvent(r)'
    BY <1>1, <1>2, <1>4, <2>1, AckedEvents
  <2> QED
    BY <1>4, <2>1, <2>2, <2>3 DEF EventsInv
<1>5. CASE EventSet
  <2>1. /\ Busy /\ ~Busy' /\ job.kind = "failover" /\ acked' = acked \cup {job} /\ count' = count
        /\ job.conv \in Conversation /\ job.no \in Nat
    BY <1>5, Ending DEF EventSet
  <2>0. PICK j : j = job
    OBVIOUS
  <2>2. /\ \A d \in Conversation : d # j.conv =>
             conv'[d].failovers = conv[d].failovers /\ (conv[d].there => conv'[d].there)
        /\ IF conv[j.conv].there
           THEN /\ conv'[j.conv].there
                /\ conv'[j.conv].failovers = Append(conv[j.conv].failovers, j.no)
           ELSE conv'[j.conv].failovers = conv[j.conv].failovers
    BY <1>5, <2>0 DEF EventSet, OthersStay, Stays
  <2>3. ASSUME conv[j.conv].there
        PROVE  /\ EventsOf(j.conv)' /\ HasEvent(j)'
               /\ \A i \in DOMAIN conv[j.conv].failovers :
                    i \in DOMAIN conv'[j.conv].failovers
                    /\ conv'[j.conv].failovers[i] = conv[j.conv].failovers[i]
    <3>1. conv'[j.conv].failovers = Append(conv[j.conv].failovers, j.no)
      BY <2>2, <2>3
    <3>3. j.no <= count
      BY <1>1, <2>0, <2>1
    <3>4. /\ EventsOf(j.conv)'
          /\ \E i \in DOMAIN conv'[j.conv].failovers : conv'[j.conv].failovers[i] = j.no
          /\ \A i \in DOMAIN conv[j.conv].failovers :
               i \in DOMAIN conv'[j.conv].failovers
               /\ conv'[j.conv].failovers[i] = conv[j.conv].failovers[i]
      BY <1>1, <2>0, <2>1, <3>1, <3>3, EventAdded
    <3> QED
      BY <3>4 DEF HasEvent
  <2>4. \A c \in Conversation : EventsOf(c)'
    <3>1. ASSUME NEW c \in Conversation, conv'[c].failovers = conv[c].failovers
          PROVE  EventsOf(c)'
      BY <1>1, <2>1, <3>1, EventsOfStay
    <3> QED
      BY <2>0, <2>1, <2>2, <2>3, <3>1
  <2>5. EventsGrow
    BY <2>0, <2>1, <2>2, <2>3 DEF EventsGrow
  <2>6. /\ \A r \in acked : /\ r.kind \in {"open", "cycle"} => conv'[r.conv].there
                            /\ r.kind = "failover" /\ KnownBefore(r)' => HasEvent(r)'
        /\ acked' # acked /\ KnownBefore(j)' => conv[j.conv].there
    BY <1>1, <2>0, <2>1, <2>5, AckedEvents
  <2>7. ASSUME NEW r \in acked'
        PROVE  /\ r.kind \in {"open", "cycle"} => conv'[r.conv].there
               /\ r.kind = "failover" /\ KnownBefore(r)' => HasEvent(r)'
    <3>1. CASE r \in acked
      BY <2>6, <3>1
    <3>2. CASE r \notin acked
      <4>1. r = j /\ acked' # acked
        BY <2>0, <2>1, <2>7, <3>2
      <4> QED
        BY <2>0, <2>1, <2>3, <2>6, <4>1
    <3> QED
      BY <3>1, <3>2
  <2> QED
    BY <2>4, <2>7 DEF EventsInv
<1>6. CASE Used
  <2>1. Goes("cycle", "usage")
    BY <1>6 DEF Used
  <2>2. Busy /\ job'.no = job.no /\ acked' = acked /\ count' = count /\ job.conv \in Conversation
    BY <2>1, GoingOn
  <2>3. /\ \A d \in Conversation : conv'[d].failovers = conv[d].failovers
        /\ \A d \in Conversation : conv[d].there => conv'[d].there
    BY <1>6, <2>2 DEF Used, OthersStay, Stays
  <2>4. \A c \in Conversation : EventsOf(c)'
    BY <1>1, <2>2, <2>3, EventsOfStay
  <2>5. EventsGrow
    BY <2>3 DEF EventsGrow
  <2>6. \A r \in acked : /\ r.kind \in {"open", "cycle"} => conv'[r.conv].there
                         /\ r.kind = "failover" /\ KnownBefore(r)' => HasEvent(r)'
    BY <1>1, <2>2, <2>5, AckedEvents
  <2> QED
    BY <2>2, <2>4, <2>6 DEF EventsInv
<1>7. CASE Quiet
  <2>1. RowsStay /\ acked' = acked /\ count' = count
    BY <1>7 DEF Quiet
  <2>2. ~Busy' \/ (Busy /\ job'.no = job.no)
    BY <1>7, IdleNext DEF Quiet, Busy
  <2> QED
    BY <1>1, <1>3, <2>1, <2>2
<1>8. CASE Received
  <2>1. RowsStay /\ acked' = acked /\ count' = count + 1 /\ job'.no = count + 1
    BY <1>8 DEF Received
  <2> QED
    BY <1>1, <1>3, <2>1
<1>9. CASE ProviderSet \/ Added \/ Touched
  <2>1. RowsStay /\ (Goes("failover", "begin") \/ Goes("cycle", "begin") \/ Goes("cycle", "touch"))
    BY <1>9 DEF ProviderSet, Added, Touched
  <2>2. Busy /\ job'.no = job.no /\ acked' = acked /\ count' = count
    BY <2>1, GoingOn
  <2> QED
    BY <1>1, <1>3, <2>1, <2>2
<1> QED
  BY <1>4, <1>5, <1>6, <1>7, <1>8, <1>9 DEF Step, Opened, Compressed


-----------------------------------------------------------------------------
(* The tokens.                                                              *)

(* What a request counts for in the account of c.                           *)
For(r, c) == IF r.conv = c THEN r.tokens ELSE 0

LEMMA AckedType ==
  ASSUME NEW c, acked \in SUBSET Jobs, IsFiniteSet(acked)
  PROVE  /\ Summable(TokensOf, {r \in acked : r.conv = c})
         /\ AckedTokens(c) \in Int
         /\ MapThenSumSet(LAMBDA r : r.tokens, {r \in acked : r.conv = c}) = AckedTokens(c)
<1> DEFINE T == {r \in acked : r.conv = c}
<1>1. T \in SUBSET Jobs /\ IsFiniteSet(T)
  BY FS_Subset
<1>2. Summable(TokensOf, T) /\ MapThenSumSet(LAMBDA r : r.tokens, T) = SumFunctionOnSet(TokensOf, T)
  <2> HIDE DEF T
  <2> QED
    BY <1>1, TokensSum
<1>3. SumFunctionOnSet(TokensOf, T) \in Int
  <2> HIDE DEF T
  <2> QED
    BY <1>2, SumType
<1> QED
  BY <1>2, <1>3 DEF AckedTokens

LEMMA AckedGrows ==
  ASSUME NEW c, acked \in SUBSET Jobs, IsFiniteSet(acked), NEW j \in Jobs, j \notin acked,
         acked' = acked \cup {j}
  PROVE  AckedTokens(c)' = AckedTokens(c) + For(j, c)
<1> DEFINE T == {r \in acked : r.conv = c}
           U == {r \in acked' : r.conv = c}
<1>1. Summable(TokensOf, T) /\ AckedTokens(c) \in Int
  BY AckedType
<1>2. AckedTokens(c) = SumFunctionOnSet(TokensOf, T) /\ AckedTokens(c)' = SumFunctionOnSet(TokensOf, U)
  BY DEF AckedTokens
<1>3. CASE j.conv # c
  <2>1. U = T
    BY <1>3
  <2> HIDE DEF T, U
  <2> QED
    BY <1>1, <1>2, <1>3, <2>1 DEF For
<1>4. CASE j.conv = c
  <2>1. U = T \cup {j} /\ j \notin T /\ TokensOf[j] = j.tokens /\ j.tokens \in Int
    BY <1>4 DEF TokensOf, Jobs
  <2> HIDE DEF T, U
  <2>2. SumFunctionOnSet(TokensOf, T \cup {j}) = TokensOf[j] + SumFunctionOnSet(TokensOf, T)
    BY <1>1, <2>1, SumAdd
  <2> QED
    BY <1>1, <1>2, <1>4, <2>1, <2>2 DEF For
<1> QED
  BY <1>3, <1>4

LEMMA CountedType ==
  ASSUME DatedInv, NEW c
  PROVE  Counted(c) \in Nat /\ Uncounted(c) \in Nat
<1>1. CASE job.kind = "cycle"
  BY <1>1, Handled DEF Counted, Uncounted, Jobs
<1>2. CASE job.kind # "cycle"
  BY <1>2 DEF Counted, Uncounted
<1> QED
  BY <1>1, <1>2

(* An account stays in order when what is acknowledged or counted grows by  *)
(* no more than the tokens, and these by no more than what is stored.       *)
LEMMA AccountMoves ==
  ASSUME NEW c, Account(c), NumberInv,
         NEW a \in Int, AckedTokens(c)' = AckedTokens(c) + a,
         NEW t \in Nat, conv'[c].tokens = conv[c].tokens + t,
         NEW n \in Int, StoredIn(History(c))' = StoredIn(History(c)) + n, StoredIn(History(c)) \in Int,
         NEW k \in Int, Counted(c) = k, NEW l \in Int, Counted(c)' = l, a + l <= k + t,
         NEW u \in Int, Uncounted(c) = u, NEW v \in Int, Uncounted(c)' = v, t + v <= u + n
  PROVE  Account(c)'
<1>1. PICK A \in Int : A = AckedTokens(c)
  BY AckedType DEF NumberInv
<1>2. PICK T \in Nat : T = conv[c].tokens
  BY DEF Account
<1>3. PICK S \in Int : S = StoredIn(History(c))
  OBVIOUS
<1>4. A + k <= T /\ T + u <= S
  BY <1>1, <1>2, <1>3 DEF Account
<1>5. T + t \in Nat /\ (A + a) + l <= T + t /\ (T + t) + v <= S + n
  BY <1>4
<1>6. /\ AckedTokens(c)' = A + a /\ conv'[c].tokens = T + t /\ StoredIn(History(c))' = S + n
      /\ Counted(c)' = l /\ Uncounted(c)' = v
  BY <1>1, <1>2, <1>3
<1> HIDE DEF AckedTokens, Counted, Uncounted, StoredIn, History
<1> QED
  BY <1>5, <1>6 DEF Account

LEMMA StoredInType ==
  ASSUME HistoryInv, NEW c
  PROVE  History(c) \in Histories /\ StoredIn(History(c)) \in Int
<1>1. History(c) \in Histories
  BY AreHistories DEF HistoryInv
<1>2. Summable([i \in DOMAIN History(c) |-> History(c)[i].tokens], DOMAIN History(c))
  BY <1>1, StoredSum
<1> QED
  BY <1>1, <1>2, SumType DEF StoredIn


(* Steps that store and count nothing.                                      *)
LEMMA AccountStays ==
  ASSUME NEW c, Account(c), NumberInv, HistoryInv, DatedInv,
         UNCHANGED <<message, acked>>, conv'[c].tokens = conv[c].tokens,
         \/ Counted(c)' = 0 /\ Uncounted(c)' = 0
         \/ Counted(c)' = Counted(c) /\ Uncounted(c)' = Uncounted(c)
         \/ Counted(c)' = 0 /\ Uncounted(c)' = Uncounted(c)
  PROVE  Account(c)'
<1>1. AckedTokens(c)' = AckedTokens(c) + 0
  <2>1. AckedTokens(c)' = AckedTokens(c) /\ AckedTokens(c) \in Int
    BY AckedType DEF AckedTokens, NumberInv
  <2> HIDE DEF AckedTokens
  <2> QED
    BY <2>1
<1>2. StoredIn(History(c))' = StoredIn(History(c)) + 0 /\ StoredIn(History(c)) \in Int
  <2>1. StoredIn(History(c))' = StoredIn(History(c)) /\ StoredIn(History(c)) \in Int
    BY StoredInType DEF StoredIn, History
  <2> HIDE DEF StoredIn, History
  <2> QED
    BY <2>1
<1>3. conv'[c].tokens = conv[c].tokens + 0
  BY DEF Account
<1>4. PICK k \in Nat, u \in Nat : Counted(c) = k /\ Uncounted(c) = u
  BY CountedType
<1>5. PICK l \in Nat, v \in Nat : Counted(c)' = l /\ Uncounted(c)' = v /\ l <= k /\ v <= u
  BY <1>4
<1>6. 0 \in Nat /\ 0 \in Int /\ {k, l, u, v} \in SUBSET Int /\ 0 + l <= k + 0 /\ 0 + v <= u + 0
  BY <1>5
<1> HIDE DEF AckedTokens, Counted, Uncounted, StoredIn, History, Account
<1> QED
  BY <1>1, <1>2, <1>3, <1>4, <1>5, <1>6, AccountMoves

(* What the request being handled has stored, and counted, of its tokens.   *)
LEMMA CountedIs ==
  ASSUME NEW c
  PROVE  /\ job.kind # "cycle" => Counted(c) = 0 /\ Uncounted(c) = 0
         /\ job.step = "begin" => Counted(c) = 0 /\ Uncounted(c) = 0
         /\ job.kind = "cycle" /\ job.step = "touch" =>
              Counted(c) = 0 /\ Uncounted(c) = IF job.todo = 0 THEN For(job, c) ELSE 0
         /\ job.kind = "cycle" /\ job.step = "usage" => Counted(c) = 0 /\ Uncounted(c) = For(job, c)
         /\ job.kind = "cycle" /\ job.step = "compress" => Counted(c) = For(job, c) /\ Uncounted(c) = 0
  BY DEF Counted, Uncounted, For

LEMMA CountedNext ==
  ASSUME NEW c
  PROVE  /\ job'.kind # "cycle" => Counted(c)' = 0 /\ Uncounted(c)' = 0
         /\ job'.step = "begin" => Counted(c)' = 0 /\ Uncounted(c)' = 0
         /\ job'.kind = "cycle" /\ job'.step = "touch" =>
              Counted(c)' = 0 /\ Uncounted(c)' = IF job'.todo = 0 THEN For(job', c) ELSE 0
         /\ job'.kind = "cycle" /\ job'.step = "usage" =>
              Counted(c)' = 0 /\ Uncounted(c)' = For(job', c)
         /\ job'.kind = "cycle" /\ job'.step = "compress" =>
              Counted(c)' = For(job', c) /\ Uncounted(c)' = 0
  BY DEF Counted, Uncounted, For

LEMMA EndingAccounts ==
  ASSUME NEW c \in Conversation, Account(c), NumberInv, HistoryInv, DatedInv,
         NEW k, NEW s, Ends(k, s), k = "cycle" => s = "compress",
         conv'[c].tokens = conv[c].tokens
  PROVE  Account(c)'
<1>1. /\ job \in Jobs /\ Busy /\ job.kind = k /\ job.step = s /\ job'.kind = "idle"
      /\ acked' = acked \cup {job} /\ message' = message
  BY Ending
<1>2. PICK j \in Jobs : j = job
  BY <1>1
<1>3. acked \in SUBSET Jobs /\ IsFiniteSet(acked) /\ j \notin acked /\ acked' = acked \cup {j}
  BY <1>1, <1>2 DEF NumberInv
<1>4. For(j, c) \in Nat
  BY DEF For, Jobs
<1>5. AckedTokens(c)' = AckedTokens(c) + For(j, c)
  BY <1>3, AckedGrows
<1>6. Counted(c) = For(j, c) /\ Uncounted(c) = 0
  <2>1. CASE k = "cycle"
    BY <1>1, <1>2, <2>1, CountedIs
  <2>2. CASE k # "cycle"
    <3>1. Counted(c) = 0 /\ Uncounted(c) = 0
      BY <1>1, <2>2, CountedIs
    <3>2. job.tokens = 0
      BY <1>1, <2>2 DEF NumberInv
    <3> QED
      BY <1>2, <3>1, <3>2 DEF For
  <2> QED
    BY <2>1, <2>2
<1>7. Counted(c)' = 0 /\ Uncounted(c)' = 0
  BY <1>1, CountedNext
<1>8. StoredIn(History(c))' = StoredIn(History(c)) + 0 /\ StoredIn(History(c)) \in Int
  <2>1. StoredIn(History(c))' = StoredIn(History(c)) /\ StoredIn(History(c)) \in Int
    BY <1>1, StoredInType DEF StoredIn, History
  <2> HIDE DEF StoredIn, History
  <2> QED
    BY <2>1
<1>9. conv'[c].tokens = conv[c].tokens + 0
  BY DEF Account
<1>10. PICK n \in Nat : n = For(j, c)
  BY <1>4
<1>11. 0 \in Nat /\ 0 \in Int /\ n \in Int /\ n + 0 <= n + 0 /\ 0 + 0 <= 0 + 0
  OBVIOUS
<1> HIDE DEF AckedTokens, Counted, Uncounted, StoredIn, History, Account, For
<1> QED
  BY <1>5, <1>6, <1>7, <1>8, <1>9, <1>10, <1>11, AccountMoves

(* The response is stored: its tokens are stored and not yet counted.       *)
LEMMA AddingAccounts ==
  ASSUME NEW c \in Conversation, Account(c), NumberInv, HistoryInv, DatedInv, Added
  PROVE  Account(c)'
<1> DEFINE m == [conv |-> job.conv, no |-> job.no, left |-> job.todo,
                 tokens |-> IF job.todo = 0 THEN job.tokens ELSE 0,
                 form |-> IF job.todo \in job.lists THEN "list" ELSE "text"]
<1>1. Goes("cycle", "begin") /\ job'.step = "touch" /\ job'.todo = job.todo
  BY DEF Added
<1>2. /\ job.kind = "cycle" /\ job.step = "begin" /\ job'.kind = "cycle"
      /\ job'.conv = job.conv /\ job'.tokens = job.tokens /\ acked' = acked
      /\ job.conv \in Conversation /\ job.no \in Nat /\ job.todo \in Nat /\ job.tokens \in Nat
  BY <1>1, GoingOn
<1>3. m \in Messages /\ m.conv = job.conv /\ m.tokens = IF job.todo = 0 THEN job.tokens ELSE 0
  BY <1>2 DEF Messages
<1>4. message' = Append(message, m) /\ conv'[c].tokens = conv[c].tokens
  BY DEF Added, RowsStay, Stays
<1> HIDE DEF m
<1>5. message \in Histories
  BY DEF HistoryInv, Histories
<1>6. History(c) \in Histories /\ StoredIn(History(c)) \in Int /\ History(c) = HistoryIn(message, c)
  BY StoredInType DEF History
<1>7. HistoryIn(message', c) = IF m.conv = c THEN Append(History(c), m) ELSE History(c)
  BY <1>3, <1>4, <1>5, <1>6, HistoryGrows
<1>8. PICK n \in Nat : n = IF job.conv = c /\ job.todo = 0 THEN job.tokens ELSE 0
  BY <1>2
<1>9. StoredIn(HistoryIn(message', c)) = StoredIn(History(c)) + n
  <2>1. PICK h \in Histories, S \in Int : h = History(c) /\ S = StoredIn(h)
    BY <1>6
  <2>2. CASE job.conv = c
    <3>1. StoredIn(Append(h, m)) = StoredIn(h) + m.tokens
      BY <1>3, StoredAppend
    <3>2. m.tokens = n
      BY <1>3, <1>8, <2>2
    <3> QED
      BY <1>3, <1>7, <2>1, <2>2, <3>1, <3>2
  <2>3. CASE job.conv # c
    <3>1. HistoryIn(message', c) = h /\ n = 0
      BY <1>3, <1>7, <1>8, <2>1, <2>3
    <3> HIDE DEF StoredIn
    <3> QED
      BY <2>1, <3>1
  <2> QED
    BY <2>2, <2>3
<1>10. StoredIn(History(c))' = StoredIn(HistoryIn(message', c))
  BY DEF StoredIn, History
<1>11. Counted(c) = 0 /\ Uncounted(c) = 0 /\ Counted(c)' = 0 /\ Uncounted(c)' = n
  <2>1. Counted(c) = 0 /\ Uncounted(c) = 0
    BY <1>2, CountedIs
  <2>2. Counted(c)' = 0 /\ Uncounted(c)' = IF job'.todo = 0 THEN For(job', c) ELSE 0
    BY <1>1, <1>2, CountedNext
  <2> QED
    BY <1>1, <1>2, <1>8, <2>1, <2>2 DEF For
<1>12. AckedTokens(c)' = AckedTokens(c) + 0
  <2>1. AckedTokens(c)' = AckedTokens(c) /\ AckedTokens(c) \in Int
    BY <1>2, AckedType DEF AckedTokens, NumberInv
  <2> HIDE DEF AckedTokens
  <2> QED
    BY <2>1
<1>13. conv'[c].tokens = conv[c].tokens + 0
  BY <1>4 DEF Account
<1>14. 0 \in Nat /\ 0 \in Int /\ n \in Int /\ 0 + 0 <= 0 + 0 /\ 0 + n <= 0 + n
  OBVIOUS
<1> HIDE DEF AckedTokens, Counted, Uncounted, StoredIn, History, Account
<1> QED
  BY <1>6, <1>9, <1>10, <1>11, <1>12, <1>13, <1>14, AccountMoves

(* What is stored is counted.                                               *)
LEMMA UsingAccounts ==
  ASSUME NEW c \in Conversation, Account(c), NumberInv, HistoryInv, DatedInv, Used
  PROVE  Account(c)'
<1>1. Goes("cycle", "usage") /\ job'.step = "compress" /\ message' = message
  BY DEF Used
<1>2. /\ job.kind = "cycle" /\ job.step = "usage" /\ job'.kind = "cycle"
      /\ job'.conv = job.conv /\ job'.tokens = job.tokens /\ acked' = acked
      /\ job.tokens \in Nat /\ job.conv \in Conversation
  BY <1>1, GoingOn
<1>3. PICK n \in Nat : n = For(job, c)
  BY <1>2 DEF For
<1>4. conv'[c].tokens = conv[c].tokens + n
  <2>1. CASE job.conv = c
    BY <1>2, <1>3, <2>1 DEF Used, For
  <2>2. CASE job.conv # c
    <3>1. conv'[c].tokens = conv[c].tokens /\ n = 0 /\ conv[c].tokens \in Nat
      BY <1>3, <2>2 DEF Used, For, OthersStay, Stays, Account
    <3> QED
      BY <3>1
  <2> QED
    BY <2>1, <2>2
<1>5. Counted(c) = 0 /\ Uncounted(c) = n /\ Counted(c)' = n /\ Uncounted(c)' = 0
  <2>1. Counted(c) = 0 /\ Uncounted(c) = For(job, c)
    BY <1>2, CountedIs
  <2>2. Counted(c)' = For(job', c) /\ Uncounted(c)' = 0
    BY <1>1, <1>2, CountedNext
  <2> QED
    BY <1>2, <1>3, <2>1, <2>2 DEF For
<1>6. AckedTokens(c)' = AckedTokens(c) + 0
  <2>1. AckedTokens(c)' = AckedTokens(c) /\ AckedTokens(c) \in Int
    BY <1>2, AckedType DEF AckedTokens, NumberInv
  <2> HIDE DEF AckedTokens
  <2> QED
    BY <2>1
<1>7. StoredIn(History(c))' = StoredIn(History(c)) + 0 /\ StoredIn(History(c)) \in Int
  <2>1. StoredIn(History(c))' = StoredIn(History(c)) /\ StoredIn(History(c)) \in Int
    BY <1>1, StoredInType DEF StoredIn, History
  <2> HIDE DEF StoredIn, History
  <2> QED
    BY <2>1
<1>8. 0 \in Nat /\ 0 \in Int /\ n \in Int /\ 0 + n <= 0 + n /\ n + 0 <= n + 0
  OBVIOUS
<1> HIDE DEF AckedTokens, Counted, Uncounted, StoredIn, History, Account, For
<1> QED
  BY <1>4, <1>5, <1>6, <1>7, <1>8, AccountMoves

LEMMA TouchingAccounts ==
  ASSUME NEW c \in Conversation, Account(c), NumberInv, HistoryInv, DatedInv, Touched
  PROVE  Account(c)'
<1>1. /\ Goes("cycle", "touch") /\ message' = message
      /\ \/ job.todo > 0 /\ job'.todo = job.todo - 1 /\ job'.step = "begin"
         \/ /\ job.todo = 0 /\ job'.todo = 0
            /\ job'.step = IF job.tokens > 0 THEN "usage" ELSE "compress"
      /\ conv'[c].tokens = conv[c].tokens
  BY DEF Touched, RowsStay, Stays
<1>2. /\ job.kind = "cycle" /\ job.step = "touch" /\ job'.kind = "cycle"
      /\ job'.conv = job.conv /\ job'.tokens = job.tokens /\ acked' = acked
      /\ job.tokens \in Nat
  BY <1>1, GoingOn
<1>3. Counted(c) = 0 /\ Uncounted(c) = IF job.todo = 0 THEN For(job, c) ELSE 0
  BY <1>2, CountedIs
<1>4. For(job', c) = For(job, c)
  BY <1>2 DEF For
<1>5. CASE job'.step = "begin"
  <2>1. Counted(c)' = 0 /\ Uncounted(c)' = 0
    BY <1>5, CountedNext
  <2> QED
    BY <1>1, <1>2, <2>1, AccountStays
<1>6. CASE job.todo = 0 /\ job'.step = "usage"
  <2>1. Counted(c)' = 0 /\ Uncounted(c)' = Uncounted(c)
    BY <1>2, <1>3, <1>4, <1>6, CountedNext
  <2> QED
    BY <1>1, <1>2, <2>1, AccountStays
<1>7. CASE job.tokens = 0 /\ job'.step = "compress"
  <2>1. For(job, c) = 0
    BY <1>7 DEF For
  <2>2. Counted(c)' = 0 /\ Uncounted(c)' = 0
    BY <1>2, <1>4, <1>7, <2>1, CountedNext
  <2> QED
    BY <1>1, <1>2, <2>2, AccountStays
<1> QED
  BY <1>1, <1>2, <1>5, <1>6, <1>7

LEMMA AccountsStep ==
  ASSUME DatedInv, NumberInv, HistoryInv, AccountsInv, Step
  PROVE  AccountsInv'
<1> SUFFICES ASSUME NEW c \in Conversation
             PROVE  Account(c)'
  BY DEF AccountsInv
<1>1. Account(c)
  BY DEF AccountsInv
<1>2. CASE Quiet
  <2>1. UNCHANGED <<message, acked>> /\ conv'[c].tokens = conv[c].tokens
    BY <1>2 DEF Quiet, RowsStay, Stays
  <2>2. CASE job' = job
    <3>1. Counted(c)' = Counted(c) /\ Uncounted(c)' = Uncounted(c)
      BY <2>2 DEF Counted, Uncounted
    <3> QED
      BY <1>1, <2>1, <3>1, AccountStays
  <2>3. CASE job' = Idle
    <3>1. Counted(c)' = 0 /\ Uncounted(c)' = 0
      BY <2>3, IdleNext, CountedNext
    <3> QED
      BY <1>1, <2>1, <3>1, AccountStays
  <2> QED
    BY <1>2, <2>2, <2>3 DEF Quiet
<1>3. CASE Received
  <2>1. UNCHANGED <<message, acked>> /\ conv'[c].tokens = conv[c].tokens /\ job'.step = "begin"
    BY <1>3 DEF Received, RowsStay, Stays
  <2>2. Counted(c)' = 0 /\ Uncounted(c)' = 0
    BY <2>1, CountedNext
  <2> QED
    BY <1>1, <2>1, <2>2, AccountStays
<1>4. CASE ProviderSet
  <2>1. Goes("failover", "begin") /\ message' = message /\ conv'[c].tokens = conv[c].tokens
    BY <1>4 DEF ProviderSet, RowsStay, Stays
  <2>2. acked' = acked /\ job'.kind = "failover"
    BY <2>1, GoingOn
  <2>3. Counted(c)' = 0 /\ Uncounted(c)' = 0
    BY <2>2, CountedNext
  <2> QED
    BY <1>1, <2>1, <2>2, <2>3, AccountStays
<1>5. CASE Opened
  <2>1. PICK s \in Steps : Ends("open", s)
    BY <1>5 DEF Opened
  <2>2. conv'[c].tokens = conv[c].tokens
    BY <1>5 DEF Opened, RowsStay, Stays
  <2> QED
    BY <1>1, <2>1, <2>2, EndingAccounts
<1>6. CASE EventSet
  <2>1. Ends("failover", "event") /\ conv'[c].tokens = conv[c].tokens
    BY <1>6 DEF EventSet, OthersStay, Stays
  <2> QED
    BY <1>1, <2>1, EndingAccounts
<1>7. CASE Compressed
  <2>1. Ends("cycle", "compress") /\ conv'[c].tokens = conv[c].tokens
    BY <1>7 DEF Compressed, RowsStay, Stays
  <2> QED
    BY <1>1, <2>1, EndingAccounts
<1> QED
  BY <1>1, <1>2, <1>3, <1>4, <1>5, <1>6, <1>7, AddingAccounts, TouchingAccounts, UsingAccounts DEF Step


-----------------------------------------------------------------------------
KeptInv == DatedInv /\ NumberInv /\ HistoryInv /\ EventsInv /\ AccountsInv

LEMMA InitiallyKept == Init => KeptInv
<1> SUFFICES ASSUME Init
             PROVE  KeptInv
  OBVIOUS
<1>1. /\ conv = [c \in Conversation |-> NoRow] /\ message = <<>> /\ job = Idle
      /\ count = 0 /\ acked = {}
  BY DEF Init
<1>2. ~Busy /\ job.kind = "idle"
  BY <1>1 DEF Idle, Busy
<1>3. ASSUME NEW c \in Conversation
      PROVE  conv[c].there = FALSE /\ conv[c].tokens = 0 /\ conv[c].failovers = <<>>
  BY <1>1 DEF NoRow
<1>4. NumberInv
  BY <1>1, <1>2, <1>3, FS_EmptySet DEF NumberInv, NoRowNothing
<1>5. \A c : History(c) = <<>>
  BY <1>1, HistoryEmpty DEF History
<1>6. HistoryInv
  <2>1. message \in Seq(Messages) /\ job.kind # "cycle" /\ \A r \in acked : FALSE
    BY <1>1, <1>2
  <2>2. \A c \in Conversation : \A j \in DOMAIN History(c) : FALSE
    BY <1>5
  <2> QED
    BY <2>1, <2>2 DEF HistoryInv
<1>7. EventsInv
  <2>1. \A c \in Conversation : EventsOf(c)
    <3>1. <<>> \in Seq(Nat) /\ \A i \in DOMAIN <<>> : FALSE
      OBVIOUS
    <3> QED
      BY <1>3, <3>1 DEF EventsOf
  <2> QED
    BY <1>1, <2>1 DEF EventsInv
<1>8. ASSUME NEW c \in Conversation
      PROVE  Account(c)
  <2>1. AckedTokens(c) = 0
    <3>1. {r \in acked : r.conv = c} = {}
      BY <1>1
    <3> QED
      BY <3>1, SumEmpty DEF AckedTokens
  <2>2. StoredIn(History(c)) = 0
    <3>1. DOMAIN History(c) = {}
      BY <1>5
    <3> QED
      BY <3>1, SumEmpty DEF StoredIn
  <2>3. Counted(c) = 0 /\ Uncounted(c) = 0
    BY <1>2, CountedIs
  <2>4. conv[c].tokens = 0
    BY <1>3
  <2> HIDE DEF AckedTokens, StoredIn, Counted, Uncounted
  <2> QED
    BY <2>1, <2>2, <2>3, <2>4 DEF Account
<1> QED
  BY <1>4, <1>6, <1>7, <1>8, InitiallyDated DEF KeptInv, AccountsInv

LEMMA KeptStep ==
  ASSUME KeptInv, [Next]_vars
  PROVE  KeptInv'
<1>1. DatedInv'
  BY DatedStep DEF KeptInv
<1>2. Step
  BY WhatSteps DEF KeptInv, NumberInv, Step
<1>3. NumberInv'
  BY <1>2, NumberStep DEF KeptInv
<1> QED
  BY <1>1, <1>2, <1>3, HistoryStep, EventsStep, AccountsStep DEF KeptInv

LEMMA KeptInvariant == Spec => []KeptInv
<1>1. KeptInv /\ [Next]_vars => KeptInv'
  BY KeptStep
<1> QED
  BY <1>1, InitiallyKept, PTL DEF Spec

(* For every number of messages and requests, and wherever statements fail  *)
(* or the process ends: an acknowledged cycle is in the history of its      *)
(* conversation, once, whole and in its order, and an acknowledged failover *)
(* is recorded once.                                                        *)
THEOREM ConversationAcknowledgedIsKept == Spec => []AcknowledgedIsKept
<1>1. KeptInv => AcknowledgedIsKept
  <2> SUFFICES ASSUME KeptInv, NEW r \in acked
               PROVE  /\ r.kind \in {"open", "cycle"} => conv[r.conv].there
                      /\ r.kind = "cycle" => Stored(History(r.conv), r.no, r.size)
                      /\ r.kind = "failover" /\ KnownBefore(r) =>
                           Cardinality({i \in DOMAIN conv[r.conv].failovers : conv[r.conv].failovers[i] = r.no}) = 1
    BY DEF AcknowledgedIsKept, Stored, Block
  <2>1. r.kind \in {"open", "cycle"} => conv[r.conv].there
    BY DEF KeptInv, EventsInv
  <2>2. r.kind = "cycle" => Stored(History(r.conv), r.no, r.size)
    BY DEF KeptInv, HistoryInv
  <2>3. ASSUME r.kind = "failover", KnownBefore(r)
        PROVE  Cardinality({i \in DOMAIN conv[r.conv].failovers : conv[r.conv].failovers[i] = r.no}) = 1
    <3>1. r.conv \in Conversation
      BY DEF KeptInv, NumberInv, Jobs
    <3>2. PICK i \in DOMAIN conv[r.conv].failovers : conv[r.conv].failovers[i] = r.no
      BY <2>3 DEF KeptInv, EventsInv, HasEvent
    <3>3. {k \in DOMAIN conv[r.conv].failovers : conv[r.conv].failovers[k] = r.no} = {i}
      BY <3>1, <3>2 DEF KeptInv, EventsInv, EventsOf
    <3> QED
      BY <3>3, FS_Singleton
  <2> QED
    BY <2>1, <2>2, <2>3
<1> QED
  BY <1>1, KeptInvariant, PTL

(* For every number of tokens: the usage of a conversation is no less than  *)
(* the responses that were acknowledged and no more than those stored.      *)
THEOREM ConversationUsageAccounts == Spec => []UsageAccounts
<1>1. KeptInv => UsageAccounts
  <2> SUFFICES ASSUME KeptInv, NEW c \in Conversation
               PROVE  /\ MapThenSumSet(LAMBDA r : r.tokens, {r \in acked : r.conv = c}) <= conv[c].tokens
                      /\ conv[c].tokens <= FoldSeq(LAMBDA m, sum : m.tokens + sum, 0, History(c))
    BY DEF UsageAccounts
  <2>1. PICK A \in Int : A = AckedTokens(c)
    BY AckedType DEF KeptInv, NumberInv
  <2>2. MapThenSumSet(LAMBDA r : r.tokens, {r \in acked : r.conv = c}) = A
    BY <2>1, AckedType DEF KeptInv, NumberInv
  <2>3. History(c) \in Histories /\ StoredIn(History(c)) \in Int
    BY StoredInType DEF KeptInv
  <2>4. FoldSeq(LAMBDA m, sum : m.tokens + sum, 0, History(c)) = StoredIn(History(c))
    BY <2>3, StoredSum
  <2>5. PICK k \in Nat, u \in Nat : Counted(c) = k /\ Uncounted(c) = u
    BY CountedType DEF KeptInv
  <2>6. PICK T \in Nat, S \in Int : T = conv[c].tokens /\ S = StoredIn(History(c))
    BY <2>3 DEF KeptInv, AccountsInv, Account
  <2>7. A + k <= T /\ T + u <= S
    BY <2>1, <2>5, <2>6 DEF KeptInv, AccountsInv, Account
  <2>8. A <= T /\ T <= S
    BY <2>7
  <2> QED
    BY <2>2, <2>4, <2>6, <2>8
<1> QED
  BY <1>1, KeptInvariant, PTL

=============================================================================
