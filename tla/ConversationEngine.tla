---------------------------- MODULE ConversationEngine ----------------------------
(***************************************************************************)
(* The conversation engine: conversations shared by all providers, kept in *)
(* SQLite behind the gate of every engine server.  A handler is            *)
(* synchronous, so requests do not interleave; but each of its statements  *)
(* commits by itself, so a statement that fails, or the end of the         *)
(* process, leaves the ones before it.  After its end the process is       *)
(* started again, with a fresh gate, and archives what is old.             *)
(*                                                                         *)
(* Texts, models and costs are left out: a message is known by the number  *)
(* of the request that brought it, its place in it and the form in which   *)
(* its content is read back, a text or a list; tokens are the output       *)
(* tokens of a response.  A handler takes no time on the clock.            *)
(***************************************************************************)
EXTENDS SecurityGate, SequencesExt

CONSTANTS
    Conversation,    \* the ids clients use
    Tokens,          \* possible output tokens of a response, 0 for none given
    Lists,           \* which messages of a request may hold lists, by their place
    PerRequest,      \* bound of the messages that come with one request
    MaxMessages,     \* MAX_MESSAGES_BEFORE_COMPRESSION
    MaxTokens,       \* MAX_TOKENS_BEFORE_COMPRESSION
    KeepRecent,      \* keepRecent of _compress()
    ArchiveAge,      \* conversations idle for longer are archived at the start
    RequestBound     \* bound of the requests that pass the gate

ASSUME EngineAssumption ==
    /\ Tokens \subseteq Nat
    /\ Lists \subseteq SUBSET Nat
    /\ {PerRequest, MaxMessages, MaxTokens, KeepRecent, ArchiveAge, RequestBound} \subseteq Nat

VARIABLES
    conv,      \* the table conversations
    message,   \* the table conversation_messages, in the order of insertion
    job,       \* the request being handled, or Idle
    count,     \* how many requests have passed the gate
    acked,     \* history: requests whose success was reported
    usedAt     \* history: when a conversation was last used by a request

engine == <<conv, message, job, count, acked, usedAt>>
vars == <<gateVars, engine>>

Idle == [kind |-> "idle"]

NoRow == [there |-> FALSE, active |-> FALSE, updatedAt |-> 0, tokens |-> 0,
          failovers |-> <<>>, compressed |-> 0]

(* A new conversation; an id the client sends becomes its id.               *)
NewRow == [NoRow EXCEPT !.there = TRUE, !.active = TRUE, !.updatedAt = now]

(* The messages of a conversation, by their time and then in the order they *)
(* came; the whole of them is what the next provider is sent.               *)
HistoryIn(table, c) ==
    FoldLeft(LAMBDA found, m : IF m.conv = c THEN Append(found, m) ELSE found, <<>>, table)

History(c) == HistoryIn(message, c)

Init ==
    /\ now = 0
    /\ GateInit
    /\ conv = [c \in Conversation |-> NoRow]
    /\ message = <<>>
    /\ job = Idle
    /\ count = 0
    /\ acked = {}
    /\ usedAt = [c \in Conversation |-> 0]

-----------------------------------------------------------------------------

(* Faulty variant: updates do not date the row.                             *)
UpdateUndated(c, row) == conv' = IF conv[c].there THEN [conv EXCEPT ![c] = row] ELSE conv

(* UPDATE of a row; without a row it changes nothing, and succeeds.         *)
Update(c, row) ==
    conv' = IF conv[c].there THEN [conv EXCEPT ![c] = [row EXCEPT !.updatedAt = now]] ELSE conv

(* The request is answered with success.                                    *)
Acknowledge(request) ==
    /\ acked' = acked \cup {request}
    /\ job' = Idle
    /\ usedAt' = [usedAt EXCEPT ![request.conv] = now]

Request(kind, c, n, k, lists) ==
    [kind |-> kind, conv |-> c, no |-> count + 1, size |-> n, todo |-> n, tokens |-> k,
     lists |-> lists \cap (0..n), step |-> "begin"]

Requests ==
    {Request(kind, c, 0, 0, {}) : kind \in {"open", "failover"}, c \in Conversation}
      \cup {Request("cycle", c, n, k, lists) :
               c \in Conversation, n \in 0..PerRequest, k \in Tokens, lists \in Lists}

(* A request passes the gate and its handler begins.                        *)
Receive(ip) ==
    /\ job = Idle
    /\ count < RequestBound
    /\ LetIn(ip)
    /\ count' = count + 1
    /\ job' \in Requests
    /\ UNCHANGED <<now, cleanAt, conv, message, acked, usedAt>>

(* A request that is let in but has no credentials, or misses a field.      *)
Reject(ip) ==
    /\ job = Idle
    /\ LetIn(ip)
    /\ UNCHANGED <<now, cleanAt, engine>>

TurnAway(ip) ==
    /\ job = Idle
    /\ Refuse(ip)
    /\ UNCHANGED <<now, cleanAt, engine>>

(* POST /api/conversations: one statement, an UPDATE or an INSERT.          *)
Open ==
    /\ job.kind = "open"
    /\ IF conv[job.conv].there
       THEN Update(job.conv, [conv[job.conv] EXCEPT !.active = TRUE])
       ELSE conv' = [conv EXCEPT ![job.conv] = NewRow]
    /\ Acknowledge(job)
    /\ UNCHANGED <<message, count>>

At(kind, step) == job.kind = kind /\ job.step = step

Go(step) == job' = [job EXCEPT !.step = step] /\ UNCHANGED <<count, acked, usedAt>>

(* PATCH .../provider: the provider, then the event in the metadata.        *)
FailoverProvider ==
    /\ At("failover", "begin")
    /\ Update(job.conv, conv[job.conv])
    /\ Go("event")
    /\ UNCHANGED message

FailoverEvent ==
    /\ At("failover", "event")
    /\ Update(job.conv, [conv[job.conv] EXCEPT !.failovers = Append(@, job.no)])
    /\ Acknowledge(job)
    /\ UNCHANGED <<message, count>>

(* Faulty variant: the usage is written before the response is stored.      *)
InsertMessageAfterUsage ==
    /\ At("cycle", "begin")
    /\ conv[job.conv].there
    /\ message' = Append(message, [conv |-> job.conv, no |-> job.no, left |-> job.todo,
                                   tokens |-> IF job.todo = 0 THEN job.tokens ELSE 0,
                                   form |-> IF job.todo \in job.lists THEN "list" ELSE "text"])
    /\ Go("touch")
    /\ Update(job.conv, [conv[job.conv] EXCEPT !.tokens = IF job.todo = 1 THEN @ + job.tokens ELSE @])

(* The INSERT of the next message of POST .../messages: those of the        *)
(* request, then the response.  It needs the conversation to be there.      *)
InsertMessage ==
    /\ At("cycle", "begin")
    /\ conv[job.conv].there
    /\ message' = Append(message, [conv |-> job.conv, no |-> job.no, left |-> job.todo,
                                   tokens |-> IF job.todo = 0 THEN job.tokens ELSE 0,
                                   form |-> IF job.todo \in job.lists THEN "list" ELSE "text"])
    /\ Go("touch")
    /\ UNCHANGED conv

(* The second statement of addMessage(), and on to the next message.        *)
Touch ==
    /\ At("cycle", "touch")
    /\ Update(job.conv, conv[job.conv])
    /\ job' = [job EXCEPT !.todo = IF @ > 0 THEN @ - 1 ELSE 0,
                          !.step = CASE job.todo > 0 -> "begin"
                                     [] job.todo = 0 /\ job.tokens > 0 -> "usage"
                                     [] OTHER -> "compress"]
    /\ UNCHANGED <<message, count, acked, usedAt>>

(* The counts of the conversation are read and written back.                *)
AddUsage ==
    /\ At("cycle", "usage")
    /\ Update(job.conv, [conv[job.conv] EXCEPT !.tokens = @ + job.tokens])
    /\ Go("compress")
    /\ UNCHANGED message

(* messages.slice(0, n - keepRecent) of n messages: an end below zero       *)
(* counts from the end, so that fewer messages than are kept lose some too. *)
SliceEnd(n) == IF n >= KeepRecent THEN n - KeepRecent ELSE Max({0, n + n - KeepRecent})

(* How many messages a compression marks, which are those of the slice that *)
(* are texts.  It marks them in memory only, so the next one finds them     *)
(* unmarked, and its own count starts from 0.                               *)
Compressible(c) ==
    LET h == History(c)
        end == SliceEnd(Len(h))
    IN  IF /\ Len(h) > MaxMessages \/ conv[c].tokens > MaxTokens
           /\ Len(h) >= 4
           /\ end >= 2
        THEN Cardinality({i \in 1..end : h[i].form = "text"})
        ELSE 0

(* Faulty variant: the compression replaces the metadata.                   *)
CompressOverwriting ==
    /\ At("cycle", "compress")
    /\ IF Compressible(job.conv) > 0
       THEN Update(job.conv, [conv[job.conv] EXCEPT !.compressed = Compressible(job.conv), !.failovers = <<>>])
       ELSE UNCHANGED conv
    /\ Acknowledge(job)
    /\ UNCHANGED <<message, count>>

(* The metadata are read again and written with the compression.            *)
Compress ==
    /\ At("cycle", "compress")
    /\ IF Compressible(job.conv) > 0
       THEN Update(job.conv, [conv[job.conv] EXCEPT !.compressed = Compressible(job.conv)])
       ELSE UNCHANGED conv
    /\ Acknowledge(job)
    /\ UNCHANGED <<message, count>>

(* A statement throws: the conversation is unknown, the eight digits of a   *)
(* message id are taken, a content is missing.  The client is told 500.     *)
InsertFails ==
    /\ At("cycle", "begin")
    /\ job' = Idle
    /\ UNCHANGED <<conv, message, count, acked, usedAt>>

Statement ==
    /\ \/ Open \/ FailoverProvider \/ FailoverEvent
       \/ InsertMessage \/ Touch \/ AddUsage \/ Compress \/ InsertFails
    /\ UNCHANGED gateVars

(* archive(7): UPDATE conversations SET active = 0 WHERE updatedAt < cutoff *)
Archived == [c \in Conversation |->
    IF conv[c].updatedAt < now - ArchiveAge THEN [conv[c] EXCEPT !.active = FALSE] ELSE conv[c]]

(* The process ends, at any moment, and is started again.                   *)
Restart ==
    /\ conv' = Archived
    /\ job' = Idle
    /\ UNCHANGED <<now, message, count, acked, usedAt>>
    /\ GateForgets

Next ==
    \/ \E ip \in Client : Receive(ip) \/ Reject(ip) \/ TurnAway(ip)
    \/ Statement
    \/ Restart
    \/ Clean /\ UNCHANGED engine
    \/ job = Idle /\ Tick /\ UNCHANGED engine

Spec == Init /\ [][Next]_vars

-----------------------------------------------------------------------------

(* An acknowledged request before it had found or made the conversation.    *)
KnownBefore(r) == \E q \in acked : q.kind # "failover" /\ q.conv = r.conv /\ q.no < r.no

(* What the service has acknowledged it keeps, whatever fails and however   *)
(* often the process ends: the messages of a cycle, once each, in their     *)
(* order, with nothing between them, in the history the next provider is    *)
(* given; the event of a failover, once, also after compressions.           *)
AcknowledgedIsKept ==
    \A r \in acked : LET h == History(r.conv) IN
      /\ r.kind \in {"open", "cycle"} => conv[r.conv].there
      /\ r.kind = "cycle" =>
           \E i \in DOMAIN h : i + r.size \in DOMAIN h /\
               \A j \in DOMAIN h : IF j \in i..(i + r.size)
                                  THEN h[j].no = r.no /\ h[j].left = i + r.size - j
                                  ELSE h[j].no # r.no
      /\ r.kind = "failover" /\ KnownBefore(r) =>
           Cardinality({i \in DOMAIN conv[r.conv].failovers : conv[r.conv].failovers[i] = r.no}) = 1

(* The usage of a conversation counts every response that was acknowledged, *)
(* and none that is not stored: a cycle that is cut off may go uncounted.   *)
UsageAccounts ==
    \A c \in Conversation :
      /\ MapThenSumSet(LAMBDA r : r.tokens, {r \in acked : r.conv = c}) <= conv[c].tokens
      /\ conv[c].tokens <= FoldSeq(LAMBDA m, sum : m.tokens + sum, 0, History(c))

(* A start of the process archives no conversation that a request has used  *)
(* within the time conversations are kept active.                           *)
ArchivedWasIdle ==
    [][\A c \in Conversation : conv[c].active /\ ~conv'[c].active => now - usedAt[c] > ArchiveAge]_vars

=============================================================================
