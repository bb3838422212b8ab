----------------------------- MODULE ProtocolProofs -----------------------------
(***************************************************************************)
(* Proofs about what speaks the Messages API and the chat completions of   *)
(* OpenAI: about AnthropicStream, for any chain of upstreams and any       *)
(* limits; about AnthropicServer, for any number of requests and clients,  *)
(* any limits and any periods; and about MessagesGateway, for              *)
(* conversations, streams and answers of any length.                       *)
(***************************************************************************)
EXTENDS AnthropicServer, AnthropicStream, MessagesGateway, FoldLemmas

-----------------------------------------------------------------------------
(* The events of AnthropicStream, as its clients read them.                 *)

Names == OfBlock \cup {"ping", "message_start", "message_delta", "message_stop", "error"}
Events == [event : Names, index : Nat]

Places == {"nothing", "between", "inside", "closing", "over", "rejected"}
Readings == [at : Places, block : Nat]

At(a, n) == [at |-> a, block |-> n]

(* A move that the grammar has is made; it has one for an event at most.    *)
LEMMA Moving ==
  ASSUME NEW s, NEW e, NEW a, <<s.at, e.event, a>> \in Moves, e.event # "ping",
         e.event \in OfBlock => e.index = s.block
  PROVE  Advance(s, e) =
           At(a, IF e.event = "content_block_stop" THEN s.block + 1 ELSE s.block)
<1> DEFINE next == {m[3] : m \in {n \in Moves : n[1] = s.at /\ n[2] = e.event}}
<1>1. ASSUME NEW m \in Moves, NEW n \in Moves, m[1] = n[1], m[2] = n[2]
      PROVE  m[3] = n[3]
  BY <1>1 DEF Moves
<1>2. PICK k \in Moves : k = <<s.at, e.event, a>> /\ k[1] = s.at /\ k[2] = e.event /\ k[3] = a
  OBVIOUS
<1>3. next = {a}
  BY <1>1, <1>2
<1> HIDE DEF next
<1>4. next # {} /\ (CHOOSE b \in next : TRUE) = a
  BY <1>3
<1> QED
  BY <1>4 DEF Advance, At, next

LEMMA Pinged ==
  ASSUME NEW s, NEW n
  PROVE  Advance(s, Event("ping", n)) = s
  BY DEF Advance, Event

LEMMA AdvanceType ==
  ASSUME NEW s \in Readings, NEW e
  PROVE  Advance(s, e) \in Readings
<1> DEFINE next == {m[3] : m \in {n \in Moves : n[1] = s.at /\ n[2] = e.event}}
<1>1. \A m \in Moves : m[3] \in Places
  BY DEF Moves, Places
<1>2. next \subseteq Places
  BY <1>1
<1>3. Rejected \in Readings
  BY DEF Rejected, Readings, Places
<1>4. s.block \in Nat /\ s.block + 1 \in Nat
  BY DEF Readings
<1> HIDE DEF next
<1>5. next # {} => (CHOOSE b \in next : TRUE) \in Places
  BY <1>2
<1> QED
  BY <1>3, <1>4, <1>5 DEF Advance, Readings, next

(* Reading is a fold, over events of whatever kind.                         *)
Advances(E) == [x \in Readings \X E |-> Advance(x[1], x[2])]

LEMMA AdvancesIs ==
  ASSUME NEW E
  PROVE  /\ Advances(E) \in [Readings \X E -> Readings] /\ Fresh \in Readings
         /\ \A s \in Readings, e \in E : Advances(E)[<<s, e>>] = Advance(s, e)
<1>1. Fresh \in Readings
  BY DEF Fresh, Readings, Places
<1> QED
  BY <1>1, AdvanceType DEF Advances

LEMMA AdvancesFoldable ==
  ASSUME NEW E, NEW q \in Seq(E)
  PROVE  Foldable(Readings, E, Advances(E), Fresh, q)
  BY AdvancesIs DEF Foldable

LEMMA ReadIs ==
  ASSUME NEW E, NEW q \in Seq(E)
  PROVE  Read(q) = FoldOf(Advances(E), Fresh, q) /\ Read(q) \in Readings
<1> DEFINE Folded(f) == f = [s \in SUBSET (DOMAIN q) |->
             IF s = {} THEN Fresh ELSE Advance(f[s \ {Max(s)}], q[Max(s)])]
           G == Advances(E)
<1>1. Len(q) \in Nat /\ DOMAIN q = 1..Len(q)
  OBVIOUS
<1>2. ASSUME NEW s \in SUBSET (DOMAIN q), s # {}
      PROVE  q[Max(s)] \in E /\ s \ {Max(s)} \in SUBSET (DOMAIN q)
  <2>1. Max(s) \in DOMAIN q
    BY <1>1, <1>2, MaxIs
  <2> QED
    BY <2>1
<1>a. /\ G \in [Readings \X E -> Readings] /\ Fresh \in Readings
      /\ \A s \in Readings, e \in E : G[<<s, e>>] = Advance(s, e)
  BY AdvancesIs
<1> HIDE DEF G
<1>3. PICK h \in [SUBSET (DOMAIN q) -> Readings] : IsRun(h, G, Fresh, q)
  BY <1>a, RunExists
<1>4. Folded(h)
  <2>1. ASSUME NEW s \in SUBSET (DOMAIN q), s # {}
        PROVE  h[s] = Advance(h[s \ {Max(s)}], q[Max(s)])
    BY <1>2, <1>3, <1>a, <2>1 DEF IsRun
  <2>2. {} \in SUBSET (DOMAIN q) => h[{}] = Fresh
    BY <1>3 DEF IsRun
  <2> QED
    BY <1>3, <2>1, <2>2
<1>5. PICK f : Folded(f) /\ Read(q) = f[DOMAIN q]
  BY <1>4 DEF Read, FoldLeft, MapThenFoldSet
<1>6. f[{}] = Fresh /\ Follows(f, Readings, G, q)
  <2>1. {} \in SUBSET (DOMAIN q)
    OBVIOUS
  <2>2. ASSUME NEW s \in SUBSET (DOMAIN q), s # {}, f[s \ {Max(s)}] \in Readings
        PROVE  f[s] = G[<<f[s \ {Max(s)}], q[Max(s)]>>]
    <3>1. f[s] = Advance(f[s \ {Max(s)}], q[Max(s)])
      BY <1>5, <2>2
    <3>2. q[Max(s)] \in E
      BY <1>2, <2>2
    <3> HIDE DEF Folded
    <3> QED
      BY <1>a, <2>2, <3>1, <3>2
  <2> QED
    BY <1>5, <2>1, <2>2 DEF Follows
<1> HIDE DEF Folded
<1>7. Foldable(Readings, E, G, Fresh, q)
  BY <1>a DEF Foldable
<1>8. f[DOMAIN q] = FoldOf(G, Fresh, q) /\ FoldOf(G, Fresh, q) \in Readings
  BY <1>6, <1>7, FoldIs
<1> QED
  BY <1>5, <1>8 DEF G

LEMMA ReadEmpty == Read(<<>>) = Fresh
<1>1. <<>> \in Seq({})
  OBVIOUS
<1>2. FoldOf(Advances({}), Fresh, <<>>) = Fresh
  BY AdvancesIs, FoldEmpty
<1> QED
  BY <1>1, <1>2, ReadIs

LEMMA ReadOn ==
  ASSUME NEW E, NEW q \in Seq(E), NEW e \in E
  PROVE  Append(q, e) \in Seq(E) /\ Read(Append(q, e)) = Advance(Read(q), e)
<1> DEFINE G == Advances(E)
<1>1. Append(q, e) \in Seq(E)
  BY AppendProperties
<1>2. /\ \A s \in Readings, d \in E : G[<<s, d>>] = Advance(s, d)
      /\ Foldable(Readings, E, G, Fresh, q)
      /\ Read(q) = FoldOf(G, Fresh, q) /\ Read(q) \in Readings
      /\ Read(Append(q, e)) = FoldOf(G, Fresh, Append(q, e))
  BY <1>1, AdvancesIs, AdvancesFoldable, ReadIs
<1> HIDE DEF G
<1>3. FoldOf(G, Fresh, Append(q, e)) = G[<<FoldOf(G, Fresh, q), e>>]
  BY <1>2, FoldAppend
<1> QED
  BY <1>1, <1>2, <1>3

LEMMA TwoAre ==
  ASSUME NEW E, NEW e \in E, NEW d \in E
  PROVE  <<e>> \in Seq(E) /\ <<e, d>> \in Seq(E) /\ Append(<<e>>, d) = <<e, d>>
<1> DEFINE x == Append(<<e>>, d)
           y == <<e, d>>
<1>1. <<e>> \in Seq(E) /\ Len(<<e>>) = 1 /\ <<e>>[1] = e
  OBVIOUS
<1>2. x \in Seq(E) /\ Len(x) = 2 /\ x[1] = e /\ x[2] = d
  BY <1>1, AppendProperties
<1>3. y \in Seq(E) /\ Len(y) = 2 /\ y[1] = e /\ y[2] = d
  OBVIOUS
<1> HIDE DEF x, y
<1>4. \A i \in 1..2 : x[i] = y[i]
  <2>1. \A i \in 1..2 : i = 1 \/ i = 2
    OBVIOUS
  <2> QED
    BY <1>2, <1>3, <2>1
<1>5. x = y
  BY <1>2, <1>3, <1>4, SeqEqual
<1> QED
  BY <1>1, <1>3, <1>5 DEF x, y

LEMMA ThreeAre ==
  ASSUME NEW E, NEW e \in E, NEW d \in E, NEW c \in E
  PROVE  Append(<<e, d>>, c) = <<e, d, c>>
<1> DEFINE x == Append(<<e, d>>, c)
           y == <<e, d, c>>
<1>1. <<e, d>> \in Seq(E) /\ Len(<<e, d>>) = 2 /\ <<e, d>>[1] = e /\ <<e, d>>[2] = d
  BY TwoAre
<1>2. x \in Seq(E) /\ Len(x) = 3 /\ x[1] = e /\ x[2] = d /\ x[3] = c
  BY <1>1, AppendProperties
<1>3. y \in Seq(E) /\ Len(y) = 3 /\ y[1] = e /\ y[2] = d /\ y[3] = c
  OBVIOUS
<1> HIDE DEF x, y
<1>4. \A i \in 1..3 : x[i] = y[i]
  <2>1. \A i \in 1..3 : i = 1 \/ i = 2 \/ i = 3
    OBVIOUS
  <2> QED
    BY <1>2, <1>3, <2>1
<1>5. x = y
  BY <1>2, <1>3, <1>4, SeqEqual
<1> QED
  BY <1>5 DEF x, y

(* One, two and three more events.                                          *)
LEMMA WithOne ==
  ASSUME NEW E, NEW q \in Seq(E), NEW e \in E
  PROVE  q \o <<e>> = Append(q, e) /\ q \o <<e>> \in Seq(E)
<1>1. <<>> \in Seq(E) /\ Append(<<>>, e) = <<e>>
  OBVIOUS
<1>2. q \o <<>> = q
  BY ConcatEmptySeq
<1>3. q \o Append(<<>>, e) = Append(q \o <<>>, e)
  BY <1>1, ConcatAppend
<1>4. Append(q, e) \in Seq(E)
  BY AppendProperties
<1> QED
  BY <1>1, <1>2, <1>3, <1>4

LEMMA WithTwo ==
  ASSUME NEW E, NEW q \in Seq(E), NEW e \in E, NEW d \in E
  PROVE  q \o <<e, d>> = Append(Append(q, e), d) /\ q \o <<e, d>> \in Seq(E)
<1>1. <<e>> \in Seq(E) /\ Append(<<e>>, d) = <<e, d>>
  BY TwoAre
<1>2. q \o Append(<<e>>, d) = Append(q \o <<e>>, d)
  BY <1>1, ConcatAppend
<1>3. q \o <<e>> = Append(q, e) /\ Append(q, e) \in Seq(E)
  BY WithOne
<1>4. Append(Append(q, e), d) \in Seq(E)
  BY <1>3, AppendProperties
<1> QED
  BY <1>1, <1>2, <1>3, <1>4

LEMMA WithThree ==
  ASSUME NEW E, NEW q \in Seq(E), NEW e \in E, NEW d \in E, NEW c \in E
  PROVE  /\ q \o <<e, d, c>> = Append(Append(Append(q, e), d), c)
         /\ q \o <<e, d, c>> \in Seq(E)
<1>1. <<e, d>> \in Seq(E) /\ Append(<<e, d>>, c) = <<e, d, c>>
  BY TwoAre, ThreeAre
<1>2. q \o Append(<<e, d>>, c) = Append(q \o <<e, d>>, c)
  BY <1>1, ConcatAppend
<1>3. q \o <<e, d>> = Append(Append(q, e), d) /\ Append(Append(q, e), d) \in Seq(E)
  BY WithTwo
<1>4. Append(Append(Append(q, e), d), c) \in Seq(E)
  BY <1>3, AppendProperties
<1> QED
  BY <1>1, <1>2, <1>3, <1>4

-----------------------------------------------------------------------------
(* Of a text answer the client has read up to the message or into its only  *)
(* block, and as far as the handler believes unless the response was ended. *)
Reached == IF startedBlocks THEN At("inside", 0) ELSE At("between", 0)

StreamInv ==
  /\ StreamTypeOK /\ sent \in Seq(Events)
  /\ accumulated = 0 <=> ~startedBlocks
  /\ blockIndex = 0 /\ upstream # "off" =>
       /\ Read(sent) \in {At("between", 0), At("inside", 0)}
       /\ ~ended => Read(sent) = Reached
  /\ upstream = "off" /\ PlainText => Prefix(sent)

LEMMA Joined ==
  ASSUME NEW e \in Events, NEW d \in Events
  PROVE  /\ <<e>> \o <<d>> = <<e, d>>
         /\ <<>> \o <<e>> = <<e>> /\ <<e>> \o <<>> = <<e>>
<1>1. <<>> \in Seq(Events) /\ <<e>> \in Seq(Events) /\ Append(<<>>, e) = <<e>>
  OBVIOUS
<1>2. <<e>> \o <<d>> = Append(<<e>>, d)
  BY <1>1, WithOne
<1>3. <<>> \o <<e>> = Append(<<>>, e)
  BY <1>1, WithOne
<1>4. <<e>> \o <<>> = <<e>>
  BY <1>1, ConcatEmptySeq
<1> QED
  BY <1>1, <1>2, <1>3, <1>4, TwoAre

LEMMA Made ==
  ASSUME NEW kind \in Names, NEW n \in Nat
  PROVE  Event(kind, n) \in Events /\ Event(kind, n).event = kind /\ Event(kind, n).index = n
  BY DEF Event, Events

LEMMA Typed ==
  /\ \A kind \in {"ping", "message_start", "message_delta", "message_stop", "error",
                  "content_block_start", "content_block_delta", "content_block_stop"} : kind \in Names
  /\ 0 \in Nat
  /\ \A a \in Places, n \in Nat : At(a, n) \in Readings /\ At(a, n).at = a /\ At(a, n).block = n
  BY DEF Names, OfBlock, At, Readings

(* What the clients make of the events of a text answer.                    *)
LEMMA TextMoves ==
  /\ Advance(Fresh, Event("ping", 0)) = Fresh
  /\ Advance(Fresh, Event("message_start", 0)) = At("between", 0)
  /\ Advance(At("between", 0), Event("content_block_start", 0)) = At("inside", 0)
  /\ Advance(At("inside", 0), Event("content_block_delta", 0)) = At("inside", 0)
  /\ Advance(At("inside", 0), Event("content_block_stop", 0)) = At("between", 1)
  /\ Advance(At("between", 1), Event("message_delta", 0)) = At("closing", 1)
  /\ Advance(At("closing", 1), Event("message_stop", 0)) = At("over", 1)
  /\ Advance(At("between", 0), Event("error", 0)) = At("over", 0)
<1>1. Fresh = At("nothing", 0)
  BY DEF Fresh, At
<1>2. Advance(Fresh, Event("ping", 0)) = Fresh
  BY Pinged
<1>3. ASSUME NEW a, NEW n \in Nat, NEW kind, NEW b, <<a, kind, b>> \in Moves, kind # "ping",
             kind \in OfBlock => n = 0
      PROVE  Advance(At(a, n), Event(kind, 0)) = At(b, IF kind = "content_block_stop" THEN n + 1 ELSE n)
  <2>1. PICK s, e : s = At(a, n) /\ e = Event(kind, 0)
    OBVIOUS
  <2>2. s.at = a /\ s.block = n /\ e.event = kind /\ e.index = 0
    BY <2>1 DEF At, Event
  <2>3. Advance(s, e) = At(b, IF e.event = "content_block_stop" THEN s.block + 1 ELSE s.block)
    BY <1>3, <2>2, Moving
  <2> QED
    BY <2>1, <2>2, <2>3
<1>4. Advance(At("nothing", 0), Event("message_start", 0)) = At("between", 0)
  BY <1>3 DEF Moves, OfBlock
<1>5. Advance(At("between", 0), Event("content_block_start", 0)) = At("inside", 0)
  BY <1>3 DEF Moves, OfBlock
<1>6. Advance(At("inside", 0), Event("content_block_delta", 0)) = At("inside", 0)
  BY <1>3 DEF Moves, OfBlock
<1>7. Advance(At("inside", 0), Event("content_block_stop", 0)) = At("between", 0 + 1)
  BY <1>3 DEF Moves, OfBlock
<1>8. Advance(At("between", 1), Event("message_delta", 0)) = At("closing", 1)
  BY <1>3 DEF Moves, OfBlock
<1>9. Advance(At("closing", 1), Event("message_stop", 0)) = At("over", 1)
  BY <1>3 DEF Moves, OfBlock
<1>10. Advance(At("between", 0), Event("error", 0)) = At("over", 0)
  BY <1>3 DEF Moves, OfBlock
<1> QED
  BY <1>1, <1>2, <1>4, <1>5, <1>6, <1>7, <1>8, <1>9, <1>10

Start(n) == Event("content_block_start", n)
Delta(n) == Event("content_block_delta", n)
Goodbye(n) == <<Event("content_block_stop", n), Event("message_delta", 0), Event("message_stop", 0)>>

LEMMA ReadOneMore ==
  ASSUME NEW q \in Seq(Events)
  PROVE  /\ q \o <<Event("error", 0)>> \in Seq(Events)
         /\ Read(q) = At("between", 0) => Read(q \o <<Event("error", 0)>>) = At("over", 0)
         /\ q \o <<Delta(0)>> \in Seq(Events)
         /\ Read(q) = At("inside", 0) => Read(q \o <<Delta(0)>>) = At("inside", 0)
<1>1. Event("error", 0) \in Events /\ Delta(0) \in Events
  BY Made, Typed DEF Delta
<1>2. /\ q \o <<Event("error", 0)>> = Append(q, Event("error", 0))
      /\ q \o <<Delta(0)>> = Append(q, Delta(0))
  BY <1>1, WithOne
<1>3. /\ Append(q, Event("error", 0)) \in Seq(Events) /\ Append(q, Delta(0)) \in Seq(Events)
      /\ Read(Append(q, Event("error", 0))) = Advance(Read(q), Event("error", 0))
      /\ Read(Append(q, Delta(0))) = Advance(Read(q), Delta(0))
  BY <1>1, ReadOn
<1> QED
  BY <1>2, <1>3, TextMoves DEF Delta

LEMMA ReadTwoMore ==
  ASSUME NEW q \in Seq(Events), Read(q) = At("between", 0)
  PROVE  Read(q \o <<Start(0), Delta(0)>>) = At("inside", 0)
<1>1. Start(0) \in Events /\ Delta(0) \in Events
  BY Made, Typed DEF Start, Delta
<1>2. q \o <<Start(0), Delta(0)>> = Append(Append(q, Start(0)), Delta(0))
  BY <1>1, WithTwo
<1>3. Append(q, Start(0)) \in Seq(Events) /\ Read(Append(q, Start(0))) = Advance(Read(q), Start(0))
  BY <1>1, ReadOn
<1>4. Read(Append(Append(q, Start(0)), Delta(0))) = Advance(Read(Append(q, Start(0))), Delta(0))
  BY <1>1, <1>3, ReadOn
<1> QED
  BY <1>2, <1>3, <1>4, TextMoves DEF Start, Delta

LEMMA ReadGoodbye ==
  ASSUME NEW q \in Seq(Events), Read(q) = At("inside", 0)
  PROVE  Read(q \o Goodbye(0)) = At("over", 1)
<1>1. PICK e \in Events, d \in Events, c \in Events :
        e = Event("content_block_stop", 0) /\ d = Event("message_delta", 0) /\ c = Event("message_stop", 0)
  BY Made, Typed
<1>2. q \o <<e, d, c>> = Append(Append(Append(q, e), d), c)
  BY WithThree
<1>3. Append(q, e) \in Seq(Events) /\ Read(Append(q, e)) = Advance(Read(q), e)
  BY ReadOn
<1>4. /\ Append(Append(q, e), d) \in Seq(Events)
      /\ Read(Append(Append(q, e), d)) = Advance(Read(Append(q, e)), d)
  BY <1>3, ReadOn
<1>5. Read(Append(Append(Append(q, e), d), c)) = Advance(Read(Append(Append(q, e), d)), c)
  BY <1>4, ReadOn
<1> QED
  BY <1>1, <1>2, <1>3, <1>4, <1>5, TextMoves DEF Goodbye

LEMMA FirstRead ==
  LET p == Event("ping", 0)
      m == Event("message_start", 0)
      e == Event("error", 0)
  IN  /\ <<p, m>> \in Seq(Events) /\ Read(<<p, m>>) = At("between", 0)
      /\ <<p, m, e>> \in Seq(Events) /\ Read(<<p, m, e>>) = At("over", 0)
<1>1. PICK p \in Events, m \in Events, e \in Events :
        p = Event("ping", 0) /\ m = Event("message_start", 0) /\ e = Event("error", 0)
  BY Made, Typed
<1>2. /\ <<>> \in Seq(Events) /\ Append(<<>>, p) = <<p>> /\ <<p>> \in Seq(Events)
      /\ <<p, m>> \in Seq(Events) /\ <<p, m, e>> \in Seq(Events)
  OBVIOUS
<1>3. Append(<<p>>, m) = <<p, m>> /\ Append(<<p, m>>, e) = <<p, m, e>>
  BY TwoAre, ThreeAre
<1>4. Read(<<p>>) = Advance(Fresh, p)
  BY <1>2, ReadOn, ReadEmpty
<1>5. Read(<<p, m>>) = Advance(Read(<<p>>), m)
  BY <1>2, <1>3, ReadOn
<1>6. Read(<<p, m, e>>) = Advance(Read(<<p, m>>), e)
  BY <1>2, <1>3, ReadOn
<1> QED
  BY <1>1, <1>2, <1>4, <1>5, <1>6, TextMoves

LEMMA NotRejected ==
  /\ At("between", 0).at # "rejected" /\ At("inside", 0).at # "rejected"
  /\ \A n : At("over", n).at = "over"
  BY DEF At

LEMMA StreamInitially == StreamInit => StreamInv
<1> SUFFICES ASSUME StreamInit
             PROVE  StreamInv
  OBVIOUS
<1>1. Attempts \in Nat
  BY StreamAssumption DEF Attempts
<1>2. StreamTypeOK
  <2>1. ended \in BOOLEAN /\ upstream \in {"calling", "off"} /\ (upstream = "off" => ended)
    <3>1. CASE Attempts = 0
      BY <3>1 DEF StreamInit
    <3>2. CASE Attempts # 0
      BY <3>2 DEF StreamInit
    <3> QED
      BY <3>1, <3>2
  <2>2. /\ attempt \in Nat /\ (attempt <= Attempts \/ Attempts = 0)
        /\ lines \in 0..MaxLines /\ accumulated \in Nat /\ blockIndex \in Nat
    BY <1>1, StreamAssumption DEF StreamInit
  <2>3. success \in BOOLEAN /\ startedBlocks \in BOOLEAN /\ ~success
    BY DEF StreamInit
  <2> QED
    BY <1>1, <2>1, <2>2, <2>3, StreamAssumption DEF StreamTypeOK
<1>3. sent \in Seq(Events)
  BY FirstRead DEF StreamInit
<1>4. CASE Attempts = 0
  <2>1. Read(sent) = At("over", 0)
    BY <1>4, FirstRead DEF StreamInit
  <2> QED
    BY <1>2, <1>3, <1>4, <2>1, NotRejected DEF StreamInit, StreamInv, Prefix
<1>5. CASE Attempts # 0
  <2>1. Read(sent) = At("between", 0)
    BY <1>5, FirstRead DEF StreamInit
  <2> QED
    BY <1>2, <1>3, <1>5, <2>1 DEF StreamInit, StreamInv, Reached
<1> QED
  BY <1>4, <1>5

(* The handler goes on to its next attempt: what it has written stays.      *)
LEMMA GoingOn ==
  ASSUME StreamInv, UNCHANGED <<blockVars, sent>>, success' = success,
         upstream # "off", upstream' # "off", ended' = ended, StreamTypeOK'
  PROVE  StreamInv'
  BY DEF StreamInv, blockVars, Reached, PlainText, Prefix

(* It says goodbye: to a client that has read to where it believes.         *)
LEMMA Ending ==
  ASSUME StreamInv, upstream # "off", EndAnswer, UNCHANGED blockVars, success' \in BOOLEAN
  PROVE  /\ StreamInv'
         /\ ~ended /\ PlainText' => Complete(sent')
<1>1. /\ upstream' = "off" /\ ended' = TRUE /\ UNCHANGED <<attempt, lines>>
      /\ blockIndex' = blockIndex /\ accumulated' = accumulated /\ startedBlocks' = startedBlocks
      /\ sent' = IF ended THEN sent ELSE sent \o Farewell
  BY DEF EndAnswer, Write, blockVars
<1>2. StreamTypeOK'
  BY <1>1 DEF StreamInv, StreamTypeOK
<1>3. /\ blockIndex \in Nat /\ accumulated \in Nat /\ startedBlocks \in BOOLEAN
      /\ sent \in Seq(Events) /\ (accumulated = 0 <=> ~startedBlocks)
  BY DEF StreamInv, StreamTypeOK
<1>4. Farewell = IF ~success' /\ accumulated = 0 THEN <<Event("error", 0)>> ELSE Goodbye(blockIndex)
  BY <1>1 DEF Farewell, Goodbye
<1>5. sent' \in Seq(Events)
  <2>1. sent \o <<Event("error", 0)>> \in Seq(Events)
    BY <1>3, ReadOneMore
  <2>2. sent \o Goodbye(blockIndex) \in Seq(Events)
    <3>1. /\ Event("content_block_stop", blockIndex) \in Events
          /\ Event("message_delta", 0) \in Events /\ Event("message_stop", 0) \in Events
      BY <1>3, Made, Typed
    <3> QED
      BY <1>3, <3>1, WithThree DEF Goodbye
  <2> QED
    BY <1>1, <1>3, <1>4, <2>1, <2>2
<1>6. ASSUME PlainText', ended
      PROVE  Prefix(sent')
  <2>1. blockIndex = 0 /\ sent' = sent
    BY <1>1, <1>6 DEF PlainText
  <2>2. Read(sent) \in {At("between", 0), At("inside", 0)}
    BY <2>1 DEF StreamInv
  <2> QED
    BY <2>1, <2>2, NotRejected DEF Prefix
<1>7. ASSUME PlainText', ~ended
      PROVE  Read(sent').at = "over"
  <2>1. blockIndex = 0 /\ (success' => startedBlocks) /\ sent' = sent \o Farewell
    BY <1>1, <1>7 DEF PlainText
  <2>2. Read(sent) = Reached
    BY <1>7, <2>1 DEF StreamInv
  <2>3. CASE startedBlocks
    <3>1. Read(sent) = At("inside", 0) /\ Farewell = Goodbye(0)
      BY <1>3, <1>4, <2>1, <2>2, <2>3 DEF Reached
    <3> QED
      BY <1>3, <2>1, <3>1, ReadGoodbye, NotRejected
  <2>4. CASE ~startedBlocks
    <3>1. Read(sent) = At("between", 0) /\ Farewell = <<Event("error", 0)>>
      BY <1>3, <1>4, <2>1, <2>2, <2>4 DEF Reached
    <3> QED
      BY <1>3, <2>1, <3>1, ReadOneMore, NotRejected
  <2> QED
    BY <2>3, <2>4
<1> QED
  BY <1>1, <1>2, <1>3, <1>5, <1>6, <1>7 DEF StreamInv, Prefix, Complete

LEMMA AttemptOver ==
  ASSUME StreamInv, upstream # "off", NextAttempt, UNCHANGED blockVars,
         success' = success \/ success' = TRUE
  PROVE  /\ StreamInv'
         /\ upstream' = "off" /\ ~ended /\ PlainText' => Complete(sent')
<1>1. success' \in BOOLEAN /\ Attempts \in Nat
  BY StreamAssumption DEF StreamInv, StreamTypeOK, Attempts
<1>2. CASE ~success' /\ attempt < Attempts /\ upstream' = "calling" /\ attempt' = attempt + 1
           /\ lines' = 0 /\ UNCHANGED clientVars
  <2>1. StreamTypeOK'
    BY <1>1, <1>2, StreamAssumption DEF StreamInv, StreamTypeOK, blockVars, clientVars
  <2> QED
    BY <1>2, <2>1, GoingOn DEF StreamInv, StreamTypeOK, clientVars
<1>3. CASE EndAnswer
  BY <1>1, <1>3, Ending
<1> QED
  BY <1>2, <1>3 DEF NextAttempt

LEMMA AnsweredKeeps ==
  ASSUME StreamInv, Answered
  PROVE  StreamInv'
<1>1. /\ upstream = "calling" /\ upstream' = "answering"
      /\ UNCHANGED <<attempt, lines, success, blockVars, clientVars>>
  BY DEF Answered
<1>2. StreamTypeOK'
  BY <1>1 DEF StreamInv, StreamTypeOK, blockVars, clientVars
<1> QED
  BY <1>1, <1>2, GoingOn DEF clientVars

LEMMA TextKeeps ==
  ASSUME StreamInv, Text
  PROVE  StreamInv'
<1>1. /\ upstream = "answering" /\ lines < MaxLines /\ lines' = lines + 1
      /\ UNCHANGED <<upstream, attempt, success, ended>>
      /\ startedBlocks' = TRUE /\ accumulated' = accumulated + 1 /\ blockIndex' = blockIndex
  BY DEF Text, Line
<1>2. sent \in Seq(Events) /\ blockIndex \in Nat /\ accumulated \in Nat /\ startedBlocks \in BOOLEAN
  BY DEF StreamInv, StreamTypeOK
<1>3. StreamTypeOK'
  BY <1>1, StreamAssumption DEF StreamInv, StreamTypeOK
<1>4. sent' = IF ended THEN sent
              ELSE IF startedBlocks THEN sent \o <<Delta(blockIndex)>>
                   ELSE sent \o <<Start(blockIndex), Delta(blockIndex)>>
  <2>1. Start(blockIndex) \in Events /\ Delta(blockIndex) \in Events
    BY <1>2, Made, Typed DEF Start, Delta
  <2>2. sent' = IF ended THEN sent
                ELSE sent \o ((IF startedBlocks THEN <<>> ELSE <<Start(blockIndex)>>)
                              \o <<Delta(blockIndex)>>)
    BY DEF Text, Write, Start, Delta
  <2> QED
    BY <2>1, <2>2, Joined
<1>5. sent' \in Seq(Events)
  <2>1. Start(blockIndex) \in Events /\ Delta(blockIndex) \in Events
    BY <1>2, Made, Typed DEF Start, Delta
  <2>2. sent \o <<Delta(blockIndex)>> \in Seq(Events)
    BY <1>2, <2>1, WithOne
  <2>3. sent \o <<Start(blockIndex), Delta(blockIndex)>> \in Seq(Events)
    BY <1>2, <2>1, WithTwo
  <2> QED
    BY <1>2, <1>4, <2>2, <2>3
<1>6. ASSUME blockIndex = 0
      PROVE  /\ Read(sent') \in {At("between", 0), At("inside", 0)}
             /\ ~ended => Read(sent') = At("inside", 0)
  <2>1. Read(sent) \in {At("between", 0), At("inside", 0)} /\ (~ended => Read(sent) = Reached)
    BY <1>1, <1>6 DEF StreamInv
  <2>2. CASE ended
    BY <1>4, <2>1, <2>2
  <2>3. CASE ~ended /\ startedBlocks
    BY <1>2, <1>4, <1>6, <2>1, <2>3, ReadOneMore DEF Reached
  <2>4. CASE ~ended /\ ~startedBlocks
    BY <1>2, <1>4, <1>6, <2>1, <2>4, ReadTwoMore DEF Reached
  <2> QED
    BY <1>2, <2>2, <2>3, <2>4
<1>7. accumulated' # 0
  BY <1>1, <1>2
<1> QED
  BY <1>1, <1>3, <1>5, <1>6, <1>7 DEF StreamInv, Reached

LEMMA ToolCallKeeps ==
  ASSUME StreamInv, NEW withArguments \in BOOLEAN, ToolCall(withArguments)
  PROVE  StreamInv'
<1>1. /\ upstream = "answering" /\ lines < MaxLines /\ lines' = lines + 1
      /\ UNCHANGED <<upstream, attempt, success, ended>>
      /\ startedBlocks' = startedBlocks /\ accumulated' = accumulated /\ blockIndex' = blockIndex + 1
  BY DEF ToolCall, Line
<1>2. sent \in Seq(Events) /\ blockIndex \in Nat
  BY DEF StreamInv, StreamTypeOK
<1>3. blockIndex' \in Nat /\ blockIndex' # 0
  BY <1>1, <1>2
<1>4. StreamTypeOK'
  BY <1>1, <1>3, StreamAssumption DEF StreamInv, StreamTypeOK
<1>5. sent' = IF ended THEN sent
              ELSE IF withArguments THEN sent \o <<Start(blockIndex'), Delta(blockIndex')>>
                   ELSE sent \o <<Start(blockIndex')>>
  <2>1. Start(blockIndex') \in Events /\ Delta(blockIndex') \in Events
    BY <1>3, Made, Typed DEF Start, Delta
  <2>2. sent' = IF ended THEN sent
                ELSE sent \o (<<Start(blockIndex')>>
                              \o (IF withArguments THEN <<Delta(blockIndex')>> ELSE <<>>))
    BY DEF ToolCall, Write, Start, Delta
  <2> QED
    BY <2>1, <2>2, Joined
<1>6. sent' \in Seq(Events)
  <2>1. Start(blockIndex') \in Events /\ Delta(blockIndex') \in Events
    BY <1>3, Made, Typed DEF Start, Delta
  <2>2. sent \o <<Start(blockIndex')>> \in Seq(Events)
    BY <1>2, <2>1, WithOne
  <2>3. sent \o <<Start(blockIndex'), Delta(blockIndex')>> \in Seq(Events)
    BY <1>2, <2>1, WithTwo
  <2> QED
    BY <1>2, <1>5, <2>2, <2>3
<1> QED
  BY <1>1, <1>3, <1>4, <1>6 DEF StreamInv

LEMMA OthersKeepStream ==
  ASSUME StreamInv, ArgumentsGoOn \/ EndByOthers \/ UNCHANGED streamVars
  PROVE  StreamInv'
<1>1. CASE ArgumentsGoOn
  <2>1. /\ upstream = "answering" /\ lines < MaxLines /\ lines' = lines + 1
        /\ UNCHANGED <<upstream, attempt, success, ended, blockVars, sent>>
    BY <1>1 DEF ArgumentsGoOn, Line
  <2>2. StreamTypeOK'
    BY <2>1, StreamAssumption DEF StreamInv, StreamTypeOK, blockVars
  <2> QED
    BY <2>1, <2>2, GoingOn
<1>2. CASE EndByOthers
  <2>1. upstream # "off" /\ ended' = TRUE /\ UNCHANGED <<handlerVars, blockVars, sent>>
    BY <1>2 DEF EndByOthers
  <2>2. StreamTypeOK'
    BY <2>1 DEF StreamInv, StreamTypeOK, handlerVars, blockVars
  <2> QED
    BY <2>1, <2>2 DEF StreamInv, handlerVars, blockVars
<1>3. CASE UNCHANGED streamVars
  BY <1>3 DEF streamVars, handlerVars, blockVars, clientVars, StreamInv, StreamTypeOK, Reached,
              PlainText, Prefix
<1> QED
  BY <1>1, <1>2, <1>3

Finishing == upstream # "off" /\ upstream' = "off" /\ ~ended /\ PlainText' => Complete(sent')

LEMMA StreamStep ==
  ASSUME StreamInv, [StreamNext]_streamVars
  PROVE  StreamInv' /\ Finishing
<1>1. CASE Refused \/ Finish \/ EndEarly \/ Break
  <2>1. upstream # "off" /\ NextAttempt /\ UNCHANGED blockVars /\ (success' = success \/ success' = TRUE)
    BY <1>1 DEF Refused, Finish, EndEarly, Break
  <2> QED
    BY <2>1, AttemptOver DEF Finishing
<1>2. CASE Answered
  BY <1>2, AnsweredKeeps DEF Answered, Finishing
<1>3. CASE Text
  BY <1>3, TextKeeps DEF Text, Line, Finishing
<1>4. ASSUME NEW a \in BOOLEAN, ToolCall(a)
      PROVE  StreamInv' /\ Finishing
  BY <1>4, ToolCallKeeps DEF ToolCall, Line, Finishing
<1>5. CASE ArgumentsGoOn \/ EndByOthers \/ UNCHANGED streamVars
  BY <1>5, OthersKeepStream
     DEF ArgumentsGoOn, Line, EndByOthers, handlerVars, streamVars, Finishing
<1> QED
  BY <1>1, <1>2, <1>3, <1>4, <1>5 DEF StreamNext, Handle, Deltas

LEMMA WellFormed == StreamInv => StreamWellFormed
  BY NotRejected DEF StreamInv, StreamWellFormed, PlainText, Prefix

(* StreamTypeOK: an answer that is accepted ends the handler, and a handler *)
(* that has ended has ended the response.                                   *)
THEOREM StreamTypesOK == StreamSpec => []StreamTypeOK
<1>1. StreamInv => StreamTypeOK
  BY DEF StreamInv
<1> QED
  BY <1>1, StreamInitially, StreamStep, PTL DEF StreamSpec

(* StreamWellFormed: however many upstreams fail and wherever, a text       *)
(* answer reaches the client as a prefix of one well-formed message.        *)
THEOREM StreamIsWellFormed == StreamSpec => []StreamWellFormed
  BY StreamInitially, StreamStep, WellFormed, PTL DEF StreamSpec

(* StreamCompleted: and as the whole of it once the handler is done, unless *)
(* somebody else has ended the response.                                    *)
THEOREM StreamIsCompleted == StreamSpec => StreamCompleted
<1>1. StreamInv /\ [StreamNext]_streamVars => [Finishing]_streamVars
  BY StreamStep
<1>2. StreamInv /\ [StreamNext]_streamVars => StreamInv'
  BY StreamStep
<1> QED
  BY <1>1, <1>2, StreamInitially, PTL DEF StreamSpec, StreamCompleted, Finishing

-----------------------------------------------------------------------------
(* What the collector's and the limiters' operators return.                 *)

LEMMA MetricsTypes ==
  ASSUME NEW m \in Metrics, NEW r, NEW code \in Nat
  PROVE  /\ RecordStatus(m, code) \in Metrics
         /\ Accepted(m, r) \in Metrics
         /\ Finalized(m, r, code) \in Metrics
         /\ Thrown(m, r) \in Metrics
<1>1. \A n \in Metrics : \A k \in Nat : RecordStatus(n, k) \in Metrics
  <2> SUFFICES ASSUME NEW n \in Metrics, NEW k \in Nat PROVE RecordStatus(n, k) \in Metrics
    OBVIOUS
  <2>1. (IF k >= 400 THEN n.errors + 1 ELSE n.errors) \in Nat /\ n.statuses + 1 \in Nat
    BY DEF Metrics
  <2> QED BY <2>1 DEF Metrics, RecordStatus
<1>2. \A n \in Metrics : RecordRequest(n) \in Metrics /\ StreamStart(n) \in Metrics
  BY DEF Metrics, RecordRequest, StreamStart
<1>3. \A n \in Metrics : \A b \in BOOLEAN : StreamEnd(n, b) \in Metrics
  <2> SUFFICES ASSUME NEW n \in Metrics, NEW b \in BOOLEAN PROVE StreamEnd(n, b) \in Metrics
    OBVIOUS
  <2> DEFINE left == IF n.active > 0 THEN n.active - 1 ELSE 0
             closed == [n EXCEPT !.active = left]
  <2>1. left \in Nat
    BY DEF Metrics
  <2> HIDE DEF left
  <2>2. closed \in Metrics
    BY <2>1 DEF Metrics
  <2> HIDE DEF closed
  <2>3. /\ [closed EXCEPT !.completed = @ + 1] \in Metrics
        /\ [closed EXCEPT !.failed = @ + 1] \in Metrics
    BY <2>2 DEF Metrics
  <2> QED BY <2>3 DEF StreamEnd, left, closed
<1>4. \A n \in Metrics : \A k \in Nat : Finalized(n, r, k) \in Metrics
  <2> SUFFICES ASSUME NEW n \in Metrics, NEW k \in Nat
               PROVE  Finalized(n, r, k) \in Metrics
    OBVIOUS
  <2>1. RecordStatus(n, k) \in Metrics /\ (k < 400) \in BOOLEAN
    BY <1>1
  <2> QED BY <2>1, <1>3 DEF Finalized
<1> QED BY <1>1, <1>2, <1>4 DEF Accepted, Thrown

LEMMA EntryTypes ==
  ASSUME NEW e \in Entries, now \in Nat
  PROVE  Opened(e) \in Entries /\ Hit(e) \in Entries
<1>1. Opened(e) \in Entries
  BY ServerAssumption DEF ServerAssumption, Opened, Entries
<1> QED BY <1>1 DEF Hit, Entries

-----------------------------------------------------------------------------
(* The inductive invariant adds to StreamsReaped when the next clean-up     *)
(* comes: StreamsReaped says nothing of it, so that a tick could break it.  *)

Aged == Running => \A r \in tracked : nextSweep <= at[r] + MaxAge + SweepEvery

ServerInv == TypeOK /\ StreamsReaped /\ Aged

USE ServerAssumption DEF ServerAssumption

LEMMA ServerInitially == Init => ServerInv
  BY DEF Init, ServerInv, TypeOK, StreamsReaped, Aged, Running, Phases, Verdicts, Servers,
         NoEntry, NoMetrics, Entries, Metrics

(* A request that is answered as it arrives was never tracked.              *)
LEMMA AnsweringKeeps ==
  ASSUME ServerInv, NEW r \in Request, NEW v \in Verdicts,
         Arriving(r), Answer(r, v),
         gate' \in [Client -> Entries], limiter' \in [Client -> Entries], metrics' \in Metrics
  PROVE  ServerInv'
<1>1. TypeOK'
  BY DEF ServerInv, TypeOK, Arriving, Answer, Phases, Servers, process, clock
<1>2. StreamsReaped'
  BY DEF ServerInv, TypeOK, StreamsReaped, Arriving, Answer, Running, process, clock
<1>3. Aged'
  BY DEF ServerInv, TypeOK, StreamsReaped, Aged, Arriving, Answer, Running, process, clock
<1> QED BY <1>1, <1>2, <1>3 DEF ServerInv

(* What passes the gate leaves the limiters well typed.                     *)
LEMMA LimitersTyped ==
  ASSUME TypeOK, NEW r \in Request
  PROVE  /\ [gate EXCEPT ![From[r]] = Hit(gate[From[r]])] \in [Client -> Entries]
         /\ [limiter EXCEPT ![From[r]] = Hit(limiter[From[r]])] \in [Client -> Entries]
         /\ [limiter EXCEPT ![From[r]] = Opened(limiter[From[r]])] \in [Client -> Entries]
<1>1. gate \in [Client -> Entries] /\ limiter \in [Client -> Entries] /\ now \in Nat
  BY DEF TypeOK
<1>2. From[r] \in Client
  OBVIOUS
<1>3. \A e \in Entries : Hit(e) \in Entries /\ Opened(e) \in Entries
  BY <1>1, EntryTypes
<1> QED BY <1>1, <1>2, <1>3

LEMMA ServeKeeps ==
  ASSUME ServerInv, NEW r \in Request, Serve(r)
  PROVE  ServerInv'
<1>1. TypeOK /\ StreamsReaped /\ Aged
  BY DEF ServerInv
<1>2. metrics \in Metrics /\ gate \in [Client -> Entries] /\ limiter \in [Client -> Entries]
  BY <1>1 DEF TypeOK
<1>3. CASE Connect(r)
  <2>1. TypeOK'
    BY <1>1, <1>3 DEF TypeOK, Connect, Phases, Servers, limits, process, clock
  <2>2. StreamsReaped' /\ Aged'
    BY <1>1, <1>3 DEF TypeOK, StreamsReaped, Aged, Connect, Running, limits, process, clock
  <2> QED BY <2>1, <2>2 DEF ServerInv
<1>4. CASE TurnAway(r)
  BY <1>2, <1>4, AnsweringKeeps DEF TurnAway, limits, Verdicts
<1>5. CASE StopAtGate(r)
  <2> DEFINE v == IF Hit(gate[From[r]]).count > GateMax THEN "gated" ELSE "turned away"
  <2>1. v \in Verdicts
    BY DEF Verdicts
  <2>2. Arriving(r) /\ Answer(r, v)
    BY <1>5 DEF StopAtGate
  <2>3. /\ gate' = [gate EXCEPT ![From[r]] = Hit(gate[From[r]])]
        /\ limiter' = limiter /\ metrics' = metrics
    BY <1>5 DEF StopAtGate
  <2> HIDE DEF v
  <2> QED BY <1>1, <1>2, <2>1, <2>2, <2>3, LimitersTyped, AnsweringKeeps
<1>6. ASSUME PassGate(r) PROVE Arriving(r) /\ gate' \in [Client -> Entries]
  BY <1>1, <1>6, LimitersTyped DEF PassGate
<1>7. CASE Invalid(r)
  <2>1. metrics' \in Metrics
    BY <1>2, <1>7, MetricsTypes DEF Invalid
  <2> QED BY <1>2, <1>6, <1>7, <2>1, AnsweringKeeps DEF Invalid, Verdicts
<1>8. CASE TooLarge(r)
  <2>1. metrics' \in Metrics
    <3>1. PICK status \in Nat : status = 429 /\ metrics' = RecordStatus(metrics, status)
      <4>1. metrics' = RecordStatus(metrics, 429)
        BY <1>8 DEF TooLarge
      <4>2. 429 \in Nat
        OBVIOUS
      <4> QED
        BY <4>1, <4>2
    <3>2. RecordStatus(metrics, status) \in Metrics
      BY <1>2, MetricsTypes
    <3> QED BY <3>1, <3>2
  <2>2. limiter' \in [Client -> Entries]
    BY <1>1, <1>8, LimitersTyped DEF TooLarge
  <2> QED BY <1>6, <1>8, <2>1, <2>2, AnsweringKeeps DEF TooLarge, Verdicts
<1>9. CASE Limited(r)
  <2>1. metrics' \in Metrics
    <3>1. PICK status \in Nat : status = 429 /\ metrics' = RecordStatus(metrics, status)
      <4>1. metrics' = RecordStatus(metrics, 429)
        BY <1>9 DEF Limited
      <4>2. 429 \in Nat
        OBVIOUS
      <4> QED
        BY <4>1, <4>2
    <3>2. RecordStatus(metrics, status) \in Metrics
      BY <1>2, MetricsTypes
    <3> QED BY <3>1, <3>2
  <2>2. limiter' \in [Client -> Entries]
    BY <1>1, <1>9, LimitersTyped DEF Limited
  <2> QED BY <1>6, <1>9, <2>1, <2>2, AnsweringKeeps DEF Limited, Verdicts
<1>10. ASSUME Admitted(r)
       PROVE  /\ Arriving(r) /\ gate' \in [Client -> Entries]
              /\ limiter' \in [Client -> Entries]
  BY <1>1, <1>6, <1>10, LimitersTyped DEF Admitted
<1>11. Accepted(metrics, r) \in Metrics
  BY <1>2, MetricsTypes
<1>12. CASE AcceptAndEnd(r)
  <2>1. metrics' \in Metrics
    BY <1>11, <1>12, MetricsTypes DEF AcceptAndEnd
  <2>2. CASE Answer(r, "accepted")
    BY <1>10, <1>12, <2>1, <2>2, AnsweringKeeps DEF AcceptAndEnd, Verdicts
  <2>3. CASE Answer(r, "thrown")
    BY <1>10, <1>12, <2>1, <2>3, AnsweringKeeps DEF AcceptAndEnd, Verdicts
  <2> QED BY <1>12, <2>2, <2>3 DEF AcceptAndEnd
<1>13. CASE Accept(r)
  <2>1. Arriving(r) /\ gate' \in [Client -> Entries] /\ limiter' \in [Client -> Entries]
    BY <1>10, <1>13 DEF Accept
  <2>2. metrics' \in Metrics
    BY <1>11, <1>13 DEF Accept
  <2>3. TypeOK'
    <3>1. /\ phase' = [phase EXCEPT ![r] = "handling"] /\ open' = open
          /\ at' = [at EXCEPT ![r] = now] /\ now' = now
          /\ verdict' = [verdict EXCEPT ![r] = "accepted"]
      BY <1>13 DEF Accept, clock
    <3>2. /\ phase' \in [Request -> Phases] /\ at' \in [Request -> 0..now']
          /\ verdict' \in [Request -> Verdicts]
      <4>1. /\ phase \in [Request -> Phases] /\ verdict \in [Request -> Verdicts]
            /\ at \in [Request -> 0..now] /\ now \in Nat
        BY <1>1 DEF TypeOK
      <4>2. "handling" \in Phases
        BY DEF Phases
      <4>3. "accepted" \in Verdicts
        BY DEF Verdicts
      <4>4. now \in 0..now
        BY <4>1
      <4> QED BY <3>1, <4>1, <4>2, <4>3, <4>4
    <3>3. open' \subseteq {q \in Request : phase'[q] \in {"reading", "handling"}}
      BY <1>1, <3>1 DEF TypeOK
    <3>4. \A q \in Request : phase'[q] = "handling" => verdict'[q] = "accepted"
      BY <1>1, <3>1 DEF TypeOK
    <3>5. tracked' \subseteq Request /\ UNCHANGED <<process, clock>>
      BY <1>1, <1>13 DEF TypeOK, Accept
    <3> QED BY <1>1, <2>1, <2>2, <3>2, <3>3, <3>4, <3>5 DEF TypeOK, process, clock
  <2>4. StreamsReaped'
    BY <1>1, <1>13, <2>1 DEF TypeOK, StreamsReaped, Accept, Arriving, Running, process, clock
  <2>5. Aged'
    BY <1>1, <1>13, <2>1 DEF TypeOK, Aged, Accept, Arriving, Running, process, clock
  <2> QED BY <2>3, <2>4, <2>5 DEF ServerInv
<1>14. ASSUME Conclude(r), metrics' \in Metrics, verdict' \in [Request -> Verdicts],
              \A q \in Request \ {r} : verdict'[q] = verdict[q]
       PROVE  ServerInv'
  <2>1. TypeOK'
    BY <1>1, <1>14 DEF TypeOK, Conclude, Phases, Servers, limits, process, clock
  <2>2. StreamsReaped' /\ Aged'
    BY <1>1, <1>14 DEF TypeOK, StreamsReaped, Aged, Conclude, Running, limits, process, clock
  <2> QED BY <2>1, <2>2 DEF ServerInv
<1>15. CASE Return(r)
  <2>1. metrics' \in Metrics
    BY <1>2, <1>15, MetricsTypes DEF Return
  <2> QED BY <1>1, <1>14, <1>15, <2>1 DEF Return, TypeOK
<1>16. CASE Throw(r)
  <2>1. metrics' \in Metrics
    BY <1>2, <1>16, MetricsTypes DEF Throw
  <2>2. verdict' \in [Request -> Verdicts] /\ \A q \in Request \ {r} : verdict'[q] = verdict[q]
    BY <1>1, <1>16 DEF Throw, TypeOK, Verdicts
  <2> QED BY <1>14, <1>16, <2>1, <2>2 DEF Throw
<1>17. CASE ClientCloses(r)
  <2>1. TypeOK'
    BY <1>1, <1>17 DEF TypeOK, ClientCloses, Phases, Servers, limits, process, clock
  <2>2. StreamsReaped' /\ Aged'
    BY <1>1, <1>17 DEF TypeOK, StreamsReaped, Aged, ClientCloses, Running, limits, process, clock
  <2> QED BY <2>1, <2>2 DEF ServerInv
<1> QED
  BY <1>3, <1>4, <1>5, <1>7, <1>8, <1>9, <1>12, <1>13, <1>15, <1>16, <1>17 DEF Serve

-----------------------------------------------------------------------------
(* The process's own steps.                                                 *)

LEMMA SweepKeeps ==
  ASSUME ServerInv, Sweep
  PROVE  ServerInv'
<1>1. TypeOK /\ StreamsReaped /\ Aged /\ Running /\ now = nextSweep
  BY DEF ServerInv, Sweep
<1>2. limiter' \in [Client -> Entries]
  <2>1. NoEntry \in Entries
    BY DEF NoEntry, Entries
  <2> QED BY <1>1, <2>1 DEF Sweep, Swept, TypeOK
<1>3. TypeOK'
  BY <1>1, <1>2 DEF TypeOK, Sweep, Stale, Servers, process
<1>4. \A q \in tracked' : nextSweep' <= at'[q] + MaxAge + SweepEvery
  <2> SUFFICES ASSUME NEW q \in tracked \ Stale PROVE now + SweepEvery <= at[q] + MaxAge + SweepEvery
    BY DEF Sweep
  <2>1. q \in Request /\ at[q] \in 0..now /\ now \in Nat
    BY <1>1 DEF TypeOK
  <2>2. now - at[q] <= MaxAge
    BY <2>1 DEF Stale
  <2> QED BY <2>1, <2>2
<1>5. Aged'
  BY <1>4 DEF Aged
<1>6. StreamsReaped'
  BY <1>1 DEF TypeOK, StreamsReaped, Aged, Sweep, Stale, Running, process
<1> QED BY <1>3, <1>5, <1>6 DEF ServerInv

LEMMA ProcessKeeps ==
  ASSUME ServerInv, Shutdown \/ Close \/ ForceExit \/ Tick \/ UNCHANGED vars
  PROVE  ServerInv'
<1>1. TypeOK /\ StreamsReaped /\ Aged
  BY DEF ServerInv
<1>2. CASE Shutdown
  <2>1. limiter' \in [Client -> Entries]
    BY <1>2 DEF Shutdown, NoEntry, Entries
  <2>2. TypeOK'
    BY <1>1, <1>2, <2>1 DEF TypeOK, Shutdown, Servers, clock
  <2>3. StreamsReaped' /\ Aged'
    BY <1>1, <1>2 DEF TypeOK, StreamsReaped, Aged, Shutdown, Running, clock
  <2> QED BY <2>2, <2>3 DEF ServerInv
<1>3. CASE Close
  BY <1>1, <1>3 DEF ServerInv, TypeOK, StreamsReaped, Aged, Close, Running, Servers,
     requests, limits, clock
<1>4. CASE ForceExit
  BY <1>1, <1>4 DEF ServerInv, TypeOK, StreamsReaped, Aged, ForceExit, Running, Servers,
     limits, clock
<1>5. CASE Tick
  <2>1. TypeOK'
    BY <1>1, <1>5 DEF TypeOK, Tick, Servers, requests, limits, process
  <2>2. StreamsReaped'
    BY <1>1, <1>5 DEF TypeOK, StreamsReaped, Aged, Tick, Running, requests, process
  <2>3. Aged'
    BY <1>1, <1>5 DEF Aged, Tick, Running, requests, process
  <2> QED BY <2>1, <2>2, <2>3 DEF ServerInv
<1>6. CASE UNCHANGED vars
  BY <1>1, <1>6 DEF ServerInv, TypeOK, StreamsReaped, Aged, Running,
     vars, requests, limits, process, clock
<1> QED BY <1>2, <1>3, <1>4, <1>5, <1>6

THEOREM ServerInvariant == Spec => []ServerInv
<1>1. ServerInv /\ [Next]_vars => ServerInv'
  BY ServeKeeps, SweepKeeps, ProcessKeeps DEF Next
<1> QED BY <1>1, ServerInitially, PTL DEF Spec

(* The state of the server keeps its types, no finished request has an open *)
(* response, and the clock passes neither a clean-up nor the forced exit.   *)
THEOREM ServerTypeOK == Spec => []TypeOK
<1>1. ServerInv => TypeOK
  BY DEF ServerInv
<1> QED BY <1>1, ServerInvariant, PTL

(* For every age and every period the tracker holds exactly the open        *)
(* streams, and none of them outlives both together.                        *)
THEOREM ServerStreamsReaped == Spec => []StreamsReaped
<1>1. ServerInv => StreamsReaped
  BY DEF ServerInv
<1> QED BY <1>1, ServerInvariant, PTL

-----------------------------------------------------------------------------
(* MetricsConserved in terms of the sets it counts: A accepted, T thrown,   *)
(* R refused, D done.  What a handler does to the metrics is one of three   *)
(* steps on these sets, and an action is a sequence of such steps.          *)

Active(A, D) == Cardinality((A \cap Streaming) \ D)
Ended(A, D) == Cardinality((A \cap Streaming) \cap D)
Told(A, R, D) == Cardinality(R \cup (A \cap D))

Conserved(m, A, T, R, D) ==
  /\ m.requests = Cardinality(A)
  /\ m.active = Active(A, D)
  /\ m.completed + m.failed = Ended(A, D)
  /\ m.failed >= Cardinality(T \cap Streaming)
  /\ m.statuses = Told(A, R, D) + Cardinality(T)
  /\ m.errors >= Cardinality(R) + m.failed + Cardinality(T)

LEMMA OneMore ==
  ASSUME NEW X \in SUBSET Request, NEW r \in Request \ X
  PROVE  Cardinality(X) \in Nat /\ Cardinality(X \cup {r}) = Cardinality(X) + 1
<1>1. IsFiniteSet(X)
  BY FS_Subset
<1> QED BY <1>1, FS_AddElement, FS_CardinalityType

LEMMA Counts ==
  ASSUME NEW X \in SUBSET Request
  PROVE  Cardinality(X) \in Nat
  BY FS_Subset, FS_CardinalityType

LEMMA RefusedConserved ==
  ASSUME NEW m \in Metrics, NEW A \in SUBSET Request, NEW T \in SUBSET A,
         NEW R \in SUBSET Request, NEW D \in SUBSET Request,
         Conserved(m, A, T, R, D),
         NEW r \in Request \ (A \cup R), NEW code \in Nat, code >= 400
  PROVE  Conserved(RecordStatus(m, code), A, T, R \cup {r}, D \cup {r})
<1> DEFINE n == RecordStatus(m, code)
<1>1. code >= 400
  OBVIOUS
<1>2. /\ n.requests = m.requests /\ n.active = m.active /\ n.completed = m.completed
      /\ n.failed = m.failed /\ n.statuses = m.statuses + 1 /\ n.errors = m.errors + 1
  BY <1>1 DEF RecordStatus, Metrics
<1>3. /\ (A \cap Streaming) \ (D \cup {r}) = (A \cap Streaming) \ D
      /\ (A \cap Streaming) \cap (D \cup {r}) = (A \cap Streaming) \cap D
      /\ (R \cup {r}) \cup (A \cap (D \cup {r})) = (R \cup (A \cap D)) \cup {r}
  OBVIOUS
<1>4. Cardinality((R \cup (A \cap D)) \cup {r}) = Cardinality(R \cup (A \cap D)) + 1
  BY OneMore
<1>5. Cardinality(R \cup {r}) = Cardinality(R) + 1
  BY OneMore
<1>6. /\ Cardinality(R) \in Nat /\ Cardinality(T) \in Nat /\ m.errors \in Nat /\ m.failed \in Nat
      /\ m.statuses \in Nat /\ Cardinality(R \cup (A \cap D)) \in Nat
  BY Counts DEF Metrics
<1> HIDE DEF n
<1>7. Conserved(n, A, T, R \cup {r}, D \cup {r})
  <2>1. /\ n.requests = Cardinality(A)
        /\ n.active = Cardinality((A \cap Streaming) \ (D \cup {r}))
        /\ n.completed + n.failed = Cardinality((A \cap Streaming) \cap (D \cup {r}))
        /\ n.failed >= Cardinality(T \cap Streaming)
    BY <1>2, <1>3 DEF Conserved, Active, Ended
  <2>2. n.statuses = Cardinality((R \cup {r}) \cup (A \cap (D \cup {r}))) + Cardinality(T)
    <3>1. Cardinality((R \cup {r}) \cup (A \cap (D \cup {r}))) = Cardinality(R \cup (A \cap D)) + 1
      BY <1>3, <1>4
    <3>2. m.statuses = Cardinality(R \cup (A \cap D)) + Cardinality(T)
      BY DEF Conserved, Told
    <3> QED BY <1>2, <1>6, <3>1, <3>2
  <2>3. n.errors >= Cardinality(R \cup {r}) + n.failed + Cardinality(T)
    BY <1>2, <1>5, <1>6 DEF Conserved
  <2> QED BY <2>1, <2>2, <2>3 DEF Conserved, Active, Ended, Told
<1> QED BY <1>7 DEF n

LEMMA AcceptedConserved ==
  ASSUME NEW m \in Metrics, NEW A \in SUBSET Request, NEW T \in SUBSET A,
         NEW R \in SUBSET Request, NEW D \in SUBSET Request,
         Conserved(m, A, T, R, D),
         NEW r \in Request \ (A \cup D)
  PROVE  Conserved(Accepted(m, r), A \cup {r}, T, R, D)
<1> DEFINE n == Accepted(m, r)
<1>1. /\ n.requests = m.requests + 1 /\ n.completed = m.completed /\ n.failed = m.failed
      /\ n.statuses = m.statuses /\ n.errors = m.errors
      /\ n.active = IF r \in Streaming THEN m.active + 1 ELSE m.active
  BY DEF Accepted, StreamStart, RecordRequest, Metrics
<1>2. Cardinality(A \cup {r}) = Cardinality(A) + 1
  BY OneMore
<1>3. /\ ((A \cup {r}) \cap Streaming) \cap D = (A \cap Streaming) \cap D
      /\ (A \cup {r}) \cap D = A \cap D
  OBVIOUS
<1>4. Cardinality(((A \cup {r}) \cap Streaming) \ D)
        = Cardinality((A \cap Streaming) \ D) + (IF r \in Streaming THEN 1 ELSE 0)
  <2> DEFINE X == (A \cap Streaming) \ D
  <2>0. X \in SUBSET Request /\ r \notin X /\ Cardinality(X) \in Nat
    BY Counts
  <2> HIDE DEF X
  <2>1. CASE r \in Streaming
    <3>1. ((A \cup {r}) \cap Streaming) \ D = X \cup {r}
      BY <2>1 DEF X
    <3>2. Cardinality(X \cup {r}) = Cardinality(X) + 1
      BY <2>0, OneMore
    <3>3. (IF r \in Streaming THEN 1 ELSE 0) = 1
      BY <2>1
    <3> QED BY <3>1, <3>2, <3>3 DEF X
  <2>2. CASE r \notin Streaming
    <3>1. ((A \cup {r}) \cap Streaming) \ D = X
      BY <2>2 DEF X
    <3>2. (IF r \in Streaming THEN 1 ELSE 0) = 0
      BY <2>2
    <3>3. Cardinality(X) = Cardinality(X) + 0
      BY <2>0
    <3> QED BY <3>1, <3>2, <3>3 DEF X
  <2> QED BY <2>1, <2>2
<1>5. Cardinality((A \cap Streaming) \ D) \in Nat /\ m.active \in Nat
  BY Counts DEF Metrics
<1> HIDE DEF n
<1>6. Conserved(n, A \cup {r}, T, R, D)
  <2>1. n.active = Active(A \cup {r}, D)
    BY <1>1, <1>4, <1>5 DEF Conserved, Active
  <2>2. Ended(A \cup {r}, D) = Ended(A, D) /\ Told(A \cup {r}, R, D) = Told(A, R, D)
    BY <1>3 DEF Ended, Told
  <2> QED BY <1>1, <1>2, <2>1, <2>2 DEF Conserved
<1> QED BY <1>6 DEF n

(* What a request adds to a count of streams.                               *)
One(r) == IF r \in Streaming THEN 1 ELSE 0

(* What the end of a handler does to the counts: a stream moves from the    *)
(* active ones to the ended ones, and one more request has been told.       *)
LEMMA EndingActive ==
  ASSUME NEW A \in SUBSET Request, NEW D \in SUBSET Request, NEW r \in A \ D
  PROVE  Active(A, D) = Active(A, D \cup {r}) + One(r)
<1> DEFINE X == (A \cap Streaming) \ (D \cup {r})
<1>1. /\ X \in SUBSET Request /\ r \in Request \ X /\ Cardinality(X) \in Nat
      /\ (A \cap Streaming) \ D = IF r \in Streaming THEN X \cup {r} ELSE X
  BY Counts
<1> HIDE DEF X
<1>2. Cardinality(X \cup {r}) = Cardinality(X) + 1 /\ Cardinality(X) = Cardinality(X) + 0
  BY <1>1, OneMore
<1>3. Active(A, D) = Cardinality(X) + One(r)
  BY <1>1, <1>2 DEF Active, One
<1> QED BY <1>3 DEF Active, X

LEMMA EndingEnded ==
  ASSUME NEW A \in SUBSET Request, NEW D \in SUBSET Request, NEW r \in A \ D
  PROVE  Ended(A, D \cup {r}) = Ended(A, D) + One(r)
<1> DEFINE X == (A \cap Streaming) \cap D
<1>1. /\ X \in SUBSET Request /\ r \in Request \ X /\ Cardinality(X) \in Nat
      /\ (A \cap Streaming) \cap (D \cup {r}) = IF r \in Streaming THEN X \cup {r} ELSE X
  BY Counts
<1> HIDE DEF X
<1>2. Cardinality(X \cup {r}) = Cardinality(X) + 1 /\ Cardinality(X) = Cardinality(X) + 0
  BY <1>1, OneMore
<1>3. Ended(A, D \cup {r}) = Cardinality(X) + One(r)
  BY <1>1, <1>2 DEF Ended, One
<1> QED BY <1>3 DEF Ended, X

LEMMA EndingTold ==
  ASSUME NEW A \in SUBSET Request, NEW R \in SUBSET Request, NEW D \in SUBSET Request,
         NEW r \in A \ (D \cup R)
  PROVE  Told(A, R, D \cup {r}) = Told(A, R, D) + 1
<1>1. R \cup (A \cap (D \cup {r})) = (R \cup (A \cap D)) \cup {r}
  OBVIOUS
<1> QED BY <1>1, OneMore DEF Told

(* The fields of the metrics after section 6 of the route handler.          *)
LEMMA FinalizedFields ==
  ASSUME NEW m \in Metrics, NEW r, NEW code \in Nat, r \in Streaming => m.active > 0
  PROVE  LET n == Finalized(m, r, code)
         IN /\ n.requests = m.requests /\ n.active + One(r) = m.active
            /\ n.completed + n.failed = m.completed + m.failed + One(r)
            /\ n.failed = m.failed + IF code >= 400 THEN One(r) ELSE 0
            /\ n.statuses = m.statuses + 1
            /\ n.errors = m.errors + IF code >= 400 THEN 1 ELSE 0
<1> DEFINE k == RecordStatus(m, code)
<1>1. /\ k.requests = m.requests /\ k.active = m.active
      /\ k.completed = m.completed /\ k.failed = m.failed
      /\ k.statuses = m.statuses + 1 /\ k.errors = m.errors + IF code >= 400 THEN 1 ELSE 0
  BY DEF RecordStatus, Metrics
<1>2. k \in Metrics
  BY MetricsTypes
<1> HIDE DEF k
<1>3. CASE r \in Streaming
  <2>1. Finalized(m, r, code) = StreamEnd(k, code < 400)
    BY <1>3 DEF Finalized, k
  <2>2. k.active > 0
    BY <1>1, <1>3
  <2>3. CASE code < 400
    BY <1>1, <1>2, <1>3, <2>1, <2>2, <2>3 DEF StreamEnd, Metrics, One
  <2>4. CASE code >= 400
    BY <1>1, <1>2, <1>3, <2>1, <2>2, <2>4 DEF StreamEnd, Metrics, One
  <2> QED BY <2>3, <2>4
<1>4. CASE r \notin Streaming
  <2>1. Finalized(m, r, code) = k
    BY <1>4 DEF Finalized, k
  <2> QED BY <1>1, <1>2, <1>4, <2>1 DEF Metrics, One
<1> QED BY <1>3, <1>4

LEMMA EndedConserved ==
  ASSUME NEW m \in Metrics, NEW A \in SUBSET Request, NEW T \in SUBSET A,
         NEW R \in SUBSET Request, NEW D \in SUBSET Request,
         Conserved(m, A, T, R, D),
         NEW r \in A \ (D \cup R), NEW code \in Nat
  PROVE  Conserved(Finalized(m, r, code), A, T, R, D \cup {r})
<1> DEFINE n == Finalized(m, r, code)
<1>1. /\ Active(A, D) = Active(A, D \cup {r}) + One(r)
      /\ Ended(A, D \cup {r}) = Ended(A, D) + One(r)
      /\ Told(A, R, D \cup {r}) = Told(A, R, D) + 1
  BY EndingActive, EndingEnded, EndingTold
<1>2. /\ Active(A, D \cup {r}) \in Nat /\ Cardinality(T) \in Nat
      /\ Cardinality(R) \in Nat /\ Cardinality(T \cap Streaming) \in Nat
      /\ Told(A, R, D) \in Nat
  BY Counts DEF Active, Told
<1>3. m.active = Active(A, D)
  BY DEF Conserved
<1>4. r \in Streaming => m.active > 0
  BY <1>1, <1>2, <1>3 DEF One
<1>5. /\ n.requests = m.requests /\ n.active + One(r) = m.active
      /\ n.completed + n.failed = m.completed + m.failed + One(r)
      /\ n.failed = m.failed + IF code >= 400 THEN One(r) ELSE 0
      /\ n.statuses = m.statuses + 1
      /\ n.errors = m.errors + IF code >= 400 THEN 1 ELSE 0
  BY <1>4, FinalizedFields
<1>6. n \in Metrics /\ One(r) \in {0, 1}
  BY MetricsTypes DEF One
<1> HIDE DEF n
<1>7. n.active = Active(A, D \cup {r})
  BY <1>1, <1>2, <1>3, <1>5, <1>6 DEF Metrics
<1>8. n.completed + n.failed = Ended(A, D \cup {r})
  BY <1>1, <1>5 DEF Conserved
<1>9. n.failed >= Cardinality(T \cap Streaming)
  <2>1. m.failed >= Cardinality(T \cap Streaming) /\ m.failed \in Nat
    BY DEF Conserved, Metrics
  <2> QED BY <1>2, <1>5, <1>6, <2>1
<1>10. n.statuses = Told(A, R, D \cup {r}) + Cardinality(T)
  <2>1. m.statuses = Told(A, R, D) + Cardinality(T)
    BY DEF Conserved
  <2> QED BY <1>1, <1>2, <1>5, <2>1
<1>11. n.errors >= Cardinality(R) + n.failed + Cardinality(T)
  <2>1. m.errors >= Cardinality(R) + m.failed + Cardinality(T)
        /\ m.errors \in Nat /\ m.failed \in Nat
    BY DEF Conserved, Metrics
  <2> QED BY <1>2, <1>5, <1>6, <2>1
<1>12. n.requests = Cardinality(A)
  BY <1>5 DEF Conserved
<1>13. Conserved(n, A, T, R, D \cup {r})
  BY <1>7, <1>8, <1>9, <1>10, <1>11, <1>12 DEF Conserved
<1> QED BY <1>13 DEF n

LEMMA ThrownConserved ==
  ASSUME NEW m \in Metrics, NEW A \in SUBSET Request, NEW T \in SUBSET A,
         NEW R \in SUBSET Request, NEW D \in SUBSET Request,
         Conserved(m, A, T, R, D),
         NEW r \in A \ (D \cup R \cup T)
  PROVE  Conserved(Thrown(m, r), A, T \cup {r}, R, D \cup {r})
<1> DEFINE k == RecordStatus(m, 500)
           n == Thrown(m, r)
<1>1. /\ Active(A, D) = Active(A, D \cup {r}) + One(r)
      /\ Ended(A, D \cup {r}) = Ended(A, D) + One(r)
      /\ Told(A, R, D \cup {r}) = Told(A, R, D) + 1
  BY EndingActive, EndingEnded, EndingTold
<1>2. /\ Active(A, D \cup {r}) \in Nat /\ Cardinality(T) \in Nat /\ Cardinality(R) \in Nat
      /\ Cardinality(T \cap Streaming) \in Nat /\ Told(A, R, D) \in Nat
  BY Counts DEF Active, Told
<1>3. Cardinality(T \cup {r}) = Cardinality(T) + 1
  BY OneMore
<1>4. Cardinality((T \cup {r}) \cap Streaming) = Cardinality(T \cap Streaming) + One(r)
  <2> DEFINE X == T \cap Streaming
  <2>1. /\ X \in SUBSET Request /\ r \in Request \ X /\ Cardinality(X) \in Nat
        /\ (T \cup {r}) \cap Streaming = IF r \in Streaming THEN X \cup {r} ELSE X
    BY Counts
  <2> HIDE DEF X
  <2>2. Cardinality(X \cup {r}) = Cardinality(X) + 1 /\ Cardinality(X) = Cardinality(X) + 0
    BY <2>1, OneMore
  <2>3. Cardinality((T \cup {r}) \cap Streaming) = Cardinality(X) + One(r)
    BY <2>1, <2>2 DEF One
  <2> QED BY <2>3 DEF X
<1>5. /\ k \in Metrics /\ k.requests = m.requests /\ k.active = m.active
      /\ k.completed = m.completed /\ k.failed = m.failed
      /\ k.statuses = m.statuses + 1 /\ k.errors = m.errors + 1
  <2>1. k \in Metrics
    BY MetricsTypes
  <2>2. /\ k.requests = m.requests /\ k.active = m.active
        /\ k.completed = m.completed /\ k.failed = m.failed
        /\ k.statuses = m.statuses + 1 /\ k.errors = m.errors + 1
    BY DEF RecordStatus, Metrics
  <2> HIDE DEF k
  <2> QED BY <2>1, <2>2
<1>6. m.active = Active(A, D)
  BY DEF Conserved
<1> HIDE DEF k
<1>7. r \in Streaming => k.active > 0
  BY <1>1, <1>2, <1>5, <1>6 DEF One
<1>8. /\ Finalized(k, r, 500).requests = k.requests
      /\ Finalized(k, r, 500).active + One(r) = k.active
      /\ Finalized(k, r, 500).completed + Finalized(k, r, 500).failed = k.completed + k.failed + One(r)
      /\ Finalized(k, r, 500).failed = k.failed + One(r)
      /\ Finalized(k, r, 500).statuses = k.statuses + 1
      /\ Finalized(k, r, 500).errors = k.errors + 1
  BY <1>5, <1>7, FinalizedFields
<1>9. n = Finalized(k, r, 500)
  BY DEF Thrown, k
<1>10. n \in Metrics /\ m \in Metrics /\ One(r) \in {0, 1}
  BY MetricsTypes DEF One
<1> HIDE DEF n
<1>11. /\ n.requests = m.requests /\ n.active + One(r) = m.active
       /\ n.completed + n.failed = m.completed + m.failed + One(r)
       /\ n.failed = m.failed + One(r)
       /\ n.statuses = m.statuses + 2 /\ n.errors = m.errors + 2
  BY <1>5, <1>8, <1>9, <1>10 DEF Metrics
<1>12. n.active = Active(A, D \cup {r})
  BY <1>1, <1>2, <1>6, <1>10, <1>11 DEF Metrics
<1>13. n.completed + n.failed = Ended(A, D \cup {r}) /\ n.requests = Cardinality(A)
  BY <1>1, <1>11 DEF Conserved
<1>14. n.failed >= Cardinality((T \cup {r}) \cap Streaming)
  <2>1. m.failed >= Cardinality(T \cap Streaming) /\ m.failed \in Nat
    BY DEF Conserved, Metrics
  <2> QED BY <1>2, <1>4, <1>10, <1>11, <2>1
<1>15. n.statuses = Told(A, R, D \cup {r}) + Cardinality(T \cup {r})
  <2>1. m.statuses = Told(A, R, D) + Cardinality(T)
    BY DEF Conserved
  <2> QED BY <1>1, <1>2, <1>3, <1>11, <2>1
<1>16. n.errors >= Cardinality(R) + n.failed + Cardinality(T \cup {r})
  <2>1. m.errors >= Cardinality(R) + m.failed + Cardinality(T)
        /\ m.errors \in Nat /\ m.failed \in Nat
    BY DEF Conserved, Metrics
  <2> QED BY <1>2, <1>3, <1>10, <1>11, <2>1
<1>17. Conserved(n, A, T \cup {r}, R, D \cup {r})
  BY <1>12, <1>13, <1>14, <1>15, <1>16 DEF Conserved
<1> QED BY <1>17 DEF n

(* A request that was never accepted counts nowhere when it is over.        *)
LEMMA OthersConserved ==
  ASSUME NEW m, NEW A \in SUBSET Request, NEW T, NEW R, NEW D,
         Conserved(m, A, T, R, D), NEW r \in Request \ A
  PROVE  Conserved(m, A, T, R, D \cup {r})
<1>1. /\ (A \cap Streaming) \ (D \cup {r}) = (A \cap Streaming) \ D
      /\ (A \cap Streaming) \cap (D \cup {r}) = (A \cap Streaming) \cap D
      /\ A \cap (D \cup {r}) = A \cap D
  OBVIOUS
<1> QED BY <1>1 DEF Conserved, Active, Ended, Told

-----------------------------------------------------------------------------
(* The steps of the server as steps on the counted sets.                    *)

Good == Those({"accepted", "thrown"})
Gone == Those({"thrown"})
Bad == Those({"invalid", "too large", "limited"})
Over == {r \in Request : phase[r] = "done"}

(* MetricsConserved needs to know that a request is judged once.            *)
CountInv ==
  /\ Conserved(metrics, Good, Gone, Bad, Over)
  /\ \A r \in Request : phase[r] \in {"new", "reading"} => verdict[r] = "none"

LEMMA CountInitially == Init => CountInv
<1> SUFFICES ASSUME Init PROVE CountInv
  OBVIOUS
<1>1. Good = {} /\ Gone = {} /\ Bad = {} /\ Over = {}
  BY DEF Init, Good, Gone, Bad, Over, Those
<1>2. Cardinality({}) = 0
  BY FS_EmptySet
<1>3. Active({}, {}) = 0 /\ Ended({}, {}) = 0 /\ Told({}, {}, {}) = 0
  <2>1. ({} \cap Streaming) \ {} = {} /\ ({} \cap Streaming) \cap {} = {} /\ {} \cup ({} \cap {}) = {}
    OBVIOUS
  <2> QED BY <1>2, <2>1 DEF Active, Ended, Told
<1>4. {} \cap Streaming = {}
  OBVIOUS
<1>5. Conserved(metrics, {}, {}, {}, {})
  BY <1>2, <1>3, <1>4 DEF Init, NoMetrics, Conserved
<1> QED BY <1>1, <1>5 DEF CountInv, Init

(* An answer in the first callback: the request joins the set of its verdict. *)
LEMMA AnswerSets ==
  ASSUME TypeOK, CountInv, NEW r \in Request, NEW v \in Verdicts \ {"none"},
         Arriving(r), Answer(r, v)
  PROVE  /\ r \notin Good /\ r \notin Bad /\ r \notin Over
         /\ Over' = Over \cup {r}
         /\ Good' = IF v \in {"accepted", "thrown"} THEN Good \cup {r} ELSE Good
         /\ Gone' = IF v = "thrown" THEN Gone \cup {r} ELSE Gone
         /\ Bad' = IF v \in {"invalid", "too large", "limited"} THEN Bad \cup {r} ELSE Bad
         /\ \A q \in Request : phase'[q] \in {"new", "reading"} => verdict'[q] = "none"
<1>1. /\ phase' = [phase EXCEPT ![r] = "done"] /\ verdict' = [verdict EXCEPT ![r] = v]
      /\ phase[r] = "reading" /\ verdict[r] = "none"
      /\ phase \in [Request -> Phases] /\ verdict \in [Request -> Verdicts]
  BY DEF Answer, Arriving, CountInv, TypeOK
<1>2. r \notin Good /\ r \notin Bad /\ r \notin Over
  BY <1>1 DEF Good, Bad, Over, Those
<1>3. Over' = Over \cup {r}
  BY <1>1 DEF Over
<1>4. Good' = IF v \in {"accepted", "thrown"} THEN Good \cup {r} ELSE Good
  BY <1>1 DEF Good, Those
<1>5. Gone' = IF v = "thrown" THEN Gone \cup {r} ELSE Gone
  BY <1>1 DEF Gone, Those
<1>6. Bad' = IF v \in {"invalid", "too large", "limited"} THEN Bad \cup {r} ELSE Bad
  BY <1>1 DEF Bad, Those
<1>7. \A q \in Request : phase'[q] \in {"new", "reading"} => verdict'[q] = "none"
  BY <1>1 DEF CountInv
<1> QED BY <1>2, <1>3, <1>4, <1>5, <1>6, <1>7

LEMMA SetTypes == /\ Good \in SUBSET Request /\ Gone \in SUBSET Good
                  /\ Bad \in SUBSET Request /\ Over \in SUBSET Request
                  /\ Good \cap Bad = {}
  BY DEF Good, Gone, Bad, Over, Those

(* A step that leaves what is counted alone.                                *)
LEMMA NothingCounted ==
  ASSUME CountInv, phase' = phase, verdict' = verdict, metrics' = metrics
  PROVE  CountInv'
  BY DEF CountInv, Conserved, Active, Ended, Told, Good, Gone, Bad, Over, Those

LEMMA ErrorCodes == 400 \in Nat /\ 400 >= 400 /\ 429 \in Nat /\ 429 >= 400
  OBVIOUS

(* The status of an error is counted.                                       *)
ErrorRecorded == \E code \in Nat : code >= 400 /\ metrics' = RecordStatus(metrics, code)

(* An answer before the handler is called.                                  *)
LEMMA RefusingCounts ==
  ASSUME TypeOK, CountInv, NEW r \in Request, Arriving(r),
         NEW v \in {"turned away", "gated", "invalid", "too large", "limited"}, Answer(r, v),
         \/ v \in {"turned away", "gated"} /\ metrics' = metrics
         \/ v \in {"invalid", "too large", "limited"} /\ ErrorRecorded
  PROVE  CountInv'
<1>1. v \in Verdicts \ {"none"}
  BY DEF Verdicts
<1>2. /\ r \notin Good /\ r \notin Bad /\ r \notin Over
      /\ Over' = Over \cup {r}
      /\ Good' = IF v \in {"accepted", "thrown"} THEN Good \cup {r} ELSE Good
      /\ Gone' = IF v = "thrown" THEN Gone \cup {r} ELSE Gone
      /\ Bad' = IF v \in {"invalid", "too large", "limited"} THEN Bad \cup {r} ELSE Bad
      /\ \A q \in Request : phase'[q] \in {"new", "reading"} => verdict'[q] = "none"
  BY <1>1, AnswerSets
<1>3. Good' = Good /\ Gone' = Gone
  BY <1>2
<1>4. r \in Request \ Good /\ r \in Request \ (Good \cup Bad)
  BY <1>2
<1>5. Conserved(metrics, Good, Gone, Bad, Over) /\ metrics \in Metrics
  BY DEF CountInv, TypeOK
<1>6. CASE v \in {"turned away", "gated"} /\ metrics' = metrics
  <2>1. Bad' = Bad /\ metrics' = metrics
    BY <1>2, <1>6
  <2>2. Conserved(metrics, Good, Gone, Bad, Over \cup {r})
    BY <1>4, <1>5, SetTypes, OthersConserved
  <2>3. Conserved(metrics, Good, Gone, Bad, Over)'
    BY <1>2, <1>3, <2>1, <2>2 DEF Conserved, Active, Ended, Told
  <2> QED BY <1>2, <2>3 DEF CountInv
<1>7. CASE v \in {"invalid", "too large", "limited"} /\ ErrorRecorded
  <2>1. PICK code \in Nat : code >= 400 /\ metrics' = RecordStatus(metrics, code)
    BY <1>7 DEF ErrorRecorded
  <2>2. Bad' = Bad \cup {r}
    BY <1>2, <1>7
  <2>3. Conserved(RecordStatus(metrics, code), Good, Gone, Bad \cup {r}, Over \cup {r})
    <3>1. code \in Nat /\ code >= 400
      BY <2>1
    <3>2. Good \in SUBSET Request /\ Gone \in SUBSET Good
      BY SetTypes
    <3>3. Bad \in SUBSET Request /\ Over \in SUBSET Request
      BY SetTypes
    <3> QED BY <1>4, <1>5, <3>1, <3>2, <3>3, RefusedConserved
  <2>4. Conserved(metrics, Good, Gone, Bad, Over)'
    BY <1>2, <1>3, <2>1, <2>2, <2>3 DEF Conserved, Active, Ended, Told
  <2> QED BY <1>2, <2>4 DEF CountInv
<1> QED BY <1>6, <1>7

(* The handler's first callback ends the request.                           *)
LEMMA AcceptAndEndCounts ==
  ASSUME TypeOK, CountInv, NEW r \in Request, AcceptAndEnd(r)
  PROVE  CountInv'
<1> DEFINE m == Accepted(metrics, r)
<1>1. Arriving(r)
  BY DEF AcceptAndEnd, Admitted, PassGate
<1>2. Conserved(metrics, Good, Gone, Bad, Over) /\ metrics \in Metrics
  BY DEF CountInv, TypeOK
<1>3. r \notin Good /\ r \notin Bad /\ r \notin Over
  BY <1>1 DEF CountInv, Arriving, Good, Bad, Over, Those
<1>4. m \in Metrics
  BY <1>2, MetricsTypes
<1>5. Conserved(m, Good \cup {r}, Gone, Bad, Over)
  BY <1>2, <1>3, SetTypes, AcceptedConserved
<1>6. /\ Good \cup {r} \in SUBSET Request /\ Gone \in SUBSET (Good \cup {r})
      /\ Bad \in SUBSET Request /\ Over \in SUBSET Request
      /\ r \in (Good \cup {r}) \ (Over \cup Bad \cup Gone)
      /\ r \in (Good \cup {r}) \ (Over \cup Bad)
  BY <1>3, SetTypes
<1> HIDE DEF m
<1>7. CASE Answer(r, "accepted") /\ metrics' = Finalized(m, r, 400)
  <2>1. Conserved(Finalized(m, r, 400), Good \cup {r}, Gone, Bad, Over \cup {r})
    BY <1>4, <1>5, <1>6, EndedConserved
  <2>2. "accepted" \in Verdicts \ {"none"}
    BY DEF Verdicts
  <2>3. /\ Over' = Over \cup {r} /\ Good' = Good \cup {r} /\ Gone' = Gone /\ Bad' = Bad
        /\ \A q \in Request : phase'[q] \in {"new", "reading"} => verdict'[q] = "none"
    BY <1>1, <1>7, <2>2, AnswerSets
  <2>4. Conserved(metrics, Good, Gone, Bad, Over)'
    BY <1>7, <2>1, <2>3 DEF Conserved, Active, Ended, Told
  <2> QED BY <2>3, <2>4 DEF CountInv
<1>8. CASE Answer(r, "thrown") /\ metrics' = Thrown(m, r)
  <2>1. Conserved(Thrown(m, r), Good \cup {r}, Gone \cup {r}, Bad, Over \cup {r})
    BY <1>4, <1>5, <1>6, ThrownConserved
  <2>2. "thrown" \in Verdicts \ {"none"}
    BY DEF Verdicts
  <2>3. /\ Over' = Over \cup {r} /\ Good' = Good \cup {r} /\ Gone' = Gone \cup {r} /\ Bad' = Bad
        /\ \A q \in Request : phase'[q] \in {"new", "reading"} => verdict'[q] = "none"
    BY <1>1, <1>8, <2>2, AnswerSets
  <2>4. Conserved(metrics, Good, Gone, Bad, Over)'
    BY <1>8, <2>1, <2>3 DEF Conserved, Active, Ended, Told
  <2> QED BY <2>3, <2>4 DEF CountInv
<1> QED BY <1>7, <1>8 DEF AcceptAndEnd, m

LEMMA AcceptCounts ==
  ASSUME TypeOK, CountInv, NEW r \in Request, Accept(r)
  PROVE  CountInv'
<1>1. /\ phase' = [phase EXCEPT ![r] = "handling"]
      /\ verdict' = [verdict EXCEPT ![r] = "accepted"]
      /\ metrics' = Accepted(metrics, r)
      /\ phase[r] = "reading" /\ verdict[r] = "none"
      /\ phase \in [Request -> Phases] /\ verdict \in [Request -> Verdicts]
  BY DEF Accept, Admitted, PassGate, Arriving, CountInv, TypeOK
<1>2. r \notin Good /\ r \notin Over
  BY <1>1 DEF Good, Over, Those
<1>3. Good' = Good \cup {r} /\ Gone' = Gone /\ Bad' = Bad /\ Over' = Over
  BY <1>1 DEF Good, Gone, Bad, Over, Those
<1>4. Conserved(metrics, Good, Gone, Bad, Over) /\ metrics \in Metrics
  BY DEF CountInv, TypeOK
<1>5. Conserved(Accepted(metrics, r), Good \cup {r}, Gone, Bad, Over)
  BY <1>2, <1>4, SetTypes, AcceptedConserved
<1>6. Conserved(metrics, Good, Gone, Bad, Over)'
  BY <1>1, <1>3, <1>5 DEF Conserved, Active, Ended, Told
<1>7. \A q \in Request : phase'[q] \in {"new", "reading"} => verdict'[q] = "none"
  BY <1>1 DEF CountInv
<1> QED BY <1>6, <1>7 DEF CountInv

(* The handler is over: its request was accepted and is counted as such.    *)
LEMMA ConcludeCounts ==
  ASSUME TypeOK, CountInv, NEW r \in Request, Return(r) \/ Throw(r)
  PROVE  CountInv'
<1>1. /\ phase' = [phase EXCEPT ![r] = "done"]
      /\ phase[r] = "handling" /\ verdict[r] = "accepted"
      /\ phase \in [Request -> Phases] /\ verdict \in [Request -> Verdicts]
  BY DEF Return, Throw, Conclude, TypeOK
<1>2. r \in Good /\ r \notin Bad /\ r \notin Gone /\ r \notin Over
  BY <1>1 DEF Good, Bad, Gone, Over, Those
<1>3. Over' = Over \cup {r}
  BY <1>1 DEF Over
<1>4. Conserved(metrics, Good, Gone, Bad, Over) /\ metrics \in Metrics
  BY DEF CountInv, TypeOK
<1>5. CASE Return(r)
  <2>1. PICK code \in Nat : metrics' = Finalized(metrics, r, code)
    BY <1>5 DEF Return
  <2>2. verdict' = verdict
    BY <1>5 DEF Return
  <2>3. Good' = Good /\ Gone' = Gone /\ Bad' = Bad
    BY <2>2 DEF Good, Gone, Bad, Those
  <2>4. Conserved(Finalized(metrics, r, code), Good, Gone, Bad, Over \cup {r})
    BY <1>2, <1>4, SetTypes, EndedConserved
  <2>5. Conserved(metrics, Good, Gone, Bad, Over)'
    BY <1>3, <2>1, <2>3, <2>4 DEF Conserved, Active, Ended, Told
  <2>6. \A q \in Request : phase'[q] \in {"new", "reading"} => verdict'[q] = "none"
    BY <1>1, <2>2 DEF CountInv
  <2> QED BY <2>5, <2>6 DEF CountInv
<1>6. CASE Throw(r)
  <2>1. metrics' = Thrown(metrics, r) /\ verdict' = [verdict EXCEPT ![r] = "thrown"]
    BY <1>6 DEF Throw
  <2>2. Good' = Good /\ Gone' = Gone \cup {r} /\ Bad' = Bad
    BY <1>1, <2>1 DEF Good, Gone, Bad, Those
  <2>3. Conserved(Thrown(metrics, r), Good, Gone \cup {r}, Bad, Over \cup {r})
    BY <1>2, <1>4, SetTypes, ThrownConserved
  <2>4. Conserved(metrics, Good, Gone, Bad, Over)'
    BY <1>3, <2>1, <2>2, <2>3 DEF Conserved, Active, Ended, Told
  <2>5. \A q \in Request : phase'[q] \in {"new", "reading"} => verdict'[q] = "none"
    BY <1>1, <2>1 DEF CountInv
  <2> QED BY <2>4, <2>5 DEF CountInv
<1> QED BY <1>5, <1>6

(* A client that leaves before its body is read ends an uncounted request.  *)
LEMMA ClientCounts ==
  ASSUME TypeOK, CountInv, NEW r \in Request, Connect(r) \/ ClientCloses(r)
  PROVE  CountInv'
<1>1. /\ verdict' = verdict /\ metrics' = metrics
      /\ phase \in [Request -> Phases]
  BY DEF Connect, ClientCloses, TypeOK
<1>2. Good' = Good /\ Gone' = Gone /\ Bad' = Bad
  BY <1>1 DEF Good, Gone, Bad, Those
<1>3. Conserved(metrics, Good, Gone, Bad, Over)
  BY DEF CountInv
<1>4. \A q \in Request : phase'[q] \in {"new", "reading"} => verdict'[q] = "none"
  BY <1>1 DEF Connect, ClientCloses, CountInv
<1>5. Over' = Over \/ (r \notin Good /\ Over' = Over \cup {r})
  <2>1. CASE phase[r] = "reading" /\ phase' = [phase EXCEPT ![r] = "done"]
    <3>1. verdict[r] = "none"
      BY <2>1 DEF CountInv
    <3>2. r \notin Good
      BY <3>1 DEF Good, Those
    <3>3. Over' = Over \cup {r}
      BY <1>1, <2>1 DEF Over
    <3> QED BY <3>2, <3>3
  <2>2. CASE phase' = phase \/ (phase[r] = "new" /\ phase' = [phase EXCEPT ![r] = "reading"])
    BY <1>1, <2>2 DEF Over
  <2> QED BY <1>1, <2>1, <2>2 DEF Connect, ClientCloses
<1>6. Conserved(metrics, Good, Gone, Bad, Over')
  BY <1>3, <1>5, SetTypes, OthersConserved
<1>7. Conserved(metrics, Good, Gone, Bad, Over)'
  BY <1>1, <1>2, <1>6 DEF Conserved, Active, Ended, Told
<1> QED BY <1>4, <1>7 DEF CountInv

LEMMA CountStep ==
  ASSUME TypeOK, CountInv, [Next]_vars
  PROVE  CountInv'
<1>1. ASSUME NEW r \in Request, Serve(r) PROVE CountInv'
  <2>1. CASE TurnAway(r)
    <3>1. Arriving(r) /\ Answer(r, "turned away") /\ metrics' = metrics
      BY <2>1 DEF TurnAway
    <3> QED BY <3>1, RefusingCounts
  <2>2. CASE StopAtGate(r)
    <3>1. Arriving(r) /\ metrics' = metrics /\ (Answer(r, "turned away") \/ Answer(r, "gated"))
      BY <2>2 DEF StopAtGate
    <3> QED BY <3>1, RefusingCounts
  <2>3. CASE Invalid(r)
    <3>1. Arriving(r) /\ Answer(r, "invalid") /\ metrics' = RecordStatus(metrics, 400)
      BY <2>3 DEF Invalid, PassGate
    <3>2. ErrorRecorded
      BY <3>1, ErrorCodes DEF ErrorRecorded
    <3> QED BY <3>1, <3>2, RefusingCounts
  <2>4. CASE TooLarge(r)
    <3>1. Arriving(r) /\ Answer(r, "too large") /\ metrics' = RecordStatus(metrics, 429)
      BY <2>4 DEF TooLarge, PassGate
    <3>2. ErrorRecorded
      BY <3>1, ErrorCodes DEF ErrorRecorded
    <3> QED BY <3>1, <3>2, RefusingCounts
  <2>5. CASE Limited(r)
    <3>1. Arriving(r) /\ Answer(r, "limited") /\ metrics' = RecordStatus(metrics, 429)
      BY <2>5 DEF Limited, PassGate
    <3>2. ErrorRecorded
      BY <3>1, ErrorCodes DEF ErrorRecorded
    <3> QED BY <3>1, <3>2, RefusingCounts
  <2> QED BY <1>1, <2>1, <2>2, <2>3, <2>4, <2>5, AcceptAndEndCounts, AcceptCounts,
             ConcludeCounts, ClientCounts DEF Serve
<1>2. CASE Sweep \/ Shutdown \/ Close \/ ForceExit \/ Tick \/ UNCHANGED vars
  BY <1>2, NothingCounted DEF Sweep, Shutdown, Close, ForceExit, Tick, vars, requests
<1> QED BY <1>1, <1>2 DEF Next

LEMMA CountsConserved == CountInv => MetricsConserved
<1> SUFFICES ASSUME CountInv PROVE MetricsConserved
  OBVIOUS
<1>1. Conserved(metrics, Good, Gone, Bad, Over)
  BY DEF CountInv
<1>2. /\ (Good \cap Streaming) \ Handled(Good \cap Streaming) = (Good \cap Streaming) \ Over
      /\ Handled(Good \cap Streaming) = (Good \cap Streaming) \cap Over
      /\ Bad \cup Handled(Good) = Bad \cup (Good \cap Over)
  BY SetTypes DEF Handled, Over
<1> QED BY <1>1, <1>2 DEF MetricsConserved, Conserved, Active, Ended, Told, Good, Bad, Gone

(* For any number of requests the numbers of /metrics and /health agree     *)
(* with what became of the requests, whatever clients, the tracker's        *)
(* clean-up and a shutdown did in between.                                  *)
THEOREM ServerMetricsConserved == Spec => []MetricsConserved
<1>1. CountInv /\ TypeOK /\ [Next]_vars => CountInv'
  BY CountStep
<1> QED BY <1>1, CountInitially, CountsConserved, ServerTypeOK, PTL DEF Spec
-----------------------------------------------------------------------------
(* RateLimited.  The requests of a client that the middleware has seen from *)
(* a time on and within a window; those accepted between two times.         *)

Seen(c, o) == {r \in Request : From[r] = c /\ at[r] > 0 /\ at[r] >= o}
Within(c, t) == {r \in Request : From[r] = c /\ at[r] \in t..(t + Window) /\ at[r] > 0}
Passed(c, lo, hi) == {r \in Good : From[r] = c /\ at[r] \in lo..hi}

(* An entry counts no request that was not made since it opened, which is   *)
(* one window before its resetAt.                                           *)
Counted(c, e) ==
  /\ e.resetAt <= now + Window
  /\ e.count <= Cardinality(Seen(c, e.resetAt - Window))

(* The limiter's entry e of client c, once opened: what was accepted since  *)
(* it opened, what in the window before that, and nothing after its end.    *)
InEntry(c, e) ==
  /\ Cardinality(Passed(c, e.resetAt - Window, now)) <= e.count
  /\ Cardinality(Passed(c, e.resetAt - Window, now)) <= MaxRequests
  /\ Cardinality(Passed(c, e.resetAt - Window - Window, e.resetAt - Window - 1)) <= MaxRequests
  /\ \A r \in Good : From[r] = c => at[r] <= e.resetAt

(* A client whose entry has been swept, or that never had one.              *)
Idle(c) ==
  /\ Cardinality(Passed(c, now - Window, now)) <= MaxRequests
  /\ \A r \in Good : From[r] = c => at[r] < now

Spans(c) == \A t \in Int : Cardinality(Passed(c, t, t + Window)) <= MaxRequests + MaxRequests

Earned(r) ==
  Cardinality(Within(From[r], at[r] - Window) \ {r})
    >= IF verdict[r] = "gated" THEN GateMax ELSE MaxRequests

(* RateLimited is not inductive: the bound on a span follows from what the  *)
(* entries of the limiters know of the last two windows.                    *)
RateInv ==
  /\ \A r \in Request : phase[r] \in {"new", "reading"} => at[r] = 0
  /\ \A c \in Client : Counted(c, gate[c]) /\ Counted(c, limiter[c])
  /\ server = "up" =>
       \A c \in Client :
         /\ IF limiter[c].resetAt > 0 THEN InEntry(c, limiter[c]) ELSE Idle(c)
         /\ Spans(c)
  /\ \A r \in Those({"gated", "limited"}) : Earned(r)

LEMMA Fewer ==
  ASSUME NEW S \in SUBSET Request, NEW T \in SUBSET S
  PROVE  Cardinality(T) \in Nat /\ Cardinality(S) \in Nat /\ Cardinality(T) <= Cardinality(S)
<1>1. IsFiniteSet(S)
  BY FS_Subset
<1> QED BY <1>1, FS_Subset, FS_CardinalityType

LEMMA Numbers ==
  /\ GateMax \in Nat /\ MaxRequests \in Nat /\ Window \in Nat /\ Window > 0
  /\ TypeOK => /\ now \in Nat /\ now > 0
               /\ \A r \in Request : at[r] \in Nat /\ at[r] <= now
               /\ \A c \in Client :
                    /\ gate[c] \in Entries /\ gate[c].count \in Nat /\ gate[c].resetAt \in Nat
                    /\ limiter[c] \in Entries
                    /\ limiter[c].count \in Nat /\ limiter[c].resetAt \in Nat
  BY DEF TypeOK, Entries

LEMMA RateInitially == Init => RateInv
<1> SUFFICES ASSUME Init PROVE RateInv
  OBVIOUS
<1>1. \A c \in Client : Counted(c, NoEntry)
  <2> SUFFICES ASSUME NEW c \in Client PROVE Counted(c, NoEntry)
    OBVIOUS
  <2>1. Cardinality(Seen(c, NoEntry.resetAt - Window)) \in Nat
    BY Counts DEF Seen
  <2> QED BY <2>1, Numbers DEF Counted, NoEntry, Init
<1>2. Good = {} /\ Those({"gated", "limited"}) = {}
  BY DEF Init, Good, Those
<1>3. \A c \in Client : \A lo, hi \in Int : Cardinality(Passed(c, lo, hi)) = 0
  <2>1. \A c \in Client : \A lo, hi \in Int : Passed(c, lo, hi) = {}
    BY <1>2 DEF Passed
  <2> QED BY <2>1, FS_EmptySet
<1>4. \A c \in Client : Spans(c) /\ Idle(c)
  <2>1. now = 1 /\ now - Window \in Int /\ \A t \in Int : t + Window \in Int
    BY Numbers DEF Init
  <2>2. 0 <= MaxRequests /\ 0 <= MaxRequests + MaxRequests
    BY Numbers
  <2> QED BY <1>2, <1>3, <2>1, <2>2 DEF Spans, Idle
<1> QED BY <1>1, <1>2, <1>4 DEF Init, RateInv, NoEntry

(* A request that arrives is new to the middleware.                         *)
LEMMA SeenGrows ==
  ASSUME TypeOK, NEW r \in Request, at[r] = 0, at' = [at EXCEPT ![r] = now],
         NEW c \in Client, NEW o \in Int
  PROVE  /\ Cardinality(Seen(c, o)) \in Nat /\ Cardinality(Seen(c, o)') \in Nat
         /\ Cardinality(Seen(c, o)) <= Cardinality(Seen(c, o)')
         /\ c = From[r] /\ o <= now => Cardinality(Seen(c, o)') = Cardinality(Seen(c, o)) + 1
<1>1. at \in [Request -> 0..now] /\ now \in Nat /\ now > 0
  BY DEF TypeOK
<1>2. Seen(c, o) \in SUBSET Request /\ Seen(c, o)' \in SUBSET Request
  BY DEF Seen
<1>3. r \notin Seen(c, o)
  BY DEF Seen
<1>4. Seen(c, o) \subseteq Seen(c, o)'
  BY <1>1 DEF Seen
<1>5. ASSUME c = From[r], o <= now PROVE Seen(c, o)' = Seen(c, o) \cup {r}
  BY <1>1, <1>5 DEF Seen
<1> QED BY <1>2, <1>3, <1>4, <1>5, Fewer, OneMore

(* An entry stays backed by requests, whether it is hit, opened or left.    *)
LEMMA CountedStays ==
  ASSUME TypeOK, NEW r \in Request, at[r] = 0, at' = [at EXCEPT ![r] = now], now' = now,
         NEW c \in Client, NEW e \in Entries, Counted(c, e)
  PROVE  /\ Counted(c, e)'
         /\ Counted(c, Opened(e))
         /\ c = From[r] =>
              \A f \in Entries : f = Opened(e) \/ f = Hit(e) => Counted(c, f)'
<1>1. /\ e.count \in Nat /\ e.resetAt \in Nat /\ now \in Nat /\ Window \in Nat
      /\ e.resetAt <= now + Window
  BY Numbers DEF Entries, Counted
<1>2. \A o \in Int : Cardinality(Seen(c, o)) \in Nat
  BY SeenGrows
<1>3. Counted(c, e)'
  <2>1. e.resetAt - Window \in Int
    BY <1>1
  <2>2. /\ Cardinality(Seen(c, e.resetAt - Window)) \in Nat
        /\ Cardinality(Seen(c, e.resetAt - Window)') \in Nat
        /\ Cardinality(Seen(c, e.resetAt - Window)) <= Cardinality(Seen(c, e.resetAt - Window)')
    BY <2>1, SeenGrows
  <2>3. e.count <= Cardinality(Seen(c, e.resetAt - Window)')
    BY <1>1, <2>2 DEF Counted
  <2> QED BY <1>1, <2>3 DEF Counted, Seen
<1>4. PICK f : f = Opened(e)
  OBVIOUS
<1>5. /\ f.count \in Nat /\ f.resetAt \in Nat /\ f.resetAt <= now + Window
      /\ f.resetAt - Window \in Int /\ f.resetAt - Window <= now /\ now <= f.resetAt
  BY <1>1, <1>4 DEF Opened
<1>6. f.count <= Cardinality(Seen(c, f.resetAt - Window))
  <2>1. CASE now > e.resetAt
    <3>1. f.count = 0
      BY <1>4, <2>1 DEF Opened
    <3>2. Cardinality(Seen(c, f.resetAt - Window)) \in Nat
      BY <1>2, <1>5
    <3> QED BY <3>1, <3>2
  <2>2. CASE ~(now > e.resetAt)
    BY <1>4, <2>2 DEF Opened, Counted
  <2> QED BY <2>1, <2>2
<1>7. Counted(c, f)
  BY <1>5, <1>6 DEF Counted
<1>8. ASSUME c = From[r] PROVE \A g \in Entries : g = f \/ g = [f EXCEPT !.count = @ + 1] => Counted(c, g)'
  <2> DEFINE n == Cardinality(Seen(c, f.resetAt - Window)')
  <2>1. n = Cardinality(Seen(c, f.resetAt - Window)) + 1
    BY <1>5, <1>8, SeenGrows
  <2>2. Cardinality(Seen(c, f.resetAt - Window)) \in Nat
    BY <1>2, <1>5
  <2>3. f.count <= n /\ f.count + 1 <= n
    BY <1>5, <1>6, <2>1, <2>2
  <2> HIDE DEF n
  <2> SUFFICES ASSUME NEW g \in Entries, g = f \/ g = [f EXCEPT !.count = @ + 1]
               PROVE  Counted(c, g)'
    OBVIOUS
  <2>4. g.resetAt = f.resetAt /\ g.count <= n
    <3>1. f \in Entries
      BY <1>1, <1>4, EntryTypes
    <3> QED BY <2>3, <3>1 DEF Entries
  <2>5. n = Cardinality(Seen(c, g.resetAt - Window)')
    BY <2>4 DEF n, Seen
  <2> QED BY <1>5, <2>4, <2>5 DEF Counted, Seen
<1> QED BY <1>3, <1>4, <1>7, <1>8 DEF Hit

(* A hit beyond a limit: the window before holds as many other requests.    *)
LEMMA HitEarned ==
  ASSUME TypeOK, NEW r \in Request, at[r] = 0, at' = [at EXCEPT ![r] = now],
         NEW e \in Entries, Counted(From[r], e), NEW n \in Nat, Hit(e).count > n
  PROVE  Cardinality(Within(From[r], at[r] - Window)' \ {r}) >= n
<1>1. /\ e.count \in Nat /\ e.resetAt \in Nat /\ now \in Nat /\ Window \in Nat /\ now > 0
      /\ at \in [Request -> 0..now]
  BY Numbers DEF Entries, TypeOK
<1>2. PICK f \in Entries : f = Opened(e)
  BY <1>1, EntryTypes
<1>3. Hit(e).count = f.count + 1 /\ f.count \in Nat
  BY <1>2 DEF Hit, Entries
<1>4. f.count >= n
  BY <1>3
<1>5. CASE now > e.resetAt
  <2>1. n = 0
    BY <1>2, <1>4, <1>5 DEF Opened
  <2>2. Within(From[r], at[r] - Window)' \ {r} \in SUBSET Request
    BY DEF Within
  <2>3. Cardinality(Within(From[r], at[r] - Window)' \ {r}) \in Nat
    BY <2>2, Counts
  <2> QED BY <2>1, <2>3
<1>6. CASE ~(now > e.resetAt)
  <2> DEFINE S == Seen(From[r], e.resetAt - Window)
             T == Within(From[r], at[r] - Window)' \ {r}
  <2>1. e.count >= n
    BY <1>2, <1>4, <1>6 DEF Opened
  <2>2. S \subseteq T
    <3> SUFFICES ASSUME NEW q \in S PROVE q \in T
      OBVIOUS
    <3>1. q \in Request /\ q # r /\ From[q] = From[r] /\ at[q] > 0 /\ at[q] >= e.resetAt - Window
      BY DEF Seen
    <3>2. at'[q] = at[q] /\ at'[r] = now /\ at[q] \in 0..now
      BY <1>1, <3>1
    <3>3. at'[q] \in (at'[r] - Window)..(at'[r] - Window + Window)
      BY <1>1, <1>6, <3>1, <3>2
    <3> QED BY <3>1, <3>2, <3>3 DEF Within
  <2>3. T \in SUBSET Request
    BY DEF Within
  <2>4. e.count <= Cardinality(S)
    BY DEF Counted
  <2>5. Cardinality(S) \in Nat /\ Cardinality(T) \in Nat /\ Cardinality(S) <= Cardinality(T)
    <3> HIDE DEF S, T
    <3> QED BY <2>2, <2>3, Fewer
  <2> HIDE DEF S, T
  <2>6. Cardinality(T) >= n
    BY <1>1, <2>1, <2>4, <2>5
  <2> QED BY <2>6 DEF T
<1> QED BY <1>5, <1>6

(* Opening an entry, where the last one is over, keeps what is known of it. *)
LEMMA OpenedEntry ==
  ASSUME TypeOK, NEW c \in Client, NEW e \in Entries,
         IF e.resetAt > 0 THEN InEntry(c, e) ELSE Idle(c)
  PROVE  InEntry(c, Opened(e)) /\ Opened(e).resetAt >= now
<1>1. /\ now \in Nat /\ now > 0 /\ Window \in Nat /\ Window > 0 /\ MaxRequests \in Nat
      /\ e.resetAt \in Nat /\ e.count \in Nat
      /\ \A r \in Good : at[r] \in Nat /\ at[r] <= now
  BY Numbers DEF Entries, Good, Those
<1>2. CASE ~(now > e.resetAt)
  BY <1>1, <1>2 DEF Opened
<1>3. CASE now > e.resetAt
  <2> DEFINE f == [count |-> 0, resetAt |-> now + Window]
  <2>1. Opened(e) = f /\ f.resetAt - Window = now /\ f.resetAt - Window - Window = now - Window
    BY <1>1, <1>3 DEF Opened
  <2>2. \A r \in Good : From[r] = c => at[r] < now
    BY <1>1, <1>3 DEF InEntry, Idle
  <2>3. Passed(c, now, now) = {}
    BY <1>1, <2>2 DEF Passed
  <2>4. Cardinality(Passed(c, now, now)) = 0
    BY <2>3, FS_EmptySet
  <2>5. Cardinality(Passed(c, now - Window, now - 1)) <= MaxRequests
    <3>1. PICK lo \in Int : /\ lo <= now - Window
                            /\ Cardinality(Passed(c, lo, now)) <= MaxRequests
      <4>1. CASE e.resetAt > 0
        <5>1. e.resetAt - Window \in Int /\ e.resetAt - Window <= now - Window
          BY <1>1, <1>3
        <5> QED BY <4>1, <5>1 DEF InEntry
      <4>2. CASE ~(e.resetAt > 0)
        <5>1. now - Window \in Int /\ now - Window <= now - Window
          BY <1>1
        <5> QED BY <4>2, <5>1 DEF Idle
      <4> QED BY <4>1, <4>2
    <3>2. Passed(c, now - Window, now - 1) \subseteq Passed(c, lo, now)
      BY <1>1, <3>1 DEF Passed
    <3>3. Passed(c, lo, now) \in SUBSET Request
      BY SetTypes DEF Passed
    <3> QED BY <1>1, <3>1, <3>2, <3>3, Fewer
  <2>6. \A r \in Good : From[r] = c => at[r] <= now + Window
    BY <1>1
  <2> QED BY <1>1, <2>1, <2>4, <2>5, <2>6 DEF InEntry
<1> QED BY <1>2, <1>3

(* Two windows that cover a span bound what was accepted in it.             *)
LEMMA SpanCovered ==
  ASSUME NEW S \in SUBSET Request, NEW T \in SUBSET Request, NEW X \in SUBSET (S \cup T),
         Cardinality(S) <= MaxRequests, Cardinality(T) <= MaxRequests
  PROVE  Cardinality(X) <= MaxRequests + MaxRequests
<1>1. IsFiniteSet(S) /\ IsFiniteSet(T)
  BY FS_Subset
<1>2. /\ Cardinality(S \cup T) = Cardinality(S) + Cardinality(T) - Cardinality(S \cap T)
      /\ Cardinality(S) \in Nat /\ Cardinality(T) \in Nat /\ Cardinality(S \cap T) \in Nat
  <2>1. S \cap T \in SUBSET Request
    OBVIOUS
  <2> QED BY <1>1, <2>1, FS_Union, Counts
<1>3. Cardinality(X) \in Nat /\ Cardinality(X) <= Cardinality(S \cup T)
  <2>1. S \cup T \in SUBSET Request
    OBVIOUS
  <2> QED BY <2>1, Fewer
<1> QED BY <1>2, <1>3, Numbers

(* A request joins the accepted ones now, with an entry that has room.      *)
LEMMA AcceptedInEntry ==
  ASSUME TypeOK, NEW r \in Request \ Good, at' = [at EXCEPT ![r] = now], now' = now,
         Good' = Good \cup {r},
         NEW e \in Entries, InEntry(From[r], e), now <= e.resetAt, e.resetAt <= now + Window,
         NEW f \in Entries, f.resetAt = e.resetAt, f.count = e.count + 1, f.count <= MaxRequests,
         Spans(From[r])
  PROVE  InEntry(From[r], f)' /\ Spans(From[r])'
<1> DEFINE c == From[r]
           S == Passed(c, e.resetAt - Window, now)
           T == Passed(c, e.resetAt - Window - Window, e.resetAt - Window - 1)
           U == Passed(c, f.resetAt - Window, now)'
           V == Passed(c, f.resetAt - Window - Window, f.resetAt - Window - 1)'
<1>1. /\ now \in Nat /\ now > 0 /\ Window \in Nat /\ MaxRequests \in Nat
      /\ e.resetAt \in Nat /\ e.count \in Nat
      /\ \A q \in Request : at[q] \in Nat /\ at[q] <= now
      /\ at \in [Request -> 0..now]
  BY Numbers DEF Entries, TypeOK
<1>2. at'[r] = now /\ \A q \in Request \ {r} : at'[q] = at[q]
  BY <1>1
<1>3. Good \in SUBSET Request /\ Good' \in SUBSET Request
  BY SetTypes
<1>4. S \in SUBSET Request /\ T \in SUBSET Request /\ U \in SUBSET Request /\ V \in SUBSET Request
  BY <1>3 DEF Passed
<1>5. r \notin S /\ U = S \cup {r}
  BY <1>1, <1>2, <1>3 DEF Passed
<1>6. V = T
  BY <1>1, <1>2, <1>3 DEF Passed
<1>7. Cardinality(S) <= e.count /\ Cardinality(T) <= MaxRequests
  BY DEF InEntry
<1>8. Cardinality(U) <= f.count /\ Cardinality(U) <= MaxRequests /\ Cardinality(V) <= MaxRequests
  <2> HIDE DEF S, T, U, V
  <2>1. Cardinality(S) \in Nat /\ Cardinality(U) = Cardinality(S) + 1
    BY <1>4, <1>5, OneMore
  <2> QED BY <1>1, <1>6, <1>7, <2>1
<1>9. \A q \in Good' : From[q] = c => at'[q] <= f.resetAt
  BY <1>1, <1>2, <1>3 DEF InEntry
<1>10. InEntry(c, f)'
  BY <1>8, <1>9 DEF InEntry
<1>11. Spans(c)'
  <2> SUFFICES ASSUME NEW t \in Int
               PROVE  Cardinality(Passed(c, t, t + Window)') <= MaxRequests + MaxRequests
    BY DEF Spans, Passed
  <2>1. CASE t >= now - Window
    <3>1. Passed(c, t, t + Window)' \subseteq U \cup V
      BY <1>1, <1>2, <1>3, <2>1 DEF Passed
    <3> HIDE DEF U, V
    <3> QED BY <1>4, <1>8, <3>1, SpanCovered
  <2>2. CASE ~(t >= now - Window)
    <3>1. Passed(c, t, t + Window)' = Passed(c, t, t + Window)
      BY <1>1, <1>2, <1>3, <2>2 DEF Passed
    <3> QED BY <3>1 DEF Spans
  <2> QED BY <2>1, <2>2
<1> QED BY <1>10, <1>11

(* What is known of a client stays so while none of its requests is         *)
(* accepted and the clock stands still.                                     *)
LEMMA NoneAccepted ==
  ASSUME NEW c \in Client, now' = now,
         {q \in Good : From[q] = c}' = {q \in Good : From[q] = c},
         \A q \in Good : From[q] = c => at'[q] = at[q]
  PROVE  /\ \A e \in Entries : InEntry(c, e) => InEntry(c, e)'
         /\ Idle(c) => Idle(c)'
         /\ Spans(c) => Spans(c)'
<1>1. \A lo, hi : Passed(c, lo, hi)' = Passed(c, lo, hi)
  BY DEF Passed
<1>2. \A q \in Good' : From[q] = c => q \in Good /\ at'[q] = at[q]
  OBVIOUS
<1>3. \A e \in Entries : InEntry(c, e) => InEntry(c, e)'
  BY <1>1, <1>2 DEF InEntry, Passed
<1>4. Idle(c) => Idle(c)'
  BY <1>1, <1>2 DEF Idle, Passed
<1>5. Spans(c) => Spans(c)'
  BY <1>1 DEF Spans, Passed
<1> QED BY <1>3, <1>4, <1>5

(* A 429 stays earned: no request ever loses the time it was made at.       *)
LEMMA EarnedStays ==
  ASSUME TypeOK, NEW r \in Request, at[r] = 0, at' = [at EXCEPT ![r] = now],
         NEW q \in Request \ {r}, verdict'[q] = verdict[q], Earned(q)
  PROVE  Earned(q)'
<1> DEFINE S == Within(From[q], at[q] - Window) \ {q}
           T == (Within(From[q], at[q] - Window) \ {q})'
<1>1. at'[q] = at[q] /\ at \in [Request -> 0..now]
  BY DEF TypeOK
<1>2. S \subseteq T /\ T \in SUBSET Request
  BY <1>1 DEF Within
<1>3. Cardinality(S) >= IF verdict[q] = "gated" THEN GateMax ELSE MaxRequests
  BY DEF Earned
<1>4. Cardinality(S) \in Nat /\ Cardinality(T) \in Nat /\ Cardinality(S) <= Cardinality(T)
  <2> HIDE DEF S, T
  <2> QED BY <1>2, Fewer
<1>5. Cardinality(T) >= IF verdict[q] = "gated" THEN GateMax ELSE MaxRequests
  <2> HIDE DEF S, T
  <2> QED BY <1>3, <1>4, Numbers
<1> QED BY <1>5 DEF Earned

LEMMA ArrivingRates ==
  ASSUME TypeOK, CountInv, RateInv, NEW r \in Request, phase[r] = "reading",
         NEW v \in Verdicts \ {"none"}, verdict' = [verdict EXCEPT ![r] = v],
         at' = [at EXCEPT ![r] = now],
         NEW p \in {"done", "handling"}, phase' = [phase EXCEPT ![r] = p],
         NEW d \in Entries, gate' = [gate EXCEPT ![From[r]] = d],
         d = gate[From[r]] \/ d = Hit(gate[From[r]]),
         NEW e \in Entries, limiter' = [limiter EXCEPT ![From[r]] = e],
         \/ e = limiter[From[r]]
         \/ e = Opened(limiter[From[r]])
         \/ e = Hit(limiter[From[r]]),
         v = "gated" => Hit(gate[From[r]]).count > GateMax,
         v = "limited" => Hit(limiter[From[r]]).count > MaxRequests,
         v \in {"accepted", "thrown"} => e = Hit(limiter[From[r]]) /\ e.count <= MaxRequests,
         UNCHANGED <<process, clock>>
  PROVE  RateInv'
<1> DEFINE c == From[r]
           g == limiter[c]
<1>1. /\ at \in [Request -> 0..now] /\ phase \in [Request -> Phases]
      /\ verdict \in [Request -> Verdicts]
      /\ gate \in [Client -> Entries] /\ limiter \in [Client -> Entries]
  BY DEF TypeOK
<1>2. c \in Client /\ gate[c] \in Entries /\ g \in Entries
  BY <1>1
<1>3. at[r] = 0 /\ verdict[r] = "none" /\ r \notin Good
  BY DEF RateInv, CountInv, Good, Those
<1>4. now' = now /\ server' = server
  BY DEF process, clock
<1>5. \A q \in Request : phase'[q] \in {"new", "reading"} => at'[q] = 0
  BY <1>1 DEF RateInv
<1>6. \A b \in Client : Counted(b, gate[b]) /\ Counted(b, limiter[b])
  BY DEF RateInv
<1>7. ASSUME NEW b \in Client PROVE (Counted(b, gate[b]) /\ Counted(b, limiter[b]))'
  <2>1. CASE b = c
    <3>1. gate'[b] = d /\ limiter'[b] = e
      BY <1>1, <1>2, <2>1
    <3>2. Counted(b, d)'
      BY <1>2, <1>3, <1>4, <1>6, <2>1, CountedStays
    <3>3. Counted(b, e)'
      BY <1>2, <1>3, <1>4, <1>6, <2>1, CountedStays
    <3> QED BY <3>1, <3>2, <3>3 DEF Counted
  <2>2. CASE b # c
    <3>1. gate'[b] = gate[b] /\ limiter'[b] = limiter[b]
          /\ gate[b] \in Entries /\ limiter[b] \in Entries
      BY <1>1, <1>2, <2>2
    <3>2. PICK x \in Entries : x = gate[b]
      BY <3>1
    <3>3. PICK y \in Entries : y = limiter[b]
      BY <3>1
    <3>4. Counted(b, x)' /\ Counted(b, y)'
      BY <1>3, <1>4, <1>6, <3>2, <3>3, CountedStays
    <3> QED BY <3>1, <3>2, <3>3, <3>4 DEF Counted
  <2> QED BY <2>1, <2>2
<1>8. ASSUME server' = "up", NEW b \in Client
      PROVE  (IF limiter[b].resetAt > 0 THEN InEntry(b, limiter[b]) ELSE Idle(b))' /\ Spans(b)'
  <2>1. /\ IF limiter[b].resetAt > 0 THEN InEntry(b, limiter[b]) ELSE Idle(b)
        /\ Spans(b)
    BY <1>4, <1>8 DEF RateInv
  <2>2. \A q \in Good : at'[q] = at[q]
    BY <1>1, <1>3 DEF Good, Those
  <2>3. CASE b # c
    <3>1. {q \in Good : From[q] = b}' = {q \in Good : From[q] = b}
      BY <1>1, <2>3 DEF Good, Those
    <3>2. limiter'[b] = limiter[b] /\ limiter[b] \in Entries
      BY <1>1, <1>2, <2>3
    <3>3. PICK y \in Entries : y = limiter[b]
      BY <3>2
    <3>4. /\ InEntry(b, y) => InEntry(b, y)'
          /\ Idle(b) => Idle(b)'
          /\ Spans(b) => Spans(b)'
      BY <1>4, <2>2, <3>1, NoneAccepted
    <3>5. IF y.resetAt > 0 THEN InEntry(b, y)' ELSE Idle(b)'
      BY <2>1, <3>3, <3>4
    <3> QED BY <2>1, <3>2, <3>3, <3>4, <3>5 DEF InEntry
  <2>4. CASE b = c
    <3>1. limiter'[b] = e
      BY <1>1, <1>2, <2>4
    <3>2. PICK f \in Entries : f = Opened(g)
      BY <1>2, Numbers, EntryTypes
    <3>3. InEntry(c, f) /\ now <= f.resetAt /\ f.resetAt <= now + Window /\ f.resetAt > 0
      <4>1. InEntry(c, f) /\ f.resetAt >= now
        BY <1>2, <2>1, <2>4, <3>2, OpenedEntry
      <4>2. Counted(c, f)
        BY <1>2, <1>3, <1>4, <1>6, <3>2, CountedStays
      <4>3. f.resetAt \in Nat /\ now \in Nat /\ now > 0
        BY Numbers DEF Entries
      <4> QED BY <4>1, <4>2, <4>3 DEF Counted
    <3>4. /\ Hit(g).count = f.count + 1 /\ Hit(g).resetAt = f.resetAt
          /\ f.count \in Nat
      BY <3>2 DEF Hit, Entries
    <3>5. CASE v \in {"accepted", "thrown"}
      <4>1. e = Hit(g) /\ e.count <= MaxRequests
        BY <3>5
      <4>2. Good' = Good \cup {r}
        BY <1>1, <3>5 DEF Good, Those
      <4>3. InEntry(c, e)' /\ Spans(c)'
        BY <1>3, <1>4, <2>1, <2>4, <3>3, <3>4, <4>1, <4>2, AcceptedInEntry
      <4>4. e.resetAt > 0
        BY <3>3, <3>4, <4>1
      <4> QED BY <2>4, <3>1, <4>3, <4>4 DEF InEntry
    <3>6. CASE v \notin {"accepted", "thrown"}
      <4>1. Good' = Good
        BY <1>1, <1>3, <3>6 DEF Good, Those
      <4>2. IF e.resetAt > 0 THEN InEntry(c, e) ELSE Idle(c)
        <5>1. CASE e = g
          BY <2>1, <2>4, <5>1
        <5>2. CASE e = f
          BY <3>3, <5>2
        <5>3. CASE e = Hit(g)
          <6>1. e.resetAt = f.resetAt /\ e.count = f.count + 1
            BY <3>4, <5>3
          <6>2. Cardinality(Passed(c, f.resetAt - Window, now)) \in Nat
            BY SetTypes, Counts DEF Passed
          <6>3. Cardinality(Passed(c, f.resetAt - Window, now)) <= f.count + 1
            BY <3>3, <3>4, <6>2 DEF InEntry
          <6>4. InEntry(c, e)
            BY <3>3, <6>1, <6>3 DEF InEntry
          <6> QED BY <3>3, <6>1, <6>4
        <5> QED BY <3>2, <5>1, <5>2, <5>3
      <4>3. /\ InEntry(c, e) => InEntry(c, e)'
            /\ Idle(c) => Idle(c)'
            /\ Spans(c) => Spans(c)'
        <5>1. {q \in Good : From[q] = c}' = {q \in Good : From[q] = c}
          BY <4>1
        <5> QED BY <1>2, <1>4, <2>2, <5>1, NoneAccepted
      <4> QED BY <2>1, <2>4, <3>1, <4>2, <4>3 DEF InEntry
    <3> QED BY <3>5, <3>6
  <2> QED BY <2>3, <2>4
<1>9. ASSUME NEW q \in Those({"gated", "limited"})' PROVE Earned(q)'
  <2>1. CASE q = r
    <3>1. verdict'[r] = v /\ v \in {"gated", "limited"}
      BY <1>1, <1>9, <2>1 DEF Those
    <3>2. CASE v = "gated"
      <4>1. Cardinality(Within(From[r], at[r] - Window)' \ {r}) >= GateMax
        BY <1>2, <1>3, <1>6, <3>2, HitEarned, Numbers
      <4> QED BY <2>1, <3>1, <3>2, <4>1 DEF Earned
    <3>3. CASE v = "limited"
      <4>1. Cardinality(Within(From[r], at[r] - Window)' \ {r}) >= MaxRequests
        BY <1>2, <1>3, <1>6, <3>3, HitEarned, Numbers
      <4> QED BY <2>1, <3>1, <3>3, <4>1 DEF Earned
    <3> QED BY <3>1, <3>2, <3>3
  <2>2. CASE q # r
    <3>1. q \in Request \ {r} /\ verdict'[q] = verdict[q] /\ q \in Those({"gated", "limited"})
      BY <1>1, <1>9, <2>2 DEF Those
    <3> QED BY <1>3, <3>1, EarnedStays DEF RateInv
  <2> QED BY <2>1, <2>2
<1> QED BY <1>5, <1>7, <1>8, <1>9 DEF RateInv

(* An answer in the first callback.                                         *)
LEMMA AnsweringRates ==
  ASSUME TypeOK, CountInv, RateInv, NEW r \in Request, NEW v \in Verdicts \ {"none"},
         Arriving(r), Answer(r, v),
         gate' = gate \/ gate' = [gate EXCEPT ![From[r]] = Hit(@)],
         \/ limiter' = limiter
         \/ limiter' = [limiter EXCEPT ![From[r]] = Opened(@)]
         \/ limiter' = [limiter EXCEPT ![From[r]] = Hit(@)],
         v = "gated" => Hit(gate[From[r]]).count > GateMax,
         v = "limited" => Hit(limiter[From[r]]).count > MaxRequests,
         v \in {"accepted", "thrown"} =>
           /\ limiter' = [limiter EXCEPT ![From[r]] = Hit(@)]
           /\ Hit(limiter[From[r]]).count <= MaxRequests
  PROVE  RateInv'
<1> DEFINE c == From[r]
<1>1. /\ c \in Client /\ now \in Nat
      /\ gate \in [Client -> Entries] /\ limiter \in [Client -> Entries]
  BY DEF TypeOK
<1>2. /\ gate[c] \in Entries /\ Hit(gate[c]) \in Entries
      /\ limiter[c] \in Entries /\ Hit(limiter[c]) \in Entries /\ Opened(limiter[c]) \in Entries
  BY <1>1, EntryTypes
<1>3. PICK d \in Entries : /\ gate' = [gate EXCEPT ![c] = d]
                           /\ d = gate[c] \/ d = Hit(gate[c])
  <2>1. gate = [gate EXCEPT ![c] = gate[c]]
    BY <1>1
  <2> QED BY <1>2, <2>1
<1>4. PICK e \in Entries :
        /\ limiter' = [limiter EXCEPT ![c] = e]
        /\ e = limiter[c] \/ e = Opened(limiter[c]) \/ e = Hit(limiter[c])
        /\ v \in {"accepted", "thrown"} => e = Hit(limiter[c]) /\ e.count <= MaxRequests
  <2>1. limiter = [limiter EXCEPT ![c] = limiter[c]]
    BY <1>1
  <2>2. CASE v \in {"accepted", "thrown"}
    BY <1>2, <2>2
  <2>3. CASE v \notin {"accepted", "thrown"}
    BY <1>2, <2>1, <2>3
  <2> QED BY <2>2, <2>3
<1>5. /\ phase[r] = "reading" /\ phase' = [phase EXCEPT ![r] = "done"]
      /\ at' = [at EXCEPT ![r] = now] /\ verdict' = [verdict EXCEPT ![r] = v]
      /\ UNCHANGED <<process, clock>>
  BY DEF Arriving, Answer
<1>6. "done" \in {"done", "handling"}
  OBVIOUS
<1> QED BY <1>3, <1>4, <1>5, <1>6, ArrivingRates

(* A step at which no request is judged and no limiter is asked.            *)
LEMMA NothingAsked ==
  ASSUME RateInv, at' = at, Good' = Good,
         Those({"gated", "limited"})' = Those({"gated", "limited"}),
         \A r \in Those({"gated", "limited"}) : verdict'[r] = verdict[r],
         \A r \in Request : phase'[r] \in {"new", "reading"} => at[r] = 0,
         UNCHANGED <<limits, now>>, server' = "up" => server = "up"
  PROVE  RateInv'
<1>1. gate' = gate /\ limiter' = limiter /\ now' = now
  BY DEF limits
<1>2. \A c \in Client : (Counted(c, gate[c]) /\ Counted(c, limiter[c]))'
  BY <1>1 DEF RateInv, Counted, Seen
<1>3. \A c \in Client : \A lo, hi : Passed(c, lo, hi)' = Passed(c, lo, hi)
  BY DEF Passed
<1>4. ASSUME server' = "up", NEW c \in Client
      PROVE  (IF limiter[c].resetAt > 0 THEN InEntry(c, limiter[c]) ELSE Idle(c))' /\ Spans(c)'
  <2>1. /\ IF limiter[c].resetAt > 0 THEN InEntry(c, limiter[c]) ELSE Idle(c)
        /\ Spans(c)
    BY <1>4 DEF RateInv
  <2>2. InEntry(c, limiter[c]) => InEntry(c, limiter[c])'
    BY <1>1, <1>3 DEF InEntry, Passed
  <2>3. Idle(c) => Idle(c)'
    BY <1>1, <1>3 DEF Idle, Passed
  <2>4. Spans(c) => Spans(c)'
    BY <1>3 DEF Spans, Passed
  <2> QED BY <1>1, <2>1, <2>2, <2>3, <2>4
<1>5. \A r \in Those({"gated", "limited"})' : Earned(r)'
  BY DEF RateInv, Earned, Within
<1> QED BY <1>2, <1>4, <1>5 DEF RateInv

LEMMA ServeRates ==
  ASSUME TypeOK, CountInv, RateInv, NEW r \in Request, Serve(r)
  PROVE  RateInv'
<1>1. CASE Connect(r) \/ ClientCloses(r)
  <2>1. /\ at' = at /\ verdict' = verdict /\ UNCHANGED <<limits, now>> /\ server' = server
        /\ \A q \in Request : phase'[q] \in {"new", "reading"} => phase[q] \in {"new", "reading"}
    BY <1>1 DEF Connect, ClientCloses, process, clock, TypeOK
  <2>2. Good' = Good /\ Those({"gated", "limited"})' = Those({"gated", "limited"})
    BY <2>1 DEF Good, Those
  <2>3. \A q \in Request : phase'[q] \in {"new", "reading"} => at[q] = 0
    BY <2>1 DEF RateInv
  <2> QED BY <2>1, <2>2, <2>3, NothingAsked
<1>2. CASE Return(r) \/ Throw(r)
  <2>1. /\ at' = at /\ UNCHANGED <<limits, now>> /\ server' = server
        /\ phase' = [phase EXCEPT ![r] = "done"]
        /\ verdict' = verdict \/ verdict' = [verdict EXCEPT ![r] = "thrown"]
        /\ verdict[r] = "accepted"
        /\ phase \in [Request -> Phases] /\ verdict \in [Request -> Verdicts]
    BY <1>2 DEF Return, Throw, Conclude, process, clock, TypeOK
  <2>2. Good' = Good
    BY <2>1 DEF Good, Those
  <2>3. /\ Those({"gated", "limited"})' = Those({"gated", "limited"})
        /\ \A q \in Those({"gated", "limited"}) : verdict'[q] = verdict[q]
    BY <2>1 DEF Those
  <2>4. \A q \in Request : phase'[q] \in {"new", "reading"} => at[q] = 0
    BY <2>1 DEF RateInv
  <2> QED BY <2>1, <2>2, <2>3, <2>4, NothingAsked
<1>3. ASSUME PassGate(r) PROVE Arriving(r) /\ gate' = [gate EXCEPT ![From[r]] = Hit(@)]
  BY <1>3 DEF PassGate
<1>4. CASE TurnAway(r)
  <2>1. Arriving(r) /\ Answer(r, "turned away") /\ gate' = gate /\ limiter' = limiter
    BY <1>4 DEF TurnAway, limits
  <2>2. "turned away" \in Verdicts \ {"none"}
    BY DEF Verdicts
  <2> QED BY <2>1, <2>2, AnsweringRates
<1>5. CASE StopAtGate(r)
  <2> DEFINE v == IF Hit(gate[From[r]]).count > GateMax THEN "gated" ELSE "turned away"
  <2>1. /\ Arriving(r) /\ Answer(r, v) /\ gate' = [gate EXCEPT ![From[r]] = Hit(@)]
        /\ limiter' = limiter
    BY <1>5 DEF StopAtGate
  <2>2. /\ v \in Verdicts \ {"none"} /\ v \in {"gated", "turned away"}
        /\ v = "gated" => Hit(gate[From[r]]).count > GateMax
    BY DEF Verdicts
  <2> HIDE DEF v
  <2> QED BY <2>1, <2>2, AnsweringRates
<1>6. CASE Invalid(r)
  <2>1. Answer(r, "invalid") /\ limiter' = limiter
    BY <1>6 DEF Invalid
  <2>2. "invalid" \in Verdicts \ {"none"}
    BY DEF Verdicts
  <2> QED BY <1>3, <1>6, <2>1, <2>2, AnsweringRates DEF Invalid
<1>7. CASE TooLarge(r)
  <2>1. Answer(r, "too large") /\ limiter' = [limiter EXCEPT ![From[r]] = Opened(@)]
    BY <1>7 DEF TooLarge
  <2>2. "too large" \in Verdicts \ {"none"}
    BY DEF Verdicts
  <2> QED BY <1>3, <1>7, <2>1, <2>2, AnsweringRates DEF TooLarge
<1>8. CASE Limited(r)
  <2>1. /\ Answer(r, "limited") /\ limiter' = [limiter EXCEPT ![From[r]] = Hit(@)]
        /\ Hit(limiter[From[r]]).count > MaxRequests
    BY <1>8 DEF Limited
  <2>2. "limited" \in Verdicts \ {"none"}
    BY DEF Verdicts
  <2> QED BY <1>3, <1>8, <2>1, <2>2, AnsweringRates DEF Limited
<1>9. ASSUME Admitted(r)
      PROVE  /\ Arriving(r) /\ gate' = [gate EXCEPT ![From[r]] = Hit(@)]
             /\ limiter' = [limiter EXCEPT ![From[r]] = Hit(@)]
             /\ Hit(limiter[From[r]]).count <= MaxRequests
  BY <1>3, <1>9 DEF Admitted
<1>10. CASE AcceptAndEnd(r)
  <2>1. "accepted" \in Verdicts \ {"none"} /\ "thrown" \in Verdicts \ {"none"}
    BY DEF Verdicts
  <2>2. CASE Answer(r, "accepted")
    BY <1>9, <1>10, <2>1, <2>2, AnsweringRates DEF AcceptAndEnd
  <2>3. CASE Answer(r, "thrown")
    BY <1>9, <1>10, <2>1, <2>3, AnsweringRates DEF AcceptAndEnd
  <2> QED BY <1>10, <2>2, <2>3 DEF AcceptAndEnd
<1>11. CASE Accept(r)
  <2>1. /\ phase[r] = "reading" /\ phase' = [phase EXCEPT ![r] = "handling"]
        /\ at' = [at EXCEPT ![r] = now] /\ verdict' = [verdict EXCEPT ![r] = "accepted"]
        /\ UNCHANGED <<process, clock>>
    BY <1>9, <1>11 DEF Accept, Arriving
  <2>2. PICK d \in Entries : d = Hit(gate[From[r]])
    BY Numbers, EntryTypes DEF TypeOK
  <2>3. PICK e \in Entries : e = Hit(limiter[From[r]])
    BY Numbers, EntryTypes DEF TypeOK
  <2>4. /\ gate' = [gate EXCEPT ![From[r]] = d] /\ limiter' = [limiter EXCEPT ![From[r]] = e]
        /\ e.count <= MaxRequests
    BY <1>9, <1>11, <2>2, <2>3 DEF Accept
  <2>5. "accepted" \in Verdicts \ {"none"} /\ "handling" \in {"done", "handling"}
    BY DEF Verdicts
  <2> QED BY <2>1, <2>2, <2>3, <2>4, <2>5, ArrivingRates
<1> QED BY <1>1, <1>2, <1>4, <1>5, <1>6, <1>7, <1>8, <1>10, <1>11 DEF Serve

(* The clean-up drops entries that are over, and time only ends windows.    *)
LEMMA SweepRates ==
  ASSUME TypeOK, RateInv, Sweep
  PROVE  RateInv'
<1>1. /\ phase' = phase /\ at' = at /\ verdict' = verdict /\ gate' = gate
      /\ server' = server /\ now' = now
      /\ limiter' = limiter \/ limiter' = Swept
  BY DEF Sweep, process
<1>2. Good' = Good /\ Those({"gated", "limited"})' = Those({"gated", "limited"})
  BY <1>1 DEF Good, Those
<1>3. CASE limiter' = limiter
  BY <1>1, <1>2, <1>3, NothingAsked DEF limits, RateInv
<1>4. CASE limiter' = Swept
  <2>1. ASSUME NEW c \in Client PROVE limiter'[c] = limiter[c] \/
                                      (limiter'[c] = NoEntry /\ now > limiter[c].resetAt)
    BY <1>4 DEF Swept
  <2>2. ASSUME NEW c \in Client PROVE (Counted(c, gate[c]) /\ Counted(c, limiter[c]))'
    <3>1. Counted(c, gate[c])'
      BY <1>1 DEF RateInv, Counted, Seen
    <3>2. CASE limiter'[c] = limiter[c]
      BY <1>1, <3>1, <3>2 DEF RateInv, Counted, Seen
    <3>3. CASE limiter'[c] = NoEntry
      <4>1. limiter'[c].count = 0 /\ limiter'[c].resetAt = 0
        BY <3>3 DEF NoEntry
      <4>2. Cardinality(Seen(c, limiter[c].resetAt - Window)') \in Nat
        BY Counts DEF Seen
      <4>3. Counted(c, limiter[c])'
        BY <1>1, <4>1, <4>2, Numbers DEF Counted
      <4> QED BY <3>1, <4>3
    <3> QED BY <2>1, <3>2, <3>3
  <2>3. ASSUME server' = "up", NEW c \in Client
        PROVE  (IF limiter[c].resetAt > 0 THEN InEntry(c, limiter[c]) ELSE Idle(c))' /\ Spans(c)'
    <3>1. /\ IF limiter[c].resetAt > 0 THEN InEntry(c, limiter[c]) ELSE Idle(c)
          /\ Spans(c)
      BY <1>1, <2>3 DEF RateInv
    <3>2. \A lo, hi : Passed(c, lo, hi)' = Passed(c, lo, hi)
      BY <1>1, <1>2 DEF Passed
    <3>3. Spans(c)'
      BY <3>1, <3>2 DEF Spans, Passed
    <3>4. Idle(c) => Idle(c)'
      BY <1>1, <1>2, <3>2 DEF Idle, Passed
    <3>5. CASE limiter'[c] = limiter[c]
      <4>1. InEntry(c, limiter[c]) => InEntry(c, limiter[c])'
        BY <1>1, <1>2, <3>2, <3>5 DEF InEntry, Passed
      <4> QED BY <3>1, <3>3, <3>4, <3>5, <4>1
    <3>6. CASE limiter'[c] = NoEntry /\ now > limiter[c].resetAt
      <4>1. ~(limiter'[c].resetAt > 0)
        BY <3>6 DEF NoEntry
      <4>2. CASE limiter[c].resetAt > 0
        <5>1. InEntry(c, limiter[c])
          BY <3>1, <4>2
        <5>2. \A q \in Good : From[q] = c => at[q] < now
          BY <3>6, <5>1, Numbers DEF InEntry, Good, Those
        <5>3. Passed(c, now - Window, now) \subseteq Passed(c, limiter[c].resetAt - Window, now)
          BY <3>6, Numbers DEF Passed, Good, Those
        <5>4. Passed(c, limiter[c].resetAt - Window, now) \in SUBSET Request
          BY SetTypes DEF Passed
        <5>5. Cardinality(Passed(c, now - Window, now)) <= MaxRequests
          <6>1. /\ Cardinality(Passed(c, now - Window, now)) \in Nat
                /\ Cardinality(Passed(c, limiter[c].resetAt - Window, now)) \in Nat
                /\ Cardinality(Passed(c, now - Window, now))
                     <= Cardinality(Passed(c, limiter[c].resetAt - Window, now))
            BY <5>3, <5>4, Fewer
          <6> QED BY <5>1, <6>1, Numbers DEF InEntry
        <5> QED BY <3>3, <3>4, <4>1, <5>2, <5>5 DEF Idle
      <4>3. CASE ~(limiter[c].resetAt > 0)
        BY <3>1, <3>3, <3>4, <4>1, <4>3
      <4> QED BY <4>2, <4>3
    <3> QED BY <2>1, <3>5, <3>6
  <2>4. \A r \in Those({"gated", "limited"})' : Earned(r)'
    BY <1>1, <1>2 DEF RateInv, Earned, Within
  <2>5. \A r \in Request : phase'[r] \in {"new", "reading"} => at'[r] = 0
    BY <1>1 DEF RateInv
  <2> QED BY <2>2, <2>3, <2>4, <2>5 DEF RateInv
<1> QED BY <1>1, <1>3, <1>4

LEMMA TickRates ==
  ASSUME TypeOK, RateInv, Tick
  PROVE  RateInv'
<1>1. /\ phase' = phase /\ at' = at /\ verdict' = verdict /\ gate' = gate
      /\ limiter' = limiter /\ server' = server /\ now' = now + 1
  BY DEF Tick, requests, limits, process
<1>2. Good' = Good /\ Those({"gated", "limited"})' = Those({"gated", "limited"})
  BY <1>1 DEF Good, Those
<1>3. \A c \in Client : (Counted(c, gate[c]) /\ Counted(c, limiter[c]))'
  <2> SUFFICES ASSUME NEW c \in Client PROVE (Counted(c, gate[c]) /\ Counted(c, limiter[c]))'
    OBVIOUS
  <2>1. now + Window <= now' + Window /\ now' + Window \in Nat /\ now + Window \in Nat
    BY <1>1, Numbers
  <2>2. ASSUME NEW e \in Entries, Counted(c, e) PROVE Counted(c, e)'
    <3>1. Seen(c, e.resetAt - Window)' = Seen(c, e.resetAt - Window)
      BY <1>1 DEF Seen
    <3>2. e.resetAt <= now' + Window
      <4>1. e.resetAt \in Nat
        BY DEF Entries
      <4> QED BY <2>1, <2>2, <4>1 DEF Counted
    <3>3. e.count <= Cardinality(Seen(c, e.resetAt - Window)')
      BY <2>2, <3>1 DEF Counted
    <3> QED BY <3>2, <3>3 DEF Counted
  <2>3. Counted(c, gate[c]) /\ Counted(c, limiter[c]) /\ gate[c] \in Entries /\ limiter[c] \in Entries
    BY Numbers DEF RateInv
  <2>4. PICK d \in Entries : d = gate[c]
    BY <2>3
  <2>5. PICK e \in Entries : e = limiter[c]
    BY <2>3
  <2> QED BY <1>1, <2>2, <2>3, <2>4, <2>5 DEF Counted
<1>4. ASSUME server' = "up", NEW c \in Client
      PROVE  (IF limiter[c].resetAt > 0 THEN InEntry(c, limiter[c]) ELSE Idle(c))' /\ Spans(c)'
  <2>1. /\ IF limiter[c].resetAt > 0 THEN InEntry(c, limiter[c]) ELSE Idle(c)
        /\ Spans(c)
    BY <1>1, <1>4 DEF RateInv
  <2>2. \A lo, hi : Passed(c, lo, hi)' = Passed(c, lo, hi)
    BY <1>1, <1>2 DEF Passed
  <2>3. Spans(c)'
    BY <2>1, <2>2 DEF Spans, Passed
  <2>4. CASE limiter[c].resetAt > 0
    <3>1. Passed(c, limiter[c].resetAt - Window, now + 1) =
            Passed(c, limiter[c].resetAt - Window, now)
      BY Numbers DEF Passed, Good, Those
    <3>2. InEntry(c, limiter[c])
      BY <2>1, <2>4
    <3>3. /\ Cardinality(Passed(c, limiter[c].resetAt - Window, now)') <= limiter'[c].count
          /\ Cardinality(Passed(c, limiter[c].resetAt - Window, now)') <= MaxRequests
      BY <1>1, <1>2, <3>1, <3>2 DEF InEntry, Passed
    <3>4. InEntry(c, limiter[c])'
      BY <1>1, <1>2, <2>2, <3>2, <3>3 DEF InEntry, Passed
    <3> QED BY <1>1, <2>3, <2>4, <3>4
  <2>5. CASE ~(limiter[c].resetAt > 0)
    <3>1. Idle(c)
      BY <2>1, <2>5
    <3>2. Passed(c, now + 1 - Window, now + 1) \subseteq Passed(c, now - Window, now)
      BY Numbers DEF Passed, Good, Those
    <3>3. Passed(c, now - Window, now) \in SUBSET Request
      BY SetTypes DEF Passed
    <3>4. Cardinality(Passed(c, now + 1 - Window, now + 1)) <= MaxRequests
      <4>1. /\ Cardinality(Passed(c, now + 1 - Window, now + 1)) \in Nat
            /\ Cardinality(Passed(c, now - Window, now)) \in Nat
            /\ Cardinality(Passed(c, now + 1 - Window, now + 1))
                 <= Cardinality(Passed(c, now - Window, now))
        BY <3>2, <3>3, Fewer
      <4> QED BY <3>1, <4>1, Numbers DEF Idle
    <3>5. \A q \in Good : From[q] = c => at[q] < now + 1
      BY <3>1, Numbers DEF Idle, Good, Those
    <3>6. Cardinality(Passed(c, now - Window, now)') <= MaxRequests
      <4>1. Passed(c, now - Window, now)' = Passed(c, now + 1 - Window, now + 1)
        BY <1>1, <1>2, Numbers DEF Passed
      <4> QED BY <3>4, <4>1
    <3>7. \A q \in Good' : From[q] = c => at'[q] < now'
      BY <1>1, <1>2, <3>5
    <3>8. Idle(c)'
      BY <3>6, <3>7 DEF Idle
    <3> QED BY <1>1, <2>3, <2>5, <3>8
  <2> QED BY <2>4, <2>5
<1>5. \A r \in Those({"gated", "limited"})' : Earned(r)'
  BY <1>1, <1>2 DEF RateInv, Earned, Within
<1>6. \A r \in Request : phase'[r] \in {"new", "reading"} => at'[r] = 0
  BY <1>1 DEF RateInv
<1> QED BY <1>3, <1>4, <1>5, <1>6 DEF RateInv

LEMMA ShutdownRates ==
  ASSUME TypeOK, RateInv, Shutdown
  PROVE  RateInv'
<1>1. /\ phase' = phase /\ at' = at /\ verdict' = verdict /\ gate' = gate
      /\ server' # "up" /\ now' = now
      /\ limiter' = [c \in Client |-> NoEntry]
  BY DEF Shutdown, clock
<1>2. Those({"gated", "limited"})' = Those({"gated", "limited"})
  BY <1>1 DEF Those
<1>3. ASSUME NEW c \in Client PROVE (Counted(c, gate[c]) /\ Counted(c, limiter[c]))'
  <2>1. Counted(c, gate[c])'
    BY <1>1 DEF RateInv, Counted, Seen
  <2>2. limiter'[c].count = 0 /\ limiter'[c].resetAt = 0
    BY <1>1 DEF NoEntry
  <2>3. Cardinality(Seen(c, limiter[c].resetAt - Window)') \in Nat
    BY Counts DEF Seen
  <2>4. Counted(c, limiter[c])'
    BY <1>1, <2>2, <2>3, Numbers DEF Counted
  <2> QED BY <2>1, <2>4
<1>4. \A r \in Those({"gated", "limited"})' : Earned(r)'
  BY <1>1, <1>2 DEF RateInv, Earned, Within
<1>5. \A r \in Request : phase'[r] \in {"new", "reading"} => at'[r] = 0
  BY <1>1 DEF RateInv
<1> QED BY <1>1, <1>3, <1>4, <1>5 DEF RateInv

LEMMA RateStep ==
  ASSUME TypeOK, CountInv, RateInv, [Next]_vars
  PROVE  RateInv'
<1>1. CASE Close \/ ForceExit \/ UNCHANGED vars
  <2>1. /\ phase' = phase /\ at' = at /\ verdict' = verdict /\ UNCHANGED <<limits, now>>
        /\ server' = "up" => server = "up"
    BY <1>1 DEF Close, ForceExit, vars, requests, process, clock
  <2>2. Good' = Good /\ Those({"gated", "limited"})' = Those({"gated", "limited"})
    BY <2>1 DEF Good, Those
  <2> QED BY <2>1, <2>2, NothingAsked DEF RateInv
<1> QED BY <1>1, ServeRates, SweepRates, TickRates, ShutdownRates DEF Next

LEMMA RatesLimited == TypeOK /\ RateInv => RateLimited
<1> SUFFICES ASSUME TypeOK, RateInv PROVE RateLimited
  OBVIOUS
<1>1. ASSUME NEW c \in Client, server = "up", NEW t \in 1..now
      PROVE  Cardinality(Within(c, t) \cap Those({"accepted", "thrown"})) <= 2 * MaxRequests
  <2>1. t \in Int /\ MaxRequests \in Nat
    BY <1>1, Numbers
  <2>2. Cardinality(Passed(c, t, t + Window)) <= MaxRequests + MaxRequests
    BY <1>1, <2>1 DEF RateInv, Spans
  <2>3. Within(c, t) \cap Those({"accepted", "thrown"}) \subseteq Passed(c, t, t + Window)
    BY DEF Within, Passed, Good
  <2>4. Passed(c, t, t + Window) \in SUBSET Request
    BY SetTypes DEF Passed
  <2>5. /\ Cardinality(Within(c, t) \cap Those({"accepted", "thrown"})) \in Nat
        /\ Cardinality(Passed(c, t, t + Window)) \in Nat
        /\ Cardinality(Within(c, t) \cap Those({"accepted", "thrown"}))
             <= Cardinality(Passed(c, t, t + Window))
    BY <2>3, <2>4, Fewer
  <2> QED BY <2>1, <2>2, <2>5
<1>2. ASSUME NEW c \in Client, NEW r \in Those({"gated", "limited"}), From[r] = c
      PROVE  Cardinality(Within(c, at[r] - Window) \ {r})
               >= IF verdict[r] = "gated" THEN GateMax ELSE MaxRequests
  BY <1>2 DEF RateInv, Earned
<1> QED BY <1>1, <1>2 DEF RateLimited, Within

(* For any limits, any window and any number of clients: until a shutdown   *)
(* clears the limiter no client has more than twice maxRequests accepted in *)
(* a span of one window, and every 429 goes to a client that made as many   *)
(* other requests as the limit allows within the last window.               *)
THEOREM ServerRateLimited == Spec => []RateLimited
<1>1. Spec => []CountInv
  <2>1. CountInv /\ TypeOK /\ [Next]_vars => CountInv'
    BY CountStep
  <2> QED BY <2>1, CountInitially, ServerTypeOK, PTL DEF Spec
<1>2. TypeOK /\ CountInv /\ RateInv /\ [Next]_vars => RateInv'
  BY RateStep
<1> QED BY <1>1, <1>2, RateInitially, RatesLimited, ServerTypeOK, PTL DEF Spec

-----------------------------------------------------------------------------
(* What MessagesGateway says, and its filters.                              *)

HIDE ServerAssumption DEF ServerAssumption

Marks == {"said", "image", "system", "blank", "result", "call"}
Held == (Marks \X Nat) \cup (Marks \X Nat \X Nat)

Types == {"text", "image", "thinking", "tool_use", "tool_result"}
Blocks == [type : Types, value : Held]
Messages == [role : {"user", "assistant"}, content : Seq(Blocks)]

Roles == {"user", "assistant", "system", "tool"}
Chats == [role : Roles, text : Seq(Held), calls : Seq(Held), answers : Held]

LineKinds == {"text", "tool", "finish", "done", "other"}
Lines == [kind : LineKinds, piece : Held]

Signals == OfBlock \cup {"ping", "message_start", "message_delta", "message_stop", "error", "chunk", "[DONE]"}
Wire == [event : Signals, index : Nat] \cup [event : Signals, index : Nat, piece : Held]

(* What the folds of the translation take over, and of which elements.      *)
ValueOf == [b \in Blocks |-> b.value]
PieceOf == [l \in Lines |-> l.piece]
PieceRead == [e \in Wire |-> IF "piece" \in DOMAIN e THEN e.piece ELSE NoCall]
Itself == [m \in Chats |-> m]

OfTypes(types) == {b \in Blocks : b.type \in types}
Kind(k) == {l \in Lines : l.kind = k}
WithPiece == {e \in Wire : "piece" \in DOMAIN e}
TurnsOnly == {m \in Chats : m.role \notin {"tool", "system"}}

LEMMA TakenTypes ==
  /\ \A types : Takes(Blocks, Held, OfTypes(types), ValueOf)
  /\ \A k : Takes(Lines, Held, Kind(k), PieceOf)
  /\ Takes(Wire, Held, WithPiece, PieceRead)
  /\ Takes(Chats, Chats, TurnsOnly, Itself)
<1>1. NoCall \in Held
  BY DEF NoCall, Held, Marks
<1>2. \A b \in Blocks : b.value \in Held
  BY DEF Blocks
<1>3. \A l \in Lines : l.piece \in Held
  BY DEF Lines
<1>4. \A e \in Wire : "piece" \in DOMAIN e => e.piece \in Held
  BY DEF Wire
<1> QED
  BY <1>1, <1>2, <1>3, <1>4 DEF ValueOf, PieceOf, PieceRead, Itself, Takes

LEMMA InSequence ==
  ASSUME NEW E, NEW q \in Seq(E), NEW s \in SUBSET (DOMAIN q), s # {}
  PROVE  q[Max(s)] \in E /\ s \ {Max(s)} \in SUBSET (DOMAIN q)
<1>1. Len(q) \in Nat /\ DOMAIN q = 1..Len(q)
  OBVIOUS
<1>2. Max(s) \in DOMAIN q
  BY <1>1, MaxIs
<1> QED
  BY <1>2

LEMMA ValuesIs ==
  ASSUME NEW q \in Seq(Blocks), NEW types
  PROVE  Values(q, types) = Sieved(Blocks, Held, OfTypes(types), ValueOf, q)
<1> DEFINE Folded(f) == f = [s \in SUBSET (DOMAIN q) |->
             IF s = {} THEN <<>>
             ELSE IF q[Max(s)].type \in types
                  THEN Append(f[s \ {Max(s)}], q[Max(s)].value)
                  ELSE f[s \ {Max(s)}]]
           W == OfTypes(types)
<1>1. ASSUME NEW s \in SUBSET (DOMAIN q), s # {}
      PROVE  (q[Max(s)] \in W <=> q[Max(s)].type \in types) /\ ValueOf[q[Max(s)]] = q[Max(s)].value
  BY <1>1, InSequence DEF OfTypes, ValueOf
<1>2. ASSUME NEW f
      PROVE  Folded(f) <=> Sifts(f, W, ValueOf, q)
  BY <1>1 DEF Sifts
<1>3. (\E f : Sifts(f, W, ValueOf, q))
      /\ \A f : Sifts(f, W, ValueOf, q) => f[DOMAIN q] = Sieved(Blocks, Held, W, ValueOf, q)
  BY TakenTypes, SieveRuns
<1>4. PICK f : Folded(f) /\ Values(q, types) = f[DOMAIN q]
  <2>1. \E f : Folded(f)
    BY <1>2, <1>3
  <2> QED
    BY <2>1 DEF Values, FoldLeft, MapThenFoldSet
<1> HIDE DEF Folded
<1> QED
  BY <1>2, <1>3, <1>4

LEMMA TextOfIs ==
  ASSUME NEW q \in Seq(Lines)
  PROVE  TextOf(q) = Sieved(Lines, Held, Kind("text"), PieceOf, q)
<1> DEFINE Folded(f) == f = [s \in SUBSET (DOMAIN q) |->
             IF s = {} THEN <<>>
             ELSE IF q[Max(s)].kind = "text"
                  THEN Append(f[s \ {Max(s)}], q[Max(s)].piece)
                  ELSE f[s \ {Max(s)}]]
           W == Kind("text")
<1>1. ASSUME NEW s \in SUBSET (DOMAIN q), s # {}
      PROVE  (q[Max(s)] \in W <=> q[Max(s)].kind = "text") /\ PieceOf[q[Max(s)]] = q[Max(s)].piece
  BY <1>1, InSequence DEF Kind, PieceOf
<1>2. ASSUME NEW f
      PROVE  Folded(f) <=> Sifts(f, W, PieceOf, q)
  BY <1>1 DEF Sifts
<1>3. (\E f : Sifts(f, W, PieceOf, q))
      /\ \A f : Sifts(f, W, PieceOf, q) => f[DOMAIN q] = Sieved(Lines, Held, W, PieceOf, q)
  BY TakenTypes, SieveRuns
<1>4. PICK f : Folded(f) /\ TextOf(q) = f[DOMAIN q]
  <2>1. \E f : Folded(f)
    BY <1>2, <1>3
  <2> QED
    BY <2>1 DEF TextOf, FoldLeft, MapThenFoldSet
<1> HIDE DEF Folded
<1> QED
  BY <1>2, <1>3, <1>4

LEMMA TextReadIs ==
  ASSUME NEW q \in Seq(Wire)
  PROVE  TextRead(q) = Sieved(Wire, Held, WithPiece, PieceRead, q)
<1> DEFINE Folded(f) == f = [s \in SUBSET (DOMAIN q) |->
             IF s = {} THEN <<>>
             ELSE IF "piece" \in DOMAIN q[Max(s)]
                  THEN Append(f[s \ {Max(s)}], q[Max(s)].piece)
                  ELSE f[s \ {Max(s)}]]
           W == WithPiece
<1>1. ASSUME NEW s \in SUBSET (DOMAIN q), s # {}
      PROVE  (q[Max(s)] \in W <=> "piece" \in DOMAIN q[Max(s)])
             /\ ("piece" \in DOMAIN q[Max(s)] => PieceRead[q[Max(s)]] = q[Max(s)].piece)
  BY <1>1, InSequence DEF WithPiece, PieceRead
<1>2. ASSUME NEW f
      PROVE  Folded(f) <=> Sifts(f, W, PieceRead, q)
  BY <1>1 DEF Sifts
<1>3. (\E f : Sifts(f, W, PieceRead, q))
      /\ \A f : Sifts(f, W, PieceRead, q) => f[DOMAIN q] = Sieved(Wire, Held, W, PieceRead, q)
  BY TakenTypes, SieveRuns
<1>4. PICK f : Folded(f) /\ TextRead(q) = f[DOMAIN q]
  <2>1. \E f : Folded(f)
    BY <1>2, <1>3
  <2> QED
    BY <2>1 DEF TextRead, FoldLeft, MapThenFoldSet
<1> HIDE DEF Folded
<1> QED
  BY <1>2, <1>3, <1>4

LEMMA TurnsIs ==
  ASSUME NEW q \in Seq(Chats)
  PROVE  Turns(q) = Sieved(Chats, Chats, TurnsOnly, Itself, q)
<1> DEFINE Folded(f) == f = [s \in SUBSET (DOMAIN q) |->
             IF s = {} THEN <<>>
             ELSE IF q[Max(s)].role \in {"tool", "system"}
                  THEN f[s \ {Max(s)}]
                  ELSE Append(f[s \ {Max(s)}], q[Max(s)])]
           W == TurnsOnly
<1>1. ASSUME NEW s \in SUBSET (DOMAIN q), s # {}
      PROVE  (q[Max(s)] \in W <=> q[Max(s)].role \notin {"tool", "system"})
             /\ Itself[q[Max(s)]] = q[Max(s)]
  BY <1>1, InSequence DEF TurnsOnly, Itself
<1>2. ASSUME NEW f
      PROVE  Folded(f) <=> Sifts(f, W, Itself, q)
  BY <1>1 DEF Sifts
<1>3. (\E f : Sifts(f, W, Itself, q))
      /\ \A f : Sifts(f, W, Itself, q) => f[DOMAIN q] = Sieved(Chats, Chats, W, Itself, q)
  BY TakenTypes, SieveRuns
<1>4. PICK f : Folded(f) /\ Turns(q) = f[DOMAIN q]
  <2>1. \E f : Folded(f)
    BY <1>2, <1>3
  <2> QED
    BY <2>1 DEF Turns, FoldLeft, MapThenFoldSet
<1> HIDE DEF Folded
<1> QED
  BY <1>2, <1>3, <1>4

LEMMA ValuesType ==
  ASSUME NEW q \in Seq(Blocks), NEW types
  PROVE  Values(q, types) \in Seq(Held)
  BY TakenTypes, ValuesIs, SievedType

LEMMA ValuesConcat ==
  ASSUME NEW q \in Seq(Blocks), NEW r \in Seq(Blocks), NEW types
  PROVE  q \o r \in Seq(Blocks) /\ Values(q \o r, types) = Values(q, types) \o Values(r, types)
<1>1. q \o r \in Seq(Blocks)
  OBVIOUS
<1>2. Sieved(Blocks, Held, OfTypes(types), ValueOf, q \o r)
        = Sieved(Blocks, Held, OfTypes(types), ValueOf, q)
            \o Sieved(Blocks, Held, OfTypes(types), ValueOf, r)
  BY TakenTypes, SievedConcat
<1> QED
  BY <1>1, <1>2, ValuesIs

LEMMA BlockIs ==
  ASSUME NEW t \in Types, NEW v \in Held
  PROVE  Block(t, v) \in Blocks /\ Block(t, v).type = t /\ Block(t, v).value = v
  BY DEF Block, Blocks

(* Blocks of one type.                                                      *)
Tagged(t, ids) == [i \in DOMAIN ids |-> Block(t, ids[i])]

LEMMA TaggedIs ==
  ASSUME NEW t \in Types, NEW ids \in Seq(Held)
  PROVE  /\ Tagged(t, ids) \in Seq(Blocks) /\ Len(Tagged(t, ids)) = Len(ids)
         /\ \A i \in 1..Len(ids) : Tagged(t, ids)[i] = Block(t, ids[i])
<1>1. Len(ids) \in Nat /\ DOMAIN ids = 1..Len(ids)
  OBVIOUS
<1>2. ASSUME NEW i \in DOMAIN ids
      PROVE  ids[i] \in Held /\ Block(t, ids[i]) \in Blocks
  <2>1. ids[i] \in Held
    BY <1>1
  <2> QED
    BY <2>1, BlockIs
<1>3. Tagged(t, ids) \in [1..Len(ids) -> Blocks]
  BY <1>1, <1>2 DEF Tagged
<1>4. \A i \in 1..Len(ids) : Tagged(t, ids)[i] = Block(t, ids[i])
  BY <1>1 DEF Tagged
<1> QED
  BY <1>1, <1>3, <1>4

LEMMA TaggedValues ==
  ASSUME NEW t \in Types, NEW ids \in Seq(Held), NEW types
  PROVE  Values(Tagged(t, ids), types) = IF t \in types THEN ids ELSE <<>>
<1> DEFINE q == Tagged(t, ids)
           r == Sieved(Blocks, Held, OfTypes(types), ValueOf, q)
<1>1. /\ q \in Seq(Blocks) /\ Len(q) = Len(ids) /\ Len(ids) \in Nat
      /\ \A i \in 1..Len(ids) : q[i] = Block(t, ids[i]) /\ ids[i] \in Held
  <2>1. Len(ids) \in Nat /\ \A i \in 1..Len(ids) : ids[i] \in Held
    OBVIOUS
  <2> QED
    BY <2>1, TaggedIs
<1> HIDE DEF q
<1>2. Values(q, types) = r
  BY <1>1, ValuesIs
<1>3. \A i \in 1..Len(ids) : q[i] \in Blocks /\ q[i].type = t /\ ValueOf[q[i]] = ids[i]
  BY <1>1, BlockIs DEF ValueOf
<1>4. CASE t \in types
  <2>1. AllIn(q, OfTypes(types))
    BY <1>1, <1>3, <1>4 DEF AllIn, OfTypes
  <2>2. r \in Seq(Held) /\ Len(r) = Len(q) /\ \A i \in 1..Len(q) : r[i] = ValueOf[q[i]]
    BY <1>1, <2>1, TakenTypes, SievedAll, SievedType
  <2> HIDE DEF r
  <2>3. r = ids
    BY <1>1, <1>3, <2>2, SeqEqual
  <2> QED
    BY <1>2, <1>4, <2>3 DEF q
<1>5. CASE t \notin types
  <2>1. NoneIn(q, OfTypes(types))
    BY <1>1, <1>3, <1>5 DEF NoneIn, OfTypes
  <2>2. r = <<>>
    BY <1>1, <2>1, TakenTypes, SievedNone
  <2> QED
    BY <1>2, <1>5, <2>2 DEF q
<1> QED
  BY <1>4, <1>5

LEMMA OneBlock ==
  ASSUME NEW t \in Types, NEW v \in Held, NEW types
  PROVE  /\ <<Block(t, v)>> \in Seq(Blocks) /\ <<Block(t, v)>> = Tagged(t, <<v>>)
         /\ Values(<<Block(t, v)>>, types) = IF t \in types THEN <<v>> ELSE <<>>
<1>1. <<v>> \in Seq(Held) /\ Len(<<v>>) = 1 /\ <<v>>[1] = v
  OBVIOUS
<1>2. Block(t, v) \in Blocks
  BY BlockIs
<1>3. <<Block(t, v)>> \in Seq(Blocks) /\ Len(<<Block(t, v)>>) = 1 /\ <<Block(t, v)>>[1] = Block(t, v)
  BY <1>2
<1>4. /\ Tagged(t, <<v>>) \in Seq(Blocks) /\ Len(Tagged(t, <<v>>)) = 1
      /\ Tagged(t, <<v>>)[1] = Block(t, v)
  <2>1. /\ Tagged(t, <<v>>) \in Seq(Blocks) /\ Len(Tagged(t, <<v>>)) = Len(<<v>>)
        /\ \A i \in 1..Len(<<v>>) : Tagged(t, <<v>>)[i] = Block(t, <<v>>[i])
    BY <1>1, TaggedIs
  <2> QED
    BY <1>1, <2>1
<1>5. Tagged(t, <<v>>) = <<Block(t, v)>>
  <2>1. \A i \in 1..1 : Tagged(t, <<v>>)[i] = <<Block(t, v)>>[i]
    BY <1>3, <1>4
  <2> QED
    BY <1>3, <1>4, <2>1, SeqEqual
<1>6. Values(Tagged(t, <<v>>), types) = IF t \in types THEN <<v>> ELSE <<>>
  BY <1>1, TaggedValues
<1> QED
  BY <1>3, <1>5, <1>6

(* What a user sends: text, images and results.                             *)
Plain == {b \in Blocks : b.type \in {"text", "image", "tool_result"}}

LEMMA PlainValues ==
  ASSUME NEW q \in Seq(Plain)
  PROVE  /\ q \in Seq(Blocks)
         /\ Values(q, {"tool_use"}) = <<>>
         /\ Values(q, {"text", "image", "thinking"}) = Values(q, {"text", "image"})
<1>1. q \in Seq(Blocks) /\ Len(q) \in Nat /\ \A i \in 1..Len(q) : q[i] \in Plain
  <2>1. \A i \in 1..Len(q) : q[i] \in Plain /\ q[i] \in Blocks
    BY DEF Plain
  <2> QED
    BY <2>1
<1>2. NoneIn(q, OfTypes({"tool_use"}))
  BY <1>1 DEF NoneIn, OfTypes, Plain
<1>3. AgreeOn(q, OfTypes({"text", "image", "thinking"}), OfTypes({"text", "image"}))
  BY <1>1 DEF AgreeOn, OfTypes, Plain
<1>4. Sieved(Blocks, Held, OfTypes({"tool_use"}), ValueOf, q) = <<>>
  BY <1>1, <1>2, TakenTypes, SievedNone
<1>5. Sieved(Blocks, Held, OfTypes({"text", "image", "thinking"}), ValueOf, q)
        = Sieved(Blocks, Held, OfTypes({"text", "image"}), ValueOf, q)
  BY <1>1, <1>3, TakenTypes, SievedSame
<1> QED
  BY <1>1, <1>4, <1>5, ValuesIs

-----------------------------------------------------------------------------
(* The conversation, translated for the upstream.                           *)

(* The message of a turn, and the messages of the results in it.            *)
Main(msg) ==
  ChatMessage(msg.role, OrBlank(Values(msg.content, {"text", "image", "thinking"})),
              IF Values(msg.content, {"tool_use"}) = <<>> THEN <<>>
              ELSE <<Last(Values(msg.content, {"tool_use"}))>>,
              NoCall)
ResultOf(id) == ChatMessage("tool", <<<<"result", 0>>>>, <<>>, id)
Results(ids) == [i \in DOMAIN ids |-> ResultOf(ids[i])]

LEMMA ChatIs ==
  ASSUME NEW role \in Roles, NEW text \in Seq(Held), NEW calls \in Seq(Held), NEW answers \in Held
  PROVE  /\ ChatMessage(role, text, calls, answers) \in Chats
         /\ ChatMessage(role, text, calls, answers).role = role
         /\ ChatMessage(role, text, calls, answers).text = text
         /\ ChatMessage(role, text, calls, answers).calls = calls
         /\ ChatMessage(role, text, calls, answers).answers = answers
  BY DEF ChatMessage, Chats

LEMMA HeldAre ==
  /\ NoCall \in Held /\ <<"result", 0>> \in Held /\ <<"blank", 0>> \in Held /\ <<"system", 0>> \in Held
  /\ \A k \in Marks, n \in Nat : <<k, n>> \in Held
  /\ \A k \in Marks, n \in Nat, i \in Nat : <<k, n, i>> \in Held
  BY DEF NoCall, Held, Marks

LEMMA LastIs ==
  ASSUME NEW E, NEW q \in Seq(E), q # <<>>
  PROVE  Len(q) \in Nat /\ Len(q) >= 1 /\ Last(q) = q[Len(q)] /\ Last(q) \in E
<1>1. Len(q) \in Nat /\ Len(q) >= 1
  BY EmptySeq
<1> QED
  BY <1>1 DEF Last

LEMMA ResultIs ==
  ASSUME NEW id \in Held
  PROVE  /\ ResultOf(id) \in Chats /\ ResultOf(id).role = "tool"
         /\ ResultOf(id).calls = <<>> /\ ResultOf(id).answers = id
<1>1. <<<<"result", 0>>>> \in Seq(Held) /\ <<>> \in Seq(Held)
  BY HeldAre
<1>2. PICK role \in Roles, text \in Seq(Held), none \in Seq(Held) :
        role = "tool" /\ text = <<<<"result", 0>>>> /\ none = <<>>
  BY <1>1 DEF Roles
<1>3. ResultOf(id) = ChatMessage(role, text, none, id)
  BY <1>2 DEF ResultOf
<1>4. /\ ChatMessage(role, text, none, id) \in Chats /\ ChatMessage(role, text, none, id).role = role
      /\ ChatMessage(role, text, none, id).calls = none
      /\ ChatMessage(role, text, none, id).answers = id
  BY ChatIs
<1> QED
  BY <1>2, <1>3, <1>4

LEMMA ResultsAre ==
  ASSUME NEW ids \in Seq(Held)
  PROVE  /\ Results(ids) \in Seq(Chats) /\ Len(Results(ids)) = Len(ids)
         /\ \A i \in 1..Len(ids) : Results(ids)[i] = ResultOf(ids[i])
<1>1. Len(ids) \in Nat /\ DOMAIN ids = 1..Len(ids)
  OBVIOUS
<1>2. ASSUME NEW i \in DOMAIN ids
      PROVE  ids[i] \in Held /\ ResultOf(ids[i]) \in Chats
  <2>1. ids[i] \in Held
    BY <1>1
  <2> QED
    BY <2>1, ResultIs
<1>3. Results(ids) \in [1..Len(ids) -> Chats]
  BY <1>1, <1>2 DEF Results
<1>4. \A i \in 1..Len(ids) : Results(ids)[i] = ResultOf(ids[i])
  BY <1>1 DEF Results
<1> QED
  BY <1>1, <1>3, <1>4

LEMMA MainIs ==
  ASSUME NEW m \in Messages
  PROVE  /\ m.content \in Seq(Blocks)
         /\ Main(m) \in Chats /\ Main(m).role = m.role /\ m.role \notin {"tool", "system"}
         /\ Main(m).text = OrBlank(Values(m.content, {"text", "image", "thinking"}))
         /\ Main(m).calls = IF Values(m.content, {"tool_use"}) = <<>> THEN <<>>
                            ELSE <<Last(Values(m.content, {"tool_use"}))>>
         /\ Main(m).answers = NoCall
<1>1. m.role \in {"user", "assistant"} /\ m.content \in Seq(Blocks)
  BY DEF Messages
<1>2. m.role \in Roles
  BY <1>1 DEF Roles
<1> DEFINE text == Values(m.content, {"text", "image", "thinking"})
           calls == Values(m.content, {"tool_use"})
<1>3. text \in Seq(Held) /\ calls \in Seq(Held)
  BY <1>1, ValuesType
<1>4. Main(m) = ChatMessage(m.role, OrBlank(text), IF calls = <<>> THEN <<>> ELSE <<Last(calls)>>, NoCall)
  BY DEF Main
<1> HIDE DEF text, calls
<1>5. OrBlank(text) \in Seq(Held)
  BY <1>3, HeldAre DEF OrBlank
<1>6. (IF calls = <<>> THEN <<>> ELSE <<Last(calls)>>) \in Seq(Held)
  BY <1>3, LastIs
<1>7. NoCall \in Held
  BY HeldAre
<1>8. PICK t \in Seq(Held), c \in Seq(Held) :
        t = OrBlank(text) /\ c = IF calls = <<>> THEN <<>> ELSE <<Last(calls)>>
  BY <1>5, <1>6
<1>9. /\ ChatMessage(m.role, t, c, NoCall) \in Chats
      /\ ChatMessage(m.role, t, c, NoCall).role = m.role
      /\ ChatMessage(m.role, t, c, NoCall).text = t
      /\ ChatMessage(m.role, t, c, NoCall).calls = c
      /\ ChatMessage(m.role, t, c, NoCall).answers = NoCall
  BY <1>2, <1>7, ChatIs
<1>10. Main(m) = ChatMessage(m.role, t, c, NoCall)
  BY <1>4, <1>8
<1>11. Main(m) \in Chats /\ Main(m).role = m.role /\ Main(m).text = t /\ Main(m).calls = c
       /\ Main(m).answers = NoCall
  BY <1>9, <1>10
<1> QED
  BY <1>1, <1>8, <1>11 DEF text, calls

LEMMA TranslatedIs ==
  ASSUME NEW m \in Messages
  PROVE  /\ Translated(m) = Append(Results(Values(m.content, {"tool_result"})), Main(m))
         /\ Translated(m) \in Seq(Chats)
<1> DEFINE ids == Values(m.content, {"tool_result"})
<1>1. ids \in Seq(Held) /\ Main(m) \in Chats
  BY MainIs, ValuesType
<1>2. Translated(m) = Results(ids) \o <<Main(m)>>
  BY DEF Translated, Results, Main, ResultOf
<1> HIDE DEF ids
<1>3. Results(ids) \in Seq(Chats)
  BY <1>1, ResultsAre
<1>4. PICK q \in Seq(Chats), e \in Chats : q = Results(ids) /\ e = Main(m)
  BY <1>1, <1>3
<1>5. q \o <<e>> = Append(q, e) /\ Append(q, e) \in Seq(Chats)
  <2>1. <<>> \in Seq(Chats) /\ Append(<<>>, e) = <<e>>
    OBVIOUS
  <2>2. q \o <<>> = q
    BY ConcatEmptySeq
  <2>3. q \o Append(<<>>, e) = Append(q \o <<>>, e) /\ Append(q, e) \in Seq(Chats)
    BY <2>1, ConcatAppend, AppendProperties
  <2> QED
    BY <2>1, <2>2, <2>3
<1> QED
  BY <1>2, <1>4, <1>5 DEF ids

Shows == [x \in Seq(Chats) \X Messages |-> x[1] \o Translated(x[2])]
Prompt(sys) == IF sys = <<>> THEN <<>> ELSE <<ChatMessage("system", sys, <<>>, NoCall)>>

LEMMA PromptIs ==
  ASSUME NEW sys \in Seq(Held)
  PROVE  Prompt(sys) \in Seq(Chats)
<1>1. "system" \in Roles /\ <<>> \in Seq(Held) /\ NoCall \in Held
  BY HeldAre DEF Roles
<1>2. ChatMessage("system", sys, <<>>, NoCall) \in Chats
  BY <1>1, ChatIs
<1> QED
  BY <1>2 DEF Prompt

LEMMA ShowsIs ==
  /\ Shows \in [Seq(Chats) \X Messages -> Seq(Chats)]
  /\ \A x \in Seq(Chats), m \in Messages : Shows[<<x, m>>] = x \o Translated(m)
<1>1. ASSUME NEW x \in Seq(Chats), NEW m \in Messages
      PROVE  x \o Translated(m) \in Seq(Chats)
  <2>1. Translated(m) \in Seq(Chats)
    BY TranslatedIs
  <2> QED
    BY <2>1, ConcatProperties
<1> QED
  BY <1>1 DEF Shows

LEMMA ShownIs ==
  ASSUME NEW sys \in Seq(Held), NEW q \in Seq(Messages)
  PROVE  AnthropicToOpenAI(sys, q) = FoldOf(Shows, Prompt(sys), q)
<1> DEFINE b == Prompt(sys)
           D == Seq(Chats)
           Folded(f) == f = [s \in SUBSET (DOMAIN q) |->
             IF s = {} THEN b ELSE f[s \ {Max(s)}] \o Translated(q[Max(s)])]
<1>1. b \in D /\ Len(q) \in Nat /\ DOMAIN q = 1..Len(q)
  BY PromptIs
<1>2. ASSUME NEW s \in SUBSET (DOMAIN q), s # {}
      PROVE  q[Max(s)] \in Messages /\ s \ {Max(s)} \in SUBSET (DOMAIN q)
  BY <1>2, InSequence
<1>3. Shows \in [D \X Messages -> D]
  BY ShowsIs
<1> HIDE DEF b
<1>4. PICK h \in [SUBSET (DOMAIN q) -> D] : IsRun(h, Shows, b, q)
  BY <1>1, <1>3, RunExists
<1>5. Folded(h)
  <2>1. ASSUME NEW s \in SUBSET (DOMAIN q), s # {}
        PROVE  h[s] = h[s \ {Max(s)}] \o Translated(q[Max(s)])
    BY <1>2, <1>4, <2>1, ShowsIs DEF IsRun
  <2>2. {} \in SUBSET (DOMAIN q) => h[{}] = b
    BY <1>4 DEF IsRun
  <2> QED
    BY <1>4, <2>1, <2>2
<1>6. PICK f : Folded(f) /\ AnthropicToOpenAI(sys, q) = f[DOMAIN q]
  BY <1>5 DEF AnthropicToOpenAI, FoldLeft, MapThenFoldSet, b, Prompt
<1>7. f[{}] = b /\ Follows(f, D, Shows, q)
  <2>1. {} \in SUBSET (DOMAIN q)
    OBVIOUS
  <2>2. ASSUME NEW s \in SUBSET (DOMAIN q), s # {}, f[s \ {Max(s)}] \in D
        PROVE  f[s] = Shows[<<f[s \ {Max(s)}], q[Max(s)]>>]
    <3>1. f[s] = f[s \ {Max(s)}] \o Translated(q[Max(s)])
      BY <1>6, <2>2
    <3>2. q[Max(s)] \in Messages
      BY <1>2, <2>2
    <3> HIDE DEF Folded
    <3> QED
      BY <2>2, <3>1, <3>2, ShowsIs
  <2> QED
    BY <1>6, <2>1, <2>2 DEF Follows
<1> HIDE DEF Folded
<1>8. Foldable(D, Messages, Shows, b, q)
  BY <1>1, <1>3 DEF Foldable
<1> QED
  BY <1>6, <1>7, <1>8, FoldIs DEF b

(* What the upstream is shown grows by what the last message becomes.       *)
LEMMA ShownOn ==
  ASSUME NEW sys \in Seq(Held), NEW q \in Seq(Messages), NEW m \in Messages
  PROVE  /\ AnthropicToOpenAI(sys, q) \in Seq(Chats)
         /\ AnthropicToOpenAI(sys, Append(q, m)) = AnthropicToOpenAI(sys, q) \o Translated(m)
<1>1. Foldable(Seq(Chats), Messages, Shows, Prompt(sys), q)
  BY PromptIs, ShowsIs DEF Foldable
<1>2. FoldOf(Shows, Prompt(sys), q) \in Seq(Chats)
  BY <1>1, FoldType
<1>3. FoldOf(Shows, Prompt(sys), Append(q, m)) = Shows[<<FoldOf(Shows, Prompt(sys), q), m>>]
  BY <1>1, FoldAppend
<1>4. Append(q, m) \in Seq(Messages)
  BY AppendProperties
<1> QED
  BY <1>2, <1>3, <1>4, ShownIs, ShowsIs

LEMMA ShownFirst ==
  ASSUME NEW sys \in Seq(Held)
  PROVE  AnthropicToOpenAI(sys, <<>>) = Prompt(sys)
<1>1. <<>> \in Seq(Messages)
  OBVIOUS
<1>2. FoldOf(Shows, Prompt(sys), <<>>) = Prompt(sys)
  <2>1. Prompt(sys) \in Seq(Chats) /\ Shows \in [Seq(Chats) \X Messages -> Seq(Chats)]
    BY PromptIs, ShowsIs
  <2> QED
    BY <2>1, FoldEmpty
<1> QED
  BY <1>1, <1>2, ShownIs

(* The turns among what the upstream is shown.                              *)
LEMMA TurnsOn ==
  ASSUME NEW q \in Seq(Chats), NEW m \in Messages
  PROVE  Turns(q) \in Seq(Chats) /\ Turns(q \o Translated(m)) = Append(Turns(q), Main(m))
<1> DEFINE R == Results(Values(m.content, {"tool_result"}))
           F(s) == Sieved(Chats, Chats, TurnsOnly, Itself, s)
<1>1. Values(m.content, {"tool_result"}) \in Seq(Held)
  BY MainIs, ValuesType
<1>2. /\ Translated(m) = Append(R, Main(m)) /\ Translated(m) \in Seq(Chats) /\ R \in Seq(Chats)
      /\ Main(m) \in Chats /\ Main(m) \in TurnsOnly /\ Itself[Main(m)] = Main(m)
  BY <1>1, TranslatedIs, ResultsAre, MainIs DEF TurnsOnly, Itself
<1>3. NoneIn(R, TurnsOnly)
  <2> DEFINE ids == Values(m.content, {"tool_result"})
  <2>1. ids \in Seq(Held) /\ Len(ids) \in Nat /\ \A i \in 1..Len(ids) : ids[i] \in Held
    BY <1>1
  <2>2. Len(R) = Len(ids) /\ \A i \in 1..Len(ids) : R[i] = ResultOf(ids[i])
    BY <2>1, ResultsAre
  <2> HIDE DEF R, ids
  <2> QED
    BY <2>1, <2>2, ResultIs DEF NoneIn, TurnsOnly
<1> HIDE DEF R
<1>4. F(R) = <<>>
  BY <1>2, <1>3, TakenTypes, SievedNone
<1>5. F(Append(R, Main(m))) = Append(F(R), Itself[Main(m)])
  BY <1>2, TakenTypes, SievedAppend
<1>6. F(q \o Translated(m)) = F(q) \o F(Translated(m)) /\ F(q) \in Seq(Chats)
  <2>1. PICK r \in Seq(Chats) : r = Translated(m)
    BY <1>2
  <2>2. F(q \o r) = F(q) \o F(r) /\ F(q) \in Seq(Chats)
    <3>1. Takes(Chats, Chats, TurnsOnly, Itself)
      BY TakenTypes
    <3>2. F(q) \in Seq(Chats)
      BY <3>1, SievedType
    <3>3. F(q \o r) = F(q) \o F(r)
      BY <3>1, SievedConcat
    <3> QED
      BY <3>2, <3>3
  <2> HIDE DEF F
  <2> QED
    BY <2>1, <2>2
<1>7. q \o Translated(m) \in Seq(Chats)
  BY <1>2, ConcatProperties
<1>8. Turns(q) = F(q) /\ Turns(q \o Translated(m)) = F(q \o Translated(m))
  BY <1>7, TurnsIs
<1> HIDE DEF F
<1>9. <<>> \in Seq(Chats) /\ F(q) \o <<>> = F(q)
  BY <1>6, ConcatEmptySeq
<1>10. F(q) \o Append(<<>>, Main(m)) = Append(F(q) \o <<>>, Main(m))
  BY <1>2, <1>6, <1>9, ConcatAppend
<1> QED
  BY <1>2, <1>4, <1>5, <1>6, <1>8, <1>9, <1>10

-----------------------------------------------------------------------------
(* Streams.                                                                 *)

LEMMA EventIs ==
  ASSUME NEW k \in Signals, NEW n \in Nat
  PROVE  /\ Event(k, n) \in Wire /\ Event(k, n) \notin WithPiece
         /\ Event(k, n).event = k /\ Event(k, n).index = n
  BY DEF Event, Wire, WithPiece

LEMMA DeltaIs ==
  ASSUME NEW k \in Signals, NEW n \in Nat, NEW p \in Held
  PROVE  /\ TextDelta(k, n, p) \in Wire /\ TextDelta(k, n, p) \in WithPiece
         /\ PieceRead[TextDelta(k, n, p)] = p
         /\ TextDelta(k, n, p).event = k /\ TextDelta(k, n, p).index = n
<1>1. TextDelta(k, n, p) \in Wire /\ "piece" \in DOMAIN TextDelta(k, n, p) /\ TextDelta(k, n, p).piece = p
  BY DEF TextDelta, Wire
<1>2. TextDelta(k, n, p).event = k /\ TextDelta(k, n, p).index = n
  BY DEF TextDelta
<1> QED
  BY <1>1, <1>2 DEF WithPiece, PieceRead

LEMMA TextReadType ==
  ASSUME NEW q \in Seq(Wire)
  PROVE  TextRead(q) \in Seq(Held)
  BY TakenTypes, TextReadIs, SievedType

LEMMA TextReadConcat ==
  ASSUME NEW q \in Seq(Wire), NEW r \in Seq(Wire)
  PROVE  q \o r \in Seq(Wire) /\ TextRead(q \o r) = TextRead(q) \o TextRead(r)
<1>1. q \o r \in Seq(Wire)
  OBVIOUS
<1>2. Sieved(Wire, Held, WithPiece, PieceRead, q \o r)
        = Sieved(Wire, Held, WithPiece, PieceRead, q) \o Sieved(Wire, Held, WithPiece, PieceRead, r)
  BY TakenTypes, SievedConcat
<1> QED
  BY <1>1, <1>2, TextReadIs

LEMMA TextReadOn ==
  ASSUME NEW q \in Seq(Wire), NEW e \in Wire
  PROVE  /\ Append(q, e) \in Seq(Wire)
         /\ e \in WithPiece => TextRead(Append(q, e)) = Append(TextRead(q), PieceRead[e])
         /\ e \notin WithPiece => TextRead(Append(q, e)) = TextRead(q)
<1>1. Append(q, e) \in Seq(Wire)
  BY AppendProperties
<1>2. Sieved(Wire, Held, WithPiece, PieceRead, Append(q, e))
        = IF e \in WithPiece THEN Append(Sieved(Wire, Held, WithPiece, PieceRead, q), PieceRead[e])
          ELSE Sieved(Wire, Held, WithPiece, PieceRead, q)
  BY TakenTypes, SievedAppend
<1> QED
  BY <1>1, <1>2, TextReadIs

(* Events without text.                                                     *)
Silent(q) == \A i \in 1..Len(q) : q[i] \notin WithPiece

LEMMA SilentRead ==
  ASSUME NEW q \in Seq(Wire), Silent(q)
  PROVE  TextRead(q) = <<>>
<1>1. NoneIn(q, WithPiece)
  BY DEF NoneIn, Silent
<1>2. Sieved(Wire, Held, WithPiece, PieceRead, q) = <<>>
  BY <1>1, TakenTypes, SievedNone
<1> QED
  BY <1>2, TextReadIs

LEMMA TextOfType ==
  ASSUME NEW q \in Seq(Lines)
  PROVE  TextOf(q) \in Seq(Held)
  BY TakenTypes, TextOfIs, SievedType

LEMMA TextOfEmpty == TextOf(<<>>) = <<>>
<1>1. <<>> \in Seq(Lines)
  OBVIOUS
<1>2. Sieved(Lines, Held, Kind("text"), PieceOf, <<>>) = <<>>
  BY TakenTypes, SievedEmpty
<1> QED
  BY <1>1, <1>2, TextOfIs

LEMMA TextOfOn ==
  ASSUME NEW q \in Seq(Lines), NEW l \in Lines
  PROVE  /\ Append(q, l) \in Seq(Lines)
         /\ TextOf(Append(q, l)) = IF l.kind = "text" THEN Append(TextOf(q), l.piece) ELSE TextOf(q)
<1>1. Append(q, l) \in Seq(Lines)
  BY AppendProperties
<1>2. Sieved(Lines, Held, Kind("text"), PieceOf, Append(q, l))
        = IF l \in Kind("text") THEN Append(Sieved(Lines, Held, Kind("text"), PieceOf, q), PieceOf[l])
          ELSE Sieved(Lines, Held, Kind("text"), PieceOf, q)
  BY TakenTypes, SievedAppend
<1>3. (l \in Kind("text") <=> l.kind = "text") /\ PieceOf[l] = l.piece
  BY DEF Kind, PieceOf
<1> QED
  BY <1>1, <1>2, <1>3, TextOfIs

(* Up to a mark a stream that ends in time has all of its text.             *)
LEMMA UpToIs ==
  ASSUME NEW q \in Seq(Lines), NEW marks \in SUBSET {"finish", "done"}
  PROVE  /\ UpTo(q, marks) \in Seq(Lines)
         /\ \A l \in ToSet(UpTo(q, marks)) : l \in ToSet(q)
         /\ EndsInTime(q) => TextOf(UpTo(q, marks)) = TextOf(q)
<1> DEFINE cuts == {i \in DOMAIN q : q[i].kind \in marks}
           n == Min(cuts) - 1
           u == SubSeq(q, 1, n)
           v == SubSeq(q, n + 1, Len(q))
<1>0. Len(q) \in Nat /\ DOMAIN q = 1..Len(q)
  OBVIOUS
<1>1. CASE cuts = {}
  <2>1. UpTo(q, marks) = q
    BY <1>1 DEF UpTo
  <2> QED
    BY <2>1
<1>2. CASE cuts # {}
  <2>1. UpTo(q, marks) = u
    BY <1>2 DEF UpTo
  <2>2. PICK m \in cuts : m = Min(cuts) /\ \A y \in cuts : ~(y < m)
    <3>1. cuts \in SUBSET Nat
      BY <1>0
    <3>2. PICK x \in cuts : \A y \in cuts : ~(y < x)
      BY <1>2, <3>1, LeastNat
    <3>3. \A y \in cuts : x <= y
      <4>1. \A y \in cuts : y \in Nat /\ x \in Nat
        BY <3>1
      <4> QED
        BY <3>2, <4>1
    <3>4. PICK m \in cuts : m = Min(cuts) /\ \A y \in cuts : m <= y
      BY <3>3 DEF Min
    <3>5. ASSUME NEW y \in cuts
          PROVE  ~(y < m)
      <4>1. y \in Nat /\ m \in Nat /\ m <= y
        BY <3>1, <3>4
      <4> QED
        BY <4>1
    <3> QED
      BY <3>4, <3>5
  <2>3. m \in 1..Len(q) /\ q[m].kind \in marks /\ n = m - 1 /\ n \in Nat /\ n + 1 = m /\ m \in Nat
    BY <1>0, <2>2
  <2> HIDE DEF cuts, n
  <2>4. u \in Seq(Lines) /\ Len(u) = n /\ \A i \in 1..n : u[i] = q[i]
    BY <1>0, <2>3, SubSeqProperties
  <2>5. v \in Seq(Lines) /\ Len(v) = Len(q) - n /\ \A i \in 1..(Len(q) - n) : v[i] = q[n + i]
    <3>1. /\ SubSeq(q, m, Len(q)) \in Seq(Lines) /\ Len(SubSeq(q, m, Len(q))) = Len(q) - m + 1
          /\ \A i \in 1..(Len(q) - m + 1) : SubSeq(q, m, Len(q))[i] = q[m + i - 1]
      BY <1>0, <2>3, SubSeqProperties
    <3>2. Len(q) - m + 1 = Len(q) - n /\ \A i \in 1..(Len(q) - n) : m + i - 1 = n + i
      BY <1>0, <2>3
    <3> QED
      BY <2>3, <3>1, <3>2
  <2> HIDE DEF u, v
  <2>6. u \o v = q
    <3>1. /\ u \o v \in Seq(Lines) /\ Len(u \o v) = Len(u) + Len(v)
          /\ \A i \in 1..(Len(u) + Len(v)) : (u \o v)[i] = IF i <= Len(u) THEN u[i] ELSE v[i - Len(u)]
      BY <2>4, <2>5, ConcatProperties
    <3>2. Len(u) + Len(v) = Len(q)
      BY <1>0, <2>3, <2>4, <2>5
    <3>3. ASSUME NEW i \in 1..Len(q)
          PROVE  (u \o v)[i] = q[i]
      <4>1. CASE i <= n
        <5>1. i \in 1..n
          BY <4>1, <2>3
        <5> QED
          BY <2>4, <3>1, <3>2, <4>1, <5>1
      <4>2. CASE ~(i <= n)
        <5>1. i - n \in 1..(Len(q) - n) /\ n + (i - n) = i
          BY <1>0, <2>3, <4>2
        <5>2. v[i - n] = q[i]
          BY <2>5, <5>1
        <5> QED
          BY <2>4, <3>1, <3>2, <4>2, <5>2
      <4> QED
        BY <4>1, <4>2
    <3> QED
      BY <3>1, <3>2, <3>3, SeqEqual
  <2>7. \A l \in ToSet(u) : l \in ToSet(q)
    <3>1. \A i \in 1..n : i \in 1..Len(q)
      BY <1>0, <2>3
    <3>2. ToSet(u) = {u[i] : i \in 1..n} /\ ToSet(q) = {q[i] : i \in 1..Len(q)}
      BY <1>0, <2>4 DEF ToSet
    <3> QED
      BY <2>4, <3>1, <3>2
  <2>8. ASSUME EndsInTime(q)
        PROVE  TextOf(u) = TextOf(q)
    <3>1. ASSUME NEW i \in 1..Len(v)
          PROVE  v[i].kind # "text"
      <4>1. v[i] = q[n + i] /\ n + i \in 1..Len(q) /\ (n + i = m \/ m < n + i)
        BY <1>0, <2>3, <2>5
      <4>2. m < n + i => q[n + i].kind # "text"
        BY <1>0, <2>3, <2>8, <4>1 DEF EndsInTime
      <4> QED
        BY <2>3, <4>1, <4>2
    <3>2. NoneIn(v, Kind("text"))
      BY <3>1 DEF NoneIn, Kind
    <3>3. Sieved(Lines, Held, Kind("text"), PieceOf, v) = <<>>
      BY <2>5, <3>2, TakenTypes, SievedNone
    <3>4. Sieved(Lines, Held, Kind("text"), PieceOf, u \o v)
            = Sieved(Lines, Held, Kind("text"), PieceOf, u)
                \o Sieved(Lines, Held, Kind("text"), PieceOf, v)
      BY <2>4, <2>5, TakenTypes, SievedConcat
    <3>5. TextOf(u) \in Seq(Held) /\ TextOf(u) \o <<>> = TextOf(u)
      BY <2>4, TextOfType, ConcatEmptySeq
    <3> QED
      BY <2>4, <2>6, <3>3, <3>4, <3>5, TextOfIs
  <2> QED
    BY <2>1, <2>4, <2>7, <2>8 DEF u
<1> QED
  BY <1>1, <1>2

(* The events that lines are converted to.                                  *)
Bodies == [events : Seq(Wire), index : Nat]
FirstBody == [events |-> <<Event("content_block_start", 0)>>, index |-> 0]
BlockBegins(n) == Event("content_block_start", n)
BlockGoesOn(n) == Event("content_block_delta", n)

LEMMA SignalsAre ==
  /\ \A n \in Nat : /\ BlockBegins(n) \in Wire /\ BlockBegins(n) \notin WithPiece
                    /\ BlockBegins(n).event = "content_block_start" /\ BlockBegins(n).index = n
                    /\ BlockGoesOn(n) \in Wire /\ BlockGoesOn(n) \notin WithPiece
                    /\ BlockGoesOn(n).event = "content_block_delta" /\ BlockGoesOn(n).index = n
  /\ \A k \in OfBlock : k \in Signals
  /\ "ping" \in Signals /\ "message_start" \in Signals /\ "message_delta" \in Signals
  /\ "message_stop" \in Signals /\ "error" \in Signals /\ "chunk" \in Signals /\ "[DONE]" \in Signals
  BY EventIs DEF Signals, OfBlock, BlockBegins, BlockGoesOn

LEMMA FirstBodyIs ==
  /\ FirstBody \in Bodies /\ FirstBody.index = 0
  /\ FirstBody.events = Append(<<>>, BlockBegins(0)) /\ <<>> \in Seq(Wire)
<1>1. BlockBegins(0) \in Wire
  BY SignalsAre
<1>2. FirstBody = [events |-> <<BlockBegins(0)>>, index |-> 0]
  BY DEF FirstBody, BlockBegins
<1>3. <<BlockBegins(0)>> \in Seq(Wire) /\ Append(<<>>, BlockBegins(0)) = <<BlockBegins(0)>>
  BY <1>1
<1> QED
  BY <1>2, <1>3 DEF Bodies

LEMMA ConvertedIs ==
  ASSUME NEW x \in Bodies, NEW l \in Lines
  PROVE  /\ x.events \in Seq(Wire) /\ x.index \in Nat /\ l.piece \in Held
         /\ l.kind = "text" =>
              /\ Converted(x, l).events = Append(x.events, TextDelta("content_block_delta", x.index, l.piece))
              /\ Converted(x, l).index = x.index
         /\ l.kind = "tool" =>
              /\ Converted(x, l).events =
                   Append(Append(x.events, BlockBegins(x.index + 1)), BlockGoesOn(x.index + 1))
              /\ Converted(x, l).index = x.index + 1
         /\ l.kind \notin {"text", "tool"} => Converted(x, l) = x
         /\ Converted(x, l) \in Bodies
<1>1. x.events \in Seq(Wire) /\ x.index \in Nat /\ x = [events |-> x.events, index |-> x.index] /\ l.piece \in Held
  BY DEF Bodies, Lines
<1>2. CASE l.kind = "text"
  <2>1. TextDelta("content_block_delta", x.index, l.piece) \in Wire
    BY <1>1, DeltaIs, SignalsAre DEF OfBlock
  <2>2. Converted(x, l) = [events |-> Append(x.events, TextDelta("content_block_delta", x.index, l.piece)),
                           index |-> x.index]
    BY <1>1, <1>2 DEF Converted
  <2>3. Append(x.events, TextDelta("content_block_delta", x.index, l.piece)) \in Seq(Wire)
    BY <1>1, <2>1, AppendProperties
  <2> QED
    BY <1>1, <1>2, <2>2, <2>3 DEF Bodies
<1>3. CASE l.kind = "tool"
  <2>1. PICK n \in Nat, a \in Wire, b \in Wire :
          n = x.index + 1 /\ a = BlockBegins(n) /\ b = BlockGoesOn(n)
    BY <1>1, SignalsAre
  <2>2. Converted(x, l) = [events |-> x.events \o <<a, b>>, index |-> n]
    BY <1>3, <2>1 DEF Converted, BlockBegins, BlockGoesOn
  <2>3. x.events \o <<a, b>> = Append(Append(x.events, a), b) /\ x.events \o <<a, b>> \in Seq(Wire)
    BY <1>1, <2>1, WithTwo
  <2> QED
    BY <1>1, <1>3, <2>1, <2>2, <2>3 DEF Bodies
<1>4. CASE l.kind \notin {"text", "tool"}
  BY <1>1, <1>4 DEF Converted
<1> QED
  BY <1>2, <1>3, <1>4

Converts == [x \in Bodies \X Lines |-> Converted(x[1], x[2])]
BodyOf(u) == FoldLeft(Converted, FirstBody, u)

LEMMA ConvertsIs ==
  /\ Converts \in [Bodies \X Lines -> Bodies]
  /\ \A x \in Bodies, l \in Lines : Converts[<<x, l>>] = Converted(x, l)
  BY ConvertedIs DEF Converts

LEMMA BodyIs ==
  ASSUME NEW q \in Seq(Lines)
  PROVE  BodyOf(q) = FoldOf(Converts, FirstBody, q)
<1> DEFINE Folded(f) == f = [s \in SUBSET (DOMAIN q) |->
             IF s = {} THEN FirstBody ELSE Converted(f[s \ {Max(s)}], q[Max(s)])]
<1>1. FirstBody \in Bodies /\ Len(q) \in Nat /\ DOMAIN q = 1..Len(q)
  BY FirstBodyIs
<1>2. ASSUME NEW s \in SUBSET (DOMAIN q), s # {}
      PROVE  q[Max(s)] \in Lines /\ s \ {Max(s)} \in SUBSET (DOMAIN q)
  BY <1>2, InSequence
<1>3. PICK h \in [SUBSET (DOMAIN q) -> Bodies] : IsRun(h, Converts, FirstBody, q)
  BY <1>1, ConvertsIs, RunExists
<1>4. Folded(h)
  <2>1. ASSUME NEW s \in SUBSET (DOMAIN q), s # {}
        PROVE  h[s] = Converted(h[s \ {Max(s)}], q[Max(s)])
    BY <1>2, <1>3, <2>1, ConvertsIs DEF IsRun
  <2>2. {} \in SUBSET (DOMAIN q) => h[{}] = FirstBody
    BY <1>3 DEF IsRun
  <2> QED
    BY <1>3, <2>1, <2>2
<1>5. PICK f : Folded(f) /\ BodyOf(q) = f[DOMAIN q]
  BY <1>4 DEF BodyOf, FoldLeft, MapThenFoldSet
<1>6. f[{}] = FirstBody /\ Follows(f, Bodies, Converts, q)
  <2>1. {} \in SUBSET (DOMAIN q)
    OBVIOUS
  <2>2. ASSUME NEW s \in SUBSET (DOMAIN q), s # {}, f[s \ {Max(s)}] \in Bodies
        PROVE  f[s] = Converts[<<f[s \ {Max(s)}], q[Max(s)]>>]
    <3>1. f[s] = Converted(f[s \ {Max(s)}], q[Max(s)])
      BY <1>5, <2>2
    <3>2. q[Max(s)] \in Lines
      BY <1>2, <2>2
    <3> HIDE DEF Folded
    <3> QED
      BY <2>2, <3>1, <3>2, ConvertsIs
  <2> QED
    BY <1>5, <2>1, <2>2 DEF Follows
<1> HIDE DEF Folded
<1>7. Foldable(Bodies, Lines, Converts, FirstBody, q)
  BY <1>1, ConvertsIs DEF Foldable
<1> QED
  BY <1>5, <1>6, <1>7, FoldIs

LEMMA BodyOn ==
  ASSUME NEW q \in Seq(Lines), NEW l \in Lines
  PROVE  BodyOf(q) \in Bodies /\ BodyOf(Append(q, l)) = Converted(BodyOf(q), l)
<1>1. Foldable(Bodies, Lines, Converts, FirstBody, q)
  BY FirstBodyIs, ConvertsIs DEF Foldable
<1>2. FoldOf(Converts, FirstBody, Append(q, l)) = Converts[<<FoldOf(Converts, FirstBody, q), l>>]
  BY <1>1, FoldAppend
<1>3. FoldOf(Converts, FirstBody, q) \in Bodies /\ Append(q, l) \in Seq(Lines)
  BY <1>1, FoldType, AppendProperties
<1> QED
  BY <1>2, <1>3, BodyIs, ConvertsIs

LEMMA BodyFirst == BodyOf(<<>>) = FirstBody
<1>1. <<>> \in Seq(Lines)
  OBVIOUS
<1>2. FoldOf(Converts, FirstBody, <<>>) = FirstBody
  BY FirstBodyIs, ConvertsIs, FoldEmpty
<1> QED
  BY <1>1, <1>2, BodyIs

(* A sequence that does not say a thing.                                    *)
Without(q, k) == \A i \in 1..Len(q) : q[i].event # k
ToolFree(u) == \A i \in 1..Len(u) : u[i].kind # "tool"

LEMMA WithoutOn ==
  ASSUME NEW q \in Seq(Wire), NEW e \in Wire, NEW k, Without(q, k), e.event # k
  PROVE  Append(q, e) \in Seq(Wire) /\ Without(Append(q, e), k)
<1>1. /\ Append(q, e) \in Seq(Wire) /\ Len(Append(q, e)) = Len(q) + 1 /\ Len(q) \in Nat
      /\ Append(q, e)[Len(q) + 1] = e /\ \A i \in 1..Len(q) : Append(q, e)[i] = q[i]
  BY AppendProperties
<1>2. \A i \in 1..(Len(q) + 1) : i \in 1..Len(q) \/ i = Len(q) + 1
  BY <1>1
<1> QED
  BY <1>1, <1>2 DEF Without

LEMMA PreambleIs ==
  /\ Preamble \in Seq(Wire) /\ TextRead(Preamble) = <<>> /\ Without(Preamble, "message_stop")
  /\ Read(Preamble) = At("between", 0)
<1>1. PICK p \in Wire, m \in Wire :
        /\ p = Event("ping", 0) /\ m = Event("message_start", 0)
        /\ p \notin WithPiece /\ m \notin WithPiece /\ p.event = "ping" /\ m.event = "message_start"
        /\ Preamble = <<p, m>>
  BY EventIs, SignalsAre DEF Preamble
<1>2. <<p>> \in Seq(Wire) /\ <<p, m>> \in Seq(Wire) /\ Append(<<p>>, m) = <<p, m>>
  BY TwoAre
<1>3. <<>> \in Seq(Wire) /\ Append(<<>>, p) = <<p>>
  OBVIOUS
<1>4. Len(<<p, m>>) = 2 /\ <<p, m>>[1] = p /\ <<p, m>>[2] = m /\ \A i \in 1..2 : i = 1 \/ i = 2
  OBVIOUS
<1>5. Silent(Preamble) /\ Without(Preamble, "message_stop")
  BY <1>1, <1>4 DEF Silent, Without
<1>6. Read(<<p>>) = Advance(Fresh, p) /\ Read(<<p, m>>) = Advance(Read(<<p>>), m)
  <2>1. Read(Append(<<>>, p)) = Advance(Read(<<>>), p)
    BY <1>3, ReadOn
  <2>2. Read(Append(<<p>>, m)) = Advance(Read(<<p>>), m)
    BY <1>2, ReadOn
  <2> QED
    BY <1>2, <1>3, <2>1, <2>2, ReadEmpty
<1>7. Advance(Fresh, p) = Fresh
  BY <1>1, Pinged
<1>8. Advance(Fresh, m) = At("between", 0)
  <2>1. Fresh.at = "nothing" /\ Fresh.block = 0
    BY DEF Fresh
  <2>2. <<Fresh.at, m.event, "between">> \in Moves /\ m.event \notin OfBlock /\ m.event # "ping"
    BY <1>1, <2>1 DEF Moves, OfBlock
  <2>3. m.event # "content_block_stop"
    BY <1>1
  <2> QED
    BY <2>1, <2>2, <2>3, Moving
<1> QED
  BY <1>1, <1>2, <1>5, <1>6, <1>7, <1>8, SilentRead

(* The text of the lines is in the events, and as long as no tool is called *)
(* the client is inside the block of text.                                  *)
ReadsBack(u, x) ==
  /\ x \in Bodies
  /\ TextRead(x.events) = TextOf(u)
  /\ Without(x.events, "message_stop")
  /\ ToolFree(u) => x.index = 0 /\ Read(Preamble \o x.events) = At("inside", 0)

LEMMA MovesOn ==
  ASSUME NEW a, NEW n, NEW b, NEW e, <<a, e.event, b>> \in Moves, e.event # "ping",
         e.event \in OfBlock => e.index = n
  PROVE  Advance(At(a, n), e) = At(b, IF e.event = "content_block_stop" THEN n + 1 ELSE n)
<1>1. At(a, n).at = a /\ At(a, n).block = n
  BY DEF At
<1>2. PICK s : s = At(a, n) /\ s.at = a /\ s.block = n
  BY <1>1
<1>3. Advance(s, e) = At(b, IF e.event = "content_block_stop" THEN s.block + 1 ELSE s.block)
  BY <1>2, Moving
<1> QED
  BY <1>2, <1>3

LEMMA BlockStops ==
  ASSUME NEW e, e.event = "content_block_stop", e.index = 0
  PROVE  Advance(At("inside", 0), e) = At("between", 1)
<1>1. At("inside", 0).at = "inside" /\ At("inside", 0).block = 0
  BY DEF At
<1>2. PICK s : s = At("inside", 0)
  OBVIOUS
<1>3. s.at = "inside" /\ s.block = 0
  BY <1>1, <1>2
<1>4. <<s.at, e.event, "between">> \in Moves /\ e.event # "ping" /\ e.index = s.block
  BY <1>3 DEF Moves
<1>5. Advance(s, e) = At("between", IF e.event = "content_block_stop" THEN s.block + 1 ELSE s.block)
  BY <1>4, Moving
<1>6. s.block + 1 = 1
  BY <1>3
<1>7. Advance(s, e) = At("between", 1)
  BY <1>5, <1>6
<1> QED
  BY <1>2, <1>7

LEMMA FirstReadsBack == ReadsBack(<<>>, FirstBody)
<1>1. PICK b \in Wire : /\ b = BlockBegins(0) /\ b \notin WithPiece
                        /\ b.event = "content_block_start" /\ b.index = 0
  BY SignalsAre
<1>2. FirstBody.events = Append(<<>>, b) /\ FirstBody \in Bodies /\ FirstBody.index = 0 /\ <<>> \in Seq(Wire)
  BY <1>1, FirstBodyIs
<1>3. TextRead(<<>>) = <<>> /\ Without(<<>>, "message_stop")
  <2>1. 1..Len(<<>>) = {}
    OBVIOUS
  <2>2. Silent(<<>>) /\ Without(<<>>, "message_stop")
    BY <2>1 DEF Silent, Without
  <2> QED
    BY <1>2, <2>2, SilentRead
<1>4. TextRead(Append(<<>>, b)) = <<>> /\ Without(Append(<<>>, b), "message_stop")
  BY <1>1, <1>2, <1>3, TextReadOn, WithoutOn
<1>5. Preamble \o Append(<<>>, b) = Append(Preamble, b)
  BY <1>1, <1>2, PreambleIs, ConcatAppend, ConcatEmptySeq
<1>6. Read(Append(Preamble, b)) = Advance(Read(Preamble), b)
  BY PreambleIs, ReadOn
<1>7. Advance(At("between", 0), b) = At("inside", 0)
  <2>1. <<"between", b.event, "inside">> \in Moves /\ b.event # "ping" /\ b.event # "content_block_stop"
    BY <1>1 DEF Moves
  <2> QED
    BY <1>1, <2>1, MovesOn
<1> QED
  BY <1>2, <1>4, <1>5, <1>6, <1>7, PreambleIs, TextOfEmpty DEF ReadsBack

LEMMA InsideStays ==
  ASSUME NEW e, e.event = "content_block_delta", e.index = 0
  PROVE  Advance(At("inside", 0), e) = At("inside", 0)
<1>1. <<"inside", e.event, "inside">> \in Moves /\ e.event # "ping" /\ e.event # "content_block_stop"
  BY DEF Moves
<1> QED
  BY <1>1, MovesOn

LEMMA ToolFreeOn ==
  ASSUME NEW u \in Seq(Lines), NEW l \in Lines
  PROVE  ToolFree(Append(u, l)) <=> ToolFree(u) /\ l.kind # "tool"
<1>1. /\ Len(Append(u, l)) = Len(u) + 1 /\ Len(u) \in Nat
      /\ Append(u, l)[Len(u) + 1] = l /\ \A i \in 1..Len(u) : Append(u, l)[i] = u[i]
  BY AppendProperties
<1>2. /\ \A i \in 1..(Len(u) + 1) : i \in 1..Len(u) \/ i = Len(u) + 1
      /\ \A i \in 1..Len(u) : i \in 1..(Len(u) + 1)
      /\ Len(u) + 1 \in 1..(Len(u) + 1)
  BY <1>1
<1> QED
  BY <1>1, <1>2 DEF ToolFree

LEMMA ReadsOn ==
  ASSUME NEW u \in Seq(Lines), NEW l \in Lines, NEW x, ReadsBack(u, x)
  PROVE  ReadsBack(Append(u, l), Converted(x, l))
<1>0. /\ x \in Bodies /\ TextRead(x.events) = TextOf(u) /\ Without(x.events, "message_stop")
      /\ ToolFree(u) => x.index = 0 /\ Read(Preamble \o x.events) = At("inside", 0)
  BY DEF ReadsBack
<1>1. x.events \in Seq(Wire) /\ x.index \in Nat /\ l.piece \in Held /\ Converted(x, l) \in Bodies
  BY <1>0, ConvertedIs
<1>2. TextOf(Append(u, l)) = IF l.kind = "text" THEN Append(TextOf(u), l.piece) ELSE TextOf(u)
  BY TextOfOn
<1>3. CASE l.kind = "text"
  <2>1. PICK d \in Wire : /\ d = TextDelta("content_block_delta", x.index, l.piece) /\ d \in WithPiece
                          /\ PieceRead[d] = l.piece /\ d.event = "content_block_delta" /\ d.index = x.index
    BY <1>1, DeltaIs, SignalsAre DEF OfBlock
  <2>2. Converted(x, l).events = Append(x.events, d) /\ Converted(x, l).index = x.index
    BY <1>0, <1>3, <2>1, ConvertedIs
  <2>3. TextRead(Append(x.events, d)) = Append(TextRead(x.events), l.piece)
        /\ Without(Append(x.events, d), "message_stop")
    BY <1>0, <1>1, <2>1, TextReadOn, WithoutOn
  <2>4. ASSUME ToolFree(Append(u, l))
        PROVE  x.index = 0 /\ Read(Preamble \o Append(x.events, d)) = At("inside", 0)
    <3>1. x.index = 0 /\ Read(Preamble \o x.events) = At("inside", 0)
      BY <1>0, <2>4, ToolFreeOn
    <3>2. Preamble \o x.events \in Seq(Wire) /\ Preamble \o Append(x.events, d) = Append(Preamble \o x.events, d)
      BY <1>1, PreambleIs, ConcatAppend
    <3>3. Read(Append(Preamble \o x.events, d)) = Advance(Read(Preamble \o x.events), d)
      BY <3>2, ReadOn
    <3> QED
      BY <2>1, <3>1, <3>2, <3>3, InsideStays
  <2> QED
    BY <1>0, <1>1, <1>2, <1>3, <2>2, <2>3, <2>4 DEF ReadsBack
<1>4. CASE l.kind = "tool"
  <2>1. PICK a \in Wire, b \in Wire :
          /\ a = BlockBegins(x.index + 1) /\ b = BlockGoesOn(x.index + 1)
          /\ a \notin WithPiece /\ b \notin WithPiece
          /\ a.event = "content_block_start" /\ b.event = "content_block_delta"
    <3>1. x.index + 1 \in Nat
      BY <1>1
    <3> QED
      BY <3>1, SignalsAre
  <2>2. Converted(x, l).events = Append(Append(x.events, a), b)
    BY <1>0, <1>4, <2>1, ConvertedIs
  <2>3. /\ Append(x.events, a) \in Seq(Wire) /\ TextRead(Append(x.events, a)) = TextRead(x.events)
        /\ Without(Append(x.events, a), "message_stop")
    BY <1>0, <1>1, <2>1, TextReadOn, WithoutOn
  <2>4. /\ TextRead(Append(Append(x.events, a), b)) = TextRead(Append(x.events, a))
        /\ Without(Append(Append(x.events, a), b), "message_stop")
    BY <2>1, <2>3, TextReadOn, WithoutOn
  <2>5. ~ToolFree(Append(u, l))
    BY <1>4, ToolFreeOn
  <2> QED
    BY <1>0, <1>1, <1>2, <1>4, <2>2, <2>3, <2>4, <2>5 DEF ReadsBack
<1>5. CASE l.kind \notin {"text", "tool"}
  <2>1. Converted(x, l) = x /\ TextOf(Append(u, l)) = TextOf(u)
    BY <1>0, <1>2, <1>5, ConvertedIs
  <2>2. ToolFree(Append(u, l)) => ToolFree(u)
    BY ToolFreeOn
  <2> QED
    BY <1>0, <2>1, <2>2 DEF ReadsBack
<1> QED
  BY <1>3, <1>4, <1>5

LEMMA BodyReadsBack ==
  ASSUME NEW u \in Seq(Lines)
  PROVE  ReadsBack(u, BodyOf(u))
<1> DEFINE T == {v \in Seq(Lines) : ReadsBack(v, BodyOf(v))}
<1>1. <<>> \in T
  <2>1. <<>> \in Seq(Lines)
    OBVIOUS
  <2> QED
    BY <2>1, BodyFirst, FirstReadsBack
<1>2. ASSUME NEW v \in Seq(Lines), v \in T, NEW l \in Lines
      PROVE  Append(v, l) \in T
  <2>1. ReadsBack(Append(v, l), Converted(BodyOf(v), l)) /\ Append(v, l) \in Seq(Lines)
    BY <1>2, ReadsOn, AppendProperties
  <2> QED
    BY <2>1, BodyOn
<1>3. u \in T
  <2> HIDE DEF T
  <2> QED
    BY <1>1, <1>2, AllSeq
<1> QED
  BY <1>3

Goodbyes == {"content_block_stop", "message_delta", "message_stop"}

(* Joining to an event more.                                                *)
LEMMA OneMoreJoined ==
  ASSUME NEW w \in Seq(Wire), NEW z \in Seq(Wire), NEW e \in Wire
  PROVE  w \o Append(z, e) = Append(w \o z, e)
BY ConcatAppend

(* A stream on the route messages, after its preamble: everything but its   *)
(* end, and the end.                                                        *)
LEMMA MessageEventsAre ==
  ASSUME NEW given \in Seq(Lines)
  PROVE  \E q \in Seq(Wire) :
           /\ MessageEvents(given) = Append(q, Event("message_stop", 0))
           /\ Without(q, "message_stop")
           /\ EndsInTime(given) => TextRead(Append(q, Event("message_stop", 0))) = TextOf(given)
           /\ ToolFree(given) => Complete(Preamble \o Append(q, Event("message_stop", 0)))
<1>1. PICK u \in Seq(Lines) : /\ u = UpTo(given, {"done"}) /\ \A l \in ToSet(u) : l \in ToSet(given)
                              /\ EndsInTime(given) => TextOf(u) = TextOf(given)
  <2>1. {"done"} \in SUBSET {"finish", "done"}
    OBVIOUS
  <2> QED
    BY <2>1, UpToIs
<1>2. PICK x \in Bodies : x = BodyOf(u) /\ ReadsBack(u, x)
  BY BodyReadsBack DEF ReadsBack
<1>3. x.events \in Seq(Wire) /\ x.index \in Nat
  BY DEF Bodies
<1>4. PICK s \in Wire, d \in Wire, m \in Wire :
        /\ s = Event("content_block_stop", x.index) /\ s.event = "content_block_stop" /\ s.index = x.index
        /\ d = Event("message_delta", 0) /\ d.event = "message_delta"
        /\ m = Event("message_stop", 0) /\ m.event = "message_stop"
        /\ s \notin WithPiece /\ d \notin WithPiece /\ m \notin WithPiece
  BY <1>3, EventIs, SignalsAre DEF OfBlock
<1>5. PICK y \in Seq(Wire) : y = Append(x.events, s)
  BY <1>3, AppendProperties
<1>6. PICK z \in Seq(Wire) : z = IF x.index > 0 THEN Append(y, s) ELSE y
  BY AppendProperties
<1>7. PICK q \in Seq(Wire) : q = Append(z, d)
  BY AppendProperties
<1>8. MessageEvents(given) = Append(q, m)
  <2>1. MessageEvents(given) = x.events \o <<s>> \o (IF x.index > 0 THEN <<s>> ELSE <<>>) \o <<d, m>>
    BY <1>1, <1>2, <1>4 DEF MessageEvents, BodyOf, FirstBody
  <2>2. x.events \o <<s>> = y
    BY <1>3, <1>5, WithOne
  <2>3. y \o (IF x.index > 0 THEN <<s>> ELSE <<>>) = z
    <3>1. y \o <<s>> = Append(y, s) /\ y \o <<>> = y
      BY WithOne, ConcatEmptySeq
    <3> QED
      BY <1>6, <3>1
  <2>4. z \o <<d, m>> = Append(q, m)
    BY <1>7, WithTwo
  <2> QED
    BY <2>1, <2>2, <2>3, <2>4
<1>9. Without(q, "message_stop") /\ TextRead(Append(q, m)) = TextRead(x.events)
  <2>1. Without(y, "message_stop") /\ TextRead(y) = TextRead(x.events)
    BY <1>2, <1>3, <1>4, <1>5, WithoutOn, TextReadOn DEF ReadsBack
  <2>2. Without(z, "message_stop") /\ TextRead(z) = TextRead(y)
    BY <1>4, <1>6, <2>1, WithoutOn, TextReadOn
  <2>3. Without(q, "message_stop") /\ TextRead(q) = TextRead(z)
    BY <1>4, <1>7, <2>2, WithoutOn, TextReadOn
  <2>4. TextRead(Append(q, m)) = TextRead(q)
    BY <1>4, TextReadOn
  <2> QED
    BY <2>1, <2>2, <2>3, <2>4
<1>10. ASSUME ToolFree(given)
       PROVE  Complete(Preamble \o Append(q, m))
  <2>1. ToolFree(u)
    <3>1. \A i \in 1..Len(u) : u[i] \in ToSet(u)
      BY DEF ToSet
    <3>2. \A l \in ToSet(given) : l.kind # "tool"
      BY <1>10 DEF ToSet, ToolFree
    <3> QED
      BY <1>1, <3>1, <3>2 DEF ToolFree
  <2>2. x.index = 0 /\ Read(Preamble \o x.events) = At("inside", 0)
    BY <1>2, <2>1 DEF ReadsBack
  <2>3. z = y
    BY <1>6, <2>2
  <2>4. PICK p \in Seq(Wire) : p = Preamble \o x.events
    BY <1>3, PreambleIs, ConcatProperties
  <2>5. /\ Preamble \o y = Append(p, s) /\ Append(p, s) \in Seq(Wire)
        /\ Preamble \o q = Append(Append(p, s), d) /\ Append(Append(p, s), d) \in Seq(Wire)
        /\ Preamble \o Append(q, m) = Append(Append(Append(p, s), d), m)
    <3>0. Preamble \in Seq(Wire)
      BY PreambleIs
    <3>1. Preamble \o y = Append(p, s) /\ Append(p, s) \in Seq(Wire)
      <4>1. Preamble \o Append(x.events, s) = Append(Preamble \o x.events, s)
        <5>1. x.events \in Seq(Wire) /\ s \in Wire
          BY <1>3
        <5>2. PICK w \in Seq(Wire), v \in Seq(Wire) : w = Preamble /\ v = x.events
          BY <3>0, <5>1
        <5>3. w \o Append(v, s) = Append(w \o v, s)
          BY <5>1, OneMoreJoined
        <5> QED
          BY <5>2, <5>3
      <4>2. Append(p, s) \in Seq(Wire)
        BY AppendProperties
      <4> QED
        BY <1>5, <2>4, <4>1, <4>2
    <3>2. Preamble \o q = Append(Preamble \o y, d) /\ Append(Append(p, s), d) \in Seq(Wire)
      <4>1. Preamble \o Append(y, d) = Append(Preamble \o y, d)
        BY <3>0, ConcatAppend
      <4>2. Append(Append(p, s), d) \in Seq(Wire)
        BY <3>1, AppendProperties
      <4> QED
        BY <1>7, <2>3, <4>1, <4>2
    <3>3. Preamble \o Append(q, m) = Append(Preamble \o q, m)
      BY PreambleIs, ConcatAppend
    <3> QED
      BY <3>1, <3>2, <3>3
  <2>6. /\ Read(Append(p, s)) = Advance(At("inside", 0), s)
        /\ Read(Append(Append(p, s), d)) = Advance(Read(Append(p, s)), d)
        /\ Read(Append(Append(Append(p, s), d), m)) = Advance(Read(Append(Append(p, s), d)), m)
    BY <2>2, <2>4, <2>5, ReadOn
  <2>7. Advance(At("inside", 0), s) = At("between", 1)
    BY <1>4, <2>2, BlockStops
  <2>8. Advance(At("between", 1), d) = At("closing", 1)
    <3>1. <<"between", d.event, "closing">> \in Moves /\ d.event # "ping" /\ d.event \notin OfBlock /\ d.event # "content_block_stop"
      BY <1>4 DEF Moves, OfBlock
    <3> QED
      BY <3>1, MovesOn
  <2>9. Advance(At("closing", 1), m) = At("over", 1)
    <3>1. <<"closing", m.event, "over">> \in Moves /\ m.event # "ping" /\ m.event \notin OfBlock /\ m.event # "content_block_stop"
      BY <1>4 DEF Moves, OfBlock
    <3> QED
      BY <3>1, MovesOn
  <2>10. Read(Preamble \o Append(q, m)) = At("over", 1)
    BY <2>5, <2>6, <2>7, <2>8, <2>9
  <2> QED
    BY <2>10 DEF Complete, At
<1>11. TextRead(x.events) = TextOf(u)
  BY <1>2 DEF ReadsBack
<1> QED
  BY <1>1, <1>4, <1>8, <1>9, <1>10, <1>11

(* A stream on the route chat.                                              *)
LEMMA ChunkEventsAre ==
  ASSUME NEW given \in Seq(Lines)
  PROVE  \E q \in Seq(Wire) :
           /\ ChunkEvents(given) = Append(q, Event("[DONE]", 0))
           /\ Without(q, "[DONE]")
           /\ EndsInTime(given) => TextRead(Append(q, Event("[DONE]", 0))) = TextOf(given)
<1>1. PICK u \in Seq(Lines) : /\ u = UpTo(given, {"finish", "done"})
                              /\ EndsInTime(given) => TextOf(u) = TextOf(given)
  <2>1. {"finish", "done"} \in SUBSET {"finish", "done"}
    OBVIOUS
  <2> QED
    BY <2>1, UpToIs
<1>2. PICK t \in Seq(Held) : t = TextOf(u)
  BY TextOfType
<1>3. Len(t) \in Nat /\ DOMAIN t = 1..Len(t)
  OBVIOUS
<1>4. ASSUME NEW i \in 1..Len(t)
      PROVE  /\ TextDelta("chunk", 0, t[i]) \in Wire /\ TextDelta("chunk", 0, t[i]) \in WithPiece
             /\ PieceRead[TextDelta("chunk", 0, t[i])] = t[i] /\ TextDelta("chunk", 0, t[i]).event = "chunk"
  <2>1. t[i] \in Held /\ 0 \in Nat
    BY <1>3
  <2> QED
    BY <2>1, DeltaIs, SignalsAre
<1> DEFINE c == [i \in 1..Len(t) |-> TextDelta("chunk", 0, t[i])]
<1>5. Chunks(u) = c
  BY <1>2, <1>3 DEF Chunks
<1>6. c \in [1..Len(t) -> Wire] /\ \A i \in 1..Len(t) : c[i] = TextDelta("chunk", 0, t[i])
  BY <1>4
<1> HIDE DEF c
<1>7. c \in Seq(Wire) /\ Len(c) = Len(t)
  <2>1. PICK n \in Nat : n = Len(t) /\ c \in [1..n -> Wire]
    BY <1>3, <1>6
  <2>2. c \in Seq(Wire) /\ Len(c) = n
    BY <2>1
  <2> QED
    BY <2>1, <2>2
<1>8. Without(c, "[DONE]") /\ AllIn(c, WithPiece)
  BY <1>4, <1>6, <1>7 DEF Without, AllIn
<1>9. TextRead(c) = t
  <2> DEFINE r == Sieved(Wire, Held, WithPiece, PieceRead, c)
  <2>1. r \in Seq(Held) /\ Len(r) = Len(c) /\ \A i \in 1..Len(c) : r[i] = PieceRead[c[i]]
    BY <1>7, <1>8, TakenTypes, SievedAll, SievedType
  <2>2. TextRead(c) = r
    BY <1>7, TextReadIs
  <2> HIDE DEF r
  <2>3. r = t
    BY <1>4, <1>6, <1>7, <2>1, SeqEqual
  <2> QED
    BY <2>2, <2>3
<1>10. PICK d \in Wire : d = Event("[DONE]", 0) /\ d \notin WithPiece
  BY EventIs, SignalsAre
<1>11. TextRead(Append(c, d)) = TextRead(c)
  BY <1>7, <1>10, TextReadOn
<1>12. ChunkEvents(given) = Append(c, d)
  BY <1>1, <1>5, <1>10 DEF ChunkEvents
<1> QED
  BY <1>1, <1>2, <1>7, <1>8, <1>9, <1>10, <1>11, <1>12

-----------------------------------------------------------------------------
(* Answers.                                                                 *)

Finishes == {"stop", "length", "tool_calls", "absent"}
Spoke == [text : Seq(Held), calls : Seq(Held), parses : BOOLEAN, finish : Finishes]

LEMMA SilenceIs == Silence \in Spoke /\ Silence.text = <<>> /\ Silence.calls = <<>>
<1>1. <<>> \in Seq(Held) /\ "absent" \in Finishes
  BY DEF Finishes
<1> QED
  BY <1>1 DEF Silence, Spoke

LEMMA ExtractedIs ==
  ASSUME NEW c \in Spoke
  PROVE  /\ Extracted(c) \in Spoke /\ Extracted(c).text = c.text /\ Extracted(c).calls = c.calls
         /\ Throws(Extracted(c)) <=> Throws(c)
<1>1. "stop" \in Finishes
  BY DEF Finishes
<1>2. PICK f \in Finishes : f = IF c.finish = "absent" THEN "stop" ELSE c.finish
  BY <1>1 DEF Spoke
<1>3. Extracted(c) = [c EXCEPT !.finish = f]
  BY <1>2 DEF Extracted
<1>4. /\ [c EXCEPT !.finish = f] \in Spoke /\ [c EXCEPT !.finish = f].text = c.text
      /\ [c EXCEPT !.finish = f].calls = c.calls /\ [c EXCEPT !.finish = f].parses = c.parses
  BY DEF Spoke
<1> QED
  BY <1>3, <1>4 DEF Throws

Finished(r) == r.ended

LEMMA ResponseIs ==
  ASSUME NEW status, NEW content, NEW stop, NEW events
  PROVE  /\ Response(status, content, stop, events).status = status
         /\ Response(status, content, stop, events).content = content
         /\ Response(status, content, stop, events).stop = stop
         /\ Response(status, content, stop, events).events = events
         /\ Finished(Response(status, content, stop, events))
  BY DEF Response, Finished

LEMMA ErrorIs ==
  ASSUME NEW status
  PROVE  /\ ErrorResponse(status).status = status /\ ErrorResponse(status).content = <<>>
         /\ Finished(ErrorResponse(status))
<1>1. PICK n, e : n = "null" /\ e = <<>>
  OBVIOUS
<1>2. ErrorResponse(status) = Response(status, e, n, e)
  BY <1>1 DEF ErrorResponse
<1> QED
  BY <1>1, <1>2, ResponseIs

(* The text first, then the calls.                                          *)
LEMMA FormattedIs ==
  ASSUME NEW c \in Spoke, NEW p \in Held, c.text \in {<<>>, <<p>>}
  PROVE  /\ Formatted(c).status = IF Throws(c) THEN 500 ELSE 200
         /\ Finished(Formatted(c))
         /\ Formatted(c).content \in Seq(Blocks)
         /\ ~Throws(c) => /\ Formatted(c).content = Tagged("text", c.text) \o Tagged("tool_use", c.calls)
                          /\ Formatted(c).stop = StopReason(c.finish, c.calls)
<1> DEFINE said == IF c.text = <<>> THEN <<>> ELSE <<Block("text", c.text[1])>>
           uses == [i \in DOMAIN c.calls |-> Block("tool_use", c.calls[i])]
<1>1. c.text \in Seq(Held) /\ c.calls \in Seq(Held) /\ "text" \in Types /\ "tool_use" \in Types
  BY DEF Spoke, Types
<1>2. uses = Tagged("tool_use", c.calls)
  BY DEF Tagged
<1>3. said = Tagged("text", c.text)
  <2>1. CASE c.text = <<>>
    <3>1. Tagged("text", <<>>) \in Seq(Blocks) /\ Len(Tagged("text", <<>>)) = 0
      <4>1. <<>> \in Seq(Held) /\ Len(<<>>) = 0
        OBVIOUS
      <4> QED
        BY <1>1, <4>1, TaggedIs
    <3>2. Tagged("text", <<>>) = <<>>
      BY <3>1, EmptySeq
    <3> QED
      BY <2>1, <3>2
  <2>2. CASE c.text = <<p>>
    <3>1. <<p>>[1] = p /\ <<p>> # <<>>
      OBVIOUS
    <3>2. <<Block("text", p)>> = Tagged("text", <<p>>)
      BY <1>1, OneBlock
    <3> QED
      BY <2>2, <3>1, <3>2
  <2> QED
    BY <2>1, <2>2
<1>4. FormatResponse(c).content = said \o uses /\ FormatResponse(c).stop = StopReason(c.finish, c.calls)
  BY DEF FormatResponse
<1> HIDE DEF said, uses
<1>5. Tagged("text", c.text) \in Seq(Blocks) /\ Tagged("tool_use", c.calls) \in Seq(Blocks)
  BY <1>1, TaggedIs
<1>6. Tagged("text", c.text) \o Tagged("tool_use", c.calls) \in Seq(Blocks)
  BY <1>5, ValuesConcat
<1>7. CASE Throws(c)
  <2>1. PICK k : k = 500
    OBVIOUS
  <2>2. Formatted(c) = ErrorResponse(k)
    BY <1>7, <2>1 DEF Formatted
  <2>3. Formatted(c).status = k /\ Formatted(c).content = <<>> /\ Finished(Formatted(c))
    BY <2>2, ErrorIs
  <2>4. <<>> \in Seq(Blocks)
    OBVIOUS
  <2> QED
    BY <1>7, <2>1, <2>3, <2>4
<1>8. CASE ~Throws(c)
  <2>1. PICK k, x, stop, none :
          k = 200 /\ x = FormatResponse(c).content /\ stop = FormatResponse(c).stop /\ none = <<>>
    OBVIOUS
  <2>2. Formatted(c) = Response(k, x, stop, none)
    BY <1>8, <2>1 DEF Formatted
  <2>3. /\ Formatted(c).status = k /\ Formatted(c).content = x /\ Formatted(c).stop = stop
        /\ Finished(Formatted(c))
    BY <2>2, ResponseIs
  <2> QED
    BY <1>2, <1>3, <1>4, <1>6, <1>8, <2>1, <2>3
<1> QED
  BY <1>7, <1>8

(* What the upstream answers to the request after n messages.               *)
Outcomes(n) ==
  {o \in [kind : {"failed", "refused", "choiceless", "choice", "stream"}, status : Nat,
          choice : Spoke, lines : Seq(Lines)] :
     /\ o.choice.text \in {<<>>, <<<<"said", n + 1>>>>}
     /\ \A k \in 1..Len(o.choice.calls) : o.choice.calls[k] = <<"call", n + 1, k>>
     /\ o.kind # "stream" => o.lines = <<>>
     /\ o.kind # "choice" => o.choice = Silence
     /\ o.kind = "refused" => o.status \in Refusals}

(* The three answers that are not streams, and the streams.                 *)
Spoken(r, o) ==
  IF r = "anthropic" THEN AnthropicReply(o)
  ELSE IF r = "messages" THEN MessagesReply(o)
  ELSE ChatReply(o)
Before(r) == IF r = "messages" THEN Preamble ELSE <<>>
Sent(r, o) ==
  IF o.kind = "failed" THEN <<Event("error", 0)>>
  ELSE IF r = "messages" THEN MessageEvents(o.lines)
  ELSE ChunkEvents(o.lines)
Streamed(r, o) == Response(200, Tagged("text", TextRead(Sent(r, o))), "null", Before(r) \o Sent(r, o))

LEMMA ReplyIs ==
  ASSUME NEW o, route \in {"anthropic", "messages", "chat"}
  PROVE  /\ ~Streams => Reply(o) = Spoken(route, o)
         /\ Streams /\ response.events = Before(route) => Reply(o) = Streamed(route, o)
<1>1. ASSUME Streams, response.events = Before(route)
      PROVE  Reply(o) = Streamed(route, o)
  <2>1. Reply(o) = StreamReply(o)
    BY <1>1 DEF Reply
  <2> QED
    BY <1>1, <2>1 DEF StreamReply, Streamed, Sent, Tagged
<1>2. ASSUME ~Streams
      PROVE  Reply(o) = Spoken(route, o)
  BY <1>2 DEF Reply, Spoken
<1> QED
  BY <1>1, <1>2

LEMMA SpokenIs ==
  ASSUME NEW n \in Nat, NEW o \in Outcomes(n), o.kind # "stream", NEW r
  PROVE  Spoken(r, o).content \in Seq(Blocks) /\ Finished(Spoken(r, o))
<1>1. /\ o.choice \in Spoke /\ o.choice.text \in {<<>>, <<<<"said", n + 1>>>>}
      /\ o.kind \in {"failed", "refused", "choiceless", "choice", "stream"}
      /\ o.kind # "choice" => o.choice = Silence
  BY DEF Outcomes
<1>2. PICK p \in Held : p = <<"said", n + 1>>
  <2>1. "said" \in Marks /\ n + 1 \in Nat
    BY DEF Marks
  <2> QED
    BY <2>1, HeldAre
<1>3. <<>> \in Seq(Blocks)
  OBVIOUS
<1>4. \A c \in Spoke : c.text \in {<<>>, <<p>>} => Formatted(c).content \in Seq(Blocks) /\ Finished(Formatted(c))
  BY FormattedIs
<1>5. /\ Extracted(o.choice) \in Spoke /\ Extracted(o.choice).text \in {<<>>, <<p>>}
      /\ Silence \in Spoke /\ Silence.text \in {<<>>, <<p>>}
  BY <1>1, <1>2, ExtractedIs, SilenceIs
<1>9. PICK c \in Spoke : c = Extracted(o.choice) /\ c.text \in {<<>>, <<p>>}
  BY <1>5
<1>6. AnthropicReply(o).content \in Seq(Blocks) /\ Finished(AnthropicReply(o))
  <2>1. \/ \E status : AnthropicReply(o) = ErrorResponse(status)
        \/ AnthropicReply(o) = Formatted(c)
    BY <1>1, <1>9 DEF AnthropicReply
  <2>2. Formatted(c).content \in Seq(Blocks) /\ Finished(Formatted(c))
    BY <1>4, <1>9
  <2> QED
    BY <1>3, <2>1, <2>2, ErrorIs
<1>7. MessagesReply(o).content \in Seq(Blocks) /\ Finished(MessagesReply(o))
  <2>1. PICK d \in Spoke : d = (IF o.kind = "choice" THEN o.choice ELSE Silence) /\ d.text \in {<<>>, <<p>>}
    BY <1>1, <1>2, <1>5
  <2>2. (\E status : MessagesReply(o) = ErrorResponse(status)) \/ MessagesReply(o) = Formatted(d)
    BY <2>1 DEF MessagesReply
  <2>3. Formatted(d).content \in Seq(Blocks) /\ Finished(Formatted(d))
    BY <1>4, <2>1
  <2> QED
    BY <1>3, <2>2, <2>3, ErrorIs
<1>8. ChatReply(o).content \in Seq(Blocks) /\ Finished(ChatReply(o))
  <2> DEFINE said == IF o.kind = "choice" THEN o.choice ELSE Silence
  <2>1. said.text \in Seq(Held)
    BY <1>1, SilenceIs DEF Spoke
  <2>2. "text" \in Types
    BY DEF Types
  <2>3. Tagged("text", said.text) \in Seq(Blocks)
    BY <2>1, <2>2, TaggedIs
  <2>4. PICK k, x, stop, none : k = 200 /\ x = Tagged("text", said.text) /\ stop = Extracted(said).finish /\ none = <<>>
    OBVIOUS
  <2>5. ChatReply(o) = IF o.kind = "failed" THEN ErrorResponse(500) ELSE Response(k, x, stop, none)
    BY <2>4 DEF ChatReply, Tagged
  <2>6. Response(k, x, stop, none).content = x /\ Finished(Response(k, x, stop, none))
    BY ResponseIs
  <2>7. (\E e : ChatReply(o) = ErrorResponse(e)) \/ ChatReply(o) = Response(k, x, stop, none)
    BY <2>5
  <2> HIDE DEF said
  <2>8. CASE \E e : ChatReply(o) = ErrorResponse(e)
    BY <1>3, <2>8, ErrorIs
  <2>9. CASE ChatReply(o) = Response(k, x, stop, none)
    BY <2>3, <2>4, <2>6, <2>9
  <2> QED
    BY <2>7, <2>8, <2>9
<1> QED
  BY <1>6, <1>7, <1>8 DEF Spoken

(* A stream ends once.                                                      *)
EndsWith(q, e) == Last(q) = e /\ \A i \in DOMAIN q : q[i] = e <=> i = Len(q)

LEMMA EndsOnce ==
  ASSUME NEW q \in Seq(Wire), NEW e \in Wire, Without(q, e.event)
  PROVE  Append(q, e) \in Seq(Wire) /\ EndsWith(Append(q, e), e)
<1>1. /\ Append(q, e) \in Seq(Wire) /\ Len(Append(q, e)) = Len(q) + 1 /\ Len(q) \in Nat
      /\ Append(q, e)[Len(q) + 1] = e /\ \A i \in 1..Len(q) : Append(q, e)[i] = q[i]
  BY AppendProperties
<1>2. DOMAIN Append(q, e) = 1..(Len(q) + 1)
  BY <1>1
<1>3. Last(Append(q, e)) = e
  BY <1>1 DEF Last
<1>4. ASSUME NEW i \in 1..(Len(q) + 1)
      PROVE  Append(q, e)[i] = e <=> i = Len(q) + 1
  <2>1. CASE i \in 1..Len(q)
    <3>1. q[i].event # e.event /\ Append(q, e)[i] = q[i] /\ i # Len(q) + 1
      BY <1>1, <2>1 DEF Without
    <3> QED
      BY <3>1
  <2>2. CASE i = Len(q) + 1
    BY <1>1, <2>2
  <2> QED
    BY <1>1, <2>1, <2>2
<1> QED
  BY <1>1, <1>2, <1>3, <1>4 DEF EndsWith

LEMMA WithoutConcat ==
  ASSUME NEW q \in Seq(Wire), NEW r \in Seq(Wire), NEW k, Without(q, k), Without(r, k)
  PROVE  q \o r \in Seq(Wire) /\ Without(q \o r, k)
<1>1. /\ q \o r \in Seq(Wire) /\ Len(q \o r) = Len(q) + Len(r) /\ Len(q) \in Nat /\ Len(r) \in Nat
      /\ \A i \in 1..(Len(q) + Len(r)) : (q \o r)[i] = IF i <= Len(q) THEN q[i] ELSE r[i - Len(q)]
  BY ConcatProperties
<1>2. ASSUME NEW i \in 1..(Len(q) + Len(r))
      PROVE  (q \o r)[i].event # k
  <2>1. CASE i <= Len(q)
    <3>1. i \in 1..Len(q)
      BY <1>1, <2>1
    <3> QED
      BY <1>1, <2>1, <3>1 DEF Without
  <2>2. CASE ~(i <= Len(q))
    <3>1. i - Len(q) \in 1..Len(r)
      BY <1>1, <2>2
    <3> QED
      BY <1>1, <2>2, <3>1 DEF Without
  <2> QED
    BY <2>1, <2>2
<1> QED
  BY <1>1, <1>2 DEF Without

LEMMA BeforeIs ==
  ASSUME NEW r
  PROVE  /\ Before(r) \in Seq(Wire) /\ TextRead(Before(r)) = <<>>
         /\ Without(Before(r), "message_stop") /\ (r # "messages" => Before(r) = <<>>)
<1>1. <<>> \in Seq(Wire) /\ 1..Len(<<>>) = {}
  OBVIOUS
<1>2. TextRead(<<>>) = <<>> /\ Without(<<>>, "message_stop")
  <2>1. Silent(<<>>) /\ Without(<<>>, "message_stop")
    BY <1>1 DEF Silent, Without
  <2> QED
    BY <1>1, <2>1, SilentRead
<1> QED
  BY <1>1, <1>2, PreambleIs DEF Before

(* What the two streams are read as, with what was sent before.             *)
LEMMA ToldIs ==
  ASSUME NEW r \in {"messages", "chat"}, NEW o, o.lines \in Seq(Lines), o.kind # "failed"
  PROVE  \E q \in Seq(Wire), e \in Wire :
           /\ e.event = IF r = "messages" THEN "message_stop" ELSE "[DONE]"
           /\ Sent(r, o) \in Seq(Wire)
           /\ Before(r) \o Sent(r, o) = Append(q, e)
           /\ EndsWith(Append(q, e), e)
           /\ EndsInTime(o.lines) => TextRead(Append(q, e)) = TextOf(o.lines)
           /\ r = "messages" /\ ToolFree(o.lines) => Complete(Append(q, e))
<1>1. CASE r = "messages"
  <2>1. PICK s \in Wire : s = Event("message_stop", 0) /\ s.event = "message_stop"
    BY EventIs, SignalsAre
  <2>2. PICK q \in Seq(Wire) :
          /\ MessageEvents(o.lines) = Append(q, s) /\ Without(q, "message_stop")
          /\ EndsInTime(o.lines) => TextRead(Append(q, s)) = TextOf(o.lines)
          /\ ToolFree(o.lines) => Complete(Preamble \o Append(q, s))
    BY <2>1, MessageEventsAre
  <2>3. Sent(r, o) = Append(q, s) /\ Append(q, s) \in Seq(Wire) /\ Before(r) = Preamble
    BY <1>1, <2>2, AppendProperties DEF Sent, Before
  <2>4. PICK x \in Seq(Wire) : x = Preamble \o q /\ Without(x, "message_stop")
    BY <2>2, PreambleIs, WithoutConcat
  <2>5. Preamble \o Append(q, s) = Append(x, s)
    BY <2>4, PreambleIs, ConcatAppend
  <2>6. TextRead(Preamble \o Append(q, s)) = TextRead(Append(q, s))
    <3>1. TextRead(Preamble \o Append(q, s)) = TextRead(Preamble) \o TextRead(Append(q, s))
      BY <2>3, PreambleIs, TextReadConcat
    <3>2. TextRead(Append(q, s)) \in Seq(Held)
      BY <2>3, TextReadType
    <3> QED
      BY <3>1, <3>2, PreambleIs, ConcatEmptySeq
  <2>7. EndsWith(Append(x, s), s)
    BY <2>1, <2>4, EndsOnce
  <2> QED
    BY <1>1, <2>1, <2>2, <2>3, <2>5, <2>6, <2>7
<1>2. CASE r = "chat"
  <2>1. PICK s \in Wire : s = Event("[DONE]", 0) /\ s.event = "[DONE]"
    BY EventIs, SignalsAre
  <2>2. PICK q \in Seq(Wire) :
          /\ ChunkEvents(o.lines) = Append(q, s) /\ Without(q, "[DONE]")
          /\ EndsInTime(o.lines) => TextRead(Append(q, s)) = TextOf(o.lines)
    BY <2>1, ChunkEventsAre
  <2>3. Sent(r, o) = Append(q, s) /\ Append(q, s) \in Seq(Wire) /\ Before(r) = <<>>
    BY <1>2, <2>2, AppendProperties DEF Sent, Before
  <2>4. <<>> \o Append(q, s) = Append(q, s)
    BY <2>3, ConcatEmptySeq
  <2>5. EndsWith(Append(q, s), s)
    BY <2>1, <2>2, EndsOnce
  <2> QED
    BY <1>2, <2>1, <2>2, <2>3, <2>4, <2>5
<1> QED
  BY <1>1, <1>2

-----------------------------------------------------------------------------
(* What the client sends.                                                   *)

SameMembers(q, r) ==
  /\ \A i \in 1..Len(q) : \E j \in 1..Len(r) : q[i] = r[j]
  /\ \A j \in 1..Len(r) : \E i \in 1..Len(q) : q[i] = r[j]

LEMMA ReverseIs ==
  ASSUME NEW E, NEW q \in Seq(E)
  PROVE  Reverse(q) \in Seq(E) /\ SameMembers(Reverse(q), q)
<1>1. Len(q) \in Nat /\ \A i \in 1..Len(q) : q[i] \in E /\ Len(q) - i + 1 \in 1..Len(q)
  OBVIOUS
<1>2. PICK r : r = Reverse(q)
  OBVIOUS
<1>3. r \in [1..Len(q) -> E] /\ \A i \in 1..Len(q) : r[i] = q[Len(q) - i + 1]
  BY <1>1, <1>2 DEF Reverse
<1>4. r \in Seq(E) /\ Len(r) = Len(q)
  BY <1>1, <1>3
<1>5. ASSUME NEW j \in 1..Len(q)
      PROVE  \E i \in 1..Len(q) : r[i] = q[j]
  <2>1. Len(q) - j + 1 \in 1..Len(q) /\ Len(q) - (Len(q) - j + 1) + 1 = j
    BY <1>1
  <2> QED
    BY <1>3, <2>1
<1> QED
  BY <1>1, <1>2, <1>3, <1>4, <1>5 DEF SameMembers

LEMMA SameAsItself ==
  ASSUME NEW q
  PROVE  SameMembers(q, q)
  BY DEF SameMembers

(* Contents of one turn of the client.                                      *)
Sendable(content, ids) ==
  /\ content \in Seq(Plain)
  /\ Values(content, {"tool_result"}) = ids

LEMMA PlainTagged ==
  ASSUME NEW t \in {"text", "image", "tool_result"}, NEW ids \in Seq(Held)
  PROVE  Tagged(t, ids) \in Seq(Plain) /\ Tagged(t, ids) \in Seq(Blocks)
<1>1. t \in Types
  BY DEF Types
<1>2. /\ Tagged(t, ids) \in Seq(Blocks) /\ Len(Tagged(t, ids)) = Len(ids) /\ Len(ids) \in Nat
      /\ \A i \in 1..Len(ids) : Tagged(t, ids)[i] = Block(t, ids[i])
  BY <1>1, TaggedIs
<1>3. \A i \in 1..Len(ids) : ids[i] \in Held
  OBVIOUS
<1>4. ASSUME NEW i \in 1..Len(Tagged(t, ids))
      PROVE  Tagged(t, ids)[i] \in Plain
  BY <1>1, <1>2, <1>3, BlockIs DEF Plain
<1> QED
  BY <1>2, <1>4

LEMMA OtherBlock ==
  ASSUME NEW t \in Types, NEW v \in Held, NEW types, t \notin types
  PROVE  Values(<<Block(t, v)>>, types) = <<>>
  BY OneBlock

LEMMA NoResult ==
  ASSUME NEW t \in Types, t # "tool_result", NEW v \in Held
  PROVE  Values(<<Block(t, v)>>, {"tool_result"}) = <<>>
<1>1. t \notin {"tool_result"}
  OBVIOUS
<1> QED
  BY <1>1, OtherBlock

LEMMA SendableAre ==
  ASSUME NEW p \in Held, NEW d \in Held, NEW ids \in Seq(Held)
  PROVE  /\ Sendable(<<Block("text", p)>>, <<>>)
         /\ Sendable(<<Block("text", p), Block("image", d)>>, <<>>)
         /\ Sendable(Tagged("tool_result", ids), ids)
         /\ Sendable(<<Block("text", p)>> \o Tagged("tool_result", ids), ids)
         /\ Sendable(Append(Tagged("tool_result", ids), Block("text", p)), ids)
<1> DEFINE R == Tagged("tool_result", ids)
<1>1. "text" \in Types /\ "image" \in Types /\ "tool_result" \in Types
  BY DEF Types
<1>2. PICK a \in Blocks, b \in Blocks : a = Block("text", p) /\ b = Block("image", d)
  BY <1>1, BlockIs
<1>3. a \in Plain /\ b \in Plain
  BY <1>1, <1>2, BlockIs DEF Plain
<1>4. <<a>> \in Seq(Plain) /\ <<b>> \in Seq(Plain) /\ <<a, b>> \in Seq(Plain) /\ Append(<<a>>, b) = <<a, b>>
  BY <1>3, TwoAre
<1>5. <<a>> \in Seq(Blocks) /\ <<b>> \in Seq(Blocks)
  OBVIOUS
<1> DEFINE V(q) == Values(q, {"tool_result"})
<1>6. V(<<a>>) = <<>> /\ V(<<b>>) = <<>>
  <2>1. PICK t \in Types, u \in Types :
          t = "text" /\ u = "image" /\ t # "tool_result" /\ u # "tool_result"
    BY <1>1
  <2>2. Values(<<Block(t, p)>>, {"tool_result"}) = <<>>
    BY <2>1, NoResult
  <2>3. Values(<<Block(u, d)>>, {"tool_result"}) = <<>>
    BY <2>1, NoResult
  <2> QED
    BY <1>2, <2>1, <2>2, <2>3
<1>7. R \in Seq(Plain) /\ R \in Seq(Blocks) /\ Values(R, {"tool_result"}) = ids
  BY <1>1, PlainTagged, TaggedValues
<1> HIDE DEF R
<1>8. <<a>> \o <<b>> = <<a, b>>
  BY <1>4, <1>5, WithOne
<1>9. <<a>> \o R \in Seq(Plain) /\ Append(R, a) \in Seq(Plain) /\ R \o <<a>> = Append(R, a)
  BY <1>3, <1>4, <1>7, WithOne, ConcatProperties, AppendProperties
<1>10. ids \o <<>> = ids /\ <<>> \o ids = ids /\ <<>> \o <<>> = <<>>
  <2>1. <<>> \in Seq(Held)
    OBVIOUS
  <2> QED
    BY <2>1, ConcatEmptySeq
<1>11. \A x \in Seq(Blocks), y \in Seq(Blocks) : V(x \o y) = V(x) \o V(y)
  BY ValuesConcat
<1>12. R \in Seq(Blocks) /\ V(R) = ids
  BY <1>7
<1> HIDE DEF V
<1>13. V(<<a>> \o <<b>>) = <<>> /\ V(<<a>> \o R) = ids /\ V(R \o <<a>>) = ids
  <2>1. V(<<a>> \o <<b>>) = V(<<a>>) \o V(<<b>>)
    BY <1>5, <1>11
  <2>2. V(<<a>> \o R) = V(<<a>>) \o V(R) /\ V(R \o <<a>>) = V(R) \o V(<<a>>)
    BY <1>5, <1>11, <1>12
  <2> QED
    BY <1>6, <1>10, <1>12, <2>1, <2>2
<1>14. /\ Sendable(<<a>>, <<>>) /\ Sendable(<<a, b>>, <<>>) /\ Sendable(R, ids)
       /\ Sendable(<<a>> \o R, ids) /\ Sendable(Append(R, a), ids)
  BY <1>4, <1>6, <1>7, <1>8, <1>9, <1>12, <1>13 DEF Sendable, V
<1> QED
  BY <1>2, <1>14 DEF R

-----------------------------------------------------------------------------
(* What the upstream is shown and what was said.                            *)

SaidTurns == [role : {"user", "assistant"}, text : Seq(Held), calls : Seq(Held), results : Seq(Held)]

(* The calls that wait for their results, and the one of them that is       *)
(* shown.                                                                   *)
Due(tr) == IF tr = <<>> THEN <<>> ELSE Last(tr).calls
LastOnly(calls) == IF calls = <<>> THEN <<>> ELSE <<Last(calls)>>

(* An entry of the transcript tells what a message says.                    *)
Tells(e, m) ==
  /\ m.role = e.role
  /\ Values(m.content, {"text", "image", "thinking"}) = e.text
  /\ Values(m.content, {"tool_use"}) = e.calls
  /\ Values(m.content, {"tool_result"}) = e.results

(* A turn that the upstream is shown says what an entry does, up to a blank *)
(* and to all calls but the last.                                           *)
Alike(turn, e) == turn.role = e.role /\ turn.text = OrBlank(e.text) /\ turn.calls = LastOnly(e.calls)
CallsOf(e, n) == \A k \in 1..Len(e.calls) : e.calls[k] = <<"call", n, k>>
AnsweredAt(out, i) ==
  \E j \in (i + 1)..Len(out) :
    out[j].answers = out[i].calls[1] /\ \A k \in (i + 1)..j : out[k].role = "tool"
CalledBefore(out, j, calls) == \E i \in 1..(j - 1) : out[i].calls = calls

(* What the upstream is shown, out, of what was said, tr.  The calls in the *)
(* last message may still wait for their results (OpenLast).  Calls are     *)
(* told apart by the turn they are made in (Numbered), and no result is     *)
(* shown of a call that is not made yet (Dated): hence a single call comes  *)
(* before its result (Linked).                                              *)
TurnsSeen(out, tr) ==
  /\ Len(Turns(out)) = Len(tr)
  /\ \A i \in 1..Len(tr) : Alike(Turns(out)[i], tr[i])
PromptFirst(out, sys) ==
  /\ sys # <<>> => Len(out) >= 1
  /\ \A i \in 1..Len(out) : out[i].role = "system" <=> i = 1 /\ sys # <<>>
OpenLast(out, tr) ==
  /\ tr # <<>> => Len(out) >= 1
  /\ Len(out) >= 1 => out[Len(out)].calls = LastOnly(Due(tr))
CallsAnswered(out) == \A i \in 1..(Len(out) - 1) : out[i].calls # <<>> => AnsweredAt(out, i)
Numbered(tr) == \A n \in 1..Len(tr) : CallsOf(tr[n], n)
Dated(out, tr) == \A i \in 1..Len(out) : \E n \in 0..Len(tr), k \in Nat : out[i].answers = <<"call", n, k>>
Linked(out, tr) ==
  \A n \in 1..Len(tr), j \in 1..Len(out) :
    Len(tr[n].calls) = 1 /\ out[j].answers = tr[n].calls[1] => CalledBefore(out, j, tr[n].calls)

(* One turn more: the results, and the message.                             *)
Grown(x, out, ids, msg) ==
  /\ Len(x) = Len(out) + Len(ids) + 1
  /\ \A i \in 1..Len(out) : x[i] = out[i]
  /\ \A i \in (Len(out) + 1)..(Len(out) + Len(ids)) : x[i] = ResultOf(ids[i - Len(out)])
  /\ x[Len(out) + Len(ids) + 1] = msg

LEMMA GrownIs ==
  ASSUME NEW out \in Seq(Chats), NEW m \in Messages
  PROVE  /\ out \o Translated(m) \in Seq(Chats)
         /\ Grown(out \o Translated(m), out, Values(m.content, {"tool_result"}), Main(m))
<1> DEFINE ids == Values(m.content, {"tool_result"})
<1>1. ids \in Seq(Held) /\ Len(ids) \in Nat /\ Main(m) \in Chats
  <2>1. ids \in Seq(Held) /\ Main(m) \in Chats
    BY MainIs, ValuesType
  <2> QED
    BY <2>1
<1>2. Translated(m) = Append(Results(ids), Main(m)) /\ Translated(m) \in Seq(Chats)
  BY TranslatedIs
<1>3. /\ Results(ids) \in Seq(Chats) /\ Len(Results(ids)) = Len(ids)
      /\ \A i \in 1..Len(ids) : Results(ids)[i] = ResultOf(ids[i])
  BY <1>1, ResultsAre
<1> HIDE DEF ids
<1>4. PICK t \in Seq(Chats), r \in Seq(Chats) : t = Translated(m) /\ r = Results(ids)
  BY <1>2, <1>3
<1>5. /\ Len(t) = Len(ids) + 1 /\ t[Len(ids) + 1] = Main(m)
      /\ \A i \in 1..Len(ids) : t[i] = ResultOf(ids[i])
  <2>1. t = Append(r, Main(m))
    BY <1>2, <1>4
  <2>2. /\ Len(Append(r, Main(m))) = Len(r) + 1 /\ Append(r, Main(m))[Len(r) + 1] = Main(m)
        /\ \A i \in 1..Len(r) : Append(r, Main(m))[i] = r[i]
    BY <1>1, AppendProperties
  <2> QED
    BY <1>3, <1>4, <2>1, <2>2
<1>6. /\ out \o t \in Seq(Chats) /\ Len(out \o t) = Len(out) + Len(t) /\ Len(out) \in Nat
      /\ \A i \in 1..(Len(out) + Len(t)) : (out \o t)[i] = IF i <= Len(out) THEN out[i] ELSE t[i - Len(out)]
  BY ConcatProperties
<1>7. PICK x : x = out \o t
  OBVIOUS
<1>8. /\ Len(x) = Len(out) + Len(ids) + 1
      /\ \A i \in 1..(Len(out) + Len(ids) + 1) : x[i] = IF i <= Len(out) THEN out[i] ELSE t[i - Len(out)]
  BY <1>1, <1>5, <1>6, <1>7
<1>9. \A i \in 1..Len(out) : x[i] = out[i]
  BY <1>1, <1>6, <1>8
<1>10. \A i \in (Len(out) + 1)..(Len(out) + Len(ids)) : x[i] = ResultOf(ids[i - Len(out)])
  <2> SUFFICES ASSUME NEW i \in (Len(out) + 1)..(Len(out) + Len(ids)) PROVE x[i] = ResultOf(ids[i - Len(out)])
    OBVIOUS
  <2>1. i \in 1..(Len(out) + Len(ids) + 1) /\ ~(i <= Len(out)) /\ i - Len(out) \in 1..Len(ids)
    BY <1>1, <1>6
  <2> QED
    BY <1>5, <1>8, <2>1
<1>11. x[Len(out) + Len(ids) + 1] = Main(m)
  <2>1. /\ Len(out) + Len(ids) + 1 \in 1..(Len(out) + Len(ids) + 1) /\ ~(Len(out) + Len(ids) + 1 <= Len(out))
        /\ Len(out) + Len(ids) + 1 - Len(out) = Len(ids) + 1
    BY <1>1, <1>6
  <2> QED
    BY <1>5, <1>8, <2>1
<1>12. Grown(x, out, ids, Main(m))
  BY <1>8, <1>9, <1>10, <1>11 DEF Grown
<1> QED
  BY <1>4, <1>6, <1>7, <1>12 DEF ids

(* What the messages of results are.                                        *)
LEMMA GrownResults ==
  ASSUME NEW x, NEW out \in Seq(Chats), NEW ids \in Seq(Held), NEW msg, Grown(x, out, ids, msg)
  PROVE  \A i \in (Len(out) + 1)..(Len(out) + Len(ids)) :
           x[i].role = "tool" /\ x[i].calls = <<>> /\ x[i].answers = ids[i - Len(out)]
<1> SUFFICES ASSUME NEW i \in (Len(out) + 1)..(Len(out) + Len(ids))
             PROVE  x[i].role = "tool" /\ x[i].calls = <<>> /\ x[i].answers = ids[i - Len(out)]
  OBVIOUS
<1>1. x[i] = ResultOf(ids[i - Len(out)])
  BY DEF Grown
<1>2. i - Len(out) \in 1..Len(ids)
  <2>1. Len(out) \in Nat /\ Len(ids) \in Nat
    OBVIOUS
  <2> QED
    BY <2>1
<1>3. ids[i - Len(out)] \in Held
  BY <1>2
<1> QED
  BY <1>1, <1>3, ResultIs

LEMMA WhichPart ==
  ASSUME NEW x, NEW out \in Seq(Chats), NEW ids \in Seq(Held), NEW msg, Grown(x, out, ids, msg),
         NEW i \in 1..Len(x)
  PROVE  i \in 1..Len(out) \/ i \in (Len(out) + 1)..(Len(out) + Len(ids)) \/ i = Len(out) + Len(ids) + 1
<1>1. PICK n \in Nat, r \in Nat : n = Len(out) /\ r = Len(ids) /\ Len(x) = n + r + 1
  <2>1. Len(out) \in Nat /\ Len(ids) \in Nat /\ Len(x) = Len(out) + Len(ids) + 1
    BY DEF Grown
  <2> QED
    BY <2>1
<1>2. i \in 1..(n + r + 1)
  BY <1>1
<1>3. i \in 1..n \/ i \in (n + 1)..(n + r) \/ i = n + r + 1
  BY <1>2
<1> QED
  BY <1>1, <1>3

LEMMA AppendedIs ==
  ASSUME NEW E, NEW q \in Seq(E), NEW e \in E
  PROVE  /\ Append(q, e) \in Seq(E) /\ Len(Append(q, e)) = Len(q) + 1 /\ Len(q) \in Nat
         /\ Append(q, e)[Len(q) + 1] = e /\ \A i \in 1..Len(q) : Append(q, e)[i] = q[i]
         /\ Append(q, e) # <<>> /\ Last(Append(q, e)) = e
<1>1. /\ Append(q, e) \in Seq(E) /\ Len(Append(q, e)) = Len(q) + 1 /\ Len(q) \in Nat
      /\ Append(q, e)[Len(q) + 1] = e /\ \A i \in 1..Len(q) : Append(q, e)[i] = q[i]
  BY AppendProperties
<1>2. Append(q, e) # <<>>
  BY <1>1, EmptySeq
<1> QED
  BY <1>1, <1>2 DEF Last

LEMMA SeenOn ==
  ASSUME NEW out \in Seq(Chats), NEW tr \in Seq(SaidTurns), NEW m \in Messages, NEW e \in SaidTurns,
         TurnsSeen(out, tr), Tells(e, m)
  PROVE  TurnsSeen(out \o Translated(m), Append(tr, e))
<1>1. PICK s \in Seq(Chats) : s = Turns(out)
  BY TurnsOn
<1>2. Turns(out \o Translated(m)) = Append(s, Main(m)) /\ Main(m) \in Chats
  BY <1>1, TurnsOn, MainIs
<1>3. Alike(Main(m), e)
  BY MainIs DEF Tells, Alike, LastOnly
<1>4. /\ Len(Append(s, Main(m))) = Len(s) + 1 /\ Len(s) \in Nat
      /\ Append(s, Main(m))[Len(s) + 1] = Main(m) /\ \A i \in 1..Len(s) : Append(s, Main(m))[i] = s[i]
  BY <1>2, AppendedIs
<1>5. /\ Len(Append(tr, e)) = Len(tr) + 1 /\ Len(tr) \in Nat
      /\ Append(tr, e)[Len(tr) + 1] = e /\ \A i \in 1..Len(tr) : Append(tr, e)[i] = tr[i]
  BY AppendedIs
<1>6. Len(s) = Len(tr) /\ \A i \in 1..Len(tr) : Alike(s[i], tr[i])
  BY <1>1 DEF TurnsSeen
<1>7. ASSUME NEW i \in 1..(Len(tr) + 1)
      PROVE  Alike(Append(s, Main(m))[i], Append(tr, e)[i])
  <2>1. i \in 1..Len(tr) \/ i = Len(tr) + 1
    BY <1>5
  <2> QED
    BY <1>3, <1>4, <1>5, <1>6, <2>1
<1> QED
  BY <1>2, <1>4, <1>5, <1>6, <1>7 DEF TurnsSeen

LEMMA PromptFirstOn ==
  ASSUME NEW x, NEW out \in Seq(Chats), NEW ids \in Seq(Held), NEW msg, NEW sys,
         Grown(x, out, ids, msg), PromptFirst(out, sys), msg.role # "system"
  PROVE  PromptFirst(x, sys)
<1>1. Len(out) \in Nat /\ Len(ids) \in Nat /\ Len(x) = Len(out) + Len(ids) + 1
  BY DEF Grown
<1>2. ASSUME NEW i \in 1..Len(x)
      PROVE  x[i].role = "system" <=> i = 1 /\ sys # <<>>
  <2>1. CASE i \in 1..Len(out)
    BY <2>1 DEF Grown, PromptFirst
  <2>2. CASE i \in (Len(out) + 1)..(Len(out) + Len(ids))
    <3>1. x[i].role = "tool"
      BY <2>2, GrownResults
    <3>2. sys # <<>> => i # 1
      BY <1>1, <2>2 DEF PromptFirst
    <3> QED
      BY <3>1, <3>2
  <2>3. CASE i = Len(out) + Len(ids) + 1
    <3>1. x[i].role # "system"
      BY <2>3 DEF Grown
    <3>2. sys # <<>> => i # 1
      BY <1>1, <2>3 DEF PromptFirst
    <3> QED
      BY <3>1, <3>2
  <2> QED
    BY <1>1, <2>1, <2>2, <2>3, WhichPart
<1> QED
  BY <1>1, <1>2 DEF PromptFirst

LEMMA DueIs ==
  ASSUME NEW tr \in Seq(SaidTurns)
  PROVE  Due(tr) \in Seq(Held)
<1>1. CASE tr = <<>>
  BY <1>1 DEF Due
<1>2. CASE tr # <<>>
  <2>1. Last(tr) \in SaidTurns
    BY <1>2, LastIs
  <2> QED
    BY <1>2, <2>1 DEF Due, SaidTurns
<1> QED
  BY <1>1, <1>2

LEMMA OpenLastOn ==
  ASSUME NEW x, NEW out \in Seq(Chats), NEW ids \in Seq(Held), NEW msg, NEW tr \in Seq(SaidTurns),
         NEW e \in SaidTurns, Grown(x, out, ids, msg), Alike(msg, e)
  PROVE  OpenLast(x, Append(tr, e))
<1>1. Len(out) \in Nat /\ Len(ids) \in Nat /\ Len(x) = Len(out) + Len(ids) + 1 /\ x[Len(x)] = msg
  BY DEF Grown
<1>2. Due(Append(tr, e)) = e.calls
  BY AppendedIs DEF Due
<1> QED
  BY <1>1, <1>2 DEF OpenLast, Alike

LEMMA AnsweredOn ==
  ASSUME NEW x, NEW out \in Seq(Chats), NEW ids \in Seq(Held), NEW msg, NEW tr \in Seq(SaidTurns),
         Grown(x, out, ids, msg), CallsAnswered(out), OpenLast(out, tr), SameMembers(ids, Due(tr))
  PROVE  CallsAnswered(x)
<1>1. /\ Len(out) \in Nat /\ Len(ids) \in Nat /\ Len(x) = Len(out) + Len(ids) + 1
      /\ Due(tr) \in Seq(Held)
  BY DueIs DEF Grown
<1>2. \A i \in 1..Len(out) : x[i] = out[i]
  BY DEF Grown
<1> SUFFICES ASSUME NEW i \in 1..(Len(x) - 1), x[i].calls # <<>> PROVE AnsweredAt(x, i)
  BY DEF CallsAnswered
<1>3. i \in 1..Len(out)
  <2>1. i \in 1..Len(out) \/ i \in (Len(out) + 1)..(Len(out) + Len(ids))
    BY <1>1
  <2> QED
    BY <2>1, GrownResults
<1>4. x[i] = out[i] /\ out[i].calls # <<>>
  BY <1>2, <1>3
<1>5. CASE i # Len(out)
  <2>1. i \in 1..(Len(out) - 1)
    BY <1>1, <1>3, <1>5
  <2>2. PICK j \in (i + 1)..Len(out) :
          out[j].answers = out[i].calls[1] /\ \A k \in (i + 1)..j : out[k].role = "tool"
    BY <1>4, <2>1 DEF CallsAnswered, AnsweredAt
  <2>3. j \in (i + 1)..Len(x) /\ \A k \in (i + 1)..j : k \in 1..Len(out)
    BY <1>1, <2>1
  <2>4. x[j].answers = x[i].calls[1]
    <3>1. j \in 1..Len(out)
      BY <1>1, <2>1
    <3> QED
      BY <1>2, <1>4, <2>2, <3>1
  <2>5. \A k \in (i + 1)..j : x[k].role = "tool"
    BY <1>2, <2>2, <2>3
  <2> QED
    BY <2>3, <2>4, <2>5 DEF AnsweredAt
<1>6. CASE i = Len(out)
  <2>1. Due(tr) # <<>> /\ out[i].calls = <<Last(Due(tr))>>
    BY <1>1, <1>3, <1>4, <1>6 DEF OpenLast, LastOnly
  <2>2. Len(Due(tr)) \in 1..Len(Due(tr)) /\ Last(Due(tr)) = Due(tr)[Len(Due(tr))]
    <3>1. PICK q \in Seq(Held) : q = Due(tr) /\ q # <<>>
      BY <1>1, <2>1
    <3>2. Len(q) \in Nat /\ Len(q) >= 1 /\ Last(q) = q[Len(q)]
      BY <3>1, LastIs
    <3> QED
      BY <3>1, <3>2
  <2>3. PICK p \in 1..Len(ids) : ids[p] = Last(Due(tr))
    BY <2>2 DEF SameMembers
  <2>4. Len(out) + p \in (Len(out) + 1)..(Len(out) + Len(ids)) /\ Len(out) + p - Len(out) = p
        /\ Len(out) + p \in (i + 1)..Len(x)
        /\ \A k \in (i + 1)..(Len(out) + p) : k \in (Len(out) + 1)..(Len(out) + Len(ids))
    BY <1>1, <1>6, <2>3
  <2>5. PICK j : j = Len(out) + p
    OBVIOUS
  <2>6. x[j].answers = ids[p] /\ \A k \in (i + 1)..j : x[k].role = "tool"
    <3>1. \A k \in (Len(out) + 1)..(Len(out) + Len(ids)) :
            x[k].role = "tool" /\ x[k].calls = <<>> /\ x[k].answers = ids[k - Len(out)]
      BY GrownResults
    <3>2. j \in (Len(out) + 1)..(Len(out) + Len(ids)) /\ j - Len(out) = p
      BY <2>4, <2>5
    <3>3. x[j].answers = ids[p]
      BY <3>1, <3>2
    <3>4. \A k \in (i + 1)..j : x[k].role = "tool"
      BY <2>4, <2>5, <3>1
    <3> QED
      BY <3>3, <3>4
  <2>7. x[i].calls[1] = ids[p]
    BY <1>4, <2>1, <2>3
  <2> QED
    BY <2>4, <2>5, <2>6, <2>7 DEF AnsweredAt
<1> QED
  BY <1>5, <1>6

LEMMA NumberedOn ==
  ASSUME NEW tr \in Seq(SaidTurns), NEW e \in SaidTurns, Numbered(tr), CallsOf(e, Len(tr) + 1)
  PROVE  Numbered(Append(tr, e))
<1>1. /\ Len(Append(tr, e)) = Len(tr) + 1 /\ Len(tr) \in Nat
      /\ Append(tr, e)[Len(tr) + 1] = e /\ \A i \in 1..Len(tr) : Append(tr, e)[i] = tr[i]
  BY AppendedIs
<1>2. ASSUME NEW n \in 1..(Len(tr) + 1)
      PROVE  CallsOf(Append(tr, e)[n], n)
  <2>1. n \in 1..Len(tr) \/ n = Len(tr) + 1
    BY <1>1
  <2> QED
    BY <1>1, <2>1 DEF Numbered
<1> QED
  BY <1>1, <1>2 DEF Numbered

(* The results are of calls of the last turn.                               *)
LEMMA OfLastTurn ==
  ASSUME NEW tr \in Seq(SaidTurns), NEW ids \in Seq(Held), Numbered(tr), SameMembers(ids, Due(tr)),
         NEW p \in 1..Len(ids)
  PROVE  /\ Len(tr) \in 1..Len(tr) /\ Due(tr) = tr[Len(tr)].calls
         /\ \E k \in 1..Len(Due(tr)) : k \in Nat /\ ids[p] = <<"call", Len(tr), k>> /\ ids[p] = Due(tr)[k]
<1>1. PICK k \in 1..Len(Due(tr)) : ids[p] = Due(tr)[k]
  BY DEF SameMembers
<1>2. tr # <<>>
  <2>1. Len(<<>>) = 0
    OBVIOUS
  <2> QED
    BY <1>1, <2>1 DEF Due
<1>3. Len(tr) \in 1..Len(tr) /\ Last(tr) = tr[Len(tr)]
  BY <1>2, LastIs
<1>4. Due(tr) = tr[Len(tr)].calls
  BY <1>2, <1>3 DEF Due
<1>5. CallsOf(tr[Len(tr)], Len(tr))
  BY <1>3 DEF Numbered
<1>6. Due(tr)[k] = <<"call", Len(tr), k>>
  BY <1>1, <1>4, <1>5 DEF CallsOf
<1>7. k \in Nat
  <2>1. Len(Due(tr)) \in Nat
    BY <1>3, <1>4 DEF SaidTurns
  <2> QED
    BY <2>1
<1> QED
  BY <1>1, <1>3, <1>4, <1>6, <1>7

LEMMA DatedOn ==
  ASSUME NEW x, NEW out \in Seq(Chats), NEW ids \in Seq(Held), NEW msg, NEW tr \in Seq(SaidTurns),
         NEW e \in SaidTurns, Grown(x, out, ids, msg), Dated(out, tr), Numbered(tr),
         SameMembers(ids, Due(tr)), msg.answers = NoCall
  PROVE  Dated(x, Append(tr, e))
<1>1. Len(Append(tr, e)) = Len(tr) + 1 /\ Len(tr) \in Nat
  BY AppendedIs
<1>2. \A n \in 0..Len(tr) : n \in 0..Len(Append(tr, e))
  BY <1>1
<1>3. Len(out) \in Nat /\ Len(ids) \in Nat
  OBVIOUS
<1> SUFFICES ASSUME NEW i \in 1..Len(x)
             PROVE  \E n \in 0..Len(Append(tr, e)), k \in Nat : x[i].answers = <<"call", n, k>>
  BY DEF Dated
<1>4. CASE i \in 1..Len(out)
  <2>1. x[i] = out[i]
    BY <1>4 DEF Grown
  <2>2. PICK n \in 0..Len(tr), k \in Nat : out[i].answers = <<"call", n, k>>
    BY <1>4 DEF Dated
  <2> QED
    BY <1>2, <2>1, <2>2
<1>5. CASE i \in (Len(out) + 1)..(Len(out) + Len(ids))
  <2>1. x[i].answers = ids[i - Len(out)] /\ i - Len(out) \in 1..Len(ids)
    BY <1>3, <1>5, GrownResults
  <2>2. PICK k \in 1..Len(Due(tr)) : k \in Nat /\ ids[i - Len(out)] = <<"call", Len(tr), k>>
    BY <2>1, OfLastTurn
  <2>3. Len(tr) \in 0..Len(Append(tr, e))
    BY <1>1
  <2> QED
    BY <2>1, <2>2, <2>3
<1>6. CASE i = Len(out) + Len(ids) + 1
  <2>1. x[i].answers = <<"call", 0, 0>>
    BY <1>6 DEF Grown, NoCall
  <2>2. 0 \in 0..Len(Append(tr, e)) /\ 0 \in Nat
    BY <1>1
  <2> QED
    BY <2>1, <2>2
<1> QED
  BY <1>4, <1>5, <1>6, WhichPart

LEMMA LinkedOn ==
  ASSUME NEW x, NEW out \in Seq(Chats), NEW ids \in Seq(Held), NEW msg, NEW tr \in Seq(SaidTurns),
         NEW e \in SaidTurns, Grown(x, out, ids, msg), Dated(out, tr), Numbered(tr), Linked(out, tr),
         OpenLast(out, tr), SameMembers(ids, Due(tr)), msg.answers = NoCall, CallsOf(e, Len(tr) + 1),
         ids = <<>> \/ e.calls = <<>>
  PROVE  Linked(x, Append(tr, e))
<1>1. /\ Len(Append(tr, e)) = Len(tr) + 1 /\ Len(tr) \in Nat
      /\ Append(tr, e)[Len(tr) + 1] = e /\ \A i \in 1..Len(tr) : Append(tr, e)[i] = tr[i]
  BY AppendedIs
<1>2. Len(out) \in Nat /\ Len(ids) \in Nat /\ Len(x) = Len(out) + Len(ids) + 1
      /\ \A i \in 1..Len(out) : x[i] = out[i]
  BY DEF Grown
<1>3. PICK u : u = Append(tr, e)
  OBVIOUS
<1>4. Numbered(u)
  BY <1>3, NumberedOn
<1> SUFFICES ASSUME NEW n \in 1..Len(u), NEW j \in 1..Len(x),
                    Len(u[n].calls) = 1, x[j].answers = u[n].calls[1]
             PROVE  CalledBefore(x, j, u[n].calls)
  BY <1>3 DEF Linked
<1>5. n \in Nat /\ n >= 1 /\ x[j].answers = <<"call", n, 1>>
  <2>1. CallsOf(u[n], n) /\ 1 \in 1..Len(u[n].calls)
    BY <1>4 DEF Numbered
  <2>2. n \in Nat /\ n >= 1
    BY <1>1, <1>3
  <2> QED
    BY <2>1, <2>2 DEF CallsOf
<1>6. CASE j \in 1..Len(out)
  <2>1. x[j] = out[j]
    BY <1>2, <1>6
  <2>2. PICK a \in 0..Len(tr), k \in Nat : out[j].answers = <<"call", a, k>>
    BY <1>6 DEF Dated
  <2>3. a = n
    <3>1. <<"call", a, k>>[2] = a /\ <<"call", n, 1>>[2] = n
      OBVIOUS
    <3> QED
      BY <1>5, <2>1, <2>2, <3>1
  <2>4. n \in 1..Len(tr) /\ u[n] = tr[n]
    <3>1. n \in 1..Len(tr)
      BY <1>1, <1>5, <2>2, <2>3
    <3> QED
      BY <1>1, <1>3, <3>1
  <2>5. PICK i \in 1..(j - 1) : out[i].calls = tr[n].calls
    BY <1>6, <2>1, <2>4 DEF Linked, CalledBefore
  <2>6. i \in 1..Len(out)
    BY <1>2, <1>6
  <2> QED
    BY <1>2, <2>4, <2>5, <2>6 DEF CalledBefore
<1>7. CASE j \in (Len(out) + 1)..(Len(out) + Len(ids))
  <2>1. x[j].answers = ids[j - Len(out)] /\ j - Len(out) \in 1..Len(ids)
    BY <1>2, <1>7, GrownResults
  <2>2. PICK k \in 1..Len(Due(tr)) : k \in Nat /\ ids[j - Len(out)] = <<"call", Len(tr), k>>
    BY <2>1, OfLastTurn
  <2>3. Len(tr) \in 1..Len(tr) /\ Due(tr) = tr[Len(tr)].calls
    BY <2>1, OfLastTurn
  <2>4. n = Len(tr)
    <3>1. <<"call", Len(tr), k>>[2] = Len(tr) /\ <<"call", n, 1>>[2] = n
      OBVIOUS
    <3> QED
      BY <1>5, <2>1, <2>2, <3>1
  <2>5. u[n].calls = Due(tr)
    BY <1>1, <1>3, <2>3, <2>4
  <2>6. Due(tr) \in Seq(Held)
    BY DueIs
  <2>7. LastOnly(Due(tr)) = Due(tr)
    <3>1. Due(tr) # <<>> /\ Len(Due(tr)) = 1
      BY <2>2, <2>5
    <3>2. Last(Due(tr)) = Due(tr)[1]
      BY <2>6, <3>1, LastIs
    <3>3. <<Due(tr)[1]>> = Due(tr)
      BY <2>6, <3>1
    <3> QED
      BY <3>1, <3>2, <3>3 DEF LastOnly
  <2>8. tr # <<>>
    BY <2>3
  <2>9. Len(out) >= 1 /\ out[Len(out)].calls = u[n].calls
    BY <2>5, <2>7, <2>8 DEF OpenLast
  <2>10. Len(out) \in 1..(j - 1) /\ x[Len(out)] = out[Len(out)]
    BY <1>2, <1>7, <2>9
  <2> QED
    BY <2>9, <2>10 DEF CalledBefore
<1>8. CASE j = Len(out) + Len(ids) + 1
  <2>1. x[j].answers = <<"call", 0, 0>>
    BY <1>8 DEF Grown, NoCall
  <2>2. <<"call", 0, 0>>[2] = 0 /\ <<"call", n, 1>>[2] = n
    OBVIOUS
  <2> QED
    BY <1>5, <2>1, <2>2
<1> QED
  BY <1>6, <1>7, <1>8, WhichPart

Tale(out, tr, sys) ==
  /\ TurnsSeen(out, tr) /\ PromptFirst(out, sys) /\ OpenLast(out, tr) /\ CallsAnswered(out)
  /\ Numbered(tr) /\ Dated(out, tr) /\ Linked(out, tr)

LEMMA TaleOn ==
  ASSUME NEW out \in Seq(Chats), NEW tr \in Seq(SaidTurns), NEW sys, NEW m \in Messages, NEW e \in SaidTurns,
         Tale(out, tr, sys), Tells(e, m), SameMembers(e.results, Due(tr)), CallsOf(e, Len(tr) + 1),
         e.results = <<>> \/ e.calls = <<>>
  PROVE  Tale(out \o Translated(m), Append(tr, e), sys)
<1>1. PICK x \in Seq(Chats), ids \in Seq(Held), msg \in Chats :
        /\ x = out \o Translated(m) /\ ids = e.results /\ msg = Main(m)
        /\ Grown(x, out, ids, msg) /\ Alike(msg, e) /\ msg.answers = NoCall /\ msg.role # "system"
  <2>1. e.results \in Seq(Held) /\ Values(m.content, {"tool_result"}) = e.results
    BY DEF Tells, SaidTurns
  <2>2. Main(m) \in Chats /\ Main(m).answers = NoCall /\ Main(m).role # "system"
    BY MainIs
  <2>3. Alike(Main(m), e)
    BY MainIs DEF Tells, Alike, LastOnly
  <2> QED
    BY <2>1, <2>2, <2>3, GrownIs
<1>2. /\ TurnsSeen(out, tr) /\ PromptFirst(out, sys) /\ OpenLast(out, tr) /\ CallsAnswered(out)
      /\ Numbered(tr) /\ Dated(out, tr) /\ Linked(out, tr)
  BY DEF Tale
<1>3. TurnsSeen(x, Append(tr, e))
  BY <1>1, <1>2, SeenOn
<1>4. PromptFirst(x, sys)
  BY <1>1, <1>2, PromptFirstOn
<1>5. OpenLast(x, Append(tr, e))
  BY <1>1, OpenLastOn
<1>6. CallsAnswered(x)
  BY <1>1, <1>2, AnsweredOn
<1>7. Numbered(Append(tr, e))
  BY <1>2, NumberedOn
<1>8. Dated(x, Append(tr, e))
  BY <1>1, <1>2, DatedOn
<1>9. Linked(x, Append(tr, e))
  BY <1>1, <1>2, LinkedOn
<1> QED
  BY <1>1, <1>3, <1>4, <1>5, <1>6, <1>7, <1>8, <1>9 DEF Tale

LEMMA TaleFirst ==
  ASSUME NEW sys \in Seq(Held)
  PROVE  Tale(Prompt(sys), <<>>, sys)
<1>1. /\ Prompt(sys) \in Seq(Chats) /\ (sys = <<>> => Len(Prompt(sys)) = 0)
      /\ sys # <<>> => Len(Prompt(sys)) = 1 /\ Prompt(sys)[1].role = "system" /\ Prompt(sys)[1].calls = <<>>
                       /\ Prompt(sys)[1].answers = NoCall
  <2>1. PICK r \in Roles, none \in Seq(Held), never \in Held : r = "system" /\ none = <<>> /\ never = NoCall
    <3>1. "system" \in Roles /\ <<>> \in Seq(Held) /\ NoCall \in Held
      BY HeldAre DEF Roles
    <3> QED
      BY <3>1
  <2>2. PICK c \in Chats : c = ChatMessage(r, sys, none, never) /\ c.role = r /\ c.calls = none /\ c.answers = never
    BY ChatIs
  <2>3. Prompt(sys) = IF sys = <<>> THEN <<>> ELSE <<c>>
    BY <2>1, <2>2 DEF Prompt
  <2> QED
    BY <2>1, <2>2, <2>3, PromptIs
<1>2. PICK p \in Seq(Chats) : p = Prompt(sys)
  BY <1>1
<1>3. Len(p) \in {0, 1} /\ (Len(p) = 1 <=> sys # <<>>)
  <2>1. CASE sys = <<>>
    <3>1. Len(p) = 0
      BY <1>1, <1>2, <2>1
    <3> QED
      BY <2>1, <3>1
  <2>2. CASE sys # <<>>
    <3>1. Len(p) = 1
      BY <1>1, <1>2, <2>2
    <3> QED
      BY <2>2, <3>1
  <2> QED
    BY <2>1, <2>2
<1>4. \A i \in 1..Len(p) : i = 1 /\ sys # <<>> /\ p[i].role = "system" /\ p[i].calls = <<>> /\ p[i].answers = NoCall
  <2> SUFFICES ASSUME NEW i \in 1..Len(p)
               PROVE  /\ i = 1 /\ sys # <<>> /\ p[i].role = "system" /\ p[i].calls = <<>>
                      /\ p[i].answers = NoCall
    OBVIOUS
  <2>1. i = 1 /\ sys # <<>>
    <3>1. Len(p) = 1 \/ Len(p) = 0
      BY <1>3
    <3>2. Len(p) # 0
      <4>1. CASE Len(p) = 0
        <5>1. i \in 1..0
          BY <4>1
        <5> QED
          BY <5>1
      <4> QED
        BY <4>1
    <3>3. Len(p) = 1
      BY <3>1, <3>2
    <3>4. i \in 1..1
      BY <3>3
    <3>5. i = 1
      BY <3>4
    <3>6. sys # <<>>
      BY <1>3, <3>3
    <3> QED
      BY <3>5, <3>6
  <2> QED
    BY <1>1, <1>2, <2>1
<1>5. Turns(p) = <<>>
  <2>1. NoneIn(p, TurnsOnly)
    BY <1>4 DEF NoneIn, TurnsOnly
  <2>2. Sieved(Chats, Chats, TurnsOnly, Itself, p) = <<>>
    BY <2>1, TakenTypes, SievedNone
  <2> QED
    BY <2>2, TurnsIs
<1>6. PICK tr \in Seq(SaidTurns) : tr = <<>> /\ Len(tr) = 0
  <2>1. <<>> \in Seq(SaidTurns) /\ Len(<<>>) = 0
    OBVIOUS
  <2> QED
    BY <2>1
<1>7. TurnsSeen(p, tr) /\ Numbered(tr) /\ Linked(p, tr)
  BY <1>5, <1>6 DEF TurnsSeen, Numbered, Linked
<1>8. PromptFirst(p, sys)
  <2>1. ASSUME sys # <<>>
        PROVE  Len(p) >= 1
    <3>1. Len(p) = 1
      BY <1>3, <2>1
    <3> QED
      BY <3>1
  <2>2. \A i \in 1..Len(p) : p[i].role = "system" <=> i = 1 /\ sys # <<>>
    BY <1>4
  <2> QED
    BY <2>1, <2>2 DEF PromptFirst
<1>9. OpenLast(p, tr)
  <2>1. LastOnly(Due(tr)) = <<>>
    BY <1>6 DEF Due, LastOnly
  <2> QED
    BY <1>3, <1>4, <1>6, <2>1 DEF OpenLast
<1>10. CallsAnswered(p)
  BY <1>4 DEF CallsAnswered
<1>11. Dated(p, tr)
  <2>1. \A i \in 1..Len(p) : p[i].answers = <<"call", 0, 0>> /\ 0 \in 0..Len(tr) /\ 0 \in Nat
    BY <1>4, <1>6 DEF NoCall
  <2> QED
    BY <2>1 DEF Dated
<1> QED
  BY <1>2, <1>6, <1>7, <1>8, <1>9, <1>10, <1>11 DEF Tale

(* What the client is answered on the anthropic route.                      *)
LEMMA AnthropicReplyIs ==
  ASSUME NEW n \in Nat, NEW o \in Outcomes(n), o.kind # "stream"
  PROVE  /\ AnthropicReply(o).status = 200 <=> o.kind = "choice" /\ ~Throws(o.choice)
         /\ o.kind = "refused" =>
              AnthropicReply(o).status = IF o.status \in {401, 403, 429} THEN o.status ELSE 500
         /\ o.kind = "choice" /\ ~Throws(o.choice) =>
              /\ AnthropicReply(o).content = Tagged("text", o.choice.text) \o Tagged("tool_use", o.choice.calls)
              /\ o.choice.calls # <<>> => AnthropicReply(o).stop = "tool_use"
<1>1. /\ o.choice \in Spoke /\ o.choice.text \in {<<>>, <<<<"said", n + 1>>>>}
      /\ o.kind \in {"failed", "refused", "choiceless", "choice"}
      /\ o.kind = "refused" => o.status \in {401, 403, 429, 500, 503}
  BY DEF Outcomes, Refusals
<1>2. PICK p \in Held : p = <<"said", n + 1>>
  <2>1. "said" \in Marks /\ n + 1 \in Nat
    BY DEF Marks
  <2> QED
    BY <2>1, HeldAre
<1>3. CASE o.kind \in {"failed", "choiceless"}
  <2>1. PICK k : k = 500
    OBVIOUS
  <2>2. AnthropicReply(o) = ErrorResponse(k)
    BY <1>3, <2>1 DEF AnthropicReply, ErrorStatus
  <2>3. AnthropicReply(o).status = k
    BY <2>2, ErrorIs
  <2> QED
    BY <1>3, <2>1, <2>3
<1>4. CASE o.kind = "refused"
  <2>1. PICK k : k = ErrorStatus(RefusalType(o.status), o.status)
    OBVIOUS
  <2>2. k = IF o.status \in {401, 403, 429} THEN o.status ELSE 500
    BY <1>1, <1>4, <2>1 DEF ErrorStatus, RefusalType
  <2>3. AnthropicReply(o) = ErrorResponse(k)
    BY <1>4, <2>1 DEF AnthropicReply
  <2>4. AnthropicReply(o).status = k
    BY <2>3, ErrorIs
  <2> QED
    BY <1>4, <2>2, <2>4
<1>5. CASE o.kind = "choice"
  <2>1. PICK c \in Spoke : /\ c = Extracted(o.choice) /\ c.text = o.choice.text /\ c.calls = o.choice.calls
                           /\ Throws(c) <=> Throws(o.choice)
    BY <1>1, ExtractedIs
  <2>2. AnthropicReply(o) = Formatted(c)
    BY <1>5, <2>1 DEF AnthropicReply
  <2>3. /\ Formatted(c).status = IF Throws(c) THEN 500 ELSE 200
        /\ ~Throws(c) => /\ Formatted(c).content = Tagged("text", c.text) \o Tagged("tool_use", c.calls)
                         /\ Formatted(c).stop = StopReason(c.finish, c.calls)
    <3>1. c.text \in {<<>>, <<p>>}
      BY <1>1, <1>2, <2>1
    <3> QED
      BY <3>1, FormattedIs
  <2>4. c.calls # <<>> => StopReason(c.finish, c.calls) = "tool_use"
    BY DEF StopReason
  <2> QED
    BY <1>5, <2>1, <2>2, <2>3, <2>4
<1> QED
  BY <1>1, <1>3, <1>4, <1>5

(* What a message of text and calls says.                                   *)
LEMMA SpeechIs ==
  ASSUME NEW text \in Seq(Held), NEW calls \in Seq(Held)
  PROVE  LET x == Tagged("text", text) \o Tagged("tool_use", calls) IN
         /\ x \in Seq(Blocks)
         /\ Values(x, {"text", "image", "thinking"}) = text
         /\ Values(x, {"tool_use"}) = calls
         /\ Values(x, {"tool_result"}) = <<>>
<1>0. "text" \in Types /\ "tool_use" \in Types
  BY DEF Types
<1>8. PICK t \in Types, u \in Types : t = "text" /\ u = "tool_use"
  BY <1>0
<1>9. PICK a, b, c : a = {"text", "image", "thinking"} /\ b = {"tool_use"} /\ c = {"tool_result"}
  OBVIOUS
<1>1. /\ t \in a /\ u \notin a /\ t \notin b /\ u \in b /\ t \notin c /\ u \notin c
  BY <1>8, <1>9
<1>2. PICK v \in Seq(Blocks), w \in Seq(Blocks) : v = Tagged(t, text) /\ w = Tagged(u, calls)
  BY TaggedIs
<1>3. v \o w \in Seq(Blocks) /\ \A types : Values(v \o w, types) = Values(v, types) \o Values(w, types)
  BY ValuesConcat
<1>4. Values(v, a) = text /\ Values(v, b) = <<>> /\ Values(v, c) = <<>>
  BY <1>1, <1>2, TaggedValues
<1>5. Values(w, a) = <<>> /\ Values(w, b) = calls /\ Values(w, c) = <<>>
  BY <1>1, <1>2, TaggedValues
<1>6. text \o <<>> = text /\ <<>> \o calls = calls /\ <<>> \o <<>> = <<>>
  <2>1. <<>> \in Seq(Held)
    OBVIOUS
  <2> QED
    BY <2>1, ConcatEmptySeq
<1>7. Values(v \o w, a) = text /\ Values(v \o w, b) = calls /\ Values(v \o w, c) = <<>>
  BY <1>3, <1>4, <1>5, <1>6
<1> QED
  BY <1>2, <1>3, <1>7, <1>8, <1>9

-----------------------------------------------------------------------------
(* The invariant: what the upstream would be shown of the history goes with *)
(* the transcript (OnRecord), what it is asked with is that (InCall), and   *)
(* what the client is answered is a function of what it said (InAnswer).    *)

GatewayTypes ==
  /\ route \in {"anthropic", "messages", "chat"}
  /\ system \in Seq(Held)
  /\ exchange \in {"composing", "calling", "answered", "waiting"}
  /\ history \in Seq(Messages)
  /\ transcript \in Seq(SaidTurns)
  /\ Len(history) = Len(transcript)

OnRecord ==
  route = "anthropic" =>
    /\ Tale(AnthropicToOpenAI(system, history), transcript, system)
    /\ history # <<>> => Values(Last(history).content, {"tool_use"}) = Due(transcript)
    /\ history # <<>> /\ Last(history).role = "user" => Due(transcript) = <<>>
    /\ exchange = "composing" /\ Due(transcript) # <<>> => response.stop = "tool_use"

Asking == exchange # "composing" => history # <<>> /\ Last(history).role = "user"
InCall ==
  exchange = "calling" =>
    /\ Streams => response.events = Before(route)
    /\ route = "anthropic" => request = AnthropicToOpenAI(system, history)
InAnswer ==
  exchange = "answered" =>
    /\ outcome \in Outcomes(Len(history))
    /\ Streams => outcome.kind \in {"failed", "refused", "stream"} /\ response = Streamed(route, outcome)
    /\ ~Streams => outcome.kind # "stream" /\ response = Spoken(route, outcome)

GatewayInv == GatewayTypes /\ OnRecord /\ Asking /\ InCall /\ InAnswer

LEMMA GatewayStarts ==
  ASSUME GatewayInit
  PROVE  GatewayInv
<1>1. system \in Seq(Held)
  <2>1. PICK p \in Held : p = <<"system", 0>>
    BY HeldAre
  <2>2. <<>> \in Seq(Held) /\ <<p>> \in Seq(Held)
    OBVIOUS
  <2> QED
    BY <2>1, <2>2 DEF GatewayInit
<1>2. <<>> \in Seq(Messages) /\ <<>> \in Seq(SaidTurns) /\ Len(<<>>) = 0
  OBVIOUS
<1>3. route \in {"anthropic", "messages", "chat"} /\ history = <<>> /\ transcript = <<>> /\ exchange = "composing"
  BY DEF GatewayInit
<1>4. GatewayTypes
  BY <1>1, <1>2, <1>3 DEF GatewayTypes
<1>5. Tale(AnthropicToOpenAI(system, history), transcript, system)
  BY <1>1, <1>3, ShownFirst, TaleFirst
<1>6. Due(transcript) = <<>>
  BY <1>3 DEF Due
<1> QED
  BY <1>3, <1>4, <1>5, <1>6 DEF GatewayInv, OnRecord, Asking, InCall, InAnswer

(* A turn more in the history and the transcript.                           *)
LEMMA Taken ==
  ASSUME GatewayInv, NEW m \in Messages, NEW e \in SaidTurns,
         history' = Append(history, m), transcript' = Append(transcript, e), UNCHANGED conversation,
         exchange' = "composing" /\ (Due(<<e>>) # <<>> /\ route = "anthropic" => response'.stop = "tool_use"),
         route = "anthropic" =>
           /\ Tells(e, m) /\ SameMembers(e.results, Due(transcript)) /\ CallsOf(e, Len(transcript) + 1)
           /\ e.results = <<>> \/ e.calls = <<>>
           /\ m.role = "user" => e.calls = <<>>
  PROVE  GatewayInv'
<1>1. /\ route' = route /\ system' = system /\ system \in Seq(Held)
      /\ history \in Seq(Messages) /\ transcript \in Seq(SaidTurns) /\ Len(history) = Len(transcript)
      /\ route \in {"anthropic", "messages", "chat"} /\ exchange' = "composing"
  BY DEF GatewayInv, GatewayTypes, conversation
<1>2. /\ Append(history, m) \in Seq(Messages) /\ Len(Append(history, m)) = Len(history) + 1
      /\ Append(history, m) # <<>> /\ Last(Append(history, m)) = m
  BY <1>1, AppendedIs
<1>3. /\ Append(transcript, e) \in Seq(SaidTurns) /\ Len(Append(transcript, e)) = Len(transcript) + 1
      /\ Append(transcript, e) # <<>> /\ Last(Append(transcript, e)) = e
  BY <1>1, AppendedIs
<1>4. GatewayTypes'
  BY <1>1, <1>2, <1>3 DEF GatewayTypes
<1>5. (Due(transcript))' = e.calls /\ Due(<<e>>) = e.calls
  BY <1>3 DEF Due, Last
<1>6. ASSUME route = "anthropic"
      PROVE  OnRecord'
  <2>1. Tale(AnthropicToOpenAI(system, history), transcript, system)
    BY <1>6 DEF GatewayInv, OnRecord
  <2>2. /\ AnthropicToOpenAI(system, history) \in Seq(Chats)
        /\ AnthropicToOpenAI(system, Append(history, m)) = AnthropicToOpenAI(system, history) \o Translated(m)
    BY <1>1, ShownOn
  <2>3. Tale(AnthropicToOpenAI(system, history) \o Translated(m), Append(transcript, e), system)
    BY <1>1, <1>6, <2>1, <2>2, TaleOn
  <2>4. Tale(AnthropicToOpenAI(system, history), transcript, system)'
    BY <1>1, <2>2, <2>3
  <2>5. (history # <<>> => Values(Last(history).content, {"tool_use"}) = Due(transcript))'
    BY <1>2, <1>5, <1>6 DEF Tells
  <2>6. (history # <<>> /\ Last(history).role = "user" => Due(transcript) = <<>>)'
    BY <1>2, <1>5, <1>6
  <2>7. (exchange = "composing" /\ Due(transcript) # <<>> => response.stop = "tool_use")'
    BY <1>5, <1>6
  <2> QED
    BY <2>4, <2>5, <2>6, <2>7 DEF OnRecord
<1>7. OnRecord'
  BY <1>1, <1>6 DEF OnRecord
<1>8. Asking' /\ InCall' /\ InAnswer'
  BY <1>1 DEF Asking, InCall, InAnswer
<1> QED
  BY <1>4, <1>7, <1>8 DEF GatewayInv

(* A step that leaves the history alone.                                    *)
LEMMA Kept ==
  ASSUME GatewayInv, UNCHANGED <<conversation, history, transcript>>,
         exchange' \in {"composing", "calling", "answered", "waiting"},
         exchange' # "composing" \/ Last(history).role = "user",
         Asking', InCall', InAnswer', history # <<>>
  PROVE  GatewayInv'
<1>1. /\ route' = route /\ system' = system /\ history' = history /\ transcript' = transcript
  BY DEF conversation
<1>2. GatewayTypes'
  BY <1>1 DEF GatewayInv, GatewayTypes
<1>3. OnRecord'
  <2>1. ASSUME route = "anthropic"
        PROVE  /\ Tale(AnthropicToOpenAI(system, history), transcript, system)
               /\ history # <<>> => Values(Last(history).content, {"tool_use"}) = Due(transcript)
               /\ history # <<>> /\ Last(history).role = "user" => Due(transcript) = <<>>
    BY <2>1 DEF GatewayInv, OnRecord
  <2>2. ASSUME route = "anthropic"
        PROVE  exchange' = "composing" /\ Due(transcript)' # <<>> => response'.stop = "tool_use"
    BY <1>1, <2>1, <2>2
  <2> QED
    BY <1>1, <2>1, <2>2 DEF OnRecord
<1> QED
  BY <1>2, <1>3 DEF GatewayInv

-----------------------------------------------------------------------------
(* The steps of the client.                                                 *)

LEMMA HistoryIs ==
  ASSUME GatewayInv
  PROVE  /\ Len(history) \in Nat /\ Len(history) = Len(transcript)
         /\ history = <<>> => transcript = <<>> /\ Due(transcript) = <<>>
         /\ history # <<>> => Last(history) \in Messages /\ Last(history).content \in Seq(Blocks)
<1>1. history \in Seq(Messages) /\ transcript \in Seq(SaidTurns) /\ Len(history) = Len(transcript)
  BY DEF GatewayInv, GatewayTypes
<1>2. Len(history) \in Nat
  BY <1>1
<1>3. history = <<>> => transcript = <<>>
  BY <1>1, EmptySeq
<1>4. history # <<>> => Last(history) \in Messages
  BY <1>1, LastIs
<1> QED
  BY <1>1, <1>2, <1>3, <1>4 DEF Due, Messages

LEMMA PendingIs ==
  ASSUME GatewayInv, exchange = "composing"
  PROVE  Pending \in Seq(Held) /\ (route = "anthropic" => Pending = Due(transcript))
<1>1. <<>> \in Seq(Held)
  OBVIOUS
<1>2. Pending \in Seq(Held)
  BY <1>1, HistoryIs, ValuesType DEF Pending
<1>3. ASSUME route = "anthropic"
      PROVE  Pending = Due(transcript)
  <2>1. /\ history # <<>> => Values(Last(history).content, {"tool_use"}) = Due(transcript)
        /\ Due(transcript) # <<>> => response.stop = "tool_use"
    BY <1>3 DEF GatewayInv, OnRecord
  <2> QED
    BY <2>1, HistoryIs DEF Pending
<1> QED
  BY <1>2, <1>3

(* What the client composes.                                                *)
LEMMA ComposedIs ==
  ASSUME GatewayInv, Compose
  PROVE  \E content \in Seq(Plain), ids \in Seq(Held) :
           /\ Added("user", content) /\ Values(content, {"tool_result"}) = ids
           /\ SameMembers(ids, Pending)
<1> DEFINE said == Block("text", Piece("said"))
           image == Block("image", Piece("image"))
           results(ids) == [i \in DOMAIN ids |-> Block("tool_result", ids[i])]
<1>1. Pending \in Seq(Held) /\ Len(history) + 1 \in Nat
  BY PendingIs, HistoryIs DEF Compose
<1>2. PICK p \in Held, d \in Held : p = Piece("said") /\ d = Piece("image")
  <2>1. "said" \in Marks /\ "image" \in Marks
    BY DEF Marks
  <2>2. Piece("said") \in Held /\ Piece("image") \in Held
    BY <1>1, <2>1, HeldAre DEF Piece
  <2> QED
    BY <2>2
<1>3. \A ids : results(ids) = Tagged("tool_result", ids)
  BY DEF Tagged
<1>4. IF Pending = <<>>
      THEN \E content \in {<<said>>, <<said, image>>} : Added("user", content)
      ELSE \E ids \in {Pending, Reverse(Pending)} :
             \E content \in {results(ids), <<said>> \o results(ids), Append(results(ids), said)} :
               Added("user", content)
  BY DEF Compose
<1> HIDE DEF results
<1>5. CASE Pending = <<>>
  <2>1. PICK content \in {<<said>>, <<said, image>>} : Added("user", content)
    BY <1>4, <1>5
  <2>2. <<>> \in Seq(Held)
    OBVIOUS
  <2>3. Sendable(<<said>>, <<>>) /\ Sendable(<<said, image>>, <<>>)
    BY <1>2, <2>2, SendableAre
  <2>4. Sendable(content, <<>>)
    BY <2>1, <2>3
  <2>5. SameMembers(<<>>, Pending)
    BY <1>5, SameAsItself
  <2> QED
    BY <2>1, <2>2, <2>4, <2>5 DEF Sendable
<1>6. CASE Pending # <<>>
  <2>1. PICK ids \in {Pending, Reverse(Pending)} :
          \E content \in {results(ids), <<said>> \o results(ids), Append(results(ids), said)} :
            Added("user", content)
    BY <1>4, <1>6
  <2>2. ids \in Seq(Held) /\ SameMembers(ids, Pending)
    BY <1>1, <2>1, ReverseIs, SameAsItself
  <2>3. PICK content \in {results(ids), <<said>> \o results(ids), Append(results(ids), said)} :
          Added("user", content)
    BY <2>1
  <2>4. /\ Sendable(results(ids), ids) /\ Sendable(<<said>> \o results(ids), ids)
        /\ Sendable(Append(results(ids), said), ids)
    BY <1>2, <1>3, <2>2, SendableAre
  <2>5. Sendable(content, ids)
    BY <2>3, <2>4
  <2> QED
    BY <2>2, <2>3, <2>5 DEF Sendable
<1> QED
  BY <1>5, <1>6

LEMMA ComposeKeeps ==
  ASSUME GatewayInv, Compose
  PROVE  GatewayInv'
<1>1. PICK content \in Seq(Plain), ids \in Seq(Held) :
        /\ Added("user", content) /\ Values(content, {"tool_result"}) = ids
        /\ SameMembers(ids, Pending)
  BY ComposedIs
<1>2. /\ content \in Seq(Blocks) /\ Values(content, {"tool_use"}) = <<>>
      /\ Values(content, {"text", "image", "thinking"}) = Values(content, {"text", "image"})
      /\ Values(content, {"text", "image"}) \in Seq(Held) /\ <<>> \in Seq(Held)
  <2>1. content \in Seq(Blocks)
    BY PlainValues
  <2> QED
    BY <2>1, PlainValues, ValuesType
<1>3. PICK m : m = Message("user", content)
  OBVIOUS
<1>4. PICK e : e = [role |-> "user", text |-> Values(content, {"text", "image"}), calls |-> <<>>, results |-> ids]
  OBVIOUS
<1>5. /\ history' = Append(history, m) /\ transcript' = Append(transcript, e)
      /\ UNCHANGED conversation /\ exchange = "composing" /\ exchange' = exchange
  BY <1>1, <1>3, <1>4 DEF Added, Compose
<1>6. m \in Messages /\ m.role = "user" /\ m.content = content
  BY <1>2, <1>3 DEF Message, Messages
<1>7. e \in SaidTurns /\ e.role = "user" /\ e.text = Values(content, {"text", "image"}) /\ e.calls = <<>> /\ e.results = ids
  BY <1>2, <1>4 DEF SaidTurns
<1>8. Tells(e, m)
  BY <1>1, <1>2, <1>6, <1>7 DEF Tells
<1>9. CallsOf(e, Len(transcript) + 1)
  <2>1. 1..Len(e.calls) = {}
    BY <1>7
  <2> QED
    BY <2>1 DEF CallsOf
<1>10. route = "anthropic" => SameMembers(e.results, Due(transcript))
  BY <1>1, <1>5, <1>7, PendingIs
<1>11. Due(<<e>>) = <<>>
  BY <1>7 DEF Due, Last
<1> QED
  BY <1>5, <1>6, <1>7, <1>8, <1>9, <1>10, <1>11, Taken

LEMMA PostKeeps ==
  ASSUME GatewayInv, Post
  PROVE  GatewayInv'
<1>1. /\ UNCHANGED <<conversation, history, transcript>> /\ exchange' = "calling"
      /\ history # <<>> /\ Last(history).role = "user"
      /\ request' = Forwarded
      /\ response' = [NoResponse EXCEPT
           !.status = IF Streams THEN 200 ELSE 0,
           !.events = IF Streams /\ route = "messages" THEN Preamble ELSE <<>>]
  BY DEF Post
<1>2. /\ route' = route /\ stream' = stream /\ system' = system /\ history' = history /\ transcript' = transcript
      /\ route \in {"anthropic", "messages", "chat"} /\ (Streams' <=> Streams)
  BY <1>1 DEF conversation, GatewayInv, GatewayTypes, Streams
<1>3. Asking' /\ InAnswer'
  BY <1>1, <1>2 DEF Asking, InAnswer
<1>4. Streams => response'.events = Before(route)
  BY <1>1, <1>2 DEF Before, NoResponse
<1>5. route = "anthropic" => request' = AnthropicToOpenAI(system, history)
  BY <1>1 DEF Forwarded
<1>6. InCall'
  BY <1>1, <1>2, <1>4, <1>5 DEF InCall
<1> QED
  BY <1>1, <1>3, <1>6, Kept

-----------------------------------------------------------------------------
(* The answers of the upstream.                                             *)

LEMMA SettleKeeps ==
  ASSUME GatewayInv, NEW o \in Outcomes(Len(history)), Settle(o),
         IF Streams THEN o.kind \in {"failed", "refused", "stream"} ELSE o.kind # "stream"
  PROVE  GatewayInv'
<1>1. /\ UNCHANGED <<conversation, history, transcript>> /\ exchange = "calling" /\ exchange' = "answered"
      /\ outcome' = o /\ response' = Reply(o)
  BY DEF Settle
<1>2. /\ route' = route /\ stream' = stream /\ system' = system /\ history' = history
      /\ route \in {"anthropic", "messages", "chat"} /\ (Streams' <=> Streams)
  BY <1>1 DEF conversation, GatewayInv, GatewayTypes, Streams
<1>3. history # <<>> /\ Last(history).role = "user" /\ (Streams => response.events = Before(route))
  BY <1>1 DEF GatewayInv, Asking, InCall
<1>4. response' = IF Streams THEN Streamed(route, o) ELSE Spoken(route, o)
  BY <1>1, <1>2, <1>3, ReplyIs
<1>5. Asking' /\ InCall'
  BY <1>1, <1>2, <1>3 DEF Asking, InCall
<1>6. InAnswer'
  <2>1. (Streams => outcome.kind \in {"failed", "refused", "stream"} /\ response = Streamed(route, outcome))'
    BY <1>1, <1>2, <1>4
  <2>2. (~Streams => outcome.kind # "stream" /\ response = Spoken(route, outcome))'
    BY <1>1, <1>2, <1>4
  <2>3. outcome' \in Outcomes(Len(history'))
    BY <1>1, <1>2
  <2> QED
    BY <2>1, <2>2, <2>3 DEF InAnswer
<1> QED
  BY <1>1, <1>3, <1>5, <1>6, Kept

OutcomeKinds == {"failed", "refused", "choiceless", "choice", "stream"}
Speaks(n, c) ==
  /\ c.text \in {<<>>, <<<<"said", n + 1>>>>}
  /\ \A k \in 1..Len(c.calls) : c.calls[k] = <<"call", n + 1, k>>
Possible(kind, status, c, given) ==
  /\ kind # "stream" => given = <<>>
  /\ kind # "choice" => c = Silence
  /\ kind = "refused" => status \in Refusals

LEMMA OutcomeIs ==
  ASSUME NEW n \in Nat, NEW kind \in OutcomeKinds, NEW status \in Nat, NEW c \in Spoke,
         NEW given \in Seq(Lines), Speaks(n, c), Possible(kind, status, c, given)
  PROVE  Outcome(kind, status, c, given) \in Outcomes(n) /\ Outcome(kind, status, c, given).kind = kind
<1>1. PICK o : o = Outcome(kind, status, c, given)
  OBVIOUS
<1>2. /\ o \in [kind : {"failed", "refused", "choiceless", "choice", "stream"}, status : Nat,
                choice : Spoke, lines : Seq(Lines)]
      /\ o.kind = kind /\ o.status = status /\ o.choice = c /\ o.lines = given
  BY <1>1 DEF Outcome, OutcomeKinds
<1> QED
  BY <1>1, <1>2 DEF Outcomes, Speaks, Possible

LEMMA RefusesKeeps ==
  ASSUME GatewayInv, UpstreamRefuses
  PROVE  GatewayInv'
<1>1. Len(history) \in Nat
  BY HistoryIs
<1>2. PICK c \in Spoke, none \in Seq(Lines) : c = Silence /\ none = <<>> /\ Speaks(Len(history), c)
  <2>1. <<>> \in Seq(Lines) /\ 1..Len(<<>>) = {}
    OBVIOUS
  <2> QED
    BY <2>1, SilenceIs DEF Speaks
<1>3. ASSUME NEW kind \in OutcomeKinds, NEW status \in Nat,
             kind \in {"failed", "refused", "choiceless"}, kind = "refused" => status \in Refusals
      PROVE  Outcome(kind, status, c, none) \in Outcomes(Len(history)) /\ Outcome(kind, status, c, none).kind = kind
  <2>1. Possible(kind, status, c, none)
    BY <1>2, <1>3 DEF Possible
  <2>2. PICK n \in Nat : n = Len(history) /\ Speaks(n, c)
    BY <1>1, <1>2
  <2>3. Outcome(kind, status, c, none) \in Outcomes(n) /\ Outcome(kind, status, c, none).kind = kind
    BY <2>1, <2>2, OutcomeIs
  <2> QED
    BY <2>2, <2>3
<1>4. PICK kind \in OutcomeKinds, status \in Nat :
        /\ kind \in {"failed", "refused", "choiceless"} /\ (kind = "refused" => status \in Refusals)
        /\ kind = "choiceless" => ~Streams
        /\ Settle(Outcome(kind, status, c, none))
  <2>1. CASE Settle(Outcome("failed", 0, Silence, <<>>))
    <3>1. "failed" \in OutcomeKinds /\ 0 \in Nat
      BY DEF OutcomeKinds
    <3> QED
      BY <1>2, <2>1, <3>1
  <2>2. CASE \E status \in Refusals : Settle(Outcome("refused", status, Silence, <<>>))
    <3>1. PICK status \in Refusals : Settle(Outcome("refused", status, Silence, <<>>))
      BY <2>2
    <3>2. status \in Nat /\ "refused" \in OutcomeKinds
      BY <3>1 DEF Refusals, OutcomeKinds
    <3> QED
      BY <1>2, <3>1, <3>2
  <2>3. CASE ~Streams /\ Settle(Outcome("choiceless", 200, Silence, <<>>))
    <3>1. "choiceless" \in OutcomeKinds /\ 200 \in Nat
      BY DEF OutcomeKinds
    <3> QED
      BY <1>2, <2>3, <3>1
  <2> QED
    BY <2>1, <2>2, <2>3 DEF UpstreamRefuses
<1>5. PICK o \in Outcomes(Len(history)) : o = Outcome(kind, status, c, none) /\ o.kind = kind
  BY <1>3, <1>4
<1>6. Settle(o) /\ IF Streams THEN o.kind \in {"failed", "refused", "stream"} ELSE o.kind # "stream"
  BY <1>4, <1>5
<1> QED
  BY <1>6, SettleKeeps

LEMMA AnswersKeeps ==
  ASSUME GatewayAssumption, GatewayInv, UpstreamAnswers
  PROVE  GatewayInv'
<1>1. Len(history) \in Nat /\ MaxCalls \in Nat
  BY HistoryIs DEF GatewayAssumption
<1>2. PICK text \in {<<>>, <<Piece("said")>>}, calls \in 0..MaxCalls, parses \in BOOLEAN,
           finish \in {"stop", "length", "tool_calls", "absent"} :
        /\ calls = 0 => parses
        /\ Settle(Outcome("choice", 200,
             [text |-> text, calls |-> [k \in 1..calls |-> <<"call", Len(history) + 1, k>>],
              parses |-> parses, finish |-> finish], <<>>))
  BY DEF UpstreamAnswers
<1>3. PICK p \in Held : p = <<"said", Len(history) + 1>> /\ p = Piece("said")
  <2>1. "said" \in Marks /\ Len(history) + 1 \in Nat
    BY <1>1 DEF Marks
  <2> QED
    BY <2>1, HeldAre DEF Piece
<1>4. text \in Seq(Held) /\ text \in {<<>>, <<<<"said", Len(history) + 1>>>>}
  <2>1. <<>> \in Seq(Held) /\ <<p>> \in Seq(Held)
    OBVIOUS
  <2> QED
    BY <1>3, <2>1
<1>5. PICK q : q = [k \in 1..calls |-> <<"call", Len(history) + 1, k>>]
  OBVIOUS
<1>6. q \in Seq(Held) /\ \A k \in 1..Len(q) : q[k] = <<"call", Len(history) + 1, k>>
  <2>1. calls \in Nat
    BY <1>1
  <2>2. \A k \in 1..calls : <<"call", Len(history) + 1, k>> \in Held
    <3>1. "call" \in Marks /\ Len(history) + 1 \in Nat /\ \A k \in 1..calls : k \in Nat
      BY <1>1, <2>1 DEF Marks
    <3> QED
      BY <3>1, HeldAre
  <2>3. q \in [1..calls -> Held]
    BY <1>5, <2>2
  <2>4. Len(q) = calls /\ q \in Seq(Held)
    BY <2>1, <2>3
  <2> QED
    BY <1>5, <2>4
<1>7. PICK c \in Spoke : /\ c = [text |-> text, calls |-> q, parses |-> parses, finish |-> finish]
                         /\ Speaks(Len(history), c)
  <2>1. PICK c : c = [text |-> text, calls |-> q, parses |-> parses, finish |-> finish]
    OBVIOUS
  <2>2. c \in Spoke /\ c.text = text /\ c.calls = q
    BY <1>4, <1>6, <2>1 DEF Spoke, Finishes
  <2>3. Speaks(Len(history), c)
    BY <1>4, <1>6, <2>2 DEF Speaks
  <2> QED
    BY <2>1, <2>2, <2>3
<1>8. PICK kind \in OutcomeKinds, status \in Nat, none \in Seq(Lines) :
        kind = "choice" /\ status = 200 /\ none = <<>>
  <2>1. <<>> \in Seq(Lines) /\ "choice" \in OutcomeKinds /\ 200 \in Nat
    BY DEF OutcomeKinds
  <2> QED
    BY <2>1
<1>9. PICK o : o = Outcome(kind, status, c, none)
  OBVIOUS
<1>10. o \in Outcomes(Len(history)) /\ o.kind = kind
  <2>1. Possible(kind, status, c, none)
    BY <1>8 DEF Possible
  <2> QED
    <3>1. PICK m \in Nat : m = Len(history) /\ Speaks(m, c)
      BY <1>1, <1>7
    <3>2. Outcome(kind, status, c, none) \in Outcomes(m) /\ Outcome(kind, status, c, none).kind = kind
      BY <2>1, <3>1, OutcomeIs
    <3> QED
      BY <1>9, <3>1, <3>2
<1>11. Settle(o) /\ ~Streams
  BY <1>2, <1>5, <1>7, <1>8, <1>9 DEF UpstreamAnswers
<1>12. IF Streams THEN o.kind \in {"failed", "refused", "stream"} ELSE o.kind # "stream"
  BY <1>8, <1>10, <1>11
<1> QED
  BY <1>10, <1>11, <1>12, SettleKeeps

LEMMA StreamsKeeps ==
  ASSUME GatewayAssumption, GatewayInv, UpstreamStreams
  PROVE  GatewayInv'
<1>1. Len(history) \in Nat /\ MaxStreamLines \in Nat
  BY HistoryIs DEF GatewayAssumption
<1>11. PICK n \in 0..MaxStreamLines :
         \E kinds \in [1..n -> {"text", "tool", "finish", "done", "other"}] :
           Settle(Outcome("stream", 200, Silence,
             [k \in 1..n |-> [kind |-> kinds[k], piece |-> <<"said", Len(history) + 1, k>>]]))
  BY DEF UpstreamStreams
<1>2. PICK kinds \in [1..n -> {"text", "tool", "finish", "done", "other"}] :
        Settle(Outcome("stream", 200, Silence,
          [k \in 1..n |-> [kind |-> kinds[k], piece |-> <<"said", Len(history) + 1, k>>]]))
  BY <1>11
<1>3. PICK q : q = [k \in 1..n |-> [kind |-> kinds[k], piece |-> <<"said", Len(history) + 1, k>>]]
  OBVIOUS
<1>4. q \in Seq(Lines)
  <2>1. n \in Nat
    BY <1>1
  <2>2. \A k \in 1..n : <<"said", Len(history) + 1, k>> \in Held
    <3>1. "said" \in Marks /\ Len(history) + 1 \in Nat /\ \A k \in 1..n : k \in Nat
      BY <1>1, <2>1 DEF Marks
    <3> QED
      BY <3>1, HeldAre
  <2>3. q \in [1..n -> Lines]
    BY <1>2, <1>3, <2>2 DEF Lines, LineKinds
  <2> QED
    BY <2>1, <2>3
<1>5. PICK c \in Spoke : c = Silence /\ Speaks(Len(history), c)
  <2>1. 1..Len(<<>>) = {}
    OBVIOUS
  <2> QED
    BY <2>1, SilenceIs DEF Speaks
<1>6. PICK kind \in OutcomeKinds, status \in Nat :
        kind = "stream" /\ status = 200
  <2>1. "stream" \in OutcomeKinds /\ 200 \in Nat
    BY DEF OutcomeKinds
  <2> QED
    BY <2>1
<1>7. PICK o : o = Outcome(kind, status, c, q)
  OBVIOUS
<1>8. o \in Outcomes(Len(history)) /\ o.kind = kind
  <2>1. Possible(kind, status, c, q)
    BY <1>5, <1>6 DEF Possible
  <2> QED
    <3>1. PICK m \in Nat : m = Len(history) /\ Speaks(m, c)
      BY <1>1, <1>5
    <3>2. Outcome(kind, status, c, q) \in Outcomes(m) /\ Outcome(kind, status, c, q).kind = kind
      BY <1>4, <2>1, <3>1, OutcomeIs
    <3> QED
      BY <1>7, <3>1, <3>2
<1>9. Settle(o) /\ Streams
  BY <1>2, <1>3, <1>5, <1>6, <1>7 DEF UpstreamStreams
<1>10. IF Streams THEN o.kind \in {"failed", "refused", "stream"} ELSE o.kind # "stream"
  BY <1>6, <1>8, <1>9
<1> QED
  BY <1>8, <1>9, <1>10, SettleKeeps

-----------------------------------------------------------------------------
(* The answer is taken.                                                     *)

LEMMA StreamedIs ==
  ASSUME NEW n \in Nat, NEW o \in Outcomes(n), NEW r \in {"messages", "chat"}
  PROVE  /\ Streamed(r, o).content \in Seq(Blocks) /\ Finished(Streamed(r, o))
         /\ Streamed(r, o).events = Before(r) \o Sent(r, o) /\ Sent(r, o) \in Seq(Wire)
<1>1. o.lines \in Seq(Lines)
  BY DEF Outcomes
<1>2. Sent(r, o) \in Seq(Wire)
  <2>1. CASE o.kind = "failed"
    <3>1. PICK e \in Wire : e = Event("error", 0)
      BY EventIs, SignalsAre
    <3>2. <<e>> \in Seq(Wire)
      OBVIOUS
    <3> QED
      BY <2>1, <3>1, <3>2 DEF Sent
  <2>2. CASE o.kind # "failed"
    BY <1>1, <2>2, ToldIs
  <2> QED
    BY <2>1, <2>2
<1>3. PICK t \in Types : t = "text"
  BY DEF Types
<1>4. PICK text \in Seq(Held) : text = TextRead(Sent(r, o))
  BY <1>2, TextReadType
<1>5. PICK x \in Seq(Blocks) : x = Tagged(t, text)
  BY TaggedIs
<1>6. PICK k, none, events : k = 200 /\ none = "null" /\ events = Before(r) \o Sent(r, o)
  OBVIOUS
<1>7. Streamed(r, o) = Response(k, x, none, events)
  BY <1>3, <1>4, <1>5, <1>6 DEF Streamed
<1>8. /\ Response(k, x, none, events).content = x /\ Response(k, x, none, events).events = events
      /\ Finished(Response(k, x, none, events))
  BY ResponseIs
<1> QED
  BY <1>2, <1>5, <1>6, <1>7, <1>8

LEMMA StreamsOn ==
  ASSUME Streams
  PROVE  route \in {"messages", "chat"}
  BY DEF Streams

LEMMA AnsweredWell ==
  ASSUME GatewayInv, exchange = "answered"
  PROVE  /\ response.content \in Seq(Blocks) /\ Finished(response)
         /\ Said \in Seq(Held) /\ outcome.choice.calls \in Seq(Held)
         /\ CallsOf(outcome.choice, Len(history) + 1)
<1>1. PICK n \in Nat : n = Len(history) /\ outcome \in Outcomes(n)
  BY HistoryIs DEF GatewayInv, InAnswer
<1>2. ASSUME Streams
      PROVE  response.content \in Seq(Blocks) /\ Finished(response)
  BY <1>1, <1>2, StreamsOn, StreamedIs DEF GatewayInv, InAnswer
<1>3. ASSUME ~Streams
      PROVE  response.content \in Seq(Blocks) /\ Finished(response)
  BY <1>1, <1>3, SpokenIs DEF GatewayInv, InAnswer
<1>4. /\ outcome.choice.text \in Seq(Held) /\ outcome.choice.calls \in Seq(Held) /\ outcome.lines \in Seq(Lines)
      /\ \A k \in 1..Len(outcome.choice.calls) : outcome.choice.calls[k] = <<"call", n + 1, k>>
  BY <1>1 DEF Outcomes, Spoke
<1>5. Said \in Seq(Held)
  <2>1. TextOf(outcome.lines) \in Seq(Held)
    BY <1>4, TextOfType
  <2> QED
    BY <1>4, <2>1, ConcatProperties DEF Said
<1> QED
  BY <1>1, <1>2, <1>3, <1>4, <1>5 DEF CallsOf

(* On the anthropic route what the client is given is what was said.        *)
LEMMA AnthropicTaken ==
  ASSUME GatewayInv, exchange = "answered", route = "anthropic", response.status = 200
  PROVE  /\ Values(response.content, {"text", "image", "thinking"}) = Said
         /\ Values(response.content, {"tool_use"}) = outcome.choice.calls
         /\ Values(response.content, {"tool_result"}) = <<>>
         /\ outcome.choice.calls # <<>> => response.stop = "tool_use"
         /\ Due(transcript) = <<>>
<1>1. PICK n \in Nat : n = Len(history) /\ outcome \in Outcomes(n)
  BY HistoryIs DEF GatewayInv, InAnswer
<1>2. ~Streams
  BY DEF Streams
<1>3. outcome.kind # "stream" /\ response = AnthropicReply(outcome)
  BY <1>2 DEF GatewayInv, InAnswer, Spoken
<1>4. outcome.kind = "choice" /\ ~Throws(outcome.choice)
  BY <1>1, <1>3, AnthropicReplyIs
<1>5. /\ response.content = Tagged("text", outcome.choice.text) \o Tagged("tool_use", outcome.choice.calls)
      /\ outcome.choice.calls # <<>> => response.stop = "tool_use"
  BY <1>1, <1>3, <1>4, AnthropicReplyIs
<1>6. outcome.choice.text \in Seq(Held) /\ outcome.choice.calls \in Seq(Held) /\ outcome.lines = <<>>
  BY <1>1, <1>4 DEF Outcomes, Spoke
<1>7. Said = outcome.choice.text
  BY <1>6, TextOfEmpty, ConcatEmptySeq DEF Said
<1>8. Due(transcript) = <<>>
  BY DEF GatewayInv, OnRecord, Asking
<1> QED
  BY <1>5, <1>6, <1>7, <1>8, SpeechIs

LEMMA TakeKeeps ==
  ASSUME GatewayInv, Take
  PROVE  GatewayInv'
<1>1. /\ exchange = "answered" /\ exchange' = "composing" /\ UNCHANGED conversation
      /\ history # <<>> /\ Last(history).role = "user"
  BY DEF Take, GatewayInv, Asking
<1>2. CASE UNCHANGED <<history, transcript>>
  <2>1. Asking' /\ InCall' /\ InAnswer'
    BY <1>1 DEF Asking, InCall, InAnswer
  <2> QED
    BY <1>1, <1>2, <2>1, Kept
<1>3. ASSUME Received, UNCHANGED response,
             history' = Append(history, Message("assistant", response.content)),
             transcript' = Append(transcript,
               [role |-> "assistant", text |-> Said, calls |-> outcome.choice.calls, results |-> <<>>])
      PROVE  GatewayInv'
  <2>1. PICK m : m = Message("assistant", response.content)
    OBVIOUS
  <2>2. PICK e : e = [role |-> "assistant", text |-> Said, calls |-> outcome.choice.calls, results |-> <<>>]
    OBVIOUS
  <2>3. m \in Messages /\ m.role = "assistant" /\ m.content = response.content
    BY <1>1, <2>1, AnsweredWell DEF Message, Messages
  <2>4. /\ e \in SaidTurns /\ e.role = "assistant" /\ e.text = Said /\ e.calls = outcome.choice.calls
        /\ e.results = <<>>
    <3>1. <<>> \in Seq(Held)
      OBVIOUS
    <3> QED
      BY <1>1, <2>2, <3>1, AnsweredWell DEF SaidTurns
  <2>5. CallsOf(e, Len(transcript) + 1)
    <3>1. CallsOf(outcome.choice, Len(history) + 1) /\ Len(history) = Len(transcript)
      BY <1>1, AnsweredWell, HistoryIs
    <3> QED
      BY <2>4, <3>1 DEF CallsOf
  <2>6. ASSUME route = "anthropic"
        PROVE  /\ Tells(e, m) /\ SameMembers(e.results, Due(transcript))
               /\ e.calls # <<>> => response'.stop = "tool_use"
    <3>1. response.status = 200
      BY <1>3 DEF Received
    <3>2. /\ Values(response.content, {"text", "image", "thinking"}) = Said
          /\ Values(response.content, {"tool_use"}) = outcome.choice.calls
          /\ Values(response.content, {"tool_result"}) = <<>>
          /\ outcome.choice.calls # <<>> => response.stop = "tool_use"
          /\ Due(transcript) = <<>>
      BY <1>1, <2>6, <3>1, AnthropicTaken
    <3>3. Tells(e, m)
      BY <2>3, <2>4, <3>2 DEF Tells
    <3>4. SameMembers(e.results, Due(transcript))
      BY <2>4, <3>2, SameAsItself
    <3> QED
      BY <1>3, <2>4, <3>2, <3>3, <3>4
  <2>7. Due(<<e>>) = e.calls
    BY DEF Due, Last
  <2>8. history' = Append(history, m) /\ transcript' = Append(transcript, e)
    BY <1>3, <2>1, <2>2
  <2> QED
    BY <1>1, <2>3, <2>4, <2>5, <2>6, <2>7, <2>8, Taken
<1> QED
  BY <1>2, <1>3 DEF Take

LEMMA WaitKeeps ==
  ASSUME GatewayInv, UpstreamIsEmpty \/ GiveUp
  PROVE  GatewayInv'
<1>1. /\ UNCHANGED <<conversation, history, transcript>> /\ exchange \in {"calling", "waiting"}
      /\ exchange' \in {"waiting", "composing"}
  BY DEF UpstreamIsEmpty, GiveUp
<1>2. history # <<>> /\ Last(history).role = "user"
  BY <1>1 DEF GatewayInv, Asking
<1>3. Asking' /\ InCall' /\ InAnswer'
  BY <1>1, <1>2 DEF Asking, InCall, InAnswer
<1> QED
  BY <1>1, <1>2, <1>3, Kept

LEMMA StutterKeeps ==
  ASSUME GatewayInv, UNCHANGED gatewayVars
  PROVE  GatewayInv'
  BY DEF gatewayVars, conversation, GatewayInv, GatewayTypes, OnRecord, Asking, InCall, InAnswer, Streams,
         Due, Tale

(* In every reachable state of the gateway what is shown, asked and         *)
(* answered goes with the record of what was said.                          *)
THEOREM GatewayHolds == GatewaySpec => []GatewayInv
<1>1. GatewayInit => GatewayInv
  BY GatewayStarts
<1>2. GatewayInv /\ [GatewayNext]_gatewayVars => GatewayInv'
  <2> SUFFICES ASSUME GatewayInv, [GatewayNext]_gatewayVars PROVE GatewayInv'
    OBVIOUS
  <2>1. CASE Compose
    BY <2>1, ComposeKeeps
  <2>2. CASE Post
    BY <2>2, PostKeeps
  <2>3. CASE Take
    BY <2>3, TakeKeeps
  <2>4. CASE GiveUp \/ UpstreamIsEmpty
    BY <2>4, WaitKeeps
  <2>5. CASE UpstreamRefuses
    BY <2>5, RefusesKeeps
  <2>6. CASE UpstreamAnswers
    BY <2>6, GatewayAssumption, AnswersKeeps
  <2>7. CASE UpstreamStreams
    BY <2>7, GatewayAssumption, StreamsKeeps
  <2>8. CASE UNCHANGED gatewayVars
    BY <2>8, StutterKeeps
  <2> QED
    BY <2>1, <2>2, <2>3, <2>4, <2>5, <2>6, <2>7, <2>8 DEF GatewayNext
<1> QED
  BY <1>1, <1>2, PTL DEF GatewaySpec

-----------------------------------------------------------------------------
(* What the invariant says.                                                 *)

LEMMA TurnsTold ==
  ASSUME NEW out \in Seq(Chats), NEW tr \in Seq(SaidTurns), NEW sys, Tale(out, tr, sys)
  PROVE  /\ Turns(out) \in Seq(Chats) /\ DOMAIN Turns(out) = 1..Len(tr) /\ Len(Turns(out)) = Len(tr)
         /\ \A i \in 1..Len(tr) :
              /\ Turns(out)[i].role = tr[i].role
              /\ Turns(out)[i].text = OrBlank(tr[i].text)
              /\ ToSet(Turns(out)[i].calls) = {Last(c) : c \in {tr[i].calls} \ {<<>>}}
<1>1. PICK s \in Seq(Chats) : s = Turns(out)
  BY TakenTypes, TurnsIs, SievedType
<1>2. Len(s) = Len(tr) /\ \A i \in 1..Len(tr) : Alike(s[i], tr[i])
  BY <1>1 DEF Tale, TurnsSeen
<1>3. DOMAIN s = 1..Len(tr)
  BY <1>2
<1>4. ASSUME NEW i \in 1..Len(tr)
      PROVE  ToSet(s[i].calls) = {Last(c) : c \in {tr[i].calls} \ {<<>>}}
  <2>1. s[i].calls = LastOnly(tr[i].calls)
    BY <1>2 DEF Alike
  <2>2. CASE tr[i].calls = <<>>
    <3>1. s[i].calls = <<>> /\ DOMAIN <<>> = {}
      BY <2>1, <2>2 DEF LastOnly
    <3> QED
      BY <2>2, <3>1 DEF ToSet
  <2>3. CASE tr[i].calls # <<>>
    <3>1. PICK l : l = Last(tr[i].calls)
      OBVIOUS
    <3>2. s[i].calls = <<l>>
      BY <2>1, <2>3, <3>1 DEF LastOnly
    <3>3. ToSet(<<l>>) = {l}
      BY DEF ToSet
    <3> QED
      BY <2>3, <3>1, <3>2, <3>3
  <2> QED
    BY <2>2, <2>3
<1> QED
  BY <1>1, <1>2, <1>3, <1>4 DEF Alike

LEMMA FailedIs ==
  ASSUME NEW r \in {"anthropic", "messages", "chat"}, NEW o, o.kind = "failed"
  PROVE  Spoken(r, o).status = 500
<1>1. PICK k : k = 500
  OBVIOUS
<1>2. ErrorStatus("api_error", 502) = k /\ ErrorStatus("api_error", 500) = k
  BY <1>1 DEF ErrorStatus
<1>3. AnthropicReply(o) = ErrorResponse(ErrorStatus("api_error", 502))
  BY DEF AnthropicReply
<1>4. MessagesReply(o) = ErrorResponse(ErrorStatus("api_error", 500))
  BY DEF MessagesReply
<1>5. ChatReply(o) = ErrorResponse(k)
  BY <1>1 DEF ChatReply
<1>6. Spoken(r, o) = ErrorResponse(k)
  BY <1>2, <1>3, <1>4, <1>5 DEF Spoken
<1> QED
  BY <1>1, <1>6, ErrorIs

LEMMA TaleAsked ==
  ASSUME GatewayInv, Asked
  PROVE  /\ request \in Seq(Chats) /\ transcript \in Seq(SaidTurns)
         /\ Tale(request, transcript, system) /\ Due(transcript) = <<>>
<1>1. /\ request = AnthropicToOpenAI(system, history) /\ transcript \in Seq(SaidTurns)
      /\ system \in Seq(Held) /\ history \in Seq(Messages)
  BY DEF Asked, GatewayInv, GatewayTypes, InCall
<1>2. Tale(request, transcript, system) /\ Due(transcript) = <<>>
  BY <1>1 DEF Asked, GatewayInv, OnRecord, Asking
<1>3. request \in Seq(Chats)
  <2>1. PICK m : m \in Messages
    BY <1>1, LastIs DEF Asked, GatewayInv, Asking
  <2> QED
    BY <1>1, <2>1, ShownOn
<1> QED
  BY <1>1, <1>2, <1>3

(* ModelSeesItself: the upstream keeps nothing, and what the translation of *)
(* a request shows it is what was said: each turn once, in order, after the *)
(* system prompt.                                                           *)
THEOREM GatewayModelSeesItself == GatewaySpec => []ModelSeesItself
<1>1. ASSUME GatewayInv
      PROVE  ModelSeesItself
  <2> SUFFICES ASSUME Asked
               PROVE  /\ Len(Turns(request)) = Len(transcript)
                      /\ \A i \in DOMAIN Turns(request) :
                           /\ Turns(request)[i].role = transcript[i].role
                           /\ Turns(request)[i].text = OrBlank(transcript[i].text)
                           /\ ToSet(Turns(request)[i].calls)
                                = {Last(c) : c \in {transcript[i].calls} \ {<<>>}}
                      /\ \A i \in DOMAIN request : request[i].role = "system" <=> i = 1 /\ system # <<>>
    BY DEF ModelSeesItself
  <2>1. /\ request \in Seq(Chats) /\ transcript \in Seq(SaidTurns) /\ Tale(request, transcript, system)
    BY <1>1, TaleAsked
  <2>2. DOMAIN request = 1..Len(request)
    BY <2>1
  <2>3. \A i \in 1..Len(request) : request[i].role = "system" <=> i = 1 /\ system # <<>>
    BY <2>1 DEF Tale, PromptFirst
  <2>4. /\ DOMAIN Turns(request) = 1..Len(transcript) /\ Len(Turns(request)) = Len(transcript)
        /\ \A i \in 1..Len(transcript) :
              /\ Turns(request)[i].role = transcript[i].role
              /\ Turns(request)[i].text = OrBlank(transcript[i].text)
              /\ ToSet(Turns(request)[i].calls) = {Last(c) : c \in {transcript[i].calls} \ {<<>>}}
    BY <2>1, TurnsTold
  <2> QED
    BY <2>2, <2>3, <2>4
<1> QED
  BY <1>1, GatewayHolds, PTL

(* ToolTurnsPaired: in a translated request each call that is shown is      *)
(* followed by its result, with nothing but results in between, and no      *)
(* result of a single call comes before it.                                 *)
THEOREM GatewayToolTurnsPaired == GatewaySpec => []ToolTurnsPaired
<1>1. ASSUME GatewayInv
      PROVE  ToolTurnsPaired
  <2> SUFFICES ASSUME Asked
               PROVE  /\ \A i \in DOMAIN request : request[i].calls # <<>> =>
                           \E j \in (i + 1)..Len(request) :
                             /\ request[j].answers = request[i].calls[1]
                             /\ \A k \in (i + 1)..j : request[k].role = "tool"
                      /\ \A t \in ToSet(transcript) : \A j \in DOMAIN request :
                           Len(t.calls) = 1 /\ request[j].answers = t.calls[1] =>
                             \E i \in 1..(j - 1) : request[i].calls = t.calls
    BY DEF ToolTurnsPaired
  <2>1. /\ request \in Seq(Chats) /\ transcript \in Seq(SaidTurns) /\ Due(transcript) = <<>>
        /\ OpenLast(request, transcript) /\ CallsAnswered(request) /\ Linked(request, transcript)
    BY <1>1, TaleAsked DEF Tale
  <2>2. DOMAIN request = 1..Len(request) /\ Len(request) \in Nat /\ DOMAIN transcript = 1..Len(transcript)
    BY <2>1
  <2>3. ASSUME NEW i \in 1..Len(request), request[i].calls # <<>>
        PROVE  AnsweredAt(request, i)
    <3>1. LastOnly(Due(transcript)) = <<>>
      BY <2>1 DEF LastOnly
    <3>2. i \in 1..(Len(request) - 1)
      <4>1. PICK n \in Nat : n = Len(request) /\ i \in 1..n
        BY <2>2
      <4>2. n >= 1
        BY <4>1
      <4>3. request[n].calls = <<>>
        BY <2>1, <3>1, <4>1, <4>2 DEF OpenLast
      <4>4. i # n
        BY <2>3, <4>3
      <4>5. i \in 1..(n - 1)
        BY <4>1, <4>4
      <4> QED
        BY <4>1, <4>5
    <3> QED
      BY <2>1, <2>3, <3>2 DEF CallsAnswered
  <2>4. ASSUME NEW t \in ToSet(transcript), NEW j \in 1..Len(request),
               Len(t.calls) = 1, request[j].answers = t.calls[1]
        PROVE  CalledBefore(request, j, t.calls)
    <3>1. PICK n \in 1..Len(transcript) : t = transcript[n]
      BY <2>2 DEF ToSet
    <3> QED
      BY <2>1, <2>4, <3>1 DEF Linked
  <2> QED
    BY <2>2, <2>3, <2>4 DEF AnsweredAt, CalledBefore
<1> QED
  BY <1>1, GatewayHolds, PTL

(* SuccessIsAnswer: the client is given a message exactly when the upstream *)
(* made a choice that can be read, and otherwise the status that tells it   *)
(* what to do; a call that failed is an error on each route.                *)
THEOREM GatewaySuccessIsAnswer == GatewaySpec => []SuccessIsAnswer
<1>1. ASSUME GatewayInv
      PROVE  SuccessIsAnswer
  <2> SUFFICES ASSUME exchange = "answered"
               PROVE  /\ response.ended
                      /\ route = "anthropic" =>
                           /\ response.status = 200 <=> outcome.kind = "choice" /\ ~Throws(outcome.choice)
                           /\ outcome.kind = "refused" =>
                                response.status = IF outcome.status \in {401, 403, 429} THEN outcome.status ELSE 500
                      /\ outcome.kind = "failed" => ~Received
    BY DEF SuccessIsAnswer
  <2>1. PICK n \in Nat : n = Len(history) /\ outcome \in Outcomes(n)
    BY <1>1, HistoryIs DEF GatewayInv, InAnswer
  <2>2. response.ended
    BY <1>1, AnsweredWell DEF Finished
  <2>3. ~Streams => outcome.kind # "stream" /\ response = Spoken(route, outcome)
    BY <1>1 DEF GatewayInv, InAnswer
  <2>4. Streams => response = Streamed(route, outcome) /\ route \in {"messages", "chat"}
    BY <1>1, StreamsOn DEF GatewayInv, InAnswer
  <2>5. ASSUME route = "anthropic"
        PROVE  /\ response.status = 200 <=> outcome.kind = "choice" /\ ~Throws(outcome.choice)
               /\ outcome.kind = "refused" =>
                    response.status = IF outcome.status \in {401, 403, 429} THEN outcome.status ELSE 500
    <3>1. ~Streams
      BY <2>5 DEF Streams
    <3>2. outcome.kind # "stream" /\ response = AnthropicReply(outcome)
      BY <2>3, <2>5, <3>1 DEF Spoken
    <3> QED
      BY <2>1, <3>2, AnthropicReplyIs
  <2>6. ASSUME outcome.kind = "failed"
        PROVE  ~Received
    <3>1. CASE Streams
      <4>1. PICK e \in Wire : e = Event("error", 0) /\ e.event = "error"
        BY EventIs, SignalsAre
      <4>2. response.events = Before(route) \o <<e>> /\ Before(route) \in Seq(Wire)
        BY <2>1, <2>4, <2>6, <3>1, <4>1, StreamedIs, BeforeIs DEF Sent
      <4>3. Last(response.events) = e
        <5>1. PICK q \in Seq(Wire) : q = Before(route)
          BY <4>2
        <5>2. q \o <<e>> = Append(q, e)
          BY WithOne
        <5>3. Last(Append(q, e)) = e
          BY AppendedIs
        <5> QED
          BY <4>2, <5>1, <5>2, <5>3
      <4> QED
        BY <2>4, <3>1, <4>1, <4>3 DEF Received
    <3>2. CASE ~Streams
      <4>1. route \in {"anthropic", "messages", "chat"}
        BY <1>1 DEF GatewayInv, GatewayTypes
      <4>2. Spoken(route, outcome).status = 500
        BY <2>6, <4>1, FailedIs
      <4> QED
        BY <2>3, <3>2, <4>2 DEF Received
    <3> QED
      BY <3>1, <3>2
  <2> QED
    BY <2>2, <2>5, <2>6
<1> QED
  BY <1>1, GatewayHolds, PTL

(* StreamReadBack: a stream that says nothing after its end is read by the  *)
(* client as the upstream said it, ends once, and makes a message unless a  *)
(* tool is called in it.                                                    *)
THEOREM GatewayStreamReadBack == GatewaySpec => []StreamReadBack
<1>1. ASSUME GatewayInv
      PROVE  StreamReadBack
  <2> SUFFICES ASSUME exchange = "answered", Streams, outcome.kind = "stream"
               PROVE  /\ EndsInTime(outcome.lines) => TextRead(response.events) = TextOf(outcome.lines)
                      /\ \A i \in DOMAIN response.events :
                           response.events[i] = Last(response.events) <=> i = Len(response.events)
                      /\ (\A l \in ToSet(outcome.lines) : l.kind # "tool") => Received
    BY DEF StreamReadBack
  <2>1. PICK n \in Nat : outcome \in Outcomes(n)
    BY <1>1, HistoryIs DEF GatewayInv, InAnswer
  <2>2. outcome.lines \in Seq(Lines) /\ route \in {"messages", "chat"}
    BY <2>1, StreamsOn DEF Outcomes
  <2>3. response = Streamed(route, outcome)
    BY <1>1 DEF GatewayInv, InAnswer
  <2>4. response.events = Before(route) \o Sent(route, outcome)
    BY <2>1, <2>2, <2>3, StreamedIs
  <2>5. PICK q \in Seq(Wire), e \in Wire :
          /\ e.event = IF route = "messages" THEN "message_stop" ELSE "[DONE]"
          /\ Before(route) \o Sent(route, outcome) = Append(q, e)
          /\ EndsWith(Append(q, e), e)
          /\ EndsInTime(outcome.lines) => TextRead(Append(q, e)) = TextOf(outcome.lines)
          /\ route = "messages" /\ ToolFree(outcome.lines) => Complete(Append(q, e))
    BY <2>2, ToldIs
  <2>6. response.events = Append(q, e)
    BY <2>4, <2>5
  <2>7. Last(response.events) = e /\ \A i \in DOMAIN response.events :
          response.events[i] = e <=> i = Len(response.events)
    BY <2>5, <2>6 DEF EndsWith
  <2>8. ASSUME \A l \in ToSet(outcome.lines) : l.kind # "tool"
        PROVE  Received
    <3>1. ToolFree(outcome.lines)
      <4>1. \A i \in DOMAIN outcome.lines : outcome.lines[i].kind # "tool"
        BY <2>8 DEF ToSet
      <4>2. DOMAIN outcome.lines = 1..Len(outcome.lines)
        BY <2>2
      <4> QED
        BY <4>1, <4>2 DEF ToolFree
    <3>2. response.status = 200
      BY <2>3 DEF Streamed, Response
    <3> QED
      BY <2>2, <2>5, <2>6, <2>7, <3>1, <3>2 DEF Received
  <2> QED
    BY <2>5, <2>6, <2>7, <2>8
<1> QED
  BY <1>1, GatewayHolds, PTL
================================================================================
