---------------------------- MODULE MessagesGateway ----------------------------
(***************************************************************************)
(* A client that holds a conversation with tools over one of the routes    *)
(* that translate it for an OpenAI-style upstream:                         *)
(*                                                                         *)
(*   anthropic  POST /v1/messages of the Anthropic server, not streaming   *)
(*              (AnthropicStream has its streams),                         *)
(*   messages   POST /v1/messages of the compatibility server,             *)
(*   chat       POST /v1/chat/completions of the compatibility server.     *)
(*                                                                         *)
(* The gateway keeps nothing of a conversation: it sees each request of    *)
(* the client whole, translates it, asks the upstream, and translates the  *)
(* answer, which the client appends to its history, runs the tools of, and *)
(* sends back.  HttpAgent reads an answer to its end before it is used, so *)
(* what follows the upstream call is one step.                             *)
(***************************************************************************)
EXTENDS ProtocolTranslation

CONSTANTS
  MaxMessages,  \* bound of the messages of a conversation
  MaxStreamLines,     \* bound of the lines of one stream
  MaxCalls      \* bound of the tool calls of one answer

ASSUME GatewayAssumption == {MaxMessages, MaxStreamLines, MaxCalls} \subseteq Nat

VARIABLES
  route,
  system,      \* the system prompt, or <<>>
  stream,      \* the field stream of the requests: "true", "false" or "absent"
  history,     \* the messages of the conversation, as the client keeps them
  exchange,    \* how far the exchange with the upstream is
  request,     \* the messages the upstream was asked with
  outcome,     \* what it answered
  response,    \* what the client was answered
  transcript   \* history: what each side has said

conversation == <<route, system, stream>>
gatewayVars == <<conversation, history, exchange, request, outcome, response, transcript>>

(* Statuses the upstream refuses with, an answer without a choice, and a    *)
(* call that fails.                                                         *)
Refusals == {401, 403, 429, 500, 503}
NoOutcome == [kind |-> "none", status |-> 0, choice |-> <<>>, lines |-> <<>>]
Outcome(kind, status, choice, lines) ==
  [kind |-> kind, status |-> status, choice |-> choice, lines |-> lines]

NoResponse == [status |-> 0, content |-> <<>>, stop |-> "null", events |-> <<>>, ended |-> FALSE]
Response(status, content, stop, events) ==
  [status |-> status, content |-> content, stop |-> stop, events |-> events, ended |-> TRUE]
ErrorResponse(status) == Response(status, <<>>, "null", <<>>)

(* A stream unless told not to, or only when told so.                       *)
Streams ==
  \/ route = "messages" /\ stream # "false"
  \/ route = "chat" /\ stream = "true"

GatewayInit ==
  /\ route \in {"anthropic", "messages", "chat"}
  /\ system \in {<<>>, <<<<"system", 0>>>>}
  /\ stream \in (IF route = "anthropic" THEN {"false", "absent"} ELSE {"true", "false", "absent"})
  /\ history = <<>>
  /\ exchange = "composing"
  /\ request = <<>>
  /\ outcome = NoOutcome
  /\ response = NoResponse
  /\ transcript = <<>>

-----------------------------------------------------------------------------
(* The client.                                                              *)

Piece(kind) == <<kind, Len(history) + 1>>

(* The calls of the last message, which the client has to answer.           *)
Pending ==
  IF history = <<>> \/ response.stop # "tool_use" THEN <<>>
  ELSE Values(Last(history).content, {"tool_use"})

Added(role, content) ==
  /\ history' = Append(history, Message(role, content))
  /\ transcript' = Append(transcript,
       [role    |-> role,
        text    |-> Values(content, {"text", "image"}),
        calls   |-> <<>>,
        results |-> Values(content, {"tool_result"})])

(* A new message, or the results of all pending calls, in any order, with   *)
(* or without a remark before or after them.                                *)
Compose ==
  /\ exchange = "composing"
  /\ Len(history) < MaxMessages
  /\ history # <<>> => Last(history).role = "assistant"
  /\ LET said == Block("text", Piece("said"))
         results(ids) == [i \in DOMAIN ids |-> Block("tool_result", ids[i])]
     IN  IF Pending = <<>>
         THEN \E content \in {<<said>>, <<said, Block("image", Piece("image"))>>} :
                Added("user", content)
         ELSE \E ids \in {Pending, Reverse(Pending)} :
                \E content \in {results(ids), <<said>> \o results(ids), Append(results(ids), said)} :
                  Added("user", content)
  /\ UNCHANGED <<conversation, exchange, request, outcome, response>>

-----------------------------------------------------------------------------
(* The request, up to the call of the upstream.  handleAnthropicMessages()  *)
(* hands on the messages as they are, and neither system prompt nor tools.  *)

(* The same conversation in the form of an OpenAI client.                   *)
AsChat(messages) ==
  (IF system = <<>> THEN <<>> ELSE <<ChatMessage("system", system, <<>>, NoCall)>>)
    \o [i \in DOMAIN messages |->
          ChatMessage(messages[i].role, Values(messages[i].content, {"text", "image"}), <<>>, NoCall)]

Forwarded ==
  CASE route = "anthropic" -> AnthropicToOpenAI(system, history)
    [] route = "messages"  -> history
    [] route = "chat"      -> FromOpenAI(AsChat(history))

Post ==
  /\ exchange = "composing"
  /\ history # <<>> /\ Last(history).role = "user"
  /\ exchange' = "calling"
  /\ request' = Forwarded
  /\ outcome' = NoOutcome
  /\ response' = [NoResponse EXCEPT
       !.status = IF Streams THEN 200 ELSE 0,
       !.events = IF Streams /\ route = "messages" THEN Preamble ELSE <<>>]
  /\ UNCHANGED <<conversation, history, transcript>>

-----------------------------------------------------------------------------
(* The upstream and the answer to the client.                               *)

(* _handleNonStream(): what the status of an upstream's refusal becomes.    *)
RefusalType(status) ==
  CASE status = 429 -> "rate_limit_error"
    [] status = 401 -> "authentication_error"
    [] status = 403 -> "permission_error"
    [] OTHER -> "api_error"

(* extractFromOpenAI(): without a reason it has stopped.                    *)
Extracted(choice) == [choice EXCEPT !.finish = IF @ = "absent" THEN "stop" ELSE @]

Formatted(choice) ==
  IF Throws(choice) THEN ErrorResponse(500)
  ELSE Response(200, FormatResponse(choice).content, FormatResponse(choice).stop, <<>>)

Silence == [text |-> <<>>, calls |-> <<>>, parses |-> TRUE, finish |-> "absent"]

(* Faulty variant: an answer without a choice is taken for one of silence.  *)
AnthropicReplySilent(o) ==
  CASE o.kind = "failed"     -> ErrorResponse(ErrorStatus("api_error", 502))
    [] o.kind = "refused"    -> ErrorResponse(ErrorStatus(RefusalType(o.status), o.status))
    [] o.kind = "choiceless" -> Formatted(Extracted(Silence))
    [] o.kind = "choice"     -> Formatted(Extracted(o.choice))

(* _handleNonStream(), after the upstream call; the server answers 500 when *)
(* the formatter throws.                                                    *)
AnthropicReply(o) ==
  CASE o.kind = "failed"     -> ErrorResponse(ErrorStatus("api_error", 502))
    [] o.kind = "refused"    -> ErrorResponse(ErrorStatus(RefusalType(o.status), o.status))
    [] o.kind = "choiceless" -> ErrorResponse(ErrorStatus("api_error", o.status))
    [] o.kind = "choice"     -> Formatted(Extracted(o.choice))

(* handleAnthropicMessages(), not streaming: the status is not looked at,   *)
(* and an answer without a choice is one without content.                   *)
MessagesReply(o) ==
  IF o.kind = "failed" THEN ErrorResponse(ErrorStatus("api_error", 500))
  ELSE Formatted(IF o.kind = "choice" THEN o.choice ELSE Silence)

(* _handleSingle() and _toOpenAI(): of the answer only the text goes on.    *)
ChatReply(o) ==
  LET choice == IF o.kind = "choice" THEN o.choice ELSE Silence
  IN  IF o.kind = "failed" THEN ErrorResponse(500)
      ELSE Response(200, [i \in DOMAIN choice.text |-> Block("text", choice.text[i])],
                    Extracted(choice).finish, <<>>)

(* Both streams: a refusal is a stream in which no line matters.            *)
StreamReply(o) ==
  LET events == IF o.kind = "failed" THEN <<Event("error", 0)>>
                ELSE IF route = "messages" THEN MessageEvents(o.lines)
                ELSE ChunkEvents(o.lines)
  IN  Response(200, [i \in DOMAIN TextRead(events) |-> Block("text", TextRead(events)[i])],
               "null", response.events \o events)

Reply(o) ==
  CASE Streams -> StreamReply(o)
    [] ~Streams /\ route = "anthropic" -> AnthropicReply(o)
    [] ~Streams /\ route = "messages"  -> MessagesReply(o)
    [] ~Streams /\ route = "chat"      -> ChatReply(o)

Settle(o) ==
  /\ exchange = "calling"
  /\ outcome' = o
  /\ response' = Reply(o)
  /\ exchange' = "answered"
  /\ UNCHANGED <<conversation, history, request, transcript>>

UpstreamRefuses ==
  \/ Settle(Outcome("failed", 0, Silence, <<>>))
  \/ \E status \in Refusals : Settle(Outcome("refused", status, Silence, <<>>))
  \/ ~Streams /\ Settle(Outcome("choiceless", 200, Silence, <<>>))

UpstreamAnswers ==
  /\ ~Streams
  /\ \E text \in {<<>>, <<Piece("said")>>}, calls \in 0..MaxCalls, parses \in BOOLEAN,
        finish \in {"stop", "length", "tool_calls", "absent"} :
       /\ calls = 0 => parses
       /\ Settle(Outcome("choice", 200,
            [text |-> text, calls |-> [k \in 1..calls |-> <<"call", Len(history) + 1, k>>],
             parses |-> parses, finish |-> finish], <<>>))

UpstreamStreams ==
  /\ Streams
  /\ \E n \in 0..MaxStreamLines : \E kinds \in [1..n -> {"text", "tool", "finish", "done", "other"}] :
       Settle(Outcome("stream", 200, Silence,
         [k \in 1..n |-> [kind |-> kinds[k], piece |-> <<"said", Len(history) + 1, k>>]]))

(* if (response.raw) has no other branch: when the body of the answer is    *)
(* empty the response of a stream is never ended ...                        *)
UpstreamIsEmpty ==
  /\ Streams /\ exchange = "calling"
  /\ exchange' = "waiting"
  /\ UNCHANGED <<conversation, history, request, outcome, response, transcript>>

(* ... until the client gives up.                                           *)
GiveUp ==
  /\ exchange = "waiting"
  /\ exchange' = "composing"
  /\ response' = NoResponse
  /\ UNCHANGED <<conversation, history, request, outcome, transcript>>

-----------------------------------------------------------------------------
(* Whether the client has a message.                                        *)
Received ==
  /\ response.status = 200
  /\ Streams => LET last == Last(response.events).event IN
       /\ route = "messages" => Complete(response.events) /\ last = "message_stop"
       /\ route = "chat" => last = "[DONE]"

(* What the upstream has said.                                              *)
Said == outcome.choice.text \o TextOf(outcome.lines)

(* The client takes the message for its history, or tries again.            *)
Take ==
  /\ exchange = "answered"
  /\ exchange' = "composing"
  /\ \/ /\ Received
        /\ history' = Append(history, Message("assistant", response.content))
        /\ transcript' = Append(transcript,
             [role |-> "assistant", text |-> Said, calls |-> outcome.choice.calls, results |-> <<>>])
        /\ UNCHANGED response
     \/ /\ ~Received
        /\ response' = NoResponse
        /\ UNCHANGED <<history, transcript>>
  /\ UNCHANGED <<conversation, request, outcome>>

GatewayNext ==
  \/ Compose \/ Post \/ Take \/ GiveUp
  \/ UpstreamRefuses \/ UpstreamAnswers \/ UpstreamStreams \/ UpstreamIsEmpty

GatewaySpec == GatewayInit /\ [][GatewayNext]_gatewayVars

-----------------------------------------------------------------------------
Asked == route = "anthropic" /\ exchange = "calling"

(* What either side has said, apart from the results of tools.              *)
Turns(messages) ==
  FoldLeft(LAMBDA turns, m : IF m.role \in {"tool", "system"} THEN turns ELSE Append(turns, m),
           <<>>, messages)

(* The upstream keeps nothing either, so what it is shown must be what was  *)
(* said: apart from the results of tools it finds one message for each turn *)
(* of either side, in their order, with its text, or a blank, and with the  *)
(* last of its calls, after the system prompt.                              *)
ModelSeesItself ==
  Asked =>
    LET turns == Turns(request) IN
    /\ Len(turns) = Len(transcript)
    /\ \A i \in DOMAIN turns :
         /\ turns[i].role = transcript[i].role
         /\ turns[i].text = OrBlank(transcript[i].text)
         /\ ToSet(turns[i].calls) = {Last(c) : c \in {transcript[i].calls} \ {<<>>}}
    /\ \A i \in DOMAIN request :
         request[i].role = "system" <=> i = 1 /\ system # <<>>

(* An OpenAI upstream refuses a conversation in which a call is not         *)
(* answered before anything else is said: whatever the client says beside   *)
(* its results, each call that is shown is followed by its result with      *)
(* nothing but results in between, and each result of a turn with a single  *)
(* call comes after that call.                                              *)
ToolTurnsPaired ==
  Asked =>
    /\ \A i \in DOMAIN request : request[i].calls # <<>> =>
         \E j \in (i + 1)..Len(request) :
           /\ request[j].answers = request[i].calls[1]
           /\ \A k \in (i + 1)..j : request[k].role = "tool"
    /\ \A t \in ToSet(transcript) : \A j \in DOMAIN request :
         Len(t.calls) = 1 /\ request[j].answers = t.calls[1] =>
           \E i \in 1..(j - 1) : request[i].calls = t.calls

(* On the anthropic route the client is given a message exactly when the    *)
(* upstream made a choice that can be read, and an error the cause of which *)
(* is the upstream's keeps the status that tells it to log in, to ask for   *)
(* permission or to slow down; a call that failed is an error on each       *)
(* route.                                                                   *)
SuccessIsAnswer ==
  exchange = "answered" =>
    /\ response.ended
    /\ route = "anthropic" =>
         /\ response.status = 200 <=> outcome.kind = "choice" /\ ~Throws(outcome.choice)
         /\ outcome.kind = "refused" =>
              response.status = IF outcome.status \in {401, 403, 429} THEN outcome.status ELSE 500
    /\ outcome.kind = "failed" => ~Received

(* A stream that says nothing after its end is read by the client as the    *)
(* upstream said it: nothing of it is lost, doubled or reordered, and it    *)
(* makes a message, unless a tool is called in it.                          *)
StreamReadBack ==
  exchange = "answered" /\ Streams /\ outcome.kind = "stream" =>
    LET end == Last(response.events) IN
    /\ EndsInTime(outcome.lines) => TextRead(response.events) = TextOf(outcome.lines)
    /\ \A i \in DOMAIN response.events :
         response.events[i] = end <=> i = Len(response.events)
    /\ (\A l \in ToSet(outcome.lines) : l.kind # "tool") => Received
=============================================================================
