-------------------------- MODULE ProtocolTranslation --------------------------
(***************************************************************************)
(* The conversions between the Anthropic and the OpenAI protocol that      *)
(* src/src/translator, src/src/formatter and src/src/compatibility share:  *)
(* requests, answers, stop reasons, statuses and events.                   *)
(*                                                                         *)
(* A text is a sequence of pieces that are told apart but never looked     *)
(* into; joining texts is concatenation.  A block of an Anthropic message  *)
(* holds a piece (text, image, thinking) or the id of a tool call          *)
(* (tool_use, tool_result).                                                *)
(***************************************************************************)
EXTENDS SseGrammar

Block(type, value) == [type |-> type, value |-> value]
Message(role, content) == [role |-> role, content |-> content]

(* A message of an OpenAI conversation; a tool message answers a call.      *)
ChatMessage(role, text, calls, answers) ==
  [role |-> role, text |-> text, calls |-> calls, answers |-> answers]
NoCall == <<"call", 0, 0>>

(* What the blocks of some types hold.                                      *)
Values(content, types) ==
  FoldLeft(LAMBDA values, b : IF b.type \in types THEN Append(values, b.value) ELSE values,
           <<>>, content)

(* textParts.join('\n') || ' '                                              *)
OrBlank(text) == IF text = <<>> THEN <<<<"blank", 0>>>> ELSE text

(* Faulty variant: the message goes before the results it contains.         *)
TranslatedInOrder(msg) ==
  LET calls == Values(msg.content, {"tool_use"})
      results == Values(msg.content, {"tool_result"})
  IN  <<ChatMessage(msg.role, OrBlank(Values(msg.content, {"text", "image", "thinking"})),
                    IF calls = <<>> THEN <<>> ELSE <<Last(calls)>>, NoCall)>>
      \o [i \in DOMAIN results |-> ChatMessage("tool", <<<<"result", 0>>>>, <<>>, results[i])]

(* One message of anthropicToOpenAI(): every tool result becomes a message  *)
(* of its own, before the message itself, which is there even when nothing  *)
(* else is in it; of its tool calls the assignment keeps the last.          *)
Translated(msg) ==
  LET calls == Values(msg.content, {"tool_use"})
      results == Values(msg.content, {"tool_result"})
  IN  [i \in DOMAIN results |-> ChatMessage("tool", <<<<"result", 0>>>>, <<>>, results[i])]
      \o <<ChatMessage(msg.role, OrBlank(Values(msg.content, {"text", "image", "thinking"})),
                       IF calls = <<>> THEN <<>> ELSE <<Last(calls)>>, NoCall)>>

(* anthropicToOpenAI(); system is the system prompt, <<>> without one.      *)
AnthropicToOpenAI(system, messages) ==
  FoldLeft(LAMBDA translated, msg : translated \o Translated(msg),
           IF system = <<>> THEN <<>> ELSE <<ChatMessage("system", system, <<>>, NoCall)>>,
           messages)

(* _fromOpenAI() and the messages that the engine of the compatibility      *)
(* server makes of its result: system messages are taken out, and of the    *)
(* others role and content go on.                                           *)
FromOpenAI(messages) ==
  LET rest == SelectSeq(messages, LAMBDA msg : msg.role # "system")
  IN  [i \in DOMAIN rest |-> ChatMessage(rest[i].role, rest[i].text, <<>>, NoCall)]

-----------------------------------------------------------------------------
(* A choice of an OpenAI answer: parses says whether the arguments of its   *)
(* tool calls are JSON.                                                     *)

(* _mapStopReason() of the formatter.                                       *)
StopReason(finish, calls) ==
  IF calls # <<>> THEN "tool_use"
  ELSE CASE finish \in {"stop", "end_turn", "content_filter"} -> "end_turn"
         [] finish = "length" -> "max_tokens"
         [] finish = "tool_calls" -> "tool_use"
         [] OTHER -> "null"

(* Faulty variant: text beside tool calls is left out.                      *)
FormatResponseOfTools(choice) ==
  [content |-> (IF choice.text = <<>> \/ choice.calls # <<>> THEN <<>>
                ELSE <<Block("text", choice.text[1])>>)
                 \o [i \in DOMAIN choice.calls |-> Block("tool_use", choice.calls[i])],
   stop |-> StopReason(choice.finish, choice.calls)]

(* formatResponse(), when it does not throw.                                *)
FormatResponse(choice) ==
  [content |-> (IF choice.text = <<>> THEN <<>> ELSE <<Block("text", choice.text[1])>>)
                 \o [i \in DOMAIN choice.calls |-> Block("tool_use", choice.calls[i])],
   stop |-> StopReason(choice.finish, choice.calls)]

Throws(choice) == choice.calls # <<>> /\ ~choice.parses

(* The status of formatError(): the type of the error decides, and the      *)
(* status asked for only where the type has none.                           *)
ErrorStatus(type, status) ==
  CASE type = "authentication_error" -> 401
    [] type = "permission_error" -> 403
    [] type = "rate_limit_error" -> 429
    [] type = "api_error" -> 500
    [] OTHER -> status

-----------------------------------------------------------------------------
(* Streams.  A line of an OpenAI stream is a delta of text, the start of a  *)
(* tool call, the reason for which it finished, the end mark, or nothing    *)
(* that matters.                                                            *)

UpTo(lines, marks) ==
  LET cuts == {i \in DOMAIN lines : lines[i].kind \in marks}
  IN  IF cuts = {} THEN lines ELSE SubSeq(lines, 1, Min(cuts) - 1)

TextOf(lines) ==
  FoldLeft(LAMBDA text, l : IF l.kind = "text" THEN Append(text, l.piece) ELSE text, <<>>, lines)

(* A delta carries its piece.                                               *)
TextDelta(kind, index, piece) == [event |-> kind, index |-> index, piece |-> piece]

TextRead(events) ==
  FoldLeft(LAMBDA text, e : IF "piece" \in DOMAIN e THEN Append(text, e.piece) ELSE text, <<>>, events)

(* The events for one line in handleAnthropicMessages(), s being the events *)
(* so far and the index of the block.                                       *)
Converted(s, line) ==
  CASE line.kind = "text" ->
         [s EXCEPT !.events = Append(@, TextDelta("content_block_delta", s.index, line.piece))]
    [] line.kind = "tool" ->
         [events |-> s.events \o <<Event("content_block_start", s.index + 1),
                                   Event("content_block_delta", s.index + 1)>>,
          index |-> s.index + 1]
    [] OTHER -> s

Preamble == <<Event("ping", 0), Event("message_start", 0)>>

(* Faulty variant: the block of text is started with its first delta.       *)
MessageEventsStartingLate(lines) ==
  LET body == FoldLeft(Converted, [events |-> <<>>, index |-> 0], UpTo(lines, {"done"}))
  IN  body.events \o <<Event("content_block_stop", body.index)>>
        \o <<Event("message_delta", 0), Event("message_stop", 0)>>

(* All events after the preamble: a block of text is always started, the    *)
(* last block is stopped, and once more when it is not the first.           *)
MessageEvents(lines) ==
  LET body == FoldLeft(Converted,
                       [events |-> <<Event("content_block_start", 0)>>, index |-> 0],
                       UpTo(lines, {"done"}))
      stop == <<Event("content_block_stop", body.index)>>
  IN  body.events \o stop \o (IF body.index > 0 THEN stop ELSE <<>>)
        \o <<Event("message_delta", 0), Event("message_stop", 0)>>

Chunks(lines) ==
  LET text == TextOf(lines) IN [i \in DOMAIN text |-> TextDelta("chunk", 0, text[i])]

(* What CompatibilityLayer writes for the lines: a chunk for every delta    *)
(* before the finish or the end mark, and the end mark.                     *)
ChunkEvents(lines) == Append(Chunks(UpTo(lines, {"finish", "done"})), Event("[DONE]", 0))

(* What a client must read of a stream that says nothing after its end.     *)
EndsInTime(lines) ==
  \A i, j \in DOMAIN lines : lines[i].kind \in {"finish", "done"} /\ i < j => lines[j].kind # "text"
=============================================================================
