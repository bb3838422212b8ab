---------------------------- MODULE AnthropicStream ----------------------------
(***************************************************************************)
(* src/src/compatibility/anthropic-controller.ts, streaming: _handleStream *)
(* translates the answer of an OpenAI-style upstream into Anthropic events *)
(* line by line and, when an upstream fails, starts over with the next one *)
(* on the same client connection.                                          *)
(*                                                                         *)
(* Every upstream event is one callback.  A callback that settles the      *)
(* promise of _streamFromProvider is followed by the handler's             *)
(* continuation before any other event, so that is part of the action.     *)
(* Lines after the finishing one write nothing and are left out.  The      *)
(* stream tracker of the server (anthropic-server.ts:86) may end the       *)
(* response at any time, as may a client that goes away: later writes are  *)
(* then dropped.                                                           *)
(***************************************************************************)
EXTENDS SseGrammar

CONSTANTS
  Endpoints,             \* length of providerChain
  MaxStreamingFailover,  \* config.maxStreamingFailover
  Kinds,                 \* the kinds of deltas upstreams send
  EmptyAnswers,          \* whether an upstream may end without any delta
  MaxLines               \* bound on the deltas of one upstream

ASSUME StreamAssumption ==
  /\ Endpoints \in Nat \ {0}
  /\ MaxStreamingFailover \in Nat
  /\ Kinds \subseteq {"text", "tool", "arguments"}
  /\ EmptyAnswers \in BOOLEAN
  /\ MaxLines \in Nat

VARIABLES
  upstream,     \* "calling", "answering", or "off" when none is waited for
  attempt,      \* attempt, counted from 1
  lines,        \* deltas the current upstream has sent
  success,
  accumulated,  \* length of accumulatedContent, in deltas
  blockIndex,
  startedBlocks,
  sent,         \* the events written to the client
  ended         \* whether the response has been ended

handlerVars == <<upstream, attempt, lines, success>>
blockVars == <<accumulated, blockIndex, startedBlocks>>
clientVars == <<sent, ended>>
streamVars == <<handlerVars, blockVars, clientVars>>

Attempts == IF Endpoints < MaxStreamingFailover THEN Endpoints ELSE MaxStreamingFailover

Write(events) == sent' = IF ended THEN sent ELSE sent \o events

(* With no attempt allowed the handler is at its farewell at once.          *)
StreamInit ==
  /\ upstream = IF Attempts = 0 THEN "off" ELSE "calling"
  /\ attempt = 1
  /\ lines = 0
  /\ success = FALSE
  /\ accumulated = 0 /\ blockIndex = 0 /\ startedBlocks = FALSE
  /\ sent = IF Attempts = 0
            THEN <<Event("ping", 0), Event("message_start", 0), Event("error", 0)>>
            ELSE <<Event("ping", 0), Event("message_start", 0)>>
  /\ ended = (Attempts = 0)

-----------------------------------------------------------------------------
(* Faulty variant: the block is stopped only after a success.               *)
FarewellLeavingBlock ==
  IF ~success' /\ accumulated' = 0
  THEN <<Event("error", 0)>>
  ELSE (IF success' THEN <<Event("content_block_stop", blockIndex')>> ELSE <<>>)
       \o <<Event("message_delta", 0), Event("message_stop", 0)>>

(* Lines 236-256: what ends the stream.                                     *)
Farewell ==
  IF ~success' /\ accumulated' = 0
  THEN <<Event("error", 0)>>
  ELSE <<Event("content_block_stop", blockIndex'), Event("message_delta", 0),
         Event("message_stop", 0)>>

EndAnswer ==
  /\ upstream' = "off"
  /\ Write(Farewell)
  /\ ended' = TRUE
  /\ UNCHANGED <<attempt, lines>>

(* The for statement, lines 181-183, when an attempt is over.               *)
NextAttempt ==
  \/ /\ ~success' /\ attempt < Attempts
     /\ upstream' = "calling" /\ attempt' = attempt + 1 /\ lines' = 0
     /\ UNCHANGED clientVars
  \/ /\ success' \/ attempt >= Attempts
     /\ EndAnswer

-----------------------------------------------------------------------------
(* The upstream answers with a status below 400 ...                         *)
Answered ==
  /\ upstream = "calling"
  /\ upstream' = "answering"
  /\ UNCHANGED <<attempt, lines, success, blockVars, clientVars>>

(* Faulty variant: a refused call leaves the promise pending.               *)
RefusedSilently ==
  /\ upstream = "calling"
  /\ upstream' = "refused"
  /\ UNCHANGED <<attempt, lines, success, blockVars, clientVars>>

(* ... or not, or the call times out or breaks before an answer.            *)
Refused ==
  /\ upstream = "calling"
  /\ UNCHANGED <<success, blockVars>>
  /\ NextAttempt

Line(kind) ==
  /\ upstream = "answering"
  /\ kind \in Kinds
  /\ lines < MaxLines
  /\ lines' = lines + 1
  /\ UNCHANGED <<upstream, attempt, success, ended>>

(* Faulty variant: every provider's first delta starts the block again.     *)
TextRestarting ==
  /\ Line("text")
  /\ startedBlocks' = TRUE
  /\ accumulated' = accumulated + 1
  /\ Write((IF lines > 0 THEN <<>> ELSE <<Event("content_block_start", blockIndex)>>)
           \o <<Event("content_block_delta", blockIndex)>>)
  /\ UNCHANGED blockIndex

(* onChunk(), lines 190-201.                                                *)
Text ==
  /\ Line("text")
  /\ startedBlocks' = TRUE
  /\ accumulated' = accumulated + 1
  /\ Write((IF startedBlocks THEN <<>> ELSE <<Event("content_block_start", blockIndex)>>)
           \o <<Event("content_block_delta", blockIndex)>>)
  /\ UNCHANGED blockIndex

(* onToolCall(), lines 203-215: the delta that names the function, with or  *)
(* without a first piece of its arguments.                                  *)
ToolCall(withArguments) ==
  /\ Line("tool")
  /\ blockIndex' = blockIndex + 1
  /\ Write(<<Event("content_block_start", blockIndex')>>
           \o (IF withArguments THEN <<Event("content_block_delta", blockIndex')>> ELSE <<>>))
  /\ UNCHANGED <<accumulated, startedBlocks>>

(* Lines 330-340: a delta that only continues the arguments has no function *)
(* name and is passed over.                                                 *)
ArgumentsGoOn ==
  /\ Line("arguments")
  /\ UNCHANGED <<blockVars, sent>>

Nonempty == EmptyAnswers \/ lines > 0

(* [DONE] or a finish reason: onFinish().                                   *)
Finish ==
  /\ upstream = "answering" /\ Nonempty
  /\ success' = TRUE
  /\ UNCHANGED blockVars
  /\ NextAttempt

(* Lines 358-364: the body ends before either, which is a success as well.  *)
EndEarly ==
  /\ upstream = "answering" /\ Nonempty
  /\ success' = TRUE
  /\ UNCHANGED blockVars
  /\ NextAttempt

(* The connection breaks or stays silent for too long.                      *)
Break ==
  /\ upstream = "answering"
  /\ UNCHANGED <<success, blockVars>>
  /\ NextAttempt

(* cleanupStale() ends the response, or the client has gone.                *)
EndByOthers ==
  /\ upstream # "off" /\ ~ended
  /\ ended' = TRUE
  /\ UNCHANGED <<handlerVars, blockVars, sent>>

Deltas == Text \/ (\E a \in BOOLEAN : ToolCall(a)) \/ ArgumentsGoOn
Handle == Answered \/ Refused \/ Deltas \/ Finish \/ EndEarly \/ Break
StreamNext == Handle \/ EndByOthers

(* Every upstream call comes to something: it answers, fails, or the        *)
(* timeout of 30 s ends the silence.                                        *)
StreamSpec == StreamInit /\ [][StreamNext]_streamVars /\ WF_streamVars(Handle)

-----------------------------------------------------------------------------
StreamTypeOK ==
  /\ upstream \in {"calling", "answering", "off"}
  /\ attempt \in Nat /\ (attempt <= Attempts \/ Attempts = 0)
  /\ lines \in 0..MaxLines
  /\ success \in BOOLEAN /\ startedBlocks \in BOOLEAN /\ ended \in BOOLEAN
  /\ accumulated \in Nat /\ blockIndex \in Nat
  /\ success => upstream = "off"
  /\ upstream = "off" => ended

(* The answer is plain text: no tool was called, and an upstream whose      *)
(* answer is accepted has sent at least one delta.                          *)
PlainText == blockIndex = 0 /\ (success => startedBlocks)

(* Comment in lines 140 and 193: for a text answer the client receives a    *)
(* well-formed Anthropic message, across every sequence of failovers and    *)
(* wherever the stream is cut short.                                        *)
StreamWellFormed == PlainText => Prefix(sent)

(* ... and when nobody else has ended the response, a complete one: the     *)
(* handler leaves no block and no message open.                             *)
StreamCompleted ==
  [][upstream # "off" /\ upstream' = "off" /\ ~ended /\ PlainText' => Complete(sent')]_streamVars

(* Every stream comes to its end.                                           *)
StreamEnds == <>(upstream = "off" /\ ended)

-----------------------------------------------------------------------------
=============================================================================
