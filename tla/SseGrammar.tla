------------------------------ MODULE SseGrammar ------------------------------
(***************************************************************************)
(* The event stream of the Anthropic Messages API, as a recognizer: the    *)
(* contract of the clients that src/src/compatibility/ serves.  A message  *)
(* is message_start, content blocks numbered from 0 that are started, fed  *)
(* and stopped one after the other, message_delta and message_stop; an     *)
(* error may take the place of everything after message_start; pings may   *)
(* come at any time.                                                       *)
(***************************************************************************)
EXTENDS Integers, SequencesExt

Event(kind, index) == [event |-> kind, index |-> index]

(* The recognizer is between blocks, inside block number block, or past the *)
(* last block; block counts the blocks that are over.                       *)
Fresh == [at |-> "nothing", block |-> 0]
Rejected == [at |-> "rejected", block |-> 0]

Moves == {<<"nothing", "message_start", "between">>,
          <<"between", "content_block_start", "inside">>,
          <<"inside", "content_block_delta", "inside">>,
          <<"inside", "content_block_stop", "between">>,
          <<"between", "message_delta", "closing">>,
          <<"closing", "message_stop", "over">>,
          <<"between", "error", "over">>,
          <<"inside", "error", "over">>}

OfBlock == {"content_block_start", "content_block_delta", "content_block_stop"}

Advance(s, e) ==
  LET next == {m[3] : m \in {n \in Moves : n[1] = s.at /\ n[2] = e.event}}
  IN  IF e.event = "ping" THEN s
      ELSE IF next = {} \/ (e.event \in OfBlock /\ e.index # s.block) THEN Rejected
      ELSE [at    |-> CHOOSE a \in next : TRUE,
            block |-> IF e.event = "content_block_stop" THEN s.block + 1 ELSE s.block]

Read(events) == FoldLeft(Advance, Fresh, events)

(* A stream that can still become a message, and one that is a message.     *)
Prefix(events) == Read(events).at # "rejected"
Complete(events) == Read(events).at = "over"
=============================================================================
