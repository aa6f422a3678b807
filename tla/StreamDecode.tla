----------------------------- MODULE StreamDecode -----------------------------
(***************************************************************************)
(* The decoders of the four response formats (openai.rs, openai_responses, *)
(* anthropic_shared.rs, ollama.rs): the frames of a response, in the       *)
(* orders a server may send them, become the events the engine works with. *)
(*                                                                         *)
(* A response is a number of calls, the arguments of each in two parts,    *)
(* and the reason why it ends; the output limit may cut it off anywhere.   *)
(***************************************************************************)
EXTENDS Naturals, Sequences, SequencesExt

CONSTANT MaxCalls       \* bound on the calls of a response

Formats == {"chat", "anthropic", "responses", "ollama"}
Whole   == <<1, 2>>     \* the arguments of a call, in two parts

VARIABLES
    format, planned,    \* the format, the calls the model makes
    limit,              \* whether the output limit ends the response
    parts,              \* parts of each call that the server has sent, from 0 (its
                        \* head) on; 0 parts: nothing
    buffers,            \* tool_calls, tool_input_json: what has come of a call
    block,              \* anthropic: the block that is open, or 0
    seen,               \* responses: seen_output_items
    events, decoded     \* what the engine was given; the response is over

decodeVars == <<format, planned, limit, parts, buffers, block, seen, events, decoded>>

Positions == 1..planned

\* The server has sent n parts of every call before i.
After(i, n) == \A j \in Positions : j < i => parts[j] >= n

DecodeInit ==
    /\ format \in Formats /\ planned \in 0..MaxCalls /\ limit \in BOOLEAN
    /\ parts = [i \in Positions |-> 0] /\ buffers = <<>> /\ block = 0
    /\ seen = {} /\ events = <<>> /\ decoded = FALSE

Event(type, i, args) == [type |-> type, of |-> i, args |-> args]
Done(reason)         == Event("done", 0, reason)
Cut(i)               == Event("cut", i, "none")
\* A call whose arguments do not parse gets none.
ToolUse(i, args)     == Event("call", i, IF args = Whole THEN "whole" ELSE "empty")

Emits(new) == events' = events \o new
-------------------------------------------------------------------------------
(* Chat completions: deltas of the calls by their index, which may take    *)
(* turns, and a finish reason.                                             *)

\* get_or_create_tool: the head of a call comes before those after it begin.
NextCall(i) ==
    /\ format = "chat" /\ ~decoded /\ i = Len(buffers) + 1 /\ i \in Positions
    /\ buffers' = Append(buffers, <<>>) /\ parts' = [parts EXCEPT ![i] = 1]
    /\ UNCHANGED <<format, planned, limit, block, seen, events, decoded>>

\* Mutant of Joined: what comes is always added.
Joined_Always(old, new) == Append(old, new)

\* A complete value that is followed by the beginning of another is replaced.
Joined(old, new) ==
    IF old \in {<<0>>, Whole} /\ new \in {0, 1} THEN <<new>> ELSE Append(old, new)

Argument(i) ==
    /\ format = "chat" /\ ~decoded /\ i \in DOMAIN buffers /\ parts[i] \in 1..2
    /\ buffers' = [buffers EXCEPT ![i] = Joined(@, parts[i])]
    /\ parts' = [parts EXCEPT ![i] = @ + 1]
    /\ UNCHANGED <<format, planned, limit, block, seen, events, decoded>>

\* A gateway may send an empty object, 0, ahead of the arguments.
Placeholder(i) ==
    /\ format = "chat" /\ ~decoded /\ i \in DOMAIN buffers /\ parts[i] = 1 /\ buffers[i] = <<>>
    /\ buffers' = [buffers EXCEPT ![i] = Joined(@, 0)]
    /\ UNCHANGED <<format, planned, limit, parts, block, seen, events, decoded>>

Sent == \A i \in Positions : parts[i] >= 3

\* finish_reason length: every call counts as cut off.
Finished ==
    IF limit THEN [i \in DOMAIN buffers |-> Cut(i)] \o <<Done("max_tokens")>>
    ELSE [i \in DOMAIN buffers |-> ToolUse(i, buffers[i])]
         \o <<Done(IF buffers # <<>> THEN "tool_use" ELSE "end_turn")>>

\* finish_reason; flush_done at the end of the stream.
Finish ==
    /\ format = "chat" /\ ~decoded /\ (limit \/ Sent)
    /\ Emits(Finished) /\ decoded' = TRUE /\ buffers' = <<>>
    /\ UNCHANGED <<format, planned, limit, parts, block, seen>>
-------------------------------------------------------------------------------
(* Anthropic: one block after the other.                                   *)

BlockStart(i) ==
    /\ format = "anthropic" /\ ~decoded /\ block = 0 /\ i \in Positions /\ parts[i] = 0
    /\ After(i, 3)
    /\ block' = i /\ buffers' = <<<<>>>> /\ parts' = [parts EXCEPT ![i] = 1]
    /\ UNCHANGED <<format, planned, limit, seen, events, decoded>>

BlockDelta ==
    /\ format = "anthropic" /\ ~decoded /\ block # 0 /\ parts[block] \in 1..2
    /\ buffers' = <<Append(buffers[1], parts[block])>>
    /\ parts' = [parts EXCEPT ![block] = @ + 1]
    /\ UNCHANGED <<format, planned, limit, block, seen, events, decoded>>

\* content_block_stop, which comes for a block that the limit cut off, or not.
BlockStop ==
    /\ format = "anthropic" /\ ~decoded /\ block # 0 /\ (limit \/ parts[block] = 3)
    /\ Emits(<<IF buffers[1] \in {<<>>, Whole} THEN ToolUse(block, buffers[1]) ELSE Cut(block)>>)
    /\ block' = 0 /\ buffers' = <<>>
    /\ UNCHANGED <<format, planned, limit, parts, seen, decoded>>

LeftOpen == IF block # 0 THEN <<Cut(block)>> ELSE <<>>

\* message_delta: what made the message end.
MessageDelta ==
    /\ format = "anthropic" /\ ~decoded /\ (limit \/ (block = 0 /\ Sent))
    /\ Emits(IF limit THEN LeftOpen \o <<Done("max_tokens")>>
             ELSE <<Done(IF planned > 0 THEN "tool_use" ELSE "end_turn")>>)
    /\ block' = 0 /\ buffers' = <<>> /\ decoded' = TRUE
    /\ UNCHANGED <<format, planned, limit, parts, seen>>
-------------------------------------------------------------------------------
(* Responses: items that are done, and once more all items at the end.     *)

\* events_for_output_item, function_call_event.
Item(i, args) == IF i \in seen THEN <<>> ELSE <<ToolUse(i, args)>>

ItemDone(i) ==
    /\ format = "responses" /\ ~decoded /\ i \in Positions /\ parts[i] = 0
    /\ After(i, 3)
    /\ parts' = [parts EXCEPT ![i] = 3] /\ seen' = seen \cup {i}
    /\ Emits(Item(i, Whole))
    /\ UNCHANGED <<format, planned, limit, buffers, block, decoded>>

\* complete_response.
Completed ==
    /\ format = "responses" /\ ~decoded /\ ~limit /\ Sent
    /\ Emits(FlattenSeq([i \in Positions |-> Item(i, Whole)])
             \o <<Done(IF seen # {} THEN "tool_use" ELSE "end_turn")>>)
    /\ decoded' = TRUE /\ UNCHANGED <<format, planned, limit, parts, buffers, block, seen>>

\* incomplete_response: an item that was cut off is among the items.
Incomplete ==
    /\ format = "responses" /\ ~decoded /\ limit
    /\ LET cut == {i \in Positions : parts[i] = 0 /\ After(i, 3)}
           all == [i \in Positions |-> IF i \in seen \cup cut THEN Item(i, <<1>>) ELSE <<>>]
       IN  Emits(FlattenSeq(all) \o <<Done("max_tokens")>>)
    /\ decoded' = TRUE /\ UNCHANGED <<format, planned, limit, parts, buffers, block, seen>>
-------------------------------------------------------------------------------
(* Ollama: a call comes as a whole; at the limit those after it do not.    *)

Line(i) ==
    /\ format = "ollama" /\ ~decoded /\ i \in Positions /\ parts[i] = 0
    /\ After(i, 3)
    /\ Emits(<<ToolUse(i, Whole)>>) /\ parts' = [parts EXCEPT ![i] = 3]
    /\ UNCHANGED <<format, planned, limit, buffers, block, seen, decoded>>

LastLine ==
    /\ format = "ollama" /\ ~decoded /\ (limit \/ Sent)
    /\ Emits(<<Done(IF limit THEN "max_tokens" ELSE IF events # <<>> THEN "tool_use" ELSE "end_turn")>>)
    /\ decoded' = TRUE /\ UNCHANGED <<format, planned, limit, parts, buffers, block, seen>>
-------------------------------------------------------------------------------
DecodeNext ==
    \/ \E i \in Positions : \/ NextCall(i) \/ Argument(i) \/ Placeholder(i) \/ BlockStart(i)
                            \/ ItemDone(i) \/ Line(i)
    \/ Finish \/ BlockDelta \/ BlockStop \/ MessageDelta \/ Completed \/ Incomplete \/ LastLine

DecodeSpec == DecodeInit /\ [][DecodeNext]_decodeVars
-------------------------------------------------------------------------------
DecodeTypeOK == /\ format \in Formats /\ parts \in [Positions -> 0..3]
                /\ block \in {0} \cup Positions /\ {limit, decoded} \subseteq BOOLEAN

\* Every call of the response is given to the engine once, in order, with its
\* arguments, whatever the frames it came in; the end comes last and says that
\* there are calls exactly when there are.  At the output limit a call that was
\* begun is given as a call or as cut off, and never as a call without the
\* arguments it had where the format tells where a call ends (openai.rs 299,
\* anthropic_shared.rs 380, 425).
CallsWhole ==
    LET given == SelectSeq(events, LAMBDA e : e.type # "done")
    IN  /\ \A i \in DOMAIN events : events[i].type = "done" => decoded /\ i = Len(events)
        /\ decoded /\ ~limit =>
              /\ given = [i \in Positions |-> Event("call", i, "whole")]
              /\ Last(events).args = IF planned > 0 THEN "tool_use" ELSE "end_turn"
        /\ decoded /\ limit =>
              /\ Last(events).args = "max_tokens"
              /\ [k \in DOMAIN given |-> given[k].of] = [k \in DOMAIN given |-> k]
              /\ format # "responses" => Len(given) = Len(SelectSeq(parts, LAMBDA n : n # 0))
              /\ \A k \in DOMAIN given :
                    given[k].type = "call" /\ given[k].args = "empty" =>
                        \/ format = "responses"
                        \/ parts[given[k].of] = 1       \* no arguments had come
===============================================================================
