----------------------------- MODULE WireMessages -----------------------------
(***************************************************************************)
(* What the providers make of a conversation (openai_messages.rs,          *)
(* anthropic_shared.rs, openai_responses_projector.rs): the history of the *)
(* engine as the messages of the three formats, with the repairs that the  *)
(* default compatibility settings of each ask for.                         *)
(*                                                                         *)
(* Texts are known by the message they come from, calls by a number; 0 is  *)
(* a call the model gave no id.  Two ids generated in one request differ,  *)
(* which supposes that the clock moves between them.                       *)
(***************************************************************************)
EXTENDS Naturals, FiniteSets, Sequences, SequencesExt

CONSTANT MaxHistory     \* bound on the messages of a conversation

\* thinking_replay_as_content_block, textualize_tool_replay, or neither.
Styles == {"plain", "block", "text"}

VARIABLES
    history,            \* the messages of the engine
    calls,              \* ids given so far
    style               \* the replay settings of the provider

wireVars == <<history, calls, style>>

Text(n)         == [kind |-> "text", n |-> n, named |-> TRUE]
Thinking(n)     == [kind |-> "thinking", n |-> n, named |-> TRUE]
Call(i, named)  == [kind |-> "call", n |-> i, named |-> named]
Result(i)       == [kind |-> "result", n |-> i, named |-> TRUE]
Message(r, bs)  == [role |-> r, content |-> bs]
Kind(bs, k)     == SelectSeq(bs, LAMBDA b : b.kind = k)
Numbers(bs)     == [i \in DOMAIN bs |-> bs[i].n]
-------------------------------------------------------------------------------
(* The conversation, as the engine may write it.                           *)

WireInit == history = <<>> /\ calls = 0 /\ style \in Styles

LastCalls == IF history = <<>> \/ Last(history).role = "user" THEN <<>>
             ELSE Kind(Last(history).content, "call")

Say == /\ Len(history) < MaxHistory
       /\ history' = Append(history, Message("user", <<Text(Len(history) + 1)>>))
       /\ UNCHANGED <<calls, style>>

\* build_assistant_content: thinking, text, calls.  A call may come without a
\* name or without an id.
Answers == LET n == Len(history) + 1 IN
    {Message("assistant", t \o c) :
        t \in {<<>>, <<Text(n)>>, <<Thinking(n), Text(n)>>},
        c \in {<<>>, <<Call(calls + 1, TRUE)>>, <<Call(calls + 1, FALSE)>>, <<Call(0, TRUE)>>,
               <<Call(calls + 1, TRUE), Call(calls + 2, TRUE)>>,
               <<Call(calls + 1, FALSE), Call(calls + 2, TRUE)>>,
               <<Call(0, TRUE), Call(0, TRUE)>>}}

\* An answer the output limit cut off is followed by its continuation.
Answer ==
    /\ Len(history) < MaxHistory /\ LastCalls = <<>>
    /\ \E m \in Answers : m.content # <<>> /\ history' = Append(history, m)
    /\ calls' = calls + 2 /\ UNCHANGED style

\* execute_tool_round: the results of all the calls.
Results ==
    /\ LastCalls # <<>>
    /\ history' = Append(history, Message("user", [i \in DOMAIN LastCalls |-> Result(LastCalls[i].n)]))
    /\ UNCHANGED <<calls, style>>

\* truncate_for_retry: the oldest messages go, calls without their results too.
Truncate ==
    /\ Len(history) > 2
    /\ history' = (IF history[2].role = "user" THEN <<>> ELSE <<Message("user", <<Text(0)>>)>>)
                  \o Tail(history)
    /\ UNCHANGED <<calls, style>>

WireNext == Say \/ Answer \/ Results \/ Truncate
WireSpec == WireInit /\ [][WireNext]_wireVars
-------------------------------------------------------------------------------
(* What both message formats do first: ids for calls without one, calls    *)
(* without a name become text, and a result goes with its call.            *)

\* i-th message: at a block, its items so far, the calls dropped, those on the
\* wire, the ids generated that wait for their result.
Walker == [items |-> <<>>, dropped |-> [i \in 0..calls |-> 0], known |-> {}, waiting |-> <<>>,
           made |-> 0]

\* The line of text a call that cannot be sent becomes.
Skipped == Text(0)

NewId(w) == calls + 1 + w.made

WalkCall(w, b) ==
    LET new == NewId(w) IN
    CASE ~b.named -> [w EXCEPT !.items = Append(@, Skipped), !.dropped[b.n] = @ + 1]
      [] b.named /\ b.n = 0 ->
            [w EXCEPT !.items = Append(@, [b EXCEPT !.n = new]), !.made = @ + 1,
                      !.waiting = Append(@, new), !.known = @ \cup {new}]
      [] OTHER -> [w EXCEPT !.items = Append(@, b), !.known = @ \cup {b.n}]

\* Mutant of WalkResult: results without a call are sent.
WalkResult_Orphans(w, b) ==
    IF w.dropped[b.n] > 0 THEN [w EXCEPT !.dropped[b.n] = @ - 1]
    ELSE LET id == IF b.n = 0 /\ w.waiting # <<>> THEN Head(w.waiting) ELSE b.n
         IN  [w EXCEPT !.items = Append(@, Result(id)),
                       !.waiting = IF id # b.n THEN Tail(@) ELSE @]

WalkResult(w, b) ==
    LET id == IF b.n = 0 /\ w.waiting # <<>> THEN Head(w.waiting) ELSE b.n
    IN  IF w.dropped[b.n] > 0 THEN [w EXCEPT !.dropped[b.n] = @ - 1]
        ELSE [w EXCEPT !.items = IF id \in w.known THEN Append(@, Result(id)) ELSE @,
                       !.waiting = IF id # b.n THEN Tail(@) ELSE @]

Walk(w, b) == CASE b.kind = "call" -> WalkCall(w, b)
                [] b.kind = "result" -> WalkResult(w, b)
                [] OTHER -> [w EXCEPT !.items = Append(@, b)]

\* The messages of the history with their items, a result that was left out
\* recorded by the length of the original.
Walked ==
    FoldLeft(LAMBDA s, m :
                LET w == FoldLeft(Walk, [s.walker EXCEPT !.items = <<>>], m.content)
                IN  [walker |-> w,
                     out |-> Append(s.out, [role |-> m.role, items |-> w.items,
                                            results |-> Kind(m.content, "result") # <<>>])],
             [walker |-> Walker, out |-> <<>>], history).out
-------------------------------------------------------------------------------
(* Chat completions.  A message has texts, its thinking and its calls; the *)
(* content is a block list or a string.                                    *)

Plain(role, texts) == [role |-> role, texts |-> texts, blocks |-> FALSE, calls |-> <<>>, id |-> 0]

ChatMessages(m) ==
    LET texts == Numbers(Kind(m.items, "text"))
        uses  == Numbers(Kind(m.items, "call"))
    IN  CASE m.role = "user" /\ m.results ->
                [i \in DOMAIN m.items |->
                    IF style = "text" THEN Plain("user", <<>>)
                    ELSE [Plain("tool", <<>>) EXCEPT !.id = m.items[i].n]]
          [] m.role = "user" /\ ~m.results -> <<Plain("user", texts)>>
          [] OTHER ->
                <<[Plain("assistant", texts) EXCEPT
                      !.blocks = style = "block" /\ Kind(m.items, "thinking") # <<>>,
                      !.calls = IF style = "text" THEN <<>> ELSE uses]>>

\* clean_orphaned_tool_calls.
Cleaned(ms) ==
    LET answered == {ms[i].id : i \in {j \in DOMAIN ms : ms[j].role = "tool"}}
    IN  [i \in DOMAIN ms |->
            [ms[i] EXCEPT !.calls = SelectSeq(@, LAMBDA id : id \in answered)]]

\* merge_consecutive_assistant, merge_consecutive_user_text.  A block list has
\* no text as far as the merge can see: the text of the next message takes its
\* place, or it stays and a block list after it goes.
\* (The mutant of MergedTexts keeps one of the two texts.)
MergedTexts_One(a, b) == IF a.texts = <<>> THEN b.texts ELSE a.texts

MergedTexts(a, b) ==
    CASE ~a.blocks /\ ~b.blocks -> a.texts \o b.texts
      [] a.blocks /\ ~b.blocks /\ b.texts # <<>> -> b.texts
      [] OTHER -> a.texts

MergeInto(ms, b) ==
    IF ms # <<>> /\ Last(ms).role = b.role
       /\ (b.role = "assistant" \/ (style = "text" /\ b.role = "user"))
    THEN LET a == Last(ms) IN
         Append(Front(ms), [a EXCEPT !.texts = MergedTexts(a, b), !.calls = @ \o b.calls,
                                     !.blocks = @ /\ (b.blocks \/ b.texts = <<>>)])
    ELSE Append(ms, b)

Chat == LET made == FoldLeft(LAMBDA out, m : out \o ChatMessages(m), <<>>, Walked)
        IN  FoldLeft(MergeInto, <<>>, Cleaned(made))
-------------------------------------------------------------------------------
(* Anthropic messages: roles alternate, and begin with the user.           *)

\* merge_same_role, ensure_message_alternation; a message that lost its results
\* says so.
Anthropic ==
    LET merged == FoldLeft(LAMBDA out, m :
            LET items == IF m.items = <<>> /\ m.results THEN <<Text(0)>> ELSE m.items
            IN  IF out # <<>> /\ Last(out).role = m.role
                THEN Append(Front(out), [Last(out) EXCEPT !.content = @ \o items])
                ELSE Append(out, Message(m.role, items)), <<>>, Walked)
    IN  IF merged # <<>> /\ Head(merged).role = "assistant"
        THEN <<Message("user", <<Text(0)>>)>> \o merged ELSE merged
-------------------------------------------------------------------------------
(* Responses: a flat list of items.                                        *)

All(k) == FoldLeft(LAMBDA s, m : s \cup Range(Kind(m.content, k)), {}, history)
Uses   == {b.n : b \in All("call")} \ {0}
Given  == {b.n : b \in All("result")}

\* project_user_message, project_assistant_message.
Responses ==
    FoldLeft(LAMBDA out, m :
        out \o (IF m.role = "user"
                THEN SelectSeq(m.content, LAMBDA b : b.kind = "result" /\ b.n \in Uses)
                     \o Kind(m.content, "text")
                ELSE Kind(m.content, "text")
                     \o SelectSeq(m.content, LAMBDA b : b.kind = "call" /\ b.named /\ b.n \in Given)),
        <<>>, history)
-------------------------------------------------------------------------------
WireTypeOK == /\ Len(history) <= MaxHistory + 1 /\ style \in Styles
              /\ \A i \in DOMAIN history : history[i].role \in {"user", "assistant"}

\* Calls that a run left at a confirmation did not answer.
Orphans == {i \in DOMAIN history :
    /\ i < Len(history) /\ Kind(history[i].content, "call") # <<>>
    /\ Kind(history[i + 1].content, "result") = <<>>}

\* Chat: the calls of a message are answered, all of them and one each, by the
\* messages right after it, and nothing else is: whatever a truncation has cut
\* in two, whatever calls had no name or no id, and at a confirmation left open.
\* A call without an id must not be left open: the next one gets its number.
ChatPaired ==
    LET chat == Chat
        Tool(i) == i <= Len(chat) /\ chat[i].role = "tool"
    IN  (\A i \in Orphans : \A b \in Range(Kind(history[i].content, "call")) : b.n # 0) =>
        \A i \in DOMAIN chat :
            /\ chat[i].role = "assistant" =>
                  /\ \A c \in DOMAIN chat[i].calls : Tool(i + c) /\ chat[i + c].id = chat[i].calls[c]
                  /\ ~Tool(i + Len(chat[i].calls) + 1)
            /\ Tool(i) => i > 1 /\ chat[i - 1].role \in {"assistant", "tool"}

\* Anthropic: roles alternate from the user on, no message is empty, and the
\* results of a message are those of the calls before it.
AnthropicLegal ==
    LET msgs == Anthropic IN
    /\ \A i \in DOMAIN msgs : /\ msgs[i].role = IF i % 2 = 1 THEN "user" ELSE "assistant"
                              /\ msgs[i].content # <<>>
    /\ Orphans = {} => \A i \in 1..Len(msgs) - 1 :
          Numbers(Kind(msgs[i].content, "call")) = Numbers(Kind(msgs[i + 1].content, "result"))

\* Responses: calls and outputs match one to one if every call has its name and
\* its id, which this format needs (a call without a name leaves its output
\* behind, one without an id its output out).
ResponsesPaired ==
    (\A b \in All("call") : b.named /\ b.n # 0) =>
        {b.n : b \in Range(Kind(Responses, "call"))} = {b.n : b \in Range(Kind(Responses, "result"))}

RequestsLegal == ChatPaired /\ AnthropicLegal /\ ResponsesPaired

\* What was said is on the wire in the order it was said, except that a replay
\* of thinking as a block of the content loses text where two answers follow
\* one another (openai_messages.rs 467-500).
TextsKept ==
    LET Said(texts) == SelectSeq(texts, LAMBDA n : n # 0)
        Texts(bs)   == Numbers(Kind(bs, "text"))
        chat == Chat
        msgs == Anthropic
        all  == Said(FlattenSeq([i \in DOMAIN history |-> Texts(history[i].content)]))
    IN  /\ style # "block" => Said(FlattenSeq([i \in DOMAIN chat |-> chat[i].texts])) = all
        /\ Said(FlattenSeq([i \in DOMAIN msgs |-> Texts(msgs[i].content)])) = all
        /\ Said(Texts(Responses)) = all
===============================================================================
