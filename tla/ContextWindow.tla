---------------------------- MODULE ContextWindow ----------------------------
(***************************************************************************)
(* How an agent keeps its conversation inside a model's context window:    *)
(* the estimate of the next request's size (context_usage.rs), the guards  *)
(* before each request - microcompaction, autocompaction by the model, the *)
(* emergency block (compact/, engine.rs run_compaction) - the recovery from*)
(* an overflow the provider reports, and the user's /compact and /clear.   *)
(*                                                                         *)
(* The history is the sequence of its messages' sizes; Prompt is the size  *)
(* of the system prompt and the tools.  A local estimate counts a message  *)
(* as its size, and a provider's own count is the size of what it was sent *)
(* and answered.                                                           *)
(***************************************************************************)
EXTENDS Integers, Sequences, FiniteSets, SequencesExt

CONSTANTS
    Prompt,             \* size of the system prompt and the tools
    SummaryPrompt,      \* size of the request for a summary, and of the summary
    Windows,            \* windows the configuration may state
    RealWindows,        \* windows a model may really have
    Percentages,        \* values of autocompact_threshold_pct
    NoPercentage,       \* no percentage: the absolute buffers are used
    RequestedOutput, MinOutput,     \* max_tokens, and the least that is asked for
    OutputReserve, AutocompactBuffer, EmergencyBuffers,
    MaxFailures,        \* max_failures of the circuit breaker
    MaxRetries,         \* MAX_PTL_RETRIES
    MaxMessages,        \* bound on the messages of a history
    MaxInputs           \* bound on what the user enters

\* Above 100 the trigger lies above the window and the block always comes first;
\* so it does with absolute buffers that are smaller than the emergency's.
ASSUME ContextWindowAssumption ==
    /\ {Prompt, SummaryPrompt, RequestedOutput, MinOutput, OutputReserve, AutocompactBuffer,
        MaxFailures, MaxRetries} \cup Windows \cup RealWindows \cup EmergencyBuffers
          \subseteq Nat
    /\ Percentages \subseteq 0..100
    /\ \A b \in EmergencyBuffers : b <= OutputReserve + AutocompactBuffer

VARIABLES
    limits,     \* [window, pct, buffer, enabled]
    real,       \* the model's real window, which the engine does not know
    history,    \* the sizes of the messages, the oldest first
    usage,      \* context_usage, with which last_input_tokens is kept in step
    failures,   \* consecutive failures of autocompaction
    step,       \* what the engine is about to do
    part,       \* the messages the summary is asked of, when one is asked
    retries,    \* how often that request was shortened
    purpose,    \* who asked for the summary: "turn", "overflow" or "command"
    retried,    \* the request is the one after an overflow
    inputs,     \* inputs of the user so far
    tried,      \* history: autocompaction ran in this turn
    spent,      \* history: requests sent in this turn
    unseen      \* history: the size of the messages no estimate has counted

windowVars == <<limits, real, history, usage, failures, step, part, retries,
                purpose, retried, inputs, tried, spent, unseen>>

Total(sizes) == FoldLeft(LAMBDA a, b : a + b, 0, sizes)
Minus(a, b) == IF a > b THEN a - b ELSE 0

-----------------------------------------------------------------------------
(* The thresholds *)

Trigger(c) ==
    IF c.pct = NoPercentage THEN Minus(Minus(c.window, OutputReserve), AutocompactBuffer)
    ELSE (c.window * c.pct) \div 100

\* The buffer is at most half of what is above the trigger, so that the block
\* stays above the trigger at any window.
EmergencyLimit_Fixed(c) == Minus(c.window, c.buffer)

EmergencyLimit(c) ==
    LET most == IF c.pct = NoPercentage THEN c.buffer ELSE (c.window * (100 - c.pct)) \div 200
    IN Minus(c.window, IF c.buffer < most THEN c.buffer ELSE most)

ShouldAutocompact == limits.enabled /\ usage >= Trigger(limits)
CircuitBroken == failures >= MaxFailures

\* What a local recount gives.
Recount(messages) == Prompt + Total(messages)

-----------------------------------------------------------------------------
\* The user's message is appended and counted; a turn begins.
UserInput_Uncounted ==
    /\ step = "idle" /\ inputs < MaxInputs /\ Len(history) < MaxMessages
    /\ \E size \in 1..2 : history' = Append(history, size)
    /\ inputs' = inputs + 1 /\ step' = "guard" /\ tried' = FALSE /\ spent' = 0
    /\ retried' = FALSE
    /\ UNCHANGED <<limits, real, usage, failures, part, retries, purpose, unseen>>

UserInput ==
    /\ step = "idle" /\ inputs < MaxInputs /\ Len(history) < MaxMessages
    /\ \E size \in 1..2 :
         /\ history' = Append(history, size)
         /\ usage' = usage + size
    /\ inputs' = inputs + 1 /\ step' = "guard" /\ tried' = FALSE /\ spent' = 0
    /\ retried' = FALSE
    /\ UNCHANGED <<limits, real, failures, part, retries, purpose, unseen>>

\* Old tool results are cleared; what that frees is not taken from the usage.
Microcompact ==
    /\ step = "guard" /\ limits.enabled
    /\ \E i \in 1 .. Len(history) - 1 :
         /\ history[i] = 2
         /\ history' = [history EXCEPT ![i] = 1]
    /\ UNCHANGED <<limits, real, usage, failures, step, part, retries, purpose,
                   retried, inputs, tried, spent, unseen>>

AskSummary(why) ==
    /\ step' = "summary" /\ part' = history /\ retries' = 0 /\ purpose' = why
    /\ tried' = TRUE

\* Autocompaction is due and may be tried, or it is not and the block decides.
Guard ==
    /\ step = "guard"
    /\ IF ShouldAutocompact /\ ~CircuitBroken THEN AskSummary("turn")
       ELSE step' = "emergency" /\ UNCHANGED <<part, retries, purpose, tried>>
    /\ UNCHANGED <<limits, real, history, usage, failures, retried, inputs, spent, unseen>>

Emergency ==
    /\ step = "emergency"
    /\ step' = IF usage >= EmergencyLimit(limits) THEN "refused" ELSE "send"
    /\ UNCHANGED <<limits, real, history, usage, failures, part, retries, purpose,
                   retried, inputs, tried, spent, unseen>>

-----------------------------------------------------------------------------
(* Autocompaction: a request for a summary of the whole history *)

TooLong == Total(part) + SummaryPrompt > real

\* The summary takes the history's place, and the estimate is made anew.
Summarized ==
    /\ step = "summary" /\ ~TooLong
    /\ history' = <<SummaryPrompt>> /\ usage' = Recount(<<SummaryPrompt>>)
    /\ failures' = 0 /\ spent' = spent + 1 /\ unseen' = 0 /\ part' = <<>>
    /\ step' = IF purpose = "command" THEN "idle" ELSE "send"
    /\ UNCHANGED <<limits, real, retries, purpose, retried, inputs, tried>>

\* A fifth of the oldest messages is dropped, and it is asked again.
DropCount == IF Len(part) \div 5 > 1 THEN Len(part) \div 5 ELSE 1
CanShorten == retries < MaxRetries /\ Len(part) >= 2 /\ DropCount < Len(part)

Shorten ==
    /\ step = "summary" /\ TooLong /\ CanShorten
    /\ part' = SubSeq(part, DropCount + 1, Len(part))
    /\ retries' = retries + 1 /\ spent' = spent + 1
    /\ UNCHANGED <<limits, real, history, usage, failures, step, purpose, retried,
                   inputs, tried, unseen>>

\* It cannot be shortened, or the request failed or came back empty: who asked
\* goes on without a summary.
SummaryFails ==
    /\ step = "summary" /\ (TooLong => ~CanShorten)
    /\ failures' = failures + 1 /\ spent' = spent + 1 /\ part' = <<>>
    /\ step' = CASE purpose = "turn" -> "emergency"
                  [] purpose = "overflow" -> "refused"
                  [] OTHER -> "idle"
    /\ UNCHANGED <<limits, real, history, usage, retries, purpose, retried, inputs,
                   tried, unseen>>

-----------------------------------------------------------------------------
(* The request of the turn *)

Fits == Recount(history) <= real

\* Mutant of OutputBudget: the output is what the configuration says.
OutputBudget_Whole == RequestedOutput

\* The output asked for counts against the window: what the estimate leaves of
\* it, a tenth apart, is asked for at most, and a usable answer at least.
OutputBudget ==
    LET room   == Minus(Minus(limits.window, usage), limits.window \div 10)
        capped == IF room > MinOutput THEN room ELSE MinOutput
    IN  IF RequestedOutput < capped THEN RequestedOutput ELSE capped

\* The answer is measured by the provider, or estimated when it says nothing.
Answered(size) ==
    /\ step = "send" /\ Fits /\ Len(history) < MaxMessages
    /\ \E measured \in BOOLEAN :
         /\ usage' = IF measured THEN Recount(history) + size ELSE usage + size
         /\ unseen' = IF measured THEN 0 ELSE unseen
    /\ spent' = spent + 1

\* An answer ends the run; another turn begins with the user.
FinalAnswer ==
    /\ Answered(1) /\ history' = Append(history, 1) /\ step' = "idle"
    /\ UNCHANGED <<limits, real, failures, part, retries, purpose, retried, inputs, tried>>

\* Tool calls run, and their results are appended and counted.
ToolsRan ==
    /\ step = "send" /\ Fits /\ Len(history) + 2 <= MaxMessages
    /\ \E measured \in BOOLEAN, result \in 1..2 :
         /\ usage' = (IF measured THEN Recount(history) ELSE usage) + 1 + result
         /\ unseen' = IF measured THEN 0 ELSE unseen
         /\ history' = history \o <<1, result>>
    /\ step' = "guard" /\ tried' = FALSE /\ spent' = 0 /\ retried' = FALSE
    /\ UNCHANGED <<limits, real, failures, part, retries, purpose, inputs>>

\* A tool call was cut off by the output limit: the call is dropped, and a
\* prompt to call again is appended that no estimate counts.
TruncatedCall ==
    /\ step = "send" /\ Fits /\ Len(history) < MaxMessages
    /\ \E measured \in BOOLEAN :
         /\ usage' = IF measured THEN Recount(history) + 1 ELSE usage
         /\ unseen' = (IF measured THEN 0 ELSE unseen) + 1
    /\ history' = Append(history, 1)
    /\ step' = "guard" /\ tried' = FALSE /\ spent' = 0 /\ retried' = FALSE
    /\ UNCHANGED <<limits, real, failures, part, retries, purpose, inputs>>

\* Any other failure of the request ends the run.
RequestFails ==
    /\ step = "send"
    /\ step' = "idle" /\ spent' = spent + 1
    /\ UNCHANGED <<limits, real, history, usage, failures, part, retries, purpose,
                   retried, inputs, tried, unseen>>

\* The window an overflow tells of: the one the provider states, or when it
\* states none what was sent.
Learned == {real} \cup (IF usage > 0 THEN {usage} ELSE {limits.window})

\* The provider says the prompt is too long: a window smaller than the one
\* assumed is believed, and the history is compacted once, after which the
\* request is sent once more.
Overflow ==
    /\ step = "send" /\ ~Fits
    /\ spent' = spent + 1
    /\ IF retried
       THEN /\ step' = "idle"
            /\ UNCHANGED <<limits, part, retries, purpose, tried, retried>>
       ELSE /\ \E learned \in Learned :
                 limits' = [limits EXCEPT !.window = IF learned < @ THEN learned ELSE @]
            /\ retried' = TRUE
            /\ IF CircuitBroken
               THEN step' = "refused" /\ UNCHANGED <<part, retries, purpose, tried>>
               ELSE AskSummary("overflow")
    /\ UNCHANGED <<real, history, usage, failures, inputs, unseen>>

-----------------------------------------------------------------------------
\* The run ended with "context too long"; the user may go on.
GaveUp ==
    /\ step = "refused" /\ step' = "idle"
    /\ UNCHANGED <<limits, real, history, usage, failures, part, retries, purpose,
                   retried, inputs, tried, spent, unseen>>

\* /compact: the user's wish closes the breaker again.
CompactCommand ==
    /\ step = "idle" /\ inputs < MaxInputs /\ inputs' = inputs + 1
    /\ Len(history) > 2
    /\ failures' = 0 /\ spent' = 0 /\ retried' = FALSE
    /\ AskSummary("command")
    /\ UNCHANGED <<limits, real, history, usage, unseen>>

\* /clear: nothing is left but the prompt.
ClearCommand ==
    /\ step = "idle" /\ history # <<>>
    /\ history' = <<>> /\ usage' = Recount(<<>>) /\ failures' = 0 /\ unseen' = 0
    /\ UNCHANGED <<limits, real, step, part, retries, purpose, retried, inputs,
                   tried, spent>>

-----------------------------------------------------------------------------
WindowInit ==
    /\ limits \in [window : Windows, pct : Percentages \cup {NoPercentage},
                   buffer : EmergencyBuffers, enabled : BOOLEAN]
    /\ real \in RealWindows
    /\ history = <<>> /\ usage = Recount(<<>>) /\ failures = 0 /\ step = "idle"
    /\ part = <<>> /\ retries = 0 /\ purpose = "turn" /\ retried = FALSE /\ inputs = 0
    /\ tried = FALSE /\ spent = 0 /\ unseen = 0

WindowNext ==
    \/ UserInput \/ Microcompact \/ Guard \/ Emergency
    \/ Summarized \/ Shorten \/ SummaryFails
    \/ FinalAnswer \/ ToolsRan \/ TruncatedCall \/ RequestFails \/ Overflow
    \/ GaveUp \/ CompactCommand \/ ClearCommand

WindowSpec == WindowInit /\ [][WindowNext]_windowVars

-----------------------------------------------------------------------------
\* The type of every variable of the context window.
WindowTypeOK ==
    /\ limits.window \in Nat /\ limits.pct \in Percentages \cup {NoPercentage}
    /\ history \in Seq(1..SummaryPrompt + 2) /\ Len(history) <= MaxMessages
    /\ part \in Seq(1..SummaryPrompt + 2) /\ usage \in Nat /\ unseen \in Nat
    /\ step \in {"idle", "guard", "emergency", "summary", "send", "refused"}
    /\ purpose \in {"turn", "overflow", "command"}
    /\ retries \in 0..MaxRetries /\ inputs \in 0..MaxInputs /\ spent \in Nat

\* The estimate never falls behind the conversation: whatever was appended,
\* cleared, summarized or measured, the next request is at most as large as it
\* says, but for the prompts to repeat a cut off tool call.
EstimateCovers == usage + unseen >= Recount(history)

\* A request fits the window with the output it asks for (engine.rs 794-806),
\* but for the least of output, and for what no estimate has counted.
OutputFits ==
    step = "send" /\ OutputBudget > MinOutput =>
        Recount(history) + OutputBudget <= limits.window + unseen

\* A turn is refused for its size only when there was no way to make it smaller:
\* compaction was tried in this very turn, or is off, or has failed too often.
\* The block is never reached before the trigger, however small the window.
RefusedInTime ==
    step = "refused" => tried \/ ~limits.enabled \/ CircuitBroken

\* One turn sends a bounded number of requests: two summaries with their
\* retries, the request and its one repetition; and the breaker holds, so that
\* the summaries that fail one after the other are bounded in a session.
SpendingBounded ==
    /\ spent <= 2 * (MaxRetries + 1) + 2
    /\ failures <= MaxFailures

\* What the proofs add to them.  Sizes and counts are numbers;
SizesInv ==
    /\ limits \in [window : Nat, pct : Percentages \cup {NoPercentage},
                   buffer : EmergencyBuffers, enabled : BOOLEAN]
    /\ history \in Seq(Nat) /\ {real, usage, unseen} \subseteq Nat

\* a request that no compaction was tried for stays below the trigger;
TriedInv ==
    /\ step = "emergency" => tried \/ ~limits.enabled \/ CircuitBroken
                                \/ usage < Trigger(limits)
    /\ step = "summary" => tried

\* and at each step it is known what may have been spent before it.
SpentInv ==
    /\ {failures, retries, spent} \subseteq Nat /\ retries <= MaxRetries
    /\ step = "guard" => spent = 0 /\ ~retried
    /\ step = "emergency" => spent <= MaxRetries + 1 /\ ~retried
    /\ step = "summary" =>
          /\ spent <= retries + (IF retried THEN MaxRetries + 2 ELSE 0)
          /\ purpose \in {"turn", "overflow", "command"}
          /\ purpose = "overflow" <=> retried
          /\ ~CircuitBroken
    /\ step = "send" => spent <= IF retried THEN 2 * MaxRetries + 3 ELSE MaxRetries + 1
=============================================================================
