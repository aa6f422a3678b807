------------------------------- MODULE AgentRun -------------------------------
(***************************************************************************)
(* One agent engine (dream-engine-agent, engine.rs) answering its user:    *)
(* the run loop with its tool rounds, truncation recovery, finalization    *)
(* and compaction; the gated inbox through which a host adds user messages *)
(* to a run in progress (pending_input.rs); the session file every save    *)
(* writes; a host that drops the run and calls abort_current_turn; a crash *)
(* followed by a resume from the session file.                             *)
(*                                                                         *)
(* The engine is one task: what it does between two await points is one    *)
(* action, except that an action ends wherever it takes the inbox lock,    *)
(* because pushes come from other threads.  A history entry keeps its role *)
(* in the protocol and which user messages it carries.                     *)
(***************************************************************************)
EXTENDS Naturals, Sequences, Functions

CONSTANTS
    Inputs,             \* user messages, each sent at most once
    MaxRuns,            \* bound on the runs explored
    MaxTurns,           \* max_turns_per_run
    MaxContinuations,   \* MAX_TRUNCATION_CONTINUATIONS, 12 in the source
    Hazards             \* which of "cancel", "quit", "crash" may happen

ASSUME ConstantsAssumption ==
    /\ MaxRuns \in Nat
    /\ MaxTurns \in Nat
    /\ MaxContinuations \in Nat \ {0}
    /\ Hazards \subseteq {"cancel", "quit", "crash"}

VARIABLES
    open, queue,        \* the inbox: gate, messages waiting in order
    messages,           \* the conversation in memory
    saved,              \* the conversation in the session file
    pc,                 \* where the engine is
    kind,               \* TurnKind of the current model turn
    turns,              \* counted normal turns of this run
    retried,            \* the run's one empty-answer retry is spent
    attempt,            \* output-limit continuation under way
    overflowed,         \* this turn already recovered from a context overflow
    calls,              \* requests this run sent (summaries not counted)
    task,               \* message the run was started with, not yet recorded
    result,             \* how the last run ended
    runs,               \* runs started
    said,               \* history: user messages let in, in order
    asked,              \* history: user messages the last request carried
    lost                \* history: user messages a crash took from memory

inbox  == <<open, queue>>
convo  == <<messages, saved>>
turn   == <<kind, attempt, overflowed, calls>>
guards == <<turns, retried>>
ghosts == <<said, lost>>
vars   == <<inbox, convo, pc, turn, guards, task, result, runs, ghosts, asked>>

Reasons == {"TurnBudget", "ToolFailure", "MaxTokens", "EmptyFinal"}
Running == {"begin", "top", "ask", "recover", "send", "wait", "tools", "look"}
AwaitPoints == {"ask", "recover", "send", "wait", "tools"}

Entry == [kind : {"user", "prompt", "text", "calls", "results", "summary"},
          inputs : SUBSET Inputs]
-------------------------------------------------------------------------------
User(S)    == [kind |-> "user", inputs |-> S]
Control(k) == [kind |-> k, inputs |-> {}]

\* The user messages a history carries; a summary carries all it replaced.
Covered(h) == UNION {h[i].inputs : i \in DOMAIN h}

\* Mutant of Summary: only the newest entry is summarized.
Summary_NewestOnly(h) ==
    <<[kind |-> "summary", inputs |-> IF h = <<>> THEN {} ELSE h[Len(h)].inputs]>>

Summary(h) == <<[kind |-> "summary", inputs |-> Covered(h)]>>

\* Mutant of Framed: the newest waiting message first.
Framed_NewestFirst(q) == [i \in DOMAIN q |-> User({q[Len(q) + 1 - i]})]

\* One entry for each waiting message, in order.
Framed(q) == [i \in DOMAIN q |-> User({q[i]})]

\* What a cut-off answer leaves: its text if there was any, never its calls.
CutContent == {<<>>, <<Control("text")>>}

\* push_history followed by save_session, and a push the code does not save.
Record(h)   == messages' = h /\ saved' = h
Remember(h) == messages' = h /\ UNCHANGED saved

\* Mutant of Fold: the folded messages stay in memory.
Fold_Unsaved(h, q) == messages' = h \o Framed(q) /\ UNCHANGED saved

\* fold_into_history: nothing is written when nothing was waiting.
Fold(h, q) == /\ messages' = h \o Framed(q)
              /\ saved' = IF q = <<>> THEN saved ELSE h \o Framed(q)

EndRun(r) == pc' = "closing" /\ result' = r

StartTurn(k) == kind' = k /\ overflowed' = FALSE /\ pc' = "ask"

\* Mutant of BudgetReached: one turn too many.
BudgetReached_Late == turns > MaxTurns

BudgetReached == turns >= MaxTurns
-------------------------------------------------------------------------------
Init == /\ open = FALSE /\ queue = <<>>
        /\ messages = <<>> /\ saved = <<>>
        /\ pc = "idle" /\ kind = "Normal"
        /\ turns = 0 /\ retried = FALSE /\ attempt = 0
        /\ overflowed = FALSE /\ calls = 0
        /\ task = {} /\ result = "none" /\ runs = 0
        /\ said = <<>> /\ asked = {} /\ lost = {}

\* Mutant of Push: the gate is not looked at.
Push_Ungated(m) == /\ m \notin Range(said)
                   /\ queue' = Append(queue, m)
                   /\ said' = Append(said, m)
                   /\ UNCHANGED <<open, convo, pc, turn, guards, task, result,
                                  runs, asked, lost>>

\* A host thread hands over a message mid-run; a shut gate refuses it and
\* keeps nothing, which is a step that changes nothing.
Push(m) == /\ open
           /\ m \notin Range(said)
           /\ queue' = Append(queue, m)
           /\ said' = Append(said, m)
           /\ UNCHANGED <<open, convo, pc, turn, guards, task, result, runs,
                          asked, lost>>

\* run_with_blocks: the gate opens before run_inner records the message.
StartRun(m) == /\ pc = "idle" /\ runs < MaxRuns
               /\ m \notin Range(said)
               /\ open' = TRUE
               /\ task' = {m} /\ said' = Append(said, m)
               /\ pc' = "begin" /\ runs' = runs + 1 /\ result' = "none"
               /\ turns' = 0 /\ retried' = FALSE
               /\ kind' = "Normal" /\ attempt' = 0
               /\ overflowed' = FALSE /\ calls' = 0 /\ asked' = {}
               /\ UNCHANGED <<queue, convo, lost>>

Begin == /\ pc = "begin"
         /\ Record(Append(messages, User(task)))
         /\ task' = {} /\ pc' = "top"
         /\ UNCHANGED <<inbox, turn, guards, result, runs, ghosts, asked>>

StopAtBudget == /\ pc = "top" /\ BudgetReached
                /\ Record(messages)
                /\ EndRun("max_turns")
                /\ UNCHANGED <<inbox, turn, guards, task, runs, ghosts, asked>>

\* Mutant of Absorb: the queue is read and not emptied.
Absorb_Peeks == /\ pc = "top" /\ ~BudgetReached
                /\ Fold(messages, queue)
                /\ StartTurn("Normal")
                /\ UNCHANGED <<inbox, attempt, calls, guards, task, result, runs,
                               ghosts, asked>>

\* absorb_pending_input, then a normal turn.
Absorb == /\ pc = "top" /\ ~BudgetReached
          /\ queue' = <<>>
          /\ Fold(messages, queue)
          /\ StartTurn("Normal")
          /\ UNCHANGED <<open, attempt, calls, guards, task, result, runs,
                         ghosts, asked>>
-------------------------------------------------------------------------------
(* One model turn: compaction, the request, and one recovery if the        *)
(* provider says the prompt does not fit.                                  *)

\* Microcompaction clears old tool output, which entries do not hold, and
\* saves; autocompaction that fails or is not due changes nothing here.
Microcompact == /\ pc = "ask" /\ saved # messages
                /\ Record(messages)
                /\ UNCHANGED <<inbox, pc, turn, guards, task, result, runs,
                               ghosts, asked>>

\* Autocompaction before a request, or on the evidence of an overflow.
Compact == /\ pc \in {"ask", "recover"}
           /\ Record(Summary(messages))
           /\ pc' = "send"
           /\ UNCHANGED <<inbox, turn, guards, task, result, runs, ghosts,
                          asked>>

\* The emergency limit, or a recovery that freed nothing.
ContextTooLong == /\ pc \in {"ask", "recover"}
                  /\ EndRun("error")
                  /\ UNCHANGED <<inbox, convo, turn, guards, task, runs,
                                 ghosts, asked>>

Send == /\ pc \in {"ask", "send"}
        /\ calls' = calls + 1
        /\ asked' = Covered(messages)
        /\ pc' = "wait"
        /\ UNCHANGED <<inbox, convo, kind, attempt, overflowed, guards, task,
                       result, runs, ghosts>>

\* Mutant of Overflow: every overflow is retried.
Overflow_Always == /\ pc = "wait"
                   /\ overflowed' = TRUE /\ pc' = "recover"
                   /\ UNCHANGED <<inbox, convo, kind, attempt, calls, guards,
                                  task, result, runs, ghosts, asked>>

Overflow == /\ pc = "wait" /\ ~overflowed
            /\ overflowed' = TRUE /\ pc' = "recover"
            /\ UNCHANGED <<inbox, convo, kind, attempt, calls, guards, task,
                           result, runs, ghosts, asked>>

\* Any other provider error, or a second overflow in one turn.
Fail == /\ pc = "wait"
        /\ EndRun("error")
        /\ UNCHANGED <<inbox, convo, turn, guards, task, runs, ghosts, asked>>
-------------------------------------------------------------------------------
(* What a normal turn brought.                                             *)

Outcome == pc = "wait" /\ kind = "Normal" /\ turns' = turns + 1

AnswerTools == /\ Outcome
               /\ Record(Append(messages, Control("calls")))
               /\ pc' = "tools"
               /\ UNCHANGED <<inbox, turn, retried, task, result, runs, ghosts,
                              asked>>

\* Mutant of AnswerFinal: the run is over without a last look.
AnswerFinal_NoLook == /\ Outcome
                      /\ Record(Append(messages, Control("text")))
                      /\ EndRun("end_turn")
                      /\ UNCHANGED <<inbox, turn, retried, task, runs, ghosts,
                                     asked>>

AnswerFinal == /\ Outcome
               /\ Record(Append(messages, Control("text")))
               /\ pc' = "look"
               /\ UNCHANGED <<inbox, turn, retried, task, result, runs, ghosts,
                              asked>>

\* Mutant of Look: the engine waits for the queue to be empty.
Look_Waits ==
    /\ pc = "look" /\ queue = <<>>
    /\ open' = FALSE /\ EndRun("end_turn")
    /\ UNCHANGED <<queue, convo, turn, guards, task, runs, ghosts, asked>>

\* close_if_empty decides under the inbox lock.
Look == /\ pc = "look"
        /\ \/ /\ queue = <<>>
              /\ open' = FALSE /\ EndRun("end_turn")
           \/ /\ queue # <<>>
              /\ pc' = "top" /\ UNCHANGED <<open, result>>
        /\ UNCHANGED <<queue, convo, turn, guards, task, runs, ghosts, asked>>

\* recover_truncated_tool_call: nothing is saved here.
CutCall == /\ Outcome
           /\ \E c \in CutContent :
                 Remember(messages \o c \o <<Control("prompt")>>)
           /\ pc' = "top"
           /\ UNCHANGED <<inbox, turn, retried, task, result, runs, ghosts,
                          asked>>

\* continue_truncated up to its first continuation turn.
Cut == /\ Outcome
       /\ \E c \in CutContent : Remember(messages \o c)
       /\ attempt' = 1 /\ StartTurn("MaxTokens")
       /\ UNCHANGED <<inbox, calls, retried, task, result, runs, ghosts, asked>>

Empty == /\ Outcome
         /\ \/ /\ ~retried /\ retried' = TRUE
               /\ Record(Append(messages, Control("prompt")))
               /\ pc' = "top" /\ UNCHANGED <<kind, overflowed>>
            \/ /\ retried /\ StartTurn("EmptyFinal")
               /\ UNCHANGED <<convo, retried>>
         /\ UNCHANGED <<inbox, attempt, calls, task, result, runs, ghosts,
                        asked>>
-------------------------------------------------------------------------------
(* The tool round.  Which guard fires is after_tool_round's business       *)
(* (module TurnGuards); a spent turn budget is the one it cannot pass over.*)

ToolsDone ==
    /\ pc = "tools"
    /\ \E followUp \in {<<>>, <<Control("prompt")>>} :
          Record(messages \o <<Control("results")>> \o followUp)
    /\ \/ /\ ~BudgetReached
          /\ pc' = "top" /\ UNCHANGED <<kind, overflowed, result>>
       \/ /\ \/ StartTurn("ToolFailure")
             \/ BudgetReached /\ StartTurn("TurnBudget")
          /\ UNCHANGED result
       \/ EndRun("error") /\ UNCHANGED <<kind, overflowed>>
    /\ UNCHANGED <<inbox, attempt, calls, guards, task, runs, ghosts, asked>>

\* The user quits at a confirmation: saved as it stands, calls unanswered.
ToolsQuit == /\ "quit" \in Hazards
             /\ pc = "tools"
             /\ Record(messages)
             /\ EndRun("aborted")
             /\ UNCHANGED <<inbox, turn, guards, task, runs, ghosts, asked>>
-------------------------------------------------------------------------------
(* Finalization turns, which offer the model no tools.                     *)

\* The answer was cut again: another continuation, or the fallback.
ContinueCut ==
    /\ pc = "wait" /\ kind = "MaxTokens"
    /\ \E c \in CutContent :
          \/ /\ attempt < MaxContinuations
             /\ Remember(messages \o c)
             /\ attempt' = attempt + 1 /\ StartTurn("MaxTokens")
             /\ UNCHANGED result
          \/ /\ attempt = MaxContinuations
             /\ Record(messages \o c \o <<Control("text")>>)
             /\ EndRun("max_tokens")
             /\ UNCHANGED <<kind, attempt, overflowed>>
    /\ UNCHANGED <<inbox, calls, guards, task, runs, ghosts, asked>>

FinalizeDone == /\ pc = "wait" /\ kind \in Reasons
                /\ Record(Append(messages, Control("text")))
                /\ EndRun("end_turn")
                /\ UNCHANGED <<inbox, turn, guards, task, runs, ghosts, asked>>

\* finalize_fallback: no usable answer, the notice is recorded instead.
FinalizeFallback ==
    /\ pc = "wait" /\ kind \in Reasons
    /\ Record(Append(messages, Control("text")))
    /\ EndRun(CASE kind = "MaxTokens"  -> "max_tokens"
                [] kind = "EmptyFinal" -> "end_turn"
                [] OTHER               -> "max_turns")
    /\ UNCHANGED <<inbox, turn, guards, task, runs, ghosts, asked>>
-------------------------------------------------------------------------------
\* Mutant of CloseRun: the gate is shut, the queue is left.
CloseRun_LeavesQueue == /\ pc = "closing"
                        /\ open' = FALSE /\ pc' = "idle"
                        /\ UNCHANGED <<queue, convo, turn, guards, task, result,
                                       runs, ghosts, asked>>

\* close_pending_input: what was let in and not answered becomes history.
CloseRun == /\ pc = "closing"
            /\ open' = FALSE /\ queue' = <<>>
            /\ Fold(messages, queue)
            /\ pc' = "idle"
            /\ UNCHANGED <<turn, guards, task, result, runs, ghosts, asked>>

\* The host drops the run future at an await point; the gate stays open.
Cancel == /\ "cancel" \in Hazards
          /\ pc \in AwaitPoints
          /\ pc' = "cancelled"
          /\ UNCHANGED <<inbox, convo, turn, guards, task, result, runs, ghosts,
                         asked>>

Orphaned(h) == h # <<>> /\ h[Len(h)].kind = "calls"

\* Mutants of Abort: the calls get no synthetic results; the inbox is
\* forgotten.
Abort_NoResults ==
    /\ pc = "cancelled"
    /\ open' = FALSE /\ queue' = <<>>
    /\ Fold(messages, queue)
    /\ pc' = "idle"
    /\ UNCHANGED <<turn, guards, task, result, runs, ghosts, asked>>
Abort_KeepsInbox ==
    /\ pc = "cancelled"
    /\ \/ Orphaned(messages) /\ Record(Append(messages, Control("results")))
       \/ ~Orphaned(messages) /\ UNCHANGED convo
    /\ pc' = "idle"
    /\ UNCHANGED <<inbox, turn, guards, task, result, runs, ghosts, asked>>

\* abort_current_turn: synthetic results first, then the inbox.
Abort == /\ pc = "cancelled"
         /\ open' = FALSE /\ queue' = <<>>
         /\ \/ /\ Orphaned(messages)
               /\ Record(Append(messages, Control("results")) \o Framed(queue))
            \/ /\ ~Orphaned(messages)
               /\ Fold(messages, queue)
         /\ pc' = "idle"
         /\ UNCHANGED <<turn, guards, task, result, runs, ghosts, asked>>

\* The process dies at any point and the session is resumed from its file.
Crash == /\ "crash" \in Hazards
         /\ open' = FALSE /\ queue' = <<>>
         /\ messages' = saved /\ UNCHANGED saved
         /\ lost' = lost \cup Range(queue) \cup task
         /\ task' = {} /\ pc' = "idle" /\ result' = "none"
         /\ UNCHANGED <<turn, guards, runs, said, asked>>
-------------------------------------------------------------------------------
ModelTurn == \/ Microcompact \/ Compact \/ ContextTooLong
             \/ Send \/ Overflow \/ Fail
NormalTurn == \/ AnswerTools \/ AnswerFinal \/ CutCall \/ Cut \/ Empty
FinalTurn == ContinueCut \/ FinalizeDone \/ FinalizeFallback

Engine == \/ Begin \/ StopAtBudget \/ Absorb
          \/ ModelTurn \/ NormalTurn \/ Look \/ ToolsDone \/ ToolsQuit
          \/ FinalTurn \/ CloseRun

Host == \/ \E m \in Inputs : Push(m) \/ StartRun(m)
        \/ Cancel \/ Abort

Next == Engine \/ Host \/ Crash

Spec == Init /\ [][Next]_vars

\* The engine task is polled, providers and tools come back with something,
\* and a host that drops a run aborts it.
Fairness == WF_vars(Engine) /\ WF_vars(Abort)
FairSpec == Spec /\ Fairness
-------------------------------------------------------------------------------
(* Correctness.                                                            *)

\* Every variable has its type; a continuation never exceeds its allowance
\* and a normal turn never exceeds the run's budget.
TypeOK ==
    /\ open \in BOOLEAN /\ queue \in Seq(Inputs)
    /\ messages \in Seq(Entry) /\ saved \in Seq(Entry)
    /\ pc \in Running \cup {"idle", "closing", "cancelled"}
    /\ kind \in Reasons \cup {"Normal"}
    /\ turns \in 0..MaxTurns /\ retried \in BOOLEAN
    /\ attempt \in 0..MaxContinuations
    /\ overflowed \in BOOLEAN /\ calls \in Nat
    /\ task \subseteq Inputs
    /\ result \in {"none", "end_turn", "max_turns", "max_tokens", "error",
                   "aborted"}
    /\ runs \in 0..MaxRuns
    /\ said \in Seq(Inputs)
    /\ asked \subseteq Inputs /\ lost \subseteq Inputs

\* The inbox is open for the whole of a run and shut between runs, so that a
\* refused push means there is no run to join (engine.rs 526-532).
OpenForTheRun == /\ pc \in Running \cup {"cancelled"} => open
                 /\ pc = "idle" => ~open

\* The gate is never shut on a waiting message: whoever shuts it looked at
\* the queue in the same step or takes the queue along (pending_input.rs
\* 69-92).
NothingStranded == ~open => queue = <<>>

\* Each message the user got in is in exactly one place: in the history, in
\* the inbox, in the hands of a starting run, or lost to a crash.  No fold,
\* retry, compaction, abort or resume drops or repeats one.
EachInputOnce ==
    LET Waiting == Range(queue) IN
    /\ Range(said) = Covered(messages) \cup Waiting \cup task \cup lost
    /\ Covered(messages) \cap (Waiting \cup task \cup lost) = {}
    /\ Waiting \cap (task \cup lost) = {}
    /\ task \cap lost = {}
    /\ \A i, j \in DOMAIN queue : queue[i] = queue[j] => i = j
    /\ \A i, j \in DOMAIN messages :
          messages[i].inputs \cap messages[j].inputs # {} => i = j

\* The history holds user messages in the order the user said them, and
\* whatever was said before a recorded message is recorded or lost: the
\* inbox never lets a later message overtake an earlier one.
HeardInOrder ==
    \A a, b \in DOMAIN said :
       (a < b /\ said[b] \in Covered(messages)) =>
          \/ said[a] \in lost
          \/ \E i, j \in DOMAIN messages :
                /\ i <= j
                /\ said[a] \in messages[i].inputs
                /\ said[b] \in messages[j].inputs

\* No user message is in memory only: wherever a crash strikes, the session
\* file carries every message the conversation does.
HeardIsSaved == Covered(messages) = Covered(saved)

\* A message the user got in is never lost but to a crash before it was heard:
\* no gate is shut on it, and what was heard is on the disk.
NothingLost == NothingStranded /\ HeardIsSaved

\* It is in one place, and in the order it was said in.
HeardOnceInOrder == EachInputOnce /\ HeardInOrder

\* A run that reports a final answer of a normal turn has asked the model
\* about every message the user got in: the last look and the closing of the
\* inbox leave no gap (engine.rs 637-655).  Of a run that ends in a continuation
\* or a finalization this does not hold, whatever pending_input.rs 12-16 says.
FinalAnswersAll ==
    (pc = "idle" /\ result = "end_turn" /\ kind = "Normal") =>
        Range(said) \subseteq asked \cup lost

\* Every request the provider is sent pairs each assistant tool call with
\* the results that follow it immediately (engine.rs 2073-2077).
Replayable(h) ==
    \A i \in DOMAIN h : h[i].kind = "calls" =>
        i < Len(h) /\ h[i + 1].kind = "results"
RequestReplayable == pc = "wait" => Replayable(messages)

\* A run sends a bounded number of requests whatever the provider, the tools
\* and the user do: each normal turn and each continuation is one request
\* and at most one retry after an overflow.
RequestBudget == calls <= 2 * (MaxTurns + MaxContinuations)

\* A run stays within its bounds, of turns, continuations and requests.
RunBounded == TypeOK /\ RequestBudget

\* What the conversation has heard is never forgotten, by compaction, abort
\* or a crash and resume.
NeverForgets == [][Covered(messages) \subseteq Covered(messages')]_vars

\* A message the inbox took reaches the history, however the run ends.
EventuallyHeard ==
    \A m \in Inputs : m \in Range(queue) ~> m \in Covered(messages)

\* Every run ends: no mix of truncations, empty answers, tool failures and
\* messages that keep arriving holds the engine in its loop for ever.
EveryRunEnds == pc # "idle" ~> pc = "idle"

\* The engine keeps the promise made to the host.
Contract == INSTANCE InboxContract
              WITH gate <- open, waiting <- queue, heard <- Covered(messages)
KeepsContract == Contract!Spec
===============================================================================
