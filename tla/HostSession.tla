----------------------------- MODULE HostSession -----------------------------
(***************************************************************************)
(* A session driven by a host over stdin (--json-stream): the main loop    *)
(* (json_stream/session.rs, dispatch.rs), the select loop of one message   *)
(* (message.rs), the tool round of the engine on this path                 *)
(* (execute_tool_calls_with_approval in orchestration.rs), the pending     *)
(* approvals (protocol/approval.rs) and questions (ask.rs,                 *)
(* ask_user_tool.rs).                                                      *)
(*                                                                         *)
(* One task owns all of it and commands wait in an unbounded channel, so   *)
(* a step is what happens between two awaits: a command taken from the     *)
(* channel, or the engine going on to its next await.                      *)
(***************************************************************************)
EXTENDS Naturals, Sequences, FiniteSets

CONSTANTS
    Calls,              \* ids of tool calls
    MaxRound,           \* bound on the calls of a round
    MaxSent,            \* bound on the commands the host sends of its own accord
    MayClose            \* whether the host may close stdin

ASSUME ConstantsAssumption ==
    MaxRound \in Nat /\ MaxSent \in Nat /\ MayClose \in BOOLEAN

VARIABLES
    stdin,              \* commands on their way
    closed,             \* the host closed stdin
    sent,               \* commands the host has sent of its own accord
    shown,              \* requests and questions the user has yet to decide
    wrote,              \* history: the decisions and modes it has sent
    phase,              \* "idle", "busy" with a message, "over"
    at,                 \* the await the engine is at
    round, next,        \* calls of the round, and the one it is at
    results,            \* their results so far
    used,               \* ids of earlier rounds
    pending, questions, \* ToolApprovalManager, AskUserManager: who waits
    verdict,            \* what the waiting call's channel holds
    mode,               \* session_mode
    config, queued,     \* settings in force; a set_config put off, or NoUpdate
    newest,             \* history: the last set_config handled
    stamp,              \* history: how many there were
    ran                 \* history: calls of the round that were run

host    == <<closed, sent, shown, wrote>>
engine  == <<at, round, next, results, used>>
waiting == <<pending, questions, verdict>>
setup   == <<mode, config, queued, newest, stamp>>
vars == <<stdin, host, phase, engine, waiting, setup, ran>>

\* "free": allow-listed by name.  "ask": the ask_user tool.  The others need
\* an approval unless the mode waives it; MCP and unknown tools are like "exec",
\* the category info is like "edit".
Needs == {"exec", "edit", "free", "ask"}
Modes == {"default", "auto_edit", "yolo"}
Call  == [id : Calls, need : Needs]

Fields   == {"model", "thinking"}
NoUpdate == [f \in Fields |-> 0]
Update   == [Fields -> Nat]

Result  == [id : Calls, how : {"done", "failed", "denied", "answered"}]
Replies == {"approve", "deny", "answer"}
\* Ping, InitHistory and, between messages, AddMcpServer change nothing here.
Command == [kind : {"message", "stop"}, arg : {0}]
             \cup [kind : Replies, arg : Calls]
             \cup [kind : {"mode"}, arg : Modes]
             \cup [kind : {"config"}, arg : Fields]
-------------------------------------------------------------------------------
Init ==
    /\ stdin = <<>> /\ closed = FALSE /\ sent = 0 /\ shown = {}
    /\ wrote = {}
    /\ phase = "idle" /\ at = "none" /\ round = <<>> /\ next = 1 /\ results = <<>>
    /\ used = {}
    /\ pending = {} /\ questions = {} /\ verdict = "none"
    /\ mode = "default" /\ config = NoUpdate /\ queued = NoUpdate
    /\ newest = NoUpdate /\ stamp = 0 /\ ran = {}
-------------------------------------------------------------------------------
(* The host.                                                               *)

Write(c) == /\ stdin' = Append(stdin, c)
            /\ wrote' = IF c.kind \in Replies \cup {"mode"} THEN wrote \cup {c} ELSE wrote

\* Any command at any time, answers to calls that did not ask among them.
Send(c) == /\ ~closed /\ sent < MaxSent /\ phase # "over"
           /\ Write(c) /\ sent' = sent + 1
           /\ UNCHANGED <<closed, shown, phase, engine, waiting, setup, ran>>

\* The user decides on what the host shows.
Reply(id) ==
    /\ ~closed /\ phase # "over"
    /\ \E c \in shown :
          /\ c.id = id
          /\ \E k \in IF c.need = "ask" THEN {"answer"} ELSE {"approve", "deny"} :
                Write([kind |-> k, arg |-> id])
          /\ shown' = shown \ {c}
    /\ UNCHANGED <<closed, sent, phase, engine, waiting, setup, ran>>

\* The host closes stdin, or dies.  The session notices when it has taken all
\* that was sent before, so closing before that is no other behaviour.
Close == /\ MayClose /\ ~closed /\ stdin = <<>> /\ phase # "over"
         /\ closed' = TRUE
         /\ UNCHANGED <<stdin, sent, shown, wrote, phase, engine, waiting,
                        setup, ran>>
-------------------------------------------------------------------------------
(* Commands.                                                               *)

\* Mutant of Resolve: a decision settles whatever is waiting.
Resolve_AnyCall(id, what) ==
    /\ verdict' = IF pending # {} THEN what ELSE verdict
    /\ pending' = {}
    /\ UNCHANGED questions

\* Mutant of Resolve: the entry is looked up but not removed.
Resolve_KeepsEntry(id, what) ==
    /\ verdict' = IF id \in pending THEN what ELSE verdict
    /\ UNCHANGED <<pending, questions>>

\* resolve: only a call that waits can be settled, and only once.  The scope of
\* an approval is not looked at.
Resolve(id, what) ==
    /\ verdict' = IF id \in pending THEN what ELSE verdict
    /\ pending' = pending \ {id}
    /\ UNCHANGED questions

AnswerQuestion(id) ==
    /\ verdict' = IF id \in questions THEN "answer" ELSE verdict
    /\ questions' = questions \ {id}
    /\ UNCHANGED pending

Merged(old, update) == [f \in Fields |-> IF update[f] # 0 THEN update[f] ELSE old[f]]

\* At once between messages; during one, instead of what was queued before.
Configure(field) ==
    LET update == [NoUpdate EXCEPT ![field] = stamp + 1]
    IN  /\ stamp' = stamp + 1 /\ newest' = update
        /\ IF phase = "busy"
           THEN queued' = update /\ UNCHANGED config
           ELSE config' = Merged(config, update) /\ UNCHANGED queued
        /\ UNCHANGED mode

EngineGone == at' = "none" /\ round' = <<>> /\ next' = 1 /\ results' = <<>>

\* What both loops make of the next command.
Handle ==
    /\ phase # "over" /\ stdin # <<>>
    /\ stdin' = Tail(stdin)
    /\ LET c == Head(stdin) IN
       \/ /\ c.kind = "message" /\ phase = "idle"
          /\ phase' = "busy" /\ at' = "model"
          /\ UNCHANGED <<round, next, results, used, waiting, setup, ran>>
       \/ /\ c.kind = "message" /\ phase = "busy"      \* ignored
          /\ UNCHANGED <<phase, engine, waiting, setup, ran>>
       \/ /\ c.kind = "stop"                          \* the run is dropped
          /\ phase' = "over" /\ EngineGone /\ questions' = {} /\ ran' = {}
          /\ config' = Merged(config, queued) /\ queued' = NoUpdate
          /\ UNCHANGED <<used, pending, verdict, mode, newest, stamp>>
       \/ /\ c.kind \in {"approve", "deny"}
          /\ Resolve(c.arg, IF c.kind = "approve" THEN "yes" ELSE "no")
          /\ UNCHANGED <<phase, engine, setup, ran>>
       \/ /\ c.kind = "answer" /\ AnswerQuestion(c.arg)
          /\ UNCHANGED <<phase, engine, setup, ran>>
       \/ /\ c.kind = "mode" /\ mode' = c.arg
          /\ UNCHANGED <<phase, engine, waiting, config, queued, newest, stamp, ran>>
       \/ /\ c.kind = "config" /\ Configure(c.arg)
          /\ UNCHANGED <<phase, engine, waiting, ran>>
    /\ UNCHANGED host

\* Mutant of EndOfInput: nothing more to read is no reason to stop.
EndOfInput_Ignored == /\ phase = "idle" /\ closed /\ stdin = <<>>
                      /\ UNCHANGED vars

\* The end of the input ends the session between messages only: the branch of
\* select! is Some(..) = recv(), and is passed over when there is nothing more.
EndOfInput == /\ phase = "idle" /\ closed /\ stdin = <<>>
              /\ phase' = "over"
              /\ UNCHANGED <<stdin, host, engine, waiting, setup, ran>>
-------------------------------------------------------------------------------
(* The engine, busy with a message.                                        *)

Busy(await) == phase = "busy" /\ at = await

\* The model calls tools.
Round ==
    /\ Busy("model")
    /\ \E n \in 1..MaxRound : \E r \in [1..n -> Call] :
          /\ \A i, j \in 1..n : r[i].id = r[j].id => i = j
          /\ \A i \in 1..n : r[i].id \notin used
          /\ round' = r
          /\ used' = used \cup {r[i].id : i \in 1..n}
    /\ next' = 1 /\ results' = <<>> /\ at' = "round"
    /\ UNCHANGED <<stdin, host, phase, waiting, setup, ran>>

\* Mutant of Finish: what was put off is dropped.
Finish_DropsQueued ==
    /\ Busy("model")
    /\ phase' = "idle" /\ EngineGone
    /\ queued' = NoUpdate
    /\ UNCHANGED <<stdin, host, used, waiting, mode, config, newest, stamp, ran>>

\* The run ends, in an answer or an error: stream_end, and what was put off.
Finish ==
    /\ Busy("model")
    /\ phase' = "idle" /\ EngineGone
    /\ config' = Merged(config, queued) /\ queued' = NoUpdate
    /\ UNCHANGED <<stdin, host, used, waiting, mode, newest, stamp, ran>>

Now == round[next]
More == next <= Len(round)

\* is_auto_approved, by mode.
Waived(need) == \/ mode = "yolo"
                \/ mode = "auto_edit" /\ need = "edit"

Done(how) == /\ results' = Append(results, [id |-> Now.id, how |-> how])
             /\ next' = next + 1 /\ at' = "round"
             /\ UNCHANGED <<round, used>>

\* request_approval.
Ask == at' = "asking" /\ verdict' = "none" /\ pending' = pending \cup {Now.id}

\* The next call: it asks for approval, and waits, or it runs.
Take ==
    /\ Busy("round") /\ More
    /\ \/ /\ Now.need \in {"exec", "edit"} /\ ~Waived(Now.need)
          /\ Ask /\ shown' = shown \cup {Now}
          /\ UNCHANGED <<questions, ran>>
       \/ /\ Now.need = "ask"
          /\ at' = "question" /\ questions' = questions \cup {Now.id}
          /\ verdict' = "none"
          /\ shown' = shown \cup {Now} /\ ran' = ran \cup {Now}
          /\ UNCHANGED pending
       \/ /\ Now.need = "free" \/ (Now.need \in {"exec", "edit"} /\ Waived(Now.need))
          /\ at' = "running" /\ ran' = ran \cup {Now}
          /\ UNCHANGED <<shown, waiting>>
    /\ UNCHANGED <<stdin, closed, sent, wrote, phase, round, next, results,
                   used, setup>>

\* Mutant of Deny: a denied call is passed over without a result.
Deny_NoResult == next' = next + 1 /\ at' = "round" /\ UNCHANGED <<round, results, used>>

Deny == Done("denied")

\* The decision arrived.
Decided ==
    /\ Busy("asking") /\ verdict # "none"
    /\ \/ /\ verdict = "yes"
          /\ at' = "running" /\ ran' = ran \cup {Now}
          /\ UNCHANGED <<round, next, results, used>>
       \/ verdict = "no" /\ Deny /\ UNCHANGED ran
    /\ shown' = shown \ {Now}
    /\ UNCHANGED <<stdin, closed, sent, wrote, phase, waiting, setup>>

Ran == /\ Busy("running")
       /\ \E how \in {"done", "failed"} : Done(how)
       /\ UNCHANGED <<stdin, host, phase, waiting, setup, ran>>

Answered == /\ Busy("question") /\ verdict # "none"
            /\ Done("answered")
            /\ shown' = shown \ {Now}
            /\ UNCHANGED <<stdin, closed, sent, wrote, phase, waiting, setup, ran>>

\* A question that is malformed, or refused by a guard, a hook, or the output.
BadQuestion == /\ Busy("round") /\ More /\ Now.need = "ask"
               /\ Done("failed")
               /\ UNCHANGED <<stdin, host, phase, waiting, setup, ran>>

\* All results are in: they go into the history, and to the model.
RoundDone == /\ Busy("round") /\ ~More
             /\ at' = "model" /\ ran' = {}
             /\ UNCHANGED <<stdin, host, phase, round, next, results, used, waiting,
                            setup>>
-------------------------------------------------------------------------------
Engine == Round \/ Finish \/ Take \/ Decided \/ Ran \/ Answered \/ BadQuestion
          \/ RoundDone

Next == \/ \E c \in Command : Send(c)
        \/ \E c \in Calls : Reply(c)
        \/ Close \/ Handle \/ EndOfInput \/ Engine

Spec == Init /\ [][Next]_vars

\* The runtime polls what is ready, providers and tools answer, fail or time
\* out, and the user decides on every request and question as long as the host
\* has not closed stdin.
FairSpec == /\ Spec /\ WF_vars(Engine) /\ WF_vars(Handle \/ EndOfInput)
            /\ WF_vars(\E id \in Calls : Reply(id))
-------------------------------------------------------------------------------
\* Every variable has its type, and a call waits exactly while the engine does.
TypeOK ==
    /\ stdin \in Seq(Command) /\ wrote \subseteq Command
    /\ closed \in BOOLEAN /\ sent \in 0..MaxSent
    /\ shown \subseteq Call /\ ran \subseteq Call
    /\ phase \in {"idle", "busy", "over"}
    /\ at \in {"none", "model", "round", "asking", "question", "running"}
    /\ round \in Seq(Call) /\ next \in 1..(Len(round) + 1)
    /\ results \in Seq(Result) /\ used \subseteq Calls
    /\ verdict \in {"none", "yes", "no", "answer"}
    /\ mode \in Modes /\ stamp \in Nat
    /\ {config, queued, newest} \subseteq Update
    /\ phase # "over" =>
         pending = IF at = "asking" /\ verdict = "none" THEN {Now.id} ELSE {}
    /\ questions = IF at = "question" /\ verdict = "none" THEN {Now.id} ELSE {}

Wrote(k, a) == [kind |-> k, arg |-> a] \in wrote

\* No tool runs that the host did not let run: it approved that very call, put
\* the session in a mode that waives the approval, or the tool needs none; and
\* a denial or an answer in the results is the host's, for that very call, in
\* whatever order its commands come (docs/json-stream-protocol.md 98, 442-448;
\* ask.rs 46-47).
HostDecides ==
    /\ \A c \in ran : \/ c.need \in {"free", "ask"}
                      \/ Wrote("approve", c.id)
                      \/ Wrote("mode", "yolo")
                      \/ c.need = "edit" /\ Wrote("mode", "auto_edit")
    /\ \A i \in DOMAIN results :
          /\ results[i].how = "denied" => /\ Wrote("deny", results[i].id)
                                         /\ results[i].id \notin {c.id : c \in ran}
          /\ results[i].how = "answered" => Wrote("answer", results[i].id)

\* When the results go back to the model there is one for each call, in the
\* order of the calls, denials and failures included: providers refuse any
\* other history (engine.rs 2073-2077).
RoundAnswered ==
    at = "model" => /\ Len(results) = Len(round)
                    /\ \A i \in DOMAIN results : results[i].id = round[i].id

\* Between messages the newest settings are in force, whether they came before,
\* during or after the last message.
NewestConfig ==
    phase = "idle" => \A f \in Fields : newest[f] # 0 => config[f] = newest[f]

\* And they do not change under a message.
ConfigStable == [][phase = "busy" /\ phase' = "busy" => config' = config]_vars

\* What the host says counts, of calls and of settings, and for what it was said.
HostInControl == HostDecides /\ NewestConfig

\* A call waits to be decided exactly while the engine waits for it, and a round
\* goes back with a result for each.
CallsSettled == TypeOK /\ RoundAnswered

\* The session comes to rest: a message ends, or ends with the session, and a
\* host that goes away ends the session, unless the engine needs a decision of
\* the host that went away.
Settles == (phase = "busy" \/ closed) ~>
              \/ phase = "over"
              \/ phase = "idle" /\ ~closed
              \/ closed /\ at \in {"asking", "question"}

\* "Client closes stdin (EOF) or sends SIGTERM. Agent cleans up and exits."
\* (docs/json-stream-protocol.md 647)
Exits == closed ~> phase = "over"
===============================================================================
