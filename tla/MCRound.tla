------------------------------- MODULE MCRound -------------------------------
(***************************************************************************)
(* One instance for TLC of the round of tool calls and of what surrounds   *)
(* it: the bytes of an answer and the calls decoded from them, the         *)
(* commands and hooks a call runs, the agents it starts, the skills and    *)
(* the text of one, the messages encoded for the next request and the      *)
(* window they must fit, and the configuration all of it runs under.  They *)
(* share no state, so a behaviour is one of a single component, chosen at  *)
(* the start, and the state space is the sum of theirs.  What has no       *)
(* variables of its own here has those of the round, in the order of their *)
(* declaration; what a component does not need stays Unused.               *)
(***************************************************************************)
EXTENDS ToolRound, Configuration, SkillSet, ContextWindow

CONSTANTS
    n1, n2,                         \* names of skills
    Configured, FromSkills, EventOf,  \* the hooks, as in CommandRun
    MaxRuns, MaxOutput,
    ChildTools, ParentTools,        \* tools, as in SubAgents
    MaxSubAgents, MaxTurns, MaxSpawns

VARIABLE which          \* the component that runs

Unused == "unused"

Wire == INSTANCE WireMessages WITH
    history <- front, calls <- rounds, style <- phase, MaxHistory <- 4

\* Every text of up to three pieces, and some longer ones with words in them that
\* look like placeholders or commands.
TextsOf == UNION {[1..n -> {"text", "$0", "!cmd", "open", "close"}] : n \in 1..3}
    \cup {<<"$name", "text">>, <<"open", "$ARGUMENTS[1]", "close", "!cmd", "$ARGUMENTS">>,
          <<"!cmd", "open", "!cmd", "close", "!cmd">>,
          <<"open", "open", "close", "text", "close">>}
ArgumentsOf == {<<>>, <<"w1", "w2">>, <<"$ARGUMENTS">>}

Skill == INSTANCE SkillRun WITH
    skill <- front, rules <- rounds, args <- phase, stage <- calls, outputs <- left,
    broken <- batch, text <- cleared,
    Texts <- TextsOf, Arguments <- ArgumentsOf, Letter <- <<"A", "B", "C", "D">>

Decode == INSTANCE StreamDecode WITH
    format <- front, planned <- rounds, limit <- phase, parts <- calls, buffers <- left,
    block <- batch, seen <- cleared, events <- running, decoded <- outcome,
    MaxCalls <- 3

\* Bytes: every text of up to three characters, and some longer ones in which
\* characters, lines and blocks are cut.
ShortTexts == UNION {[1..n -> {"d", "e", "x", "nl", "bad"}] : n \in 1..3}
LongTexts  == {<<"e", "x", "nl", "d", "x", "nl", "nl", "d", "e", "nl", "nl">>,
               <<"d", "bad", "x", "nl", "d", "bad", "nl", "d", "x", "nl">>,
               <<"d", "x", "nl", "nl", "nl", "d", "x", "nl", "nl">>}
StreamsOf  == [format \in {"line", "block", "ndjson", "aws"} |->
                  IF format = "aws" THEN UNION {[1..n -> {"m", "n"}] : n \in 1..3}
                  ELSE ShortTexts \cup LongTexts]

Framing == INSTANCE StreamFraming WITH
    wire <- front, got <- rounds, rest <- phase, undecoded <- calls, buffer <- left,
    kind <- batch, frames <- cleared, closed <- running, Streams <- StreamsOf

Agents == INSTANCE SubAgents WITH
    policy <- front, call <- rounds, children <- phase, spawns <- calls, ran <- left,
    answers <- batch,
    Builtin <- ChildTools, Others <- ParentTools

Events == [h \in {"lint", "log", "skill_pre", "bye"} |->
              CASE h = "log" -> "post" [] h = "bye" -> "stop" [] OTHER -> "pre"]

Command == INSTANCE CommandRun WITH
    hooks <- front, todo <- rounds, calls <- phase, passed <- calls, platform <- left,
    run <- batch, alive <- cleared, killed <- running, fate <- outcome, code <- results,
    armed <- final, pipe <- confirmed, taken <- allowList, wrote <- plan,
    returned <- saved

ASSUME HooksAssumption ==
    /\ EventOf \in [Configured \cup FromSkills -> {"pre", "post", "stop"}]
    /\ Command!Tool \notin Configured \cup FromSkills

Order         == <<"bundled", "user", "project">>
Linked        == {<<[source |-> "project", name |-> n2], [source |-> "user", name |-> n1]>>}
WindowsOf     == 4..8
RealOf        == 3..7
BuffersOf     == {1, 3}
PercentagesOf == {50, 80, 100}
-------------------------------------------------------------------------------
\* What the components with fewer variables leave unused, piece by piece.
FromFourth  == /\ calls = Unused /\ left = Unused /\ batch = Unused
               /\ cleared = Unused
FromEighth  == running = Unused /\ outcome = Unused
FromTenth   == /\ results = Unused /\ final = Unused /\ confirmed = Unused
               /\ allowList = Unused /\ plan = Unused /\ saved = Unused
FromSixteenth == /\ loaded = Unused /\ ran = Unused /\ yes = Unused /\ denied = Unused
                 /\ granted = Unused /\ outside = Unused /\ told = Unused
NoSettings  == given = Unused /\ stage = Unused /\ visited = Unused /\ config = Unused
NoSkills    == /\ disk = Unused /\ watcher = Unused /\ caller = Unused
               /\ listed = Unused /\ visible = Unused /\ dormant = Unused
               /\ activated = Unused /\ activatedNames = Unused /\ resets = Unused
NoWindow    == /\ limits = Unused /\ real = Unused /\ history = Unused
               /\ usage = Unused /\ failures = Unused /\ step = Unused
               /\ part = Unused /\ retries = Unused /\ purpose = Unused
               /\ retried = Unused /\ inputs = Unused /\ tried = Unused
               /\ spent = Unused /\ unseen = Unused
NoOthers    == NoSettings /\ NoSkills /\ NoWindow
NoRound     == /\ front = Unused /\ rounds = Unused /\ phase = Unused
               /\ FromFourth /\ FromEighth /\ FromTenth /\ FromSixteenth

others       == <<cfgVars, skillVars, windowVars>>
AfterFifteen == <<loaded, ran, yes, denied, granted, outside, told, others>>
AfterNine    == <<results, final, confirmed, allowList, plan, saved, AfterFifteen>>
AfterSeven   == <<running, outcome, AfterNine>>
AfterThree   == <<calls, left, batch, cleared, AfterSeven>>

RoundInit ==
    \/ which = "round" /\ Init /\ NoOthers
    \/ which = "command" /\ Command!ExecInit /\ FromSixteenth /\ NoOthers
    \/ which = "decode" /\ Decode!DecodeInit /\ FromTenth /\ FromSixteenth /\ NoOthers
    \/ /\ which = "skill" /\ Skill!RunInit
       /\ FromEighth /\ FromTenth /\ FromSixteenth /\ NoOthers
    \/ /\ which = "wire" /\ Wire!WireInit
       /\ FromFourth /\ FromEighth /\ FromTenth /\ FromSixteenth /\ NoOthers
    \/ /\ which = "bytes" /\ Framing!FramingInit
       /\ outcome = Unused /\ FromTenth /\ FromSixteenth /\ NoOthers
    \/ /\ which = "agents" /\ Agents!AgentsInit
       /\ cleared = Unused /\ FromEighth /\ FromTenth /\ FromSixteenth /\ NoOthers
    \/ which = "settings" /\ CfgInit /\ NoRound /\ NoSkills /\ NoWindow
    \/ which = "skills" /\ SkillsInit /\ NoRound /\ NoSettings /\ NoWindow
    \/ which = "window" /\ WindowInit /\ NoRound /\ NoSettings /\ NoSkills

RoundNext ==
    \/ which = "round" /\ Next /\ UNCHANGED <<which, others>>
    \/ which = "command" /\ Command!ExecNext /\ UNCHANGED <<which, AfterFifteen>>
    \/ which = "decode" /\ Decode!DecodeNext /\ UNCHANGED <<which, AfterNine>>
    \/ which = "skill" /\ Skill!RunNext /\ UNCHANGED <<which, AfterSeven>>
    \/ which = "wire" /\ Wire!WireNext /\ UNCHANGED <<which, AfterThree>>
    \/ which = "bytes" /\ Framing!FramingNext /\ UNCHANGED <<which, outcome, AfterNine>>
    \/ which = "agents" /\ Agents!AgentsNext /\ UNCHANGED <<which, cleared, AfterSeven>>
    \/ which = "settings" /\ CfgNext /\ UNCHANGED <<which, vars, skillVars, windowVars>>
    \/ which = "skills" /\ SkillsNext /\ UNCHANGED <<which, vars, cfgVars, windowVars>>
    \/ which = "window" /\ WindowNext /\ UNCHANGED <<which, vars, cfgVars, skillVars>>

RoundSpec == RoundInit /\ [][RoundNext]_<<which, vars, others>>
-------------------------------------------------------------------------------
\* The types of the ten components.
RoundTypeOK ==
    /\ which = "round"    => TypeOK
    /\ which = "command"  => Command!ExecTypeOK
    /\ which = "decode"   => Decode!DecodeTypeOK
    /\ which = "skill"    => Skill!RunTypeOK
    /\ which = "settings" => CfgTypeOK
    /\ which = "skills"   => SkillsTypeOK
    /\ which = "window"   => WindowTypeOK
    /\ which = "wire"     => Wire!WireTypeOK
    /\ which = "bytes"    => Framing!FramingTypeOK
    /\ which = "agents"   => Agents!AgentsTypeOK

\* A round that is over has one result for each of its calls, the call's own, in
\* the order of the calls but for those denied on the terminal; and a call that
\* starts agents waits for every one (engine.rs 2073-2077, tool_call.rs 161-162,
\* spawner.rs 110-133).
ResultsMatch ==
    /\ which = "round" => OneResultEach /\ InCallOrder
    /\ which = "agents" => Agents!AllWaitedFor

\* A call runs only when the user, the configuration or a skill that ran lets it,
\* beside others only when all of them are safe to, in plan mode only when it
\* changes nothing, and what was granted in plan mode lapses with it; a sub-agent
\* runs nothing that its parent may not (orchestration.rs, tool.rs 55,
\* plan/state.rs 4-12, spawner.rs 31-32).
RunsAllowed ==
    /\ which = "round" => RunsAreLet /\ SafeTogether /\ PlanReadOnly /\ PlanGrantsLapse
    /\ which = "agents" => Agents!ChildrenKeptIn

\* The mode and the schemas the model was told of are those of its next request
\* (plan/tools.rs, tool_search.rs).
ToldTheTruth == which = "round" => AsTold

\* Whatever history the agent has, cut calls, calls without a name or an id and
\* open confirmations included, each wire format gets a request its provider
\* takes, calls and results in pairs, and every text that was said is in it in
\* its order (openai_messages.rs, anthropic_shared.rs,
\* openai_responses_projector.rs).
RequestsFaithful == which = "wire" => Wire!RequestsLegal /\ Wire!TextsKept

\* However the network cuts a stream into chunks, its frames are those of the
\* whole; and however a provider cuts its answer into frames, the engine is given
\* the calls that were made, each once and in order, with its arguments, and an
\* end that tells whether there are any (framing.rs, openai.rs,
\* anthropic_shared.rs, openai_responses.rs, ollama.rs).
CallsWhole ==
    /\ which = "bytes" => Framing!FramesWhole
    /\ which = "decode" => Decode!CallsWhole

\* A skill's text has each argument where its placeholder was and each command's
\* output where the command was, and every other word in its place
\* (substitution.rs, shell.rs).
FilledInPlace == which = "skill" => Skill!FilledInPlace

\* Nothing a command started runs on once it has timed out or was cancelled,
\* nothing else is terminated, and no output that was written before its end is
\* lost (runner.rs 22, 104, containment.rs 78).
NothingLeftBehind == which = "command" => Command!TreesOwned /\ Command!OutputKept

\* A tool runs only when every hook before it, those that a skill brought
\* included, ended with 0 (hooks.rs 67-86).
HooksInCharge == which = "command" => Command!HooksGate

\* Each setting has its value from the first that gives it of the command line,
\* the chain of profiles, the project and the global file, and a provider's key
\* is one that was given for it (config.rs 961-1056).
SettledRight == which = "settings" => Precedence /\ KeyGoesHome

\* Once the watcher has nothing to tell and its task has followed it, each skill
\* is the one the first source with its name holds now; and a skill that was
\* activated is not put to sleep by a reload (loader.rs, watcher.rs,
\* conditional.rs).
SkillsFollow == which = "skills" => FollowsTheDisk /\ StaysAwake

\* The estimate of the next request never falls behind the conversation, whatever
\* was appended, cleared, summarized or measured (engine.rs 1468-1578), and the
\* output asked for is what it leaves of the window (engine.rs 794-833).
EstimateHolds == which = "window" => EstimateCovers /\ OutputFits

\* A turn is refused for its size only after compaction was tried, and neither a
\* turn nor a session spends requests without bound on becoming smaller
\* (compact/, engine.rs 1105-1165).
SizeInHand == which = "window" => RefusedInTime /\ SpendingBounded
===============================================================================
