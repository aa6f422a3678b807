----------------------------- MODULE CommandRun -----------------------------
(***************************************************************************)
(* Running commands: the ExecCommand tool (exec_command.rs), the hooks     *)
(* around it (hooks.rs), and the runner both go through (runner.rs), which *)
(* owns the tree of processes a command starts (containment.rs,            *)
(* windows_job.rs).                                                        *)
(*                                                                         *)
(* A command is a shell with a child that it waits for; either may leave a *)
(* process in the background, or one that has a session of its own.        *)
(***************************************************************************)
EXTENDS Naturals, Sequences, SequencesExt

CONSTANTS
    Configured, FromSkills, \* the hooks of the configuration, and of skills
    EventOf,                  \* the event of each hook: "pre", "post", "stop"
    MaxRuns,                \* bound on the tool calls and stops
    MaxOutput               \* bound on what a command writes

VARIABLES
    hooks, todo,            \* the hooks in order; the commands this call has left
    calls, passed,          \* the calls made; the hooks that let this one pass
    platform,               \* "unix", "windows"
    run,                    \* the run in hand: "none", "wait", "drain"
    alive, killed,          \* its processes that run, that were terminated
    fate, code,             \* how it ended; whether the shell ended with 0
    armed,                  \* terminate_on_drop
    pipe, taken, wrote,     \* output not read yet, read, and all of it
    returned                \* what the last run returned, and missed of the output

runVars == <<hooks, todo, calls, passed, platform, run, alive, killed, fate, code, armed,
             pipe, taken, wrote, returned>>
around    == <<hooks, todo, calls, passed, platform, returned>>
processes == <<alive, killed, fate, code, armed>>
streams   == <<pipe, taken, wrote>>

Tool  == "tool"
Roles == {"shell", "child", "background", "daemon"}
Nothing == [result |-> "none", missed |-> 0]

ExecInit ==
    /\ hooks \in {s \in UNION {[1..n -> Configured] : n \in 0..2} :
                     \A i, j \in DOMAIN s : i # j => s[i] # s[j]}
    /\ todo = <<>> /\ calls = 0 /\ passed = {} /\ platform \in {"unix", "windows"}
    /\ run = "none" /\ alive = {} /\ killed = {} /\ fate = "none" /\ code = TRUE /\ armed = FALSE
    /\ pipe = 0 /\ taken = 0 /\ wrote = 0 /\ returned = Nothing

Of(event)    == FoldLeft(LAMBDA s, h : IF EventOf[h] = event THEN Append(s, h) ELSE s, <<>>, hooks)
Before(item) == item # Tool /\ EventOf[item] = "pre"
Idle         == run = "none" /\ todo = <<>>
-------------------------------------------------------------------------------
(* A tool call and its hooks, and what follows from how a command ends.    *)

Begins(items) ==
    /\ Idle /\ calls < MaxRuns /\ items # <<>>
    /\ todo' = items /\ passed' = {} /\ calls' = calls + 1
    /\ UNCHANGED <<hooks, platform, run, returned>> /\ UNCHANGED processes /\ UNCHANGED streams

\* execute_single: the hooks before the tool, the tool, the hooks after it.
ToolCall == Begins(Of("pre") \o <<Tool>> \o Of("post"))

\* run_stop, when the session ends.
Stop == Begins(Of("stop"))

\* merge_hooks, after a skill was used: one of a name that is there is skipped.
SkillUsed(h) ==
    /\ Idle /\ (\A i \in DOMAIN hooks : hooks[i] # h) /\ hooks' = Append(hooks, h)
    /\ UNCHANGED <<todo, calls, passed, platform, run, returned>>
    /\ UNCHANGED processes /\ UNCHANGED streams

\* Mutant of Blocks: a hook that times out is logged, as those after the tool.
Blocks_Failed(result) == result = "failed"

\* run_hook_command, run_pre_tool_use: an error blocks as a failure does.
Blocks(result) == result # "ok"

\* The run returns: a hook before the tool may block it, another goes by.
Returns(result, missed) ==
    LET item == Head(todo)
    IN  /\ todo' = IF Before(item) /\ Blocks(result) THEN <<>> ELSE Tail(todo)
        /\ passed' = IF result = "ok" THEN passed \cup {item} ELSE passed
        /\ returned' = [result |-> result, missed |-> missed] /\ run' = "none"
        /\ UNCHANGED <<hooks, calls, platform>>
-------------------------------------------------------------------------------
(* The runner.                                                             *)

\* The shell leads a group; on Windows it does not run before it is in its job.
Attached == armed' = TRUE /\ alive' = {"shell"} /\ killed' = {}

\* spawn and attach; both readers begin.
Spawn ==
    /\ run = "none" /\ todo # <<>>
    /\ run' = "wait" /\ Attached /\ code' = TRUE /\ fate' = "running" /\ pipe' = 0 /\ taken' = 0 /\ wrote' = 0
    /\ UNCHANGED around

\* The shell is not there, or its process cannot be contained.
SpawnFails ==
    /\ run = "none" /\ todo # <<>> /\ Returns("error", 0)
    /\ UNCHANGED processes /\ UNCHANGED streams

\* What the command does: it starts processes, writes, ends.
Starts(role) ==
    /\ run = "wait" /\ "shell" \in alive /\ alive' = alive \cup {role}
    /\ UNCHANGED <<run, killed, fate, code, armed>> /\ UNCHANGED around /\ UNCHANGED streams

Writes ==
    /\ run # "none" /\ alive # {} /\ wrote < MaxOutput
    /\ pipe' = pipe + 1 /\ wrote' = wrote + 1
    /\ UNCHANGED <<run, taken>> /\ UNCHANGED around /\ UNCHANGED processes

Ends(role, ok) ==
    /\ role \in alive /\ (role = "shell" => "child" \notin alive)
    /\ alive' = alive \ {role} /\ code' = IF role = "shell" THEN ok ELSE code
    /\ UNCHANGED <<run, killed, fate, armed>> /\ UNCHANGED around /\ UNCHANGED streams

\* read_stream.
Reads ==
    /\ run # "none" /\ pipe > 0 /\ pipe' = pipe - 1 /\ taken' = taken + 1
    /\ UNCHANGED <<run, wrote>> /\ UNCHANGED around /\ UNCHANGED processes

\* group_kill_target: the group of the shell, though the shell may be gone; the
\* job has also those that left the group.
Tree == IF platform = "unix" THEN alive \ {"daemon"} ELSE alive

Terminate == alive' = alive \ Tree /\ killed' = killed \cup Tree

\* Mutant of Disarmed: what the command left is owned until the end of the run.
Disarmed_Later == UNCHANGED armed

\* A shell that ended leaves what it put in the background.
Disarmed == armed' = FALSE

Exited ==
    /\ run = "wait" /\ "shell" \notin alive /\ run' = "drain" /\ fate' = "exited" /\ Disarmed
    /\ UNCHANGED <<alive, killed, code>> /\ UNCHANGED around /\ UNCHANGED streams

TimedOut ==
    /\ run = "wait" /\ "shell" \in alive /\ run' = "drain" /\ fate' = "timed_out"
    /\ Terminate /\ armed' = FALSE /\ UNCHANGED code /\ UNCHANGED around /\ UNCHANGED streams

\* Mutant of Drained: the output is taken when the process is over.
Drained_AtOnce == TRUE

\* drain_reader: the readers end when the pipes are closed and empty, and are
\* stopped when a process keeps them open for too long.
Drained == pipe = 0

Result == IF fate = "timed_out" THEN "timed_out" ELSE IF code THEN "ok" ELSE "failed"

Return ==
    /\ run = "drain" /\ Drained /\ Returns(Result, wrote - taken)
    /\ UNCHANGED processes /\ UNCHANGED streams

\* The turn is cancelled: the run is dropped, and with it what it owns.
Cancel ==
    /\ run # "none" /\ todo' = <<>> /\ run' = "none" /\ armed' = FALSE
    /\ IF armed THEN Terminate ELSE UNCHANGED <<alive, killed>>
    /\ fate' = IF fate = "running" THEN "cancelled" ELSE fate
    /\ UNCHANGED <<hooks, calls, passed, platform, code, returned>> /\ UNCHANGED streams

ExecNext ==
    \/ ToolCall \/ Stop \/ \E h \in FromSkills : SkillUsed(h)
    \/ Spawn \/ SpawnFails \/ Exited \/ TimedOut \/ Writes \/ Reads \/ Return \/ Cancel
    \/ \E role \in Roles \ {"shell"} : Starts(role)
    \/ \E role \in Roles, ok \in BOOLEAN : Ends(role, ok)

ExecSpec == ExecInit /\ [][ExecNext]_runVars
-------------------------------------------------------------------------------
ExecTypeOK ==
    /\ run \in {"none", "wait", "drain"} /\ alive \cup killed \subseteq Roles /\ armed \in BOOLEAN
    /\ fate \in {"none", "running", "exited", "timed_out", "cancelled"}
    /\ pipe + taken = wrote /\ wrote <= MaxOutput

\* Nothing a command started runs on once the command has timed out or was
\* cancelled, but what left its group on Unix; and nothing that a command which
\* ended by itself put in the background is terminated, not by a cancellation
\* while its output is drained either (runner.rs 22, containment.rs 78).
TreesOwned ==
    /\ run = "none" /\ fate \in {"timed_out", "cancelled"} =>
          alive = {} \/ (platform = "unix" /\ alive = {"daemon"})
    /\ fate = "exited" => killed = {}

\* A command returns all that had been written when it was over, however the
\* writing, the reading and the end of its processes fall (runner.rs 104).
OutputKept == returned.missed = 0

\* The tool runs only when every hook before it, those that a skill brought
\* included, ended with 0: one that failed, timed out or did not start blocks
\* it (hooks.rs 67-86).
HooksGate ==
    todo # <<>> /\ Head(todo) = Tool =>
        \A i \in DOMAIN hooks : EventOf[hooks[i]] = "pre" => hooks[i] \in passed

\* What the proofs add to them, to go from step to step: a tree is owned until the
\* shell ends, and a hook that has not passed is still before the tool.
OwnedInv ==
    /\ run \in {"none", "wait", "drain"}
    /\ run = "wait" => armed = TRUE /\ fate = "running" /\ killed = {}
    /\ run = "drain" => armed = FALSE /\ fate \in {"exited", "timed_out"}
    /\ run = "none" => fate # "running"
    /\ fate \in {"timed_out", "cancelled"} =>
          alive = {} \/ (platform = "unix" /\ alive = {"daemon"})
    /\ fate = "exited" => killed = {}
    /\ {pipe, taken, wrote} \subseteq Nat /\ pipe + taken = wrote /\ OutputKept

GateInv ==
    /\ hooks \in Seq(Configured \cup FromSkills)
    /\ todo \in Seq(Configured \cup FromSkills \cup {Tool})
    /\ run # "none" => todo # <<>>
    /\ \A k \in DOMAIN todo, i \in DOMAIN hooks :
          todo[k] = Tool /\ EventOf[hooks[i]] = "pre" =>
              hooks[i] \in passed \/ \E j \in 1..(k - 1) : todo[j] = hooks[i]
===============================================================================
