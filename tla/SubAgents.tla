------------------------------ MODULE SubAgents ------------------------------
(***************************************************************************)
(* The agents an agent starts (spawner.rs, spawn_tool.rs): several at once *)
(* for the tool Spawn, one for a forked skill.  A child is an engine with  *)
(* a registry of its own, filtered by the policy it inherits; all children *)
(* live in the future of the parent's call, which waits for every one of   *)
(* them and, when it is dropped, drops them.                               *)
(*                                                                         *)
(* What a child does between two requests is AgentRun; here it asks for    *)
(* tools, a turn each, and answers, fails or panics.                       *)
(***************************************************************************)
EXTENDS Naturals, Sequences, FiniteSets, SequencesExt

CONSTANTS
    Builtin,            \* the tools build_tool_registry knows
    Others,             \* those of the parent only: of servers, Spawn, Skill
    MaxSubAgents,       \* MAX_SUB_AGENTS
    MaxTurns,           \* max_turns of a child
    MaxSpawns           \* bound on the calls that start children

VARIABLES
    policy,             \* the parent's ToolPolicy, as the tools it allows
    call,               \* the call at work, or Idle
    children,           \* its children, in the order of the tasks
    spawns,             \* calls so far
    ran,                \* history: what children ran, under which call
    answers             \* the statuses the last call returned, in their order

agentVars == <<policy, call, children, spawns, ran, answers>>

Tools == Builtin \cup Others
Idle  == [what |-> "none", allowed |-> {}]
Ended == {"ok", "error", "panic"}
-------------------------------------------------------------------------------
\* Mutant of Narrowed: a list of which nothing is left counts as none.
Narrowed_Empty(allowed) == IF allowed \cap policy = {} THEN policy ELSE allowed \cap policy

\* effective_child_tool_policy: a list of allowed tools can only narrow.
Narrowed(allowed) == IF allowed = {} THEN policy ELSE allowed \cap policy

\* The engine of a child: what its registry holds, and its policy.
Child(allowed) == [at |-> "wait", turns |-> 0, may |-> Narrowed(allowed) \cap Builtin]

Begins(what, allowed, n) ==
    /\ call = Idle /\ spawns < MaxSpawns /\ spawns' = spawns + 1
    /\ call' = [what |-> what, allowed |-> allowed]
    /\ children' = [i \in 1..n |-> Child(allowed)] /\ answers' = <<>>
    /\ UNCHANGED <<policy, ran>>

\* Spawn's execute: no task, or more than the limit, is an error at once.
Spawn(n) == n \in 1..MaxSubAgents /\ Begins("spawn", {}, n)
SpawnRefused ==
    /\ call = Idle /\ spawns < MaxSpawns /\ spawns' = spawns + 1 /\ answers' = <<"error">>
    /\ UNCHANGED <<policy, call, children, ran>>

\* spawn_fork, for a skill with its allowed_tools.
Fork(allowed) == Begins("fork", allowed, 1)

Becomes(i, at) == children' = [children EXCEPT ![i].at = at]

\* A child's model asks for a tool; one that is not there gives an error result.
\* Nobody is asked: auto_approve.
Asks(i, tool) ==
    /\ children[i].at = "wait" /\ children[i].turns < MaxTurns
    /\ children' = [children EXCEPT ![i].turns = @ + 1,
                                    ![i].at = IF tool \in children[i].may THEN "tool" ELSE "wait"]
    /\ ran' = IF tool \in children[i].may THEN ran \cup {<<call.allowed, tool>>} ELSE ran
    /\ UNCHANGED <<policy, call, spawns, answers>>

ToolEnds(i) ==
    /\ children[i].at = "tool" /\ Becomes(i, "wait")
    /\ UNCHANGED <<policy, call, spawns, ran, answers>>

\* run returns a result, an error, or panics; the others go on.
Ends(i, how) ==
    /\ children[i].at = "wait" \/ (children[i].at = "tool" /\ how = "panic")
    /\ Becomes(i, how) /\ UNCHANGED <<policy, call, spawns, ran, answers>>

\* Mutant of Joined: the first error ends the wait.
Joined_Error ==
    \/ \A i \in DOMAIN children : children[i].at \in Ended
    \/ \E i \in DOMAIN children : children[i].at \in {"error", "panic"}

\* join_all.
Joined == \A i \in DOMAIN children : children[i].at \in Ended

\* Only spawn_parallel has a boundary for panics: one in a fork goes on to the
\* parent's run, as a drop does.
Returns ==
    /\ call # Idle /\ Joined
    /\ call.what = "fork" => children[1].at # "panic"
    /\ answers' = [i \in DOMAIN children |-> children[i].at]
    /\ call' = Idle /\ children' = <<>> /\ UNCHANGED <<policy, spawns, ran>>

\* The parent's run is dropped, or panics with a fork.
Dropped ==
    /\ call # Idle /\ call' = Idle /\ children' = <<>> /\ answers' = <<>>
    /\ UNCHANGED <<policy, spawns, ran>>

AgentsInit ==
    /\ policy \in SUBSET Tools /\ call = Idle /\ children = <<>> /\ spawns = 0
    /\ ran = {} /\ answers = <<>>

AgentsNext ==
    \/ \E n \in 1..MaxSubAgents : Spawn(n)
    \/ SpawnRefused \/ \E allowed \in SUBSET Tools : Fork(allowed)
    \/ \E i \in DOMAIN children :
          \/ ToolEnds(i) \/ \E tool \in Tools : Asks(i, tool)
          \/ \E how \in Ended : Ends(i, how)
    \/ Returns \/ Dropped

AgentsSpec == AgentsInit /\ [][AgentsNext]_agentVars
-------------------------------------------------------------------------------
AgentsTypeOK ==
    /\ policy \subseteq Tools /\ call.what \in {"none", "spawn", "fork"}
    /\ \A i \in DOMAIN children : /\ children[i].at \in {"wait", "tool"} \cup Ended
                                  /\ children[i].turns \in 0..MaxTurns
    /\ Len(children) <= MaxSubAgents /\ spawns \in 0..MaxSpawns

\* A child runs only what its parent may, of a fork what the skill's list has,
\* too, also when list and policy have nothing in common; and no child starts
\* children or reaches a server (spawner.rs 31-32, 178-189).
ChildrenKeptIn ==
    \A r \in ran : /\ r[2] \in policy \cap Builtin
                   /\ r[1] # {} => r[2] \in r[1]

\* A call returns only when every child has ended: that one fails or panics takes
\* nothing from the others (spawner.rs 110-132).
AllWaitedFor == \A i \in DOMAIN answers : answers[i] \in Ended

\* What the proofs add: what a child may call is settled when it is made.
ChildStates == [at : {"wait", "tool"} \cup Ended, turns : Nat,
                may : SUBSET (policy \cap Builtin)]

AgentsInv ==
    /\ children \in Seq(ChildStates)
    /\ call.allowed # {} => \A i \in DOMAIN children : children[i].may \subseteq call.allowed
    /\ ChildrenKeptIn /\ AllWaitedFor
===============================================================================
