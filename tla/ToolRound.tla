------------------------------- MODULE ToolRound -------------------------------
(***************************************************************************)
(* One round of tool calls after another (execute_tool_round in engine.rs, *)
(* orchestration.rs, merge_tool_results in tool_call.rs), and what calls   *)
(* change for the rounds that follow: the lists of tools that need no      *)
(* confirmation (confirm.rs, apply_context_modifiers), plan mode           *)
(* (plan/tools.rs) and the schemas declared in full (registry.rs,          *)
(* tool_search.rs).                                                        *)
(*                                                                         *)
(* On the terminal calls are confirmed and run in batches; for a host one  *)
(* after another, by allow_list.  The calls of a batch run concurrently.   *)
(***************************************************************************)
EXTENDS Naturals, Sequences, SequencesExt, FiniteSets, Folds

CONSTANTS
    Config,             \* tools the configuration allows unasked
    Grants,             \* tools a skill allows (allowed_tools)
    Always,             \* bound: tools the user may allow for good
    Obedient,           \* whether the model calls declared tools only
    MaxCalls,           \* bound on the calls of a round
    MaxRounds           \* bound on the rounds

\* Tools by what tells them apart; "" is a malformed call (no name or no id), "Unknown" one
\* no tool has; "Skill" is a skill run inline (one that is forked changes nothing
\* here).
Safe     == {"Read", "ToolSearch", "EnterPlanMode", "ExitPlanMode"}
Info     == Safe \cup {"Skill"}
Granting == {"Skill"}                           \* with tools of their own
Deferred == {"EnterPlanMode", "ExitPlanMode", "Remote"}
Refused  == {"Blocked"}                         \* by the tool policy
Names    == Info \cup {"Edit", "Remote", "Unknown", "", "Blocked"}

ASSUME ConstantsAssumption ==
    /\ {Config, Grants, Always} \subseteq SUBSET Names
    /\ Obedient \in BOOLEAN /\ MaxCalls \in Nat /\ MaxRounds \in Nat

\* bare: without its required arguments.
Call == [name : Names \ {"Remote"}, bare : {FALSE}] \cup [name : {"Remote"}, bare : BOOLEAN]
How  == {"ok", "error", "denied", "vetoed", "malformed", "refused"}

VARIABLES
    front,              \* "terminal", or "host": a host or the terminal UI
    rounds, phase,      \* "model", "batch", "confirm", "run"
    calls,              \* the calls of the round
    left,               \* positions of those not yet in a batch
    batch, cleared,     \* the batch: to be confirmed; to be run
    running,            \* positions of those on their way
    outcome,            \* position -> how it went, in this batch
    results,            \* results of the executable calls so far
    final,              \* results as they go into the history
    confirmed,          \* ToolConfirmer::allow_list
    allowList,          \* AgentEngine::allow_list
    plan, saved,        \* plan_state, and the flag its tools read
    loaded,             \* deferred tools declared in full
    ran, yes, denied,   \* history: positions run, let by the user, or denied
    granted, outside,   \* history: what skills, and always, have granted; the
                        \* part of it that was not granted in plan mode
    told                \* history: what the model was told of mode and schemas

round  == <<calls, left, batch, cleared, running, outcome, results>>
rights == <<confirmed, allowList, plan, saved>>
seen   == <<ran, yes, denied>>
vars == <<front, rounds, phase, round, final, rights, loaded, seen, granted, outside, told>>
-------------------------------------------------------------------------------
Init ==
    /\ front \in {"terminal", "host"} /\ rounds = 0 /\ phase = "model"
    /\ calls = <<>> /\ left = <<>> /\ batch = <<>> /\ cleared = <<>> /\ running = {}
    /\ outcome = <<>> /\ results = <<>> /\ final = <<>>
    /\ confirmed = Config /\ allowList = Config /\ plan = FALSE /\ saved = {}
    /\ loaded = {}
    /\ ran = {} /\ yes = {} /\ denied = {} /\ granted = {} /\ outside = {}
    /\ told = [plan |-> FALSE, loaded |-> {}]

Fit(c)        == c.name # "" /\ c.name \notin Refused
Executable(p) == Fit(calls[p])
-------------------------------------------------------------------------------
\* Mutant of Declared: plan mode is not looked at.
Declared_Everything == Names \ ({"Unknown", ""} \cup Refused)

\* tool_definitions_for_turn.
Declared ==
    {n \in Names \ ({"Unknown", ""} \cup Refused) :
        IF plan THEN n \in Info \ {"EnterPlanMode"} ELSE n # "ExitPlanMode"}

\* What a model may call: a name it makes up is as good as a wrong one.
Callable == IF Obedient THEN Declared \cup {"Unknown", "", "Blocked"} ELSE Names

\* The positions up to n that are in S, in their order.
Ascending(S, n) ==
    FoldLeft(LAMBDA s, p : IF p \in S THEN Append(s, p) ELSE s, <<>>, [p \in 1..n |-> p])

\* The model's answer has tool calls.
CallTools ==
    /\ phase = "model" /\ rounds < MaxRounds
    /\ \E n \in 1..MaxCalls : \E cs \in [1..n -> {c \in Call : c.name \in Callable}] :
          /\ calls' = cs
          /\ left' = Ascending({p \in 1..n : Fit(cs[p])}, n)
    /\ rounds' = rounds + 1 /\ phase' = "batch"
    /\ results' = <<>> /\ final' = <<>> /\ ran' = {} /\ yes' = {} /\ denied' = {}
    /\ UNCHANGED <<front, batch, cleared, running, outcome, rights, loaded, granted,
                   outside, told>>

\* Mutant of InBatch: a batch of safe calls takes one that is not.
InBatch_OneMore(p, q) == front = "terminal" /\ calls[p].name \in Safe

\* partition: safe calls in a row; the host is asked call by call.
InBatch(p, q) == /\ front = "terminal"
                 /\ {calls[p].name, calls[q].name} \subseteq Safe

NextBatch ==
    /\ phase = "batch" /\ left # <<>>
    /\ LET n == CHOOSE n \in DOMAIN left :
                   /\ \A k \in 2..n : InBatch(left[k - 1], left[k])
                   /\ n < Len(left) => ~InBatch(left[n], left[n + 1])
       IN  /\ batch' = SubSeq(left, 1, n)
           /\ left' = SubSeq(left, n + 1, Len(left))
    /\ cleared' = <<>> /\ phase' = "confirm"
    /\ UNCHANGED <<front, rounds, calls, running, outcome, results, final, rights,
                   loaded, seen, granted, outside, told>>
-------------------------------------------------------------------------------
(* Confirmation.  On the terminal the user is asked for the whole batch    *)
(* before any of it runs.                                                  *)

Confirming == phase = "confirm" /\ batch # <<>>
This       == Head(batch)
Unasked(n) == n \in IF front = "terminal" THEN confirmed ELSE allowList

Clear == /\ cleared' = Append(cleared, This) /\ batch' = Tail(batch)
         /\ UNCHANGED <<results, denied>>

\* Mutant of DenyCall: the call is run all the same.
DenyCall_Runs == /\ cleared' = Append(cleared, This)
                 /\ batch' = Tail(batch)
                 /\ results' = results
                 /\ denied' = denied \cup {This}

DenyCall == /\ results' = Append(results, [call |-> This, how |-> "denied"])
            /\ batch' = Tail(batch) /\ denied' = denied \cup {This}
            /\ UNCHANGED cleared

Confirm ==
    /\ Confirming
    /\ \/ /\ Unasked(calls[This].name) /\ Clear
          /\ UNCHANGED <<yes, confirmed, granted, outside>>
       \/ /\ ~Unasked(calls[This].name)
          /\ \/ /\ Clear /\ yes' = yes \cup {This}        \* yes, or a mode
                /\ UNCHANGED <<confirmed, granted, outside>>
             \/ DenyCall /\ UNCHANGED <<yes, confirmed, granted, outside>>    \* no
             \/ /\ front = "terminal" /\ calls[This].name \in Always  \* always
                /\ Clear /\ yes' = yes \cup {This}
                /\ confirmed' = confirmed \cup {calls[This].name}
                /\ granted' = granted \cup {calls[This].name}
                /\ outside' = IF plan THEN outside ELSE outside \cup {calls[This].name}
    /\ UNCHANGED <<front, rounds, phase, calls, left, running, outcome, final,
                   allowList, plan, saved, loaded, ran, told>>

\* Mutant of Dropped: the calls go on without the run.
Dropped_Detached ==
    /\ phase' = "model" /\ batch' = <<>> /\ cleared' = <<>> /\ left' = <<>>
    /\ results' = <<>> /\ calls' = <<>> /\ ran' = {} /\ yes' = {} /\ denied' = {}
    /\ UNCHANGED <<front, rounds, running, outcome, final, rights, loaded, granted, outside,
                   told>>

Dropped == /\ phase' = "model" /\ running' = {} /\ batch' = <<>> /\ cleared' = <<>>
           /\ left' = <<>> /\ outcome' = <<>> /\ results' = <<>> /\ calls' = <<>>
           /\ ran' = {} /\ yes' = {} /\ denied' = {}
           /\ UNCHANGED <<front, rounds, final, rights, loaded, granted, outside, told>>

\* The user quits; or the host drops the run at an await.  What the calls
\* so far would have changed is not applied, and nothing is told of them.
Quit   == Confirming /\ front = "terminal" /\ ~Unasked(calls[This].name) /\ Dropped
Cancel == /\ front = "host"
          /\ phase = "run" \/ (Confirming /\ ~Unasked(calls[This].name))
          /\ Dropped

Start ==
    /\ phase = "confirm" /\ batch = <<>>
    /\ running' = ToSet(cleared) /\ phase' = "run"
    /\ outcome' = [p \in ToSet(cleared) |-> "ok"]
    /\ UNCHANGED <<front, rounds, calls, left, batch, cleared, results, final, rights,
                   loaded, seen, granted, outside, told>>
-------------------------------------------------------------------------------
(* Execution (execute_single).                                             *)

Ends(p, how) == /\ running' = running \ {p} /\ outcome' = [outcome EXCEPT ![p] = how]
                /\ UNCHANGED <<front, rounds, phase, calls, left, batch, cleared, results,
                               final, rights, yes, denied, granted, outside>>

\* Refused by the host's guard, or blocked by a hook: the tool does not run.
Vetoed(p) == p \in running /\ Ends(p, "vetoed") /\ UNCHANGED <<ran, loaded, told>>

\* Mutant of Fails: the hint is given and the schema not loaded.
Fails_HintOnly(p) ==
    /\ p \in running /\ Ends(p, "error") /\ ran' = ran \cup {p}
    /\ UNCHANGED loaded
    /\ told' = IF calls[p].bare THEN [told EXCEPT !.loaded = @ \cup {calls[p].name}] ELSE told

\* The tool fails.  If it was called without the arguments its schema requires,
\* the result says that the schema has been loaded.
Fails(p) ==
    /\ p \in running /\ Ends(p, "error")
    /\ ran' = IF calls[p].name = "Unknown" THEN ran ELSE ran \cup {p}
    /\ IF calls[p].bare
       THEN /\ loaded' = loaded \cup {calls[p].name}
            /\ told' = [told EXCEPT !.loaded = @ \cup {calls[p].name}]
       ELSE UNCHANGED <<loaded, told>>

\* Tools that check the mode before they succeed.
MayWork(n) == CASE n = "EnterPlanMode" -> ~plan
                [] n = "ExitPlanMode" -> plan
                [] n = "Unknown" -> FALSE
                [] OTHER -> TRUE

Works(p) ==
    /\ p \in running /\ MayWork(calls[p].name)
    /\ Ends(p, "ok") /\ ran' = ran \cup {p}
    /\ IF calls[p].name = "ToolSearch"
       THEN \E found \in SUBSET Deferred :
               /\ loaded' = loaded \cup found
               /\ told' = [told EXCEPT !.loaded = @ \cup found]
       ELSE UNCHANGED <<loaded, told>>

\* join_all: results in the order of the calls that ran.
EndBatch ==
    /\ phase = "run" /\ running = {}
    /\ results' = results \o [k \in DOMAIN cleared |->
                                 [call |-> cleared[k], how |-> outcome[cleared[k]]]]
    /\ phase' = "batch" /\ outcome' = <<>> /\ cleared' = <<>>
    /\ UNCHANGED <<front, rounds, calls, left, batch, running, final, rights, loaded,
                   seen, granted, outside, told>>
-------------------------------------------------------------------------------
(* The end of the round.                                                   *)

\* Mutants of MergedResults: synthetic results first, in a list of their own;
\* results found by the name of the tool.
Synthetic(p) == [call |-> p, how |-> IF calls[p].name = "" THEN "malformed" ELSE "refused"]

MergedResults_Apart ==
    LET unfit == SelectSeq([p \in DOMAIN calls |-> p], LAMBDA p : ~Executable(p))
    IN  [k \in DOMAIN unfit |-> Synthetic(unfit[k])] \o results

MergedResults_ByName ==
    [p \in DOMAIN calls |->
        IF ~Executable(p) THEN Synthetic(p)
        ELSE results[CHOOSE k \in DOMAIN results : calls[results[k].call].name = calls[p].name]]

\* merge_tool_results: executable calls take the next result there is.
MergedResults ==
    [p \in DOMAIN calls |->
        IF ~Executable(p) THEN Synthetic(p)
        ELSE results[Cardinality({q \in 1..p : Executable(q)})]]

\* apply_context_modifiers, one result after the other.  To enter plan mode a
\* second time in a round is to enter it anew, with the list as it is then.
Modify(s, r) ==
    IF r.how # "ok" THEN s
    ELSE CASE calls[r.call].name \in Granting ->
                [s EXCEPT !.allow = @ \cup Grants, !.confirmed = @ \cup Grants,
                          !.outside = IF s.plan THEN @ ELSE @ \cup Grants]
           [] calls[r.call].name = "EnterPlanMode" ->
                [s EXCEPT !.saved = s.allow, !.plan = TRUE,
                          !.outside = IF s.plan THEN @ \cup s.allow ELSE @]
           [] calls[r.call].name = "ExitPlanMode" ->
                [s EXCEPT !.plan = FALSE, !.allow = s.saved]
           [] OTHER -> s

\* The results that tell of a change of mode; the last one stands.
Transitions == {"EnterPlanMode", "ExitPlanMode"}
MovedBy(p)  == calls[MergedResults[p].call].name
Moves       == {p \in DOMAIN calls : MergedResults[p].how = "ok" /\ MovedBy(p) \in Transitions}

EndRound ==
    /\ phase = "batch" /\ left = <<>>
    /\ final' = MergedResults
    /\ LET s == FoldLeft(Modify, [allow |-> allowList, confirmed |-> confirmed, plan |-> plan,
                                  saved |-> saved, outside |-> outside], MergedResults)
       IN  /\ allowList' = s.allow /\ confirmed' = s.confirmed /\ plan' = s.plan
           /\ saved' = s.saved /\ outside' = s.outside
           /\ told' = IF Moves = {} THEN told
                      ELSE [told EXCEPT !.plan = MovedBy(Max(Moves)) = "EnterPlanMode"]
    /\ granted' = IF \E r \in ToSet(MergedResults) : r.how = "ok" /\ calls[r.call].name \in Granting
                  THEN granted \cup Grants ELSE granted
    /\ phase' = "model"
    /\ UNCHANGED <<front, rounds, round, loaded, seen>>
-------------------------------------------------------------------------------
Next == \/ CallTools \/ NextBatch \/ Confirm \/ Quit \/ Cancel \/ Start
        \/ \E p \in running : Vetoed(p) \/ Fails(p) \/ Works(p)
        \/ EndBatch \/ EndRound

Spec == Init /\ [][Next]_vars
-------------------------------------------------------------------------------
TypeOK ==
    /\ front \in {"terminal", "host"} /\ rounds \in 0..MaxRounds
    /\ phase \in {"model", "batch", "confirm", "run"}
    /\ calls \in Seq(Call)
    /\ running \subseteq ToSet(cleared) /\ DOMAIN outcome \subseteq ToSet(cleared)
    /\ {ToSet(left), ToSet(batch), ToSet(cleared), running, ran, yes, denied}
          \subseteq SUBSET DOMAIN calls
    /\ \A r \in ToSet(results) \cup ToSet(final) : r.how \in How
    /\ {confirmed, allowList, saved, granted, outside} \subseteq SUBSET Names
    /\ plan \in BOOLEAN /\ loaded \subseteq Deferred

\* When a round is over there is one result for each of its calls, whatever was
\* malformed, refused, denied, vetoed or failed, and a call has no other call's
\* (engine.rs 2073-2077).
OneResultEach ==
    phase = "model" /\ final # <<>> /\ calls # <<>> =>
        /\ Len(final) = Len(calls)
        /\ {final[p].call : p \in DOMAIN final} = DOMAIN calls

\* The results are in the order of the calls (tool_call.rs 161-162), unless a
\* call was denied on the terminal: the denied of a batch come before the others.
InCallOrder ==
    phase = "model" /\ calls # <<>> /\ (front = "host" \/ denied = {}) =>
        \A p \in DOMAIN final : final[p].call = p

\* A call runs when the user lets it or it is on a list, and lists have only what
\* the configuration, the user or a skill that was run put there.  Denied,
\* malformed and refused calls do not run.
RunsAreLet ==
    /\ \A p \in ran : p \in yes \/ calls[p].name \in Config \cup granted
    /\ ran \cap denied = {} /\ \A p \in ran : Executable(p)
    /\ allowList \cup confirmed \subseteq Config \cup granted

\* Calls run side by side only when all of them are safe to (tool.rs 55).
SafeTogether == Cardinality(running) > 1 => \A p \in running : calls[p].name \in Safe

\* In a round that begins in plan mode nothing runs that changes anything
\* (docs/advanced.md 331-337), as long as the model calls what is declared.
PlanReadOnly == plan /\ phase # "model" => \A p \in ran : calls[p].name \in Info

\* What was granted to skills in plan mode lapses with it (plan/state.rs 4-12), for
\* a host; the terminal's list is not restored.
PlanGrantsLapse == front = "host" /\ ~plan => allowList \subseteq Config \cup outside

\* The mode and the schemas the model has been told of are those of its next
\* request.
AsTold == phase = "model" => told.plan = plan /\ told.loaded \subseteq loaded
===============================================================================
