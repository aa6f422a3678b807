------------------------------ MODULE TurnGuards ------------------------------
(***************************************************************************)
(* The breakers that end a run's tool loop (turn.rs, tool_call.rs): the    *)
(* same malformed round again, the same failed calls again, a short cycle  *)
(* of failed calls, rounds in which nothing succeeds, and the turn budget. *)
(* Each tracker is incremental; the properties compare them with what the  *)
(* last rounds of the run really were.                                     *)
(***************************************************************************)
EXTENDS Integers, Sequences, FiniteSetsExt

CONSTANTS
    Prints,             \* fingerprints: which calls failed, with which input
    MaxChanges,         \* bound on the changes of kind within the last rounds
    MaxTurns,           \* max_turns_per_run, and so the bound of the model
    MalformedLimit,     \* max_tool_call_malformed_turns, 0 disables
    FailureLimit,       \* max_tool_call_failure_turns, 0 disables
    AllErrorLimit,      \* DEFAULT_MAX_ALL_ERROR_TOOL_ROUNDS, 8 in the source
    MaxPeriod,          \* MAX_TOOL_CALL_CYCLE_PERIOD, 4
    MaxRepetitions,     \* DEFAULT_MAX_TOOL_CALL_CYCLE_REPETITIONS, 3
    AllErrorWarning     \* ALL_ERROR_ROUND_WARNING_COUNT, 3

\* The two other warning thresholds, EXACT_FAILURE_WARNING_COUNT and
\* TOOL_CALL_CYCLE_WARNING_REPETITIONS.
ExactWarning == 2
CycleWarning == 2

None == "none"

ASSUME ConstantsAssumption ==
    /\ MaxTurns \in Nat \ {0}
    /\ MalformedLimit \in Nat /\ FailureLimit \in Nat
    /\ AllErrorLimit \in Nat \ {0} /\ MaxPeriod \in Nat \ {0, 1}
    /\ MaxRepetitions \in Nat \ {0, 1, 2}
    /\ AllErrorWarning \in Nat \ {0} /\ AllErrorWarning < AllErrorLimit
    /\ MaxChanges \in Nat
    /\ None \notin Prints

VARIABLES
    turns,              \* counted normal turns
    malformed,          \* ToolCallMalformedTracker
    failures,           \* ToolCallFailureTracker
    allError,           \* ToolCallAllErrorRoundTracker
    history,            \* ToolCallCycleTracker
    cycleWarned,        \* tool_call_cycle_warning_emitted
    verdict,            \* the last TurnGuardAction
    trail,              \* history: the last rounds of the run
    alerted             \* history: a warning since the failures began

trackers == <<malformed, failures, allError, history, cycleWarned>>
vars == <<turns, trackers, verdict, trail, alerted>>

\* "ok": no call failed.  "mixed": some failed, some did not.  "failed": all
\* failed.  "malformed": every call lacked its name or id.
Kinds == {"ok", "mixed", "failed", "malformed"}
Round == [kind : Kinds, print : Prints]

Going == {"continue", "warn_exact", "warn_cycle", "warn_all"}

MaxHistory == MaxPeriod * MaxRepetitions
-------------------------------------------------------------------------------
MalformedPrint(r) == IF r.kind = "malformed" THEN r.print ELSE None
FailurePrint(r)   == IF r.kind \in {"mixed", "failed"} THEN r.print ELSE None

\* Mutant of Observe: a round without the failure does not reset the count.
Observe_NoReset(t, print) ==
    IF print = None THEN t
    ELSE [last |-> print, count |-> IF t.last = print THEN t.count + 1 ELSE 1]

\* The same fingerprint in a row counts up, another starts again at one.
Observe(t, print) ==
    IF print = None THEN [last |-> None, count |-> 0]
    ELSE [last |-> print, count |-> IF t.last = print THEN t.count + 1 ELSE 1]

\* Mutant of Exceeded: one more round than the limit.
Exceeded_Late(count, limit) == limit > 0 /\ count > limit

Exceeded(count, limit) == limit > 0 /\ count >= limit

\* Mutant of Remember: the history is never shortened.
Remember_Uncapped(h, print) ==
    IF FailureLimit = 0 \/ print = None THEN <<>> ELSE Append(h, print)

Remember(h, print) ==
    IF FailureLimit = 0 \/ print = None THEN <<>>
    ELSE IF Len(h) = MaxHistory THEN Append(Tail(h), print) ELSE Append(h, print)

\* Mutant of Copies: only the newest call of each copy is compared.
Copies_EndsAlike(h, p) ==
    Max({k \in 1..(Len(h) \div p) :
            \A i \in 1..(k - 1) : h[Len(h) - i * p] = h[Len(h)]})

\* How often the last p fingerprints stand at the end of h one after another.
Copies(h, p) ==
    Max({k \in 1..(Len(h) \div p) :
            \A i \in 0..((k - 1) * p - 1) : h[Len(h) - i] = h[Len(h) - i - p]})

\* The cycle with the most repetitions, the shorter period first.
DetectCycle(h) ==
    LET periods == {p \in 2..Min({MaxPeriod, Len(h) \div 2}) : Copies(h, p) >= 2}
        most    == Max({Copies(h, p) : p \in periods})
        best    == Min({p \in periods : Copies(h, p) = most})
    IN  IF Len(h) < 4 \/ periods = {} THEN [period |-> 0, repetitions |-> 0]
        ELSE [period |-> best, repetitions |-> most]

\* Mutant of Warning: a cycle is not warned about.
Warning_NoCycle(count, cycle, warned, errors) ==
    IF FailureLimit > ExactWarning /\ count = ExactWarning THEN "warn_exact"
    ELSE IF /\ FailureLimit > 0 /\ AllErrorLimit > AllErrorWarning
            /\ errors = AllErrorWarning
         THEN "warn_all" ELSE "continue"

Warning(count, cycle, warned, errors) ==
    IF FailureLimit > ExactWarning /\ count = ExactWarning THEN "warn_exact"
    ELSE IF cycle.repetitions = CycleWarning /\ ~warned THEN "warn_cycle"
    ELSE IF /\ FailureLimit > 0 /\ AllErrorLimit > AllErrorWarning
            /\ errors = AllErrorWarning
         THEN "warn_all" ELSE "continue"
-------------------------------------------------------------------------------
Init == /\ turns = 0
        /\ malformed = [last |-> None, count |-> 0]
        /\ failures = [last |-> None, count |-> 0]
        /\ allError = 0 /\ history = <<>> /\ cycleWarned = FALSE
        /\ verdict = "continue"
        /\ trail = <<>> /\ alerted = FALSE

\* The last MaxHistory rounds, or more if a limit looks further back.
Window == Max({MaxHistory, AllErrorLimit, FailureLimit, MalformedLimit})
Changes(t) == Cardinality({i \in 2..Len(t) : t[i].kind # t[i - 1].kind})
Note(r) == /\ Changes(Append(trail, r)) <= MaxChanges
           /\ trail' = IF Len(trail) = Window THEN Append(Tail(trail), r)
                       ELSE Append(trail, r)

\* The malformed breaker comes first, and leaves the others unobserved.
StopMalformed(r) ==
    /\ Exceeded(Observe(malformed, MalformedPrint(r)).count, MalformedLimit)
    /\ malformed' = Observe(malformed, MalformedPrint(r))
    /\ verdict' = "stop"
    /\ UNCHANGED <<failures, allError, history, cycleWarned, alerted>>

Guard(r) ==
    LET seen   == Observe(malformed, MalformedPrint(r))
        fails  == Observe(failures, FailurePrint(r))
        errors == IF r.kind = "failed" THEN allError + 1 ELSE 0
        rounds == Remember(history, FailurePrint(r))
        cycle  == DetectCycle(rounds)
        warned == cycleWarned /\ cycle.period # 0
    IN  /\ ~Exceeded(seen.count, MalformedLimit)
        /\ malformed' = seen /\ failures' = fails
        /\ allError' = errors /\ history' = rounds
        /\ verdict' =
             IF \/ Exceeded(fails.count, FailureLimit)
                \/ cycle.repetitions >= MaxRepetitions
                \/ FailureLimit > 0 /\ Exceeded(errors, AllErrorLimit)
             THEN "tool_failure"
             ELSE IF turns' >= MaxTurns THEN "turn_budget"
             ELSE Warning(fails.count, cycle, warned, errors)
        /\ cycleWarned' = (warned \/ verdict' = "warn_cycle")
        /\ alerted' = (\/ verdict' \in Going \ {"continue"}
                       \/ alerted /\ FailurePrint(r) # None)

AfterToolRound(r) == /\ verdict \in Going /\ turns < MaxTurns
                     /\ turns' = turns + 1
                     /\ StopMalformed(r) \/ Guard(r)
                     /\ Note(r)

\* A counted turn that runs no tools: a cut-off call, an empty answer that is
\* retried, an answer overtaken by another message.
OtherTurn == /\ verdict \in Going /\ turns < MaxTurns
             /\ turns' = turns + 1
             /\ UNCHANGED <<trackers, verdict, trail, alerted>>

BudgetSpent == /\ verdict \in Going /\ turns >= MaxTurns
               /\ verdict' = "max_turns"
               /\ UNCHANGED <<turns, trackers, trail, alerted>>

Next == \/ \E r \in Round : AfterToolRound(r)
        \/ OtherTurn
        \/ BudgetSpent

Spec == Init /\ [][Next]_vars
-------------------------------------------------------------------------------
Failing(r) == r.kind \in {"mixed", "failed"}

\* The last k * p rounds failed, and the calls repeat with period p.
Loops(p, k) ==
    /\ Len(trail) >= p * k
    /\ \A i \in (Len(trail) - p * k + 1)..Len(trail) :
          /\ Failing(trail[i])
          /\ i + p <= Len(trail) => trail[i].print = trail[i + p].print

\* The run goes nowhere: the same calls fail FailureLimit times, a cycle of up
\* to MaxPeriod rounds has gone round MaxRepetitions times, or nothing has
\* succeeded for AllErrorLimit rounds.
Stuck ==
    /\ FailureLimit > 0
    /\ \/ Loops(1, FailureLimit)
       \/ \E p \in 2..MaxPeriod : Loops(p, MaxRepetitions)
       \/ /\ Len(trail) >= AllErrorLimit
          /\ \A i \in (Len(trail) - AllErrorLimit + 1)..Len(trail) :
                trail[i].kind = "failed"

StuckMalformed ==
    /\ MalformedLimit > 0 /\ Len(trail) >= MalformedLimit
    /\ \A i \in (Len(trail) - MalformedLimit + 1)..Len(trail) :
          trail[i].kind = "malformed" /\ trail[i].print = trail[Len(trail)].print

\* Every variable has its type, and no tracker outgrows what it may hold.
TypeOK ==
    /\ turns \in 0..MaxTurns
    /\ malformed \in [last : Prints \cup {None}, count : 0..MaxTurns]
    /\ failures \in [last : Prints \cup {None}, count : 0..MaxTurns]
    /\ allError \in 0..MaxTurns
    /\ history \in Seq(Prints) /\ Len(history) <= MaxHistory
    /\ cycleWarned \in BOOLEAN /\ alerted \in BOOLEAN
    /\ verdict \in Going \cup {"stop", "tool_failure", "turn_budget", "max_turns"}
    /\ trail \in Seq(Round)

\* A run that is stuck is not let go on: counting round by round, with a
\* bounded history, misses no loop (README.md 70-77).
NoRunaway == verdict \in Going => ~Stuck /\ ~StuckMalformed

\* A run is finalized for tool failure only if it is stuck, and stopped as
\* malformed only if the same malformed round came MalformedLimit times in a
\* row; progress in between always counts.
NoFalseAlarm == /\ verdict = "tool_failure" => Stuck
                /\ verdict = "stop" => StuckMalformed

\* No run is finalized for tool failure unwarned: since its failures began
\* the model was told, unless the limit leaves no room for a warning.
WarnedFirst ==
    (verdict = "tool_failure" /\ FailureLimit > ExactWarning) => alerted
===============================================================================
