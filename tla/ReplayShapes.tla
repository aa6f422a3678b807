----------------------------- MODULE ReplayShapes -----------------------------
(***************************************************************************)
(* How a provider finds the request shape a gateway accepts (composed.rs): *)
(* each call starts from what was learned, escalates on the gateway's      *)
(* rejections and remembers the shape that worked.  The parent and its     *)
(* sub-agents share one provider (spawner.rs), so calls overlap; loading   *)
(* what was learned and storing it are steps with the whole request in     *)
(* between.                                                                *)
(***************************************************************************)
EXTENDS Naturals, FiniteSets

CONSTANTS
    Calls,              \* the calls of stream(), each made once
    MaxReplayLevel,     \* MAX_REPLAY_LEVEL, 3
    Overlap             \* how many calls may be under way at once

VARIABLES
    learned,            \* replay_level and the two sticky flags
    pc,                 \* where each call is
    shape,              \* the shape each call tries now
    needs,              \* what the gateway wants of each call's request
    attempts            \* history: requests of each call

shapeVars == <<learned, pc, shape, needs, attempts>>

\* A level beyond the last is a need no shape meets.
Shape == [level : 0..MaxReplayLevel, maxCompletion : BOOLEAN, responses : BOOLEAN]
Need  == [level : 0..(MaxReplayLevel + 1), maxCompletion : BOOLEAN, responses : BOOLEAN]
AsConfigured == [level |-> 0, maxCompletion |-> FALSE, responses |-> FALSE]

Unmet(c) == {k \in {"level", "maxCompletion", "responses"} :
                CASE k = "level" -> shape[c].level < needs[c].level
                  [] OTHER       -> needs[c][k] /\ ~shape[c][k]}
-------------------------------------------------------------------------------
ShapesInit == /\ learned = AsConfigured
        /\ pc = [c \in Calls |-> "idle"]
        /\ shape = [c \in Calls |-> AsConfigured]
        /\ needs = [c \in Calls |-> AsConfigured]
        /\ attempts = [c \in Calls |-> 0]

\* Mutant of Begin: what was learned is not looked at.
Begin_FromScratch(c) ==
    /\ pc[c] = "idle"
    /\ Cardinality({d \in Calls : pc[d] = "trying"}) < Overlap
    /\ pc' = [pc EXCEPT ![c] = "trying"]
    /\ shape' = [shape EXCEPT ![c] = AsConfigured]
    /\ \E n \in Need : needs' = [needs EXCEPT ![c] = n]
    /\ attempts' = [attempts EXCEPT ![c] = 1]
    /\ UNCHANGED learned

\* What the gateway wants depends on the request: replayed reasoning and
\* tools are rejected only where the history has some.
Begin(c) ==
    /\ pc[c] = "idle"
    /\ Cardinality({d \in Calls : pc[d] = "trying"}) < Overlap
    /\ pc' = [pc EXCEPT ![c] = "trying"]
    /\ shape' = [shape EXCEPT ![c] = learned]
    /\ \E n \in Need : needs' = [needs EXCEPT ![c] = n]
    /\ attempts' = [attempts EXCEPT ![c] = 1]
    /\ UNCHANGED learned

\* Mutant of Escalate: a rejected parameter is not marked as tried.
Escalate_Forgets(c) ==
    /\ pc[c] = "trying"
    /\ "level" \in Unmet(c) => shape[c].level < MaxReplayLevel
    /\ \/ "level" \in Unmet(c) /\ shape' = [shape EXCEPT ![c].level = @ + 1]
       \/ Unmet(c) \ {"level"} # {} /\ UNCHANGED shape
    /\ attempts' = [attempts EXCEPT ![c] = @ + 1]
    /\ UNCHANGED <<learned, pc, needs>>

\* The gateway rejects the shape for one of its reasons, and the shape has an
\* answer to it.
Escalate(c) ==
    /\ pc[c] = "trying"
    /\ \/ /\ "level" \in Unmet(c) /\ shape[c].level < MaxReplayLevel
          /\ shape' = [shape EXCEPT ![c].level = @ + 1]
       \/ /\ "maxCompletion" \in Unmet(c)
          /\ shape' = [shape EXCEPT ![c].maxCompletion = TRUE]
       \/ /\ "responses" \in Unmet(c)
          /\ shape' = [shape EXCEPT ![c].responses = TRUE]
    /\ attempts' = [attempts EXCEPT ![c] = @ + 1]
    /\ UNCHANGED <<learned, pc, needs>>

\* Any other error, or a rejection at the last level, is returned; nothing is
\* learned from it.
Fail(c) == /\ pc[c] = "trying"
           /\ pc' = [pc EXCEPT ![c] = "failed"]
           /\ UNCHANGED <<learned, shape, needs, attempts>>

\* A stream: whatever differs from what was learned is stored.
Accept(c) == /\ pc[c] = "trying" /\ Unmet(c) = {}
             /\ pc' = [pc EXCEPT ![c] = "streaming"]
             /\ learned' = shape[c]
             /\ UNCHANGED <<shape, needs, attempts>>

ShapesNext == \E c \in Calls : Begin(c) \/ Escalate(c) \/ Fail(c) \/ Accept(c)

ShapesSpec == ShapesInit /\ [][ShapesNext]_shapeVars
-------------------------------------------------------------------------------
\* Every variable has its type, and no call escalates beyond its ladder: one
\* request more for each level and for each of the two flags.
ShapesTypeOK ==
    /\ learned \in Shape
    /\ pc \in [Calls -> {"idle", "trying", "failed", "streaming"}]
    /\ shape \in [Calls -> Shape] /\ needs \in [Calls -> Need]
    /\ attempts \in [Calls -> 0..(MaxReplayLevel + 3)]

Covers(a, b) == /\ a.level >= b.level
                /\ b.maxCompletion => a.maxCompletion
                /\ b.responses => a.responses

\* What was learned sticks: later calls skip the shapes the gateway already
\* rejected instead of probing them again (composed.rs 21-25).
NeverUnlearned == [][Covers(learned', learned)]_shapeVars
===============================================================================
