------------------------------- MODULE MCWatched -------------------------------
(***************************************************************************)
(* One instance for TLC of what watches a run: the guards of the tool loop *)
(* and the user at the terminal.  They share no state, so a behaviour is   *)
(* one of a single component, chosen at the start, the variables of the    *)
(* other stay Unused, and the state space is the sum of theirs.            *)
(***************************************************************************)
EXTENDS TurnGuards, TerminalUi, TLC

VARIABLE which          \* the component that runs

Unused == "unused"

\* A new session starts empty, or with a call that was never answered.
Resumed == {<<>>,
            <<[kind |-> "user", status |-> "success", size |-> 1, offset |-> 0],
              [kind |-> "tool", status |-> "queued", size |-> 1, offset |-> 0]>>}

\* Calls and fingerprints are the same two values, so that one permutation does
\* for both.
Symmetry == Permutations(Prints)
-------------------------------------------------------------------------------
NoGuards ==
    /\ turns = Unused /\ malformed = Unused /\ failures = Unused /\ allError = Unused
    /\ history = Unused /\ cycleWarned = Unused /\ verdict = Unused
    /\ trail = Unused /\ alerted = Unused

NoUi ==
    /\ ui = Unused /\ scroll = Unused /\ queue = Unused /\ stage = Unused /\ turn = Unused
    /\ asked = Unused /\ granted = Unused /\ pending = Unused
    /\ entered = Unused /\ deltas = Unused /\ resizes = Unused

WatchedInit ==
    \/ which = "guards" /\ Init /\ NoUi
    \/ which = "ui" /\ UiInit /\ NoGuards

WatchedNext ==
    \/ which = "guards" /\ Next /\ UNCHANGED <<which, uiVars>>
    \/ which = "ui" /\ UiNext /\ UNCHANGED <<which, vars>>

WatchedSpec == WatchedInit /\ [][WatchedNext]_<<which, vars, uiVars>>
-------------------------------------------------------------------------------
\* The types of the two components.
WatchedTypeOK ==
    /\ which = "guards" => TypeOK
    /\ which = "ui"     => UiTypeOK

\* A run that goes round in circles or only fails is stopped at the guards'
\* limits, no other run is stopped or warned, and one that is stopped was warned
\* before, where there is a warning for its way of failing (turn.rs 255-353).
GuardsHold == which = "guards" => NoRunaway /\ NoFalseAlarm /\ WarnedFirst

\* Every paragraph is in the scrollback or in the live area, once, and what
\* stands in the scrollback is final: whatever is streamed, resized, cancelled or
\* switched meanwhile (app.rs 582-635, tui state.rs 144-189, ui.rs 127-181).
ScrollbackTrue == which = "ui" => EachPieceOnce /\ ScrolledIsFinal

\* While the engine waits for a decision and nothing is on its way, the prompt on
\* the screen is the one for that call (app.rs 500-565, tui state.rs 234-309).
WaitIsPrompted == which = "ui" => PromptReachesUser
===============================================================================
