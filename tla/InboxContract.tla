---------------------------- MODULE InboxContract ----------------------------
(***************************************************************************)
(* What the engine promises to a host that sends it user messages: a       *)
(* message the gate lets in waits in order until the conversation takes    *)
(* it, the gate is never shut on a waiting message, and what the           *)
(* conversation has heard it never unhears.  Only a crash loses messages,  *)
(* and only those still waiting.                                           *)
(* Source of the promise: pending_input.rs 1-16, engine.rs 534-578.        *)
(***************************************************************************)
EXTENDS Naturals, Sequences, Functions

CONSTANT Inputs         \* the user messages a host may send

VARIABLES
    gate,               \* a message may be handed over now
    waiting,            \* messages let in that the conversation has not taken
    heard               \* messages the conversation holds

vars == <<gate, waiting, heard>>

Init == gate = FALSE /\ waiting = <<>> /\ heard = {}

\* A run begins: the gate opens.  What it was started with comes in by Say.
Open == gate' = TRUE /\ UNCHANGED <<waiting, heard>>

Say(m) == /\ gate
          /\ heard' = heard \cup {m}
          /\ UNCHANGED <<gate, waiting>>

Offer(m) == /\ gate
            /\ waiting' = Append(waiting, m)
            /\ UNCHANGED <<gate, heard>>

\* The conversation takes everything that waits; the gate may shut with it.
Take == /\ heard' = heard \cup Range(waiting)
        /\ waiting' = <<>>
        /\ gate' \in {gate, FALSE}

\* A crash: the gate is shut and what waited is gone, what was heard is not.
Crash == gate' = FALSE /\ waiting' = <<>> /\ UNCHANGED heard

Next == \/ Open
        \/ \E m \in Inputs : Say(m) \/ Offer(m)
        \/ Take
        \/ Crash

Spec == Init /\ [][Next]_vars
==============================================================================
