------------------------------ MODULE MCAgentRun ------------------------------
(* Small instances of AgentRun for TLC. *)
EXTENDS AgentRun, TLC

AllHazards == {"cancel", "quit", "crash"}
HostHazards == {"cancel"}
QuitHazard == {"quit"}

InputSymmetry == Permutations(Inputs)
===============================================================================
