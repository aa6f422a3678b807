----------------------------- MODULE MCReplayShapes -----------------------------
(* An instance of ReplayShapes for TLC with calls that overlap. *)
EXTENDS ReplayShapes
===============================================================================
