----------------------------- MODULE MCHostSession -----------------------------
(* Instances of HostSession for TLC. *)
EXTENDS HostSession
===============================================================================
