----------------------------- MODULE MCStreamRunner -----------------------------
(* An instance of StreamRunner for TLC: every wire format, limits of the source  *)
(* made smaller where the code only counts up to them.                           *)
EXTENDS StreamRunner
===============================================================================
