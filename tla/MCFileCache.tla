----------------------------- MODULE MCFileCache -----------------------------
(* An instance of FileCache for TLC with compaction. *)
EXTENDS FileCache

TwoAndOne == [s \in Spans |-> IF s = "full" THEN 2 ELSE 1]
Compaction == {"compaction"}
===============================================================================
