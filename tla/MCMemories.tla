------------------------------ MODULE MCMemories ------------------------------
(***************************************************************************)
(* One instance for TLC of the components that keep what was learned: the  *)
(* file cache, the shapes a gateway takes, and the memories.  They share   *)
(* no state, so a behaviour is one of a single component, chosen at the    *)
(* start, and the state space is the sum of theirs; the variables of the   *)
(* others stay Unused.  The shapes have the variables of the file cache,   *)
(* in the order of its declaration.                                        *)
(***************************************************************************)
EXTENDS FileCache, MemoryStore, TLC

VARIABLE which          \* the component that runs

Unused == "unused"

Shapes == INSTANCE ReplayShapes WITH
    learned <- disk, pc <- writes, shape <- entries, needs <- bytes, attempts <- op,
    Calls <- Files, MaxReplayLevel <- 3, Overlap <- 1

\* Two of the three names make the same file name.
StemOf(name) == CASE name \in {"Tea", "tea!"} -> "tea" [] OTHER -> "none"
Remembered == {[fields |-> <<"fields">>, body |-> <<"text">>],
               [fields |-> <<"fields", "fields">>,
                body   |-> <<"blank", "text", "delim", "text">>]}

TwoAndOne      == [s \in Spans |-> IF s = "full" THEN 2 ELSE 1]
WithCompaction == {"compaction"}
FileSymmetry   == Permutations(Files)
-------------------------------------------------------------------------------
AfterFive == <<result, known, context, raced>>

MemoriesInit ==
    \/ /\ \/ which = "files" /\ Init
          \/ /\ which = "shapes" /\ Shapes!ShapesInit
             /\ result = Unused /\ known = Unused /\ context = Unused /\ raced = Unused
       /\ stored = Unused /\ index = Unused /\ at = Unused /\ clock = Unused /\ kept = Unused
    \/ /\ which = "memory" /\ MemoryInit
       /\ disk = Unused /\ writes = Unused /\ entries = Unused /\ bytes = Unused /\ op = Unused
       /\ result = Unused /\ known = Unused /\ context = Unused /\ raced = Unused

MemoriesNext ==
    \/ which = "files" /\ Next /\ UNCHANGED <<which, memoryVars>>
    \/ which = "shapes" /\ Shapes!ShapesNext /\ UNCHANGED <<which, AfterFive, memoryVars>>
    \/ which = "memory" /\ MemoryNext /\ UNCHANGED <<which, vars>>

MemoriesSpec == MemoriesInit /\ [][MemoriesNext]_<<which, vars, memoryVars>>
-------------------------------------------------------------------------------
\* The types of the three components; the cache's byte counter is the sum of its
\* entries' sizes and within its limits (file_cache.rs 49-70), and a call asks
\* for no more shapes than its ladder has.
MemoriesTypeOK ==
    /\ which = "files"  => TypeOK /\ BytesAccounted
    /\ which = "shapes" => Shapes!ShapesTypeOK
    /\ which = "memory" => MemoryTypeOK

\* "File unchanged" is said only of a version the model has seen or written
\* something of, whoever else wrote the file meanwhile (read.rs 86-104).
UnchangedWasSeen == which = "files" => UnchangedSeenInPart

\* An Edit that passes its check found the file as the model knows it: every
\* write by others before the check is noticed (edit.rs 220-235).
EditsWhatItKnows == which = "files" => EditsTheKnown

\* What was learned of the gateway sticks while calls come one at a time: later
\* calls skip the shapes it already rejected (composed.rs 21-25).
NeverUnlearned ==
    [][which = "shapes" => Shapes!Covers(disk', disk)]_<<which, vars, memoryVars>>

\* However saves and deletions of two processes interleave, a memory that is in
\* the index reads back as it was written, and the prompt shows the newest entries
\* that fit, with none left out between them (store.rs, index.rs).
MemoryKept == which = "memory" => MemoryRecalled /\ NewestShown
===============================================================================
