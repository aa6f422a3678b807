----------------------------- MODULE MemoryStore -----------------------------
(***************************************************************************)
(* The memory directory (dream-engine-memory): one Markdown file a memory, *)
(* with a frontmatter, and the index MEMORY.md, one line a memory, whose   *)
(* newest part goes into the system prompt.  The host's processes write    *)
(* both with plain reads and writes: the file, then the index, which is    *)
(* read, changed and written back.                                         *)
(*                                                                         *)
(* A file is a sequence of lines, a line one of "delim" (---), "fields"    *)
(* (the frontmatter's YAML), "text" and "blank".                           *)
(***************************************************************************)
EXTENDS Naturals, Sequences, SequencesExt, FiniteSets, FiniteSetsExt

CONSTANTS
    Writers,            \* processes that share the directory
    Names, Stem(_),     \* names of memories; what sanitize_filename leaves of one
    NoStem,             \* ... of a name without ASCII letters or digits
    Bodies,             \* what can be remembered, as lines
    PromptLines, PromptBytes, HeaderLines,  \* PROMPT_INDEX_*, FRONTMATTER_MAX_LINES
    MaxClock            \* bound on the number of saves

Line == {"delim", "fields", "text", "blank"}

\* The YAML of a frontmatter has no line --- and closes within the lines that are
\* searched for its end.
ASSUME MemoryAssumption ==
    /\ \A m \in Bodies : /\ m \in [fields : Seq({"fields"}), body : Seq(Line)]
                         /\ Len(m.fields) < HeaderLines
    /\ PromptLines \in Nat /\ PromptBytes \in Nat /\ HeaderLines \in Nat /\ MaxClock \in Nat

VARIABLES
    stored,             \* the memory files: the lines of each, and its mtime
    index,              \* MEMORY.md
    at,                 \* what each writer is doing
    clock,              \* saves so far
    kept                \* history: the memories nobody overwrote, forgot or raced

memoryVars == <<stored, index, at, clock, kept>>

-----------------------------------------------------------------------------
(* Files. *)

Serialized(m) == <<"delim">> \o m.fields \o <<"delim", "blank">> \o m.body

Unblank(lines) ==       \* trim_start_matches('\n')
    LET full == {i \in DOMAIN lines : lines[i] # "blank"}
    IN  IF full = {} THEN <<>> ELSE SubSeq(lines, Min(full), Len(lines))

Plain(lines) == [fields |-> <<>>, body |-> lines]

Parsed_Last(lines) ==   \* mutant: closes at the last delimiter of the file
    LET closes == {i \in 2..Len(lines) : lines[i] = "delim"}
    IN  IF closes = {} THEN Plain(lines)
        ELSE [fields |-> SubSeq(lines, 2, Max(closes) - 1),
              body |-> Unblank(SubSeq(lines, Max(closes) + 1, Len(lines)))]

\* Closes at the first delimiter among the first lines, else there is no
\* frontmatter and the whole file is the body.
Parsed(lines) ==        \* parse_frontmatter
    LET closes == {i \in 2..Min({Len(lines), HeaderLines + 1}) : lines[i] = "delim"}
    IN  IF lines = <<>> \/ lines[1] # "delim" \/ closes = {} THEN Plain(lines)
        ELSE [fields |-> SubSeq(lines, 2, Min(closes) - 1),
              body |-> Unblank(SubSeq(lines, Min(closes) + 1, Len(lines)))]

\* Two names can sanitize to one file; one that sanitizes to nothing takes the
\* time instead.
FileName(name, now) == IF Stem(name) = NoStem THEN <<NoStem, now>> ELSE <<Stem(name), 0>>

\* The headers of scan_memory_files, newest first.
Scanned == CHOOSE s \in [1..Cardinality(DOMAIN stored) -> DOMAIN stored] :
              \A i, j \in DOMAIN s : i < j => stored[s[i]].mtime > stored[s[j]].mtime

-----------------------------------------------------------------------------
(* The index.  A line has a size, and names a file unless it is free text. *)

Nameless == <<NoStem, 0>>
Heading == [file |-> Nameless, size |-> 1]
Volume(lines) == FoldLeft(LAMBDA a, b : a + b, 0, [i \in DOMAIN lines |-> lines[i].size + 1])
Removed(lines, file) ==
    FoldLeft(LAMBDA got, l : IF l.file = file THEN got ELSE Append(got, l), <<>>, lines)
Entries(lines) == Removed(lines, Nameless)

Taken_Skipping(got, l) ==       \* mutant: passes over a line that is too long
    IF got.lines # <<>> /\ (Len(got.lines) >= PromptLines
                            \/ Volume(got.lines) + l.size + 1 > PromptBytes)
    THEN got ELSE [got EXCEPT !.lines = <<l>> \o @]

\* index_for_prompt: within the budget the index as it is; otherwise the
\* newest entries that fit, one at least, with a note on the rest.
Taken(got, l) ==
    IF got.full \/ (got.lines # <<>> /\ (Len(got.lines) >= PromptLines
                                         \/ Volume(got.lines) + l.size + 1 > PromptBytes))
    THEN [got EXCEPT !.full = TRUE]
    ELSE [got EXCEPT !.lines = <<l>> \o @]

WithinBudget(lines) == Len(lines) <= PromptLines /\ Volume(lines) <= PromptBytes + 1

ForPrompt(lines) ==
    IF WithinBudget(lines) \/ Entries(lines) = <<>> THEN lines
    ELSE FoldLeft(Taken, [lines |-> <<>>, full |-> FALSE], Reverse(Entries(lines))).lines

Appended(lines, l) == Append(lines, l)

-----------------------------------------------------------------------------
(* Writers. *)

Free == [op |-> "idle", name |-> "", file |-> Nameless, copy |-> <<>>, size |-> 0]

\* write_memory: whoever had the file before is overwritten.
Save(w, name, m) ==
    /\ at[w].op = "idle" /\ clock < MaxClock
    /\ clock' = clock + 1
    /\ LET f == FileName(name, clock')
       IN  /\ stored' = [g \in DOMAIN stored \cup {f} |->
                        IF g = f THEN [lines |-> Serialized(m), mtime |-> clock'] ELSE stored[g]]
           /\ at' = [at EXCEPT ![w] = [Free EXCEPT !.op = "saved", !.name = name, !.file = f,
                                                   !.size = Len(m.body)]]
           /\ kept' = {k \in kept : k.file # f}
                        \cup {[name |-> name, file |-> f, m |-> m, listed |-> FALSE]}
    /\ UNCHANGED index

\* append_index_entry and remove_index_entry read the whole index first.
ReadIndex(w) ==
    /\ at[w].op \in {"saved", "forget"}
    /\ at' = [at EXCEPT ![w].op = IF @ = "saved" THEN "append" ELSE "remove", ![w].copy = index]
    /\ UNCHANGED <<stored, index, clock, kept>>

\* A line goes when its file was forgotten, or with what another writer listed
\* since this one read.
Unlisted(w) == {k \in kept :
    /\ k.listed /\ \A i \in DOMAIN index' : index'[i].file # k.file
    /\ at[w].copy # index \/ (at[w].op = "remove" /\ at[w].file = k.file)}

WriteIndex(w) ==
    /\ at[w].op \in {"append", "remove"}
    /\ index' = IF at[w].op = "append"
                THEN Appended(at[w].copy, [file |-> at[w].file, size |-> at[w].size])
                ELSE Removed(at[w].copy, at[w].file)
    /\ kept' = {IF at[w].op = "append" /\ k.file = at[w].file
                THEN [k EXCEPT !.listed = TRUE] ELSE k : k \in kept \ Unlisted(w)}
    /\ at' = [at EXCEPT ![w] = Free]
    /\ UNCHANGED <<stored, clock>>

\* delete_memory: the file goes first, its line afterwards.
Forget(w, f) ==
    /\ at[w].op = "idle" /\ f \in DOMAIN stored
    /\ stored' = [g \in DOMAIN stored \ {f} |-> stored[g]]
    /\ kept' = {k \in kept : k.file # f}
    /\ at' = [at EXCEPT ![w] = [Free EXCEPT !.op = "forget", !.file = f]]
    /\ UNCHANGED <<index, clock>>

Crash(w) ==
    /\ at[w].op # "idle"
    /\ at' = [at EXCEPT ![w] = Free]
    /\ UNCHANGED <<stored, index, clock, kept>>

MemoryInit ==
    /\ stored = [f \in {} |-> 0]
    /\ index \in {<<>>, <<Heading>>}
    /\ at = [w \in Writers |-> Free]
    /\ clock = 0 /\ kept = {}

MemoryNext == \E w \in Writers :
    \/ \E name \in Names, m \in Bodies : Save(w, name, m)
    \/ \E f \in DOMAIN stored : Forget(w, f)
    \/ ReadIndex(w) \/ WriteIndex(w) \/ Crash(w)

MemorySpec == MemoryInit /\ [][MemoryNext]_memoryVars

-----------------------------------------------------------------------------
\* Types: what is on disk, in the index, and in a writer's hands.
MemoryTypeOK ==
    /\ \A f \in DOMAIN stored : stored[f].mtime \in 1..clock
    /\ \A i \in DOMAIN index : index[i].file = Nameless \/ index[i].size \in Nat
    /\ \A w \in Writers : at[w].op \in {"idle", "saved", "forget", "append", "remove"}
    /\ clock \in 0..MaxClock

\* A memory that was saved and listed, and that nobody has overwritten,
\* forgotten, or raced on the index, is found through the index and reads
\* back as it was written; the scan finds its file too.
MemoryRecalled ==
    \A k \in kept : k.listed =>
        /\ \E i \in DOMAIN index : index[i].file = k.file
        /\ k.file \in ToSet(Scanned)
        /\ Parsed(stored[k.file].lines) = [k.m EXCEPT !.body = Unblank(@)]

\* The prompt shows the newest entries: no run of entries up to the newest
\* that would fit is longer than the one shown, and none is skipped.
NewestShown ==
    LET all == Entries(index)
        shown == ForPrompt(index)
        Fits(n) == n <= PromptLines /\ Volume(SubSeq(all, Len(all) - n + 1, Len(all))) <= PromptBytes
        n == Max({1} \cup {i \in 1..Len(all) : Fits(i)})
    IN  ~WithinBudget(index) /\ all # <<>> => shown = SubSeq(all, Len(all) - n + 1, Len(all))
=============================================================================
