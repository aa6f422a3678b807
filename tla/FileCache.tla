------------------------------ MODULE FileCache ------------------------------
(***************************************************************************)
(* The file state cache shared by the Read, Edit and Write tools           *)
(* (dream-engine-tools: file_cache.rs, read.rs, edit.rs, write.rs) against *)
(* whoever else writes the files: the user's editor, commands, sub-agents, *)
(* which have no cache.  Tools of one engine run one after another, since  *)
(* their bodies hold no await; others write between any two system calls.  *)
(*                                                                         *)
(* Every write has a number, which stands for the content it left and for  *)
(* its mtime.                                                              *)
(***************************************************************************)
EXTENDS Naturals, Sequences, SequencesExt, FiniteSetsExt

CONSTANTS
    Files, NoFile,
    Sizes,              \* bytes of a read, by span
    MaxEntries,         \* max_entries of the configuration
    MaxBytes,           \* max_size_bytes
    MaxWrites,          \* bound on the writes explored
    Hazards             \* "compaction", or nothing

Spans == {"full", "part"}   \* no offset and limit, or some

ASSUME ConstantsAssumption ==
    /\ NoFile \notin Files
    /\ Sizes \in [Spans -> Nat] /\ MaxEntries \in Nat \ {0} /\ MaxBytes \in Nat
    /\ MaxWrites \in Nat \ {0} /\ Hazards \subseteq {"compaction"}

VARIABLES
    disk,               \* the last write of each file, 0 if there is no file
    writes,             \* writes so far
    entries,            \* the LruCache, least recently used first
    bytes,              \* current_size_bytes
    op,                 \* the tool call under way
    result,             \* what the last tool call told the model
    known,              \* history: what the model was shown or wrote of files
    context,            \* history: that, as far as the conversation holds it
    raced               \* history: files others wrote within an Edit or a Write,
                        \* and not read since

cache == <<entries, bytes>>
mind  == <<known, context>>
vars  == <<disk, writes, cache, op, result, mind, raced>>

Version == 0..MaxWrites
Idle == [tool |-> "none", step |-> "none", file |-> NoFile,
         span |-> "full", stat |-> 0, content |-> 0]
NoResult == [kind |-> "none", file |-> NoFile, span |-> "full", at |-> 0]
-------------------------------------------------------------------------------
Lookup(es, f) == {i \in DOMAIN es : es[i].file = f}
Cached(f)  == Lookup(entries, f) # {}
Entry(f)   == entries[CHOOSE i \in Lookup(entries, f) : TRUE]

\* pop: a file has one entry at most.
Without(es, f) == IF Lookup(es, f) = {} THEN es
                  ELSE RemoveAt(es, CHOOSE i \in Lookup(es, f) : TRUE)

\* get promotes the entry, whatever it is then used for.
Promoted(f) == IF Cached(f) THEN Append(Without(entries, f), Entry(f)) ELSE entries

Bytes(es) == FoldLeft(LAMBDA a, b : a + b, 0, [i \in DOMAIN es |-> Sizes[es[i].span]])

\* Evictions from the old end: one as long as the bytes do not fit and there is
\* an entry, then one more if the entries are too many.
Trimmed(es, size) ==
    LET short == {k \in 0..(Len(es) - 1) :
                     Bytes(SubSeq(es, k + 1, Len(es))) + size > MaxBytes}
        kept  == SubSeq(es, Cardinality(short) + 1, Len(es))
    IN  IF Len(kept) = MaxEntries THEN Tail(kept) ELSE kept

\* Mutant of Insert: the entry that is replaced stays accounted for.
Insert_KeepsOldBytes(f, stat, span) ==
    LET others == Without(entries, f)
        kept   == Trimmed(others, Sizes[span])
    IN  /\ entries' = Append(kept, [file |-> f, stat |-> stat, span |-> span])
        /\ bytes' = bytes - (Bytes(others) - Bytes(kept)) + Sizes[span]

\* Mutant of Insert: evictions look at the bytes only.
Insert_NoEntryLimit(f, stat, span) ==
    /\ entries' = Append(Without(entries, f), [file |-> f, stat |-> stat, span |-> span])
    /\ bytes' = Bytes(entries')

Insert(f, stat, span) ==
    LET others == Without(entries, f)
        kept   == Trimmed(others, Sizes[span])
        freed  == Bytes(entries) - Bytes(kept)
    IN  /\ entries' = Append(kept, [file |-> f, stat |-> stat, span |-> span])
        /\ bytes' = bytes - freed + Sizes[span]

\* Versions never come back, so that older ones can be forgotten.
Learned(what, f, spans, v) ==
    {k \in what : k[1] = f => k[3] = v} \cup ({f} \X spans \X {v})

Show(f, spans, v) == /\ known' = Learned(known, f, spans, v)
                     /\ context' = Learned(context, f, spans, v)

Answer(kind) == /\ op' = Idle
                /\ result' = [kind |-> kind, file |-> op.file, span |-> op.span,
                              at |-> op.stat]
-------------------------------------------------------------------------------
Init == /\ disk \in [Files -> {0, 1}] /\ writes = 1
        /\ entries = <<>> /\ bytes = 0
        /\ op = Idle /\ result = NoResult
        /\ known = {} /\ context = {} /\ raced = {}

\* The model calls a tool.
Call(tool, f, span) ==
    /\ op = Idle
    /\ op' = [Idle EXCEPT !.tool = tool, !.step = "start", !.file = f, !.span = span]
    /\ result' = NoResult
    /\ UNCHANGED <<disk, writes, cache, mind, raced>>

At(tool, step) == op.tool = tool /\ op.step = step
Go(step) == op' = [op EXCEPT !.step = step] /\ UNCHANGED result

\* Read: the mtime is taken first, then the entry is looked at.
Hit(f, span) == /\ disk[f] # 0 /\ Cached(f)
                /\ Entry(f).span = span /\ Entry(f).stat = disk[f]

ReadStat ==
    /\ At("Read", "start")
    /\ entries' = IF disk[op.file] = 0 THEN entries ELSE Promoted(op.file)
    /\ \/ /\ Hit(op.file, op.span)
          /\ op' = Idle
          /\ result' = [kind |-> "unchanged", file |-> op.file, span |-> op.span,
                        at |-> disk[op.file]]
       \/ /\ ~Hit(op.file, op.span)
          /\ op' = [op EXCEPT !.step = "stated", !.stat = disk[op.file]]
          /\ UNCHANGED result
    /\ UNCHANGED <<disk, writes, bytes, mind, raced>>

\* Mutant of ReadBody: the mtime that is cached is taken after the content.
ReadBody_LateStat ==
    \/ /\ At("Read", "stated") /\ op.content = 0 /\ disk[op.file] # 0
       /\ op' = [op EXCEPT !.content = disk[op.file]]
       /\ Show(op.file, {op.span}, disk[op.file])
       /\ UNCHANGED <<disk, writes, cache, result, raced>>
    \/ /\ At("Read", "stated") /\ op.content # 0 /\ disk[op.file] # 0
       /\ Insert(op.file, disk[op.file], op.span)
       /\ Answer("content")
       /\ raced' = raced \ {op.file}
       /\ UNCHANGED <<disk, writes, mind>>

\* An error if there is no file, a remark if it is binary, or the content,
\* which is cached under the mtime taken before.
ReadBody ==
    /\ At("Read", "stated")
    /\ \/ /\ disk[op.file] = 0 /\ Answer("error")
          /\ UNCHANGED <<cache, mind, raced>>
       \/ /\ disk[op.file] # 0 /\ Answer("binary")
          /\ UNCHANGED <<cache, mind, raced>>
       \/ /\ disk[op.file] # 0 /\ Answer("content")
          /\ IF op.stat # 0 THEN Insert(op.file, op.stat, op.span) ELSE UNCHANGED cache
          /\ Show(op.file, {op.span}, disk[op.file])
          /\ raced' = raced \ {op.file}
       /\ UNCHANGED <<disk, writes>>

\* Mutant of Stale: an entry is never out of date.
Stale_Never(f) == FALSE

\* A file that is gone is not stale: reading it will fail.
Stale(f) == disk[f] # 0 /\ Entry(f).stat # disk[f]

EditCheck ==
    /\ At("Edit", "start")
    /\ entries' = Promoted(op.file)
    /\ \/ ~Cached(op.file) /\ Answer("error")
       \/ Cached(op.file) /\ Stale(op.file) /\ Answer("error")
       \/ /\ Cached(op.file) /\ ~Stale(op.file)
          /\ op' = [op EXCEPT !.step = "checked", !.stat = disk[op.file]]
          /\ UNCHANGED result
    /\ UNCHANGED <<disk, writes, bytes, mind, raced>>

\* The file cannot be read, old_string is not there or not unique; or it is.
EditRead ==
    /\ At("Edit", "checked")
    /\ \/ Answer("error")
       \/ /\ disk[op.file] # 0
          /\ op' = [op EXCEPT !.step = "write", !.content = disk[op.file]]
          /\ UNCHANGED result
    /\ UNCHANGED <<disk, writes, cache, mind, raced>>

\* Both tools write; an Edit is known as far as what it was made from is.
WriteFile ==
    /\ At("Edit", "write") \/ At("Write", "start")
    /\ writes < MaxWrites
    /\ writes' = writes + 1 /\ disk' = [disk EXCEPT ![op.file] = writes']
    /\ LET spans == IF op.tool = "Write" THEN Spans
                    ELSE {s \in Spans : <<op.file, s, op.content>> \in known
                                        \/ <<op.file, "full", op.content>> \in known}
       IN  Show(op.file, spans, writes')
    /\ Go("written")
    /\ UNCHANGED <<cache, raced>>

\* Writing fails, and nothing else happens.
WriteFails == /\ At("Edit", "write") \/ At("Write", "start")
              /\ Answer("error")
              /\ UNCHANGED <<disk, writes, cache, mind, raced>>

\* update_cache_after_write stats the file again.
Refresh == /\ op.step = "written"
           /\ IF disk[op.file] = 0 THEN UNCHANGED cache
              ELSE Insert(op.file, disk[op.file], "full")
           /\ Answer("done")
           /\ UNCHANGED <<disk, writes, mind, raced>>

\* Someone else writes a file, or removes it.
Outside(f) ==
    /\ writes < MaxWrites
    /\ writes' = writes + 1
    /\ \E v \in {0, writes'} : disk' = [disk EXCEPT ![f] = v]
    /\ raced' = IF op.step \in {"checked", "write", "written"} /\ op.file = f
                THEN raced \cup {f} ELSE raced
    /\ UNCHANGED <<cache, op, result, mind>>

\* The conversation is summarized; nobody tells the cache.
Compact == /\ "compaction" \in Hazards /\ op = Idle /\ context # {}
           /\ context' = {} /\ result' = NoResult
           /\ UNCHANGED <<disk, writes, cache, op, known, raced>>
-------------------------------------------------------------------------------
Next == \/ \E f \in Files :
              \/ \E s \in Spans : Call("Read", f, s)
              \/ Call("Edit", f, "full") \/ Call("Write", f, "full")
              \/ Outside(f)
        \/ ReadStat \/ ReadBody \/ EditCheck \/ EditRead
        \/ WriteFile \/ WriteFails \/ Refresh \/ Compact

Spec == Init /\ [][Next]_vars
-------------------------------------------------------------------------------
\* Every variable has its type, one entry at most for a file, and no more
\* entries than the cache may hold.
TypeOK ==
    /\ disk \in [Files -> Version] /\ writes \in Version
    /\ entries \in Seq([file : Files, stat : Version, span : Spans])
    /\ Len(entries) <= MaxEntries
    /\ \A f \in Files : \A i, j \in Lookup(entries, f) : i = j
    /\ bytes \in Nat
    /\ op \in [tool : {"none", "Read", "Edit", "Write"},
               step : {"none", "start", "stated", "checked", "write", "written"},
               file : Files \cup {NoFile}, span : Spans,
               stat : Version, content : Version]
    /\ known \subseteq Files \X Spans \X Version
    /\ context \subseteq known /\ raced \subseteq Files

\* The running total is the total, and the budget is kept except for a single
\* entry that exceeds it alone: no sequence of reads, replacements and
\* evictions makes the counter drift (file_cache.rs 49-70).
BytesAccounted == /\ bytes = Bytes(entries)
                  /\ bytes <= MaxBytes \/ Len(entries) = 1

\* Some of that version of the file.
InPart(what, f, v) == \E s \in Spans : <<f, s, v>> \in what

\* "Unchanged" is said only of a version the model has seen or written
\* something of, whoever else wrote the file before, after or within the
\* Read: the mtime is taken before the content (read.rs 86, 104).  Only a
\* write by others between the system calls of an Edit or a Write can pass
\* for the tool's own, and only until the file is read again.
UnchangedSeenInPart ==
    (result.kind = "unchanged" /\ result.file \notin raced) =>
        InPart(known, result.file, result.at)

\* An Edit that passes its check found the file as the model knows it, at
\* least in part: every write by others before the check is noticed, but for
\* those within an earlier Edit or Write of the file (edit.rs 220-235).
EditsTheKnown ==
    /\ op.tool = "Edit" /\ op.step = "checked" /\ op.stat # 0
    /\ op.file \notin raced
    => InPart(known, op.file, op.stat)

\* What the stub tells the model: "The content from the earlier Read tool_result
\* in this conversation is still current - refer to that instead of re-reading"
\* (read.rs 16-18), so that something of it is in the conversation still.
UnchangedIsInContext ==
    result.kind = "unchanged" => InPart(context, result.file, result.at)
===============================================================================
