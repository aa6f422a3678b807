---------------------------- MODULE MemoriesProofs ----------------------------
(***************************************************************************)
(* Theorems about what was learned earlier: the file cache, for every set  *)
(* of files, every size of the cache and every number of writes; the       *)
(* shapes a gateway takes, for every set of calls; and the memories, for   *)
(* all names, texts, writers and budgets of the prompt.                    *)
(***************************************************************************)
EXTENDS MCMemories, FoldTheorems

-------------------------------------------------------------------------------
(* The invariant.  An entry that is not out of date is of a version the    *)
(* model has seen, and so is what an Edit has in hand, as long as nobody   *)
(* else wrote the file within an Edit or a Write.                          *)

EntryType == [file : Files, stat : Nat, span : Spans]
OpType == [tool : {"none", "Read", "Edit", "Write"},
           step : {"none", "start", "stated", "checked", "write", "written"},
           file : Files \cup {NoFile}, span : Spans, stat : Nat, content : Nat]

CacheTypes ==
    /\ disk \in [Files -> Nat] /\ writes \in Nat /\ \A f \in Files : disk[f] <= writes
    /\ entries \in Seq(EntryType) /\ Len(entries) <= MaxEntries /\ op \in OpType
    /\ result \in [kind : {"none", "error", "binary", "content", "unchanged", "done"},
                   file : Files \cup {NoFile}, span : Spans, at : Nat]

\* One entry at most for a file.
OnePerFile(es) == \A i, j \in DOMAIN es : es[i].file = es[j].file => i = j

\* An entry has the mtime of a write that has happened.
Dated == \A i \in DOMAIN entries : entries[i].stat \in 1..writes

\* One that is not out of date, of a file nobody raced for, is of a version the
\* model has seen.
Seen == \A i \in DOMAIN entries : \A f \in Files \ raced :
            entries[i].file = f /\ entries[i].stat = disk[f] => InPart(known, f, disk[f])

Truthful == OnePerFile(entries) /\ Dated /\ Seen

InHand ==
    /\ op.step # "none" => op.file \in Files
    /\ op.stat <= writes
    /\ op.file \notin raced =>
          /\ At("Edit", "checked") =>
                op.stat = disk[op.file] /\ (op.stat # 0 => InPart(known, op.file, op.stat))
          /\ At("Edit", "write") => InPart(known, op.file, op.content)
          /\ op.step = "written" => disk[op.file] # 0 /\ InPart(known, op.file, disk[op.file])

Told == result.kind = "unchanged" =>
            op = Idle /\ (result.file \notin raced => InPart(known, result.file, result.at))

CacheInv == CacheTypes /\ Truthful /\ InHand /\ Told
-------------------------------------------------------------------------------
(* The operators of the cache.                                             *)

\* Some entries of es, each once.
Thinned(w, es) == /\ w \in Seq(EntryType) /\ Len(w) <= Len(es) /\ OnePerFile(w)
                  /\ \A i \in DOMAIN w : \E j \in DOMAIN es : w[i] = es[j]

\* pop takes the entry of the file away, and no other.
LEMMA WithoutThins ==
    ASSUME NEW es \in Seq(EntryType), OnePerFile(es), NEW f \in Files
    PROVE  /\ Thinned(Without(es, f), es)
           /\ \A i \in DOMAIN Without(es, f) : Without(es, f)[i].file # f
<1>1. CASE Lookup(es, f) = {}
  BY <1>1 DEF Without, Thinned, Lookup
<1>2. CASE Lookup(es, f) # {}
  <2> DEFINE k == CHOOSE i \in Lookup(es, f) : TRUE
             w == RemoveAt(es, k)
  <2>1. k \in DOMAIN es /\ es[k].file = f
    BY <1>2 DEF Lookup
  <2>2. k \in 1..Len(es) /\ Len(es) \in Nat /\ DOMAIN es = 1..Len(es)
    BY <2>1
  <2> HIDE DEF k
  <2>3. /\ w \in Seq(EntryType) /\ Len(w) = Len(es) - 1
        /\ \A i \in 1..(Len(es) - 1) : w[i] = IF i < k THEN es[i] ELSE es[i + 1]
    BY <2>2, RemovedAt
  <2>4. DOMAIN w = 1..(Len(es) - 1)
    BY <2>2, <2>3
  <2> HIDE DEF w
  <2>5. \A i \in DOMAIN w : \E j \in DOMAIN es :
            w[i] = es[j] /\ j # k /\ j = IF i < k THEN i ELSE i + 1
    BY <2>2, <2>3, <2>4
  <2>6. OnePerFile(w)
    BY <2>2, <2>3, <2>4, <2>5 DEF OnePerFile
  <2>7. \A i \in DOMAIN w : w[i].file # f
    BY <2>1, <2>5 DEF OnePerFile
  <2>8. Thinned(w, es)
    BY <2>2, <2>3, <2>4, <2>5, <2>6 DEF Thinned
  <2> QED
    BY <1>2, <2>7, <2>8 DEF Without, w, k
<1> QED
  BY <1>1, <1>2

\* Evictions keep the newest entries, and make room for one more.
LEMMA TrimmedThins ==
    ASSUME NEW es \in Seq(EntryType), OnePerFile(es), Len(es) <= MaxEntries, NEW size
    PROVE  Thinned(Trimmed(es, size), es) /\ Len(Trimmed(es, size)) < MaxEntries
<1> DEFINE short == {k \in 0..(Len(es) - 1) :
                        Bytes(SubSeq(es, k + 1, Len(es))) + size > MaxBytes}
           d == Cardinality(short)
           rest == SubSeq(es, d + 1, Len(es))
<1>1. Len(es) \in Nat /\ DOMAIN es = 1..Len(es) /\ MaxEntries \in Nat \ {0}
  BY ConstantsAssumption
<1>2. IsFiniteSet(0..(Len(es) - 1)) /\ Cardinality(0..(Len(es) - 1)) = Len(es)
  BY <1>1, CountTo
<1>3. d \in Nat /\ d <= Len(es)
  <2>1. short \in SUBSET (0..(Len(es) - 1))
    OBVIOUS
  <2> HIDE DEF short
  <2> QED
    BY <1>2, <2>1, FS_Subset, FS_CardinalityType
<1> HIDE DEF d
<1>4. /\ rest \in Seq(EntryType) /\ Len(rest) = Len(es) - d /\ DOMAIN rest = 1..(Len(es) - d)
      /\ \A i \in 1..(Len(es) - d) : rest[i] = es[d + i]
  BY <1>1, <1>3
<1> HIDE DEF rest
<1> DEFINE t == IF Len(rest) = MaxEntries THEN Tail(rest) ELSE rest
<1> HIDE DEF short
<1>5. \A i \in DOMAIN rest : \E j \in DOMAIN es : rest[i] = es[j] /\ j = d + i
  BY <1>1, <1>3, <1>4
<1>6. OnePerFile(rest)
  BY <1>1, <1>3, <1>4, <1>5 DEF OnePerFile
<1>7. CASE Len(rest) = MaxEntries
  <2>1. rest # <<>>
    BY <1>1, <1>7
  <2>2. /\ Tail(rest) \in Seq(EntryType) /\ Len(Tail(rest)) = Len(rest) - 1
        /\ \A i \in 1..Len(Tail(rest)) : Tail(rest)[i] = rest[i + 1]
    BY <1>4, <2>1, HeadTailProperties
  <2>3. DOMAIN Tail(rest) = 1..(Len(rest) - 1) /\ Len(rest) \in Nat /\ DOMAIN rest = 1..Len(rest)
    BY <1>4, <2>2
  <2>4. OnePerFile(Tail(rest))
    BY <1>6, <2>2, <2>3 DEF OnePerFile
  <2>5. \A i \in DOMAIN Tail(rest) : \E j \in DOMAIN es : Tail(rest)[i] = es[j]
    BY <1>5, <2>2, <2>3
  <2>6. Len(Tail(rest)) <= Len(es) /\ Len(Tail(rest)) < MaxEntries
    <3> DEFINE n == Len(es)
    <3>1. n \in Nat /\ Len(rest) = n - d
      BY <1>1, <1>4
    <3> HIDE DEF n
    <3>2. Len(Tail(rest)) <= n /\ Len(Tail(rest)) < MaxEntries
      BY <1>1, <1>3, <1>7, <2>2, <3>1
    <3> QED
      BY <3>2 DEF n
  <2>7. Trimmed(es, size) = Tail(rest)
    BY <1>7 DEF Trimmed, rest, d, short
  <2> QED
    BY <2>2, <2>4, <2>5, <2>6, <2>7 DEF Thinned
<1>8. CASE Len(rest) # MaxEntries
  <2>1. Len(rest) <= Len(es) /\ Len(rest) < MaxEntries
    <3> DEFINE n == Len(es)
    <3>1. n \in Nat /\ Len(rest) = n - d /\ n <= MaxEntries /\ d <= n
      BY <1>1, <1>3, <1>4
    <3> HIDE DEF n
    <3>2. Len(rest) <= n /\ Len(rest) < MaxEntries
      BY <1>1, <1>3, <1>8, <3>1
    <3> QED
      BY <3>2 DEF n
  <2>2. Trimmed(es, size) = rest
    BY <1>8 DEF Trimmed, rest, d, short
  <2> QED
    BY <1>4, <1>5, <1>6, <2>1, <2>2 DEF Thinned
<1> QED
  BY <1>7, <1>8

LEMMA PromotedThins ==
    ASSUME CacheTypes, OnePerFile(entries), NEW f \in Files
    PROVE  Thinned(Promoted(f), entries)
<1>1. CASE ~Cached(f)
  BY <1>1 DEF Promoted, Thinned, CacheTypes
<1>2. CASE Cached(f)
  <2> DEFINE w == Without(entries, f)
             k == CHOOSE i \in Lookup(entries, f) : TRUE
  <2>1. k \in DOMAIN entries /\ entries[k].file = f /\ Entry(f) = entries[k]
    BY <1>2 DEF Cached, Lookup, Entry
  <2>2. Thinned(w, entries) /\ \A i \in DOMAIN w : w[i].file # f
    BY WithoutThins DEF CacheTypes
  <2>3. Promoted(f) = Append(w, entries[k]) /\ entries \in Seq(EntryType)
    BY <1>2, <2>1 DEF Promoted, CacheTypes
  <2>4. Len(w) < Len(entries)
    <3>1. w = RemoveAt(entries, k)
      BY <1>2 DEF Cached, Without
    <3>2. k \in 1..Len(entries) /\ Len(entries) \in Nat
      BY <2>1, <2>3
    <3> HIDE DEF k, w
    <3>3. Len(w) = Len(entries) - 1
      BY <2>3, <3>1, <3>2, RemovedAt
    <3> QED
      BY <3>2, <3>3
  <2> HIDE DEF w, k
  <2> DEFINE p == Append(w, entries[k])
  <2>5. entries[k] \in EntryType /\ w \in Seq(EntryType)
    BY <2>1, <2>2, <2>3 DEF Thinned
  <2>6. /\ p \in Seq(EntryType) /\ Len(p) = Len(w) + 1 /\ DOMAIN p = 1..(Len(w) + 1)
        /\ DOMAIN w = 1..Len(w) /\ Len(w) \in Nat
        /\ \A i \in 1..Len(w) : p[i] = w[i]
        /\ p[Len(w) + 1] = entries[k]
    BY <2>5
  <2> HIDE DEF p
  <2>7. OnePerFile(p)
    BY <2>1, <2>2, <2>6 DEF OnePerFile, Thinned
  <2>8. \A i \in DOMAIN p : \E j \in DOMAIN entries : p[i] = entries[j]
    BY <2>1, <2>2, <2>6 DEF Thinned
  <2>9. Len(p) <= Len(entries)
    BY <2>3, <2>4, <2>6
  <2> QED
    BY <2>3, <2>6, <2>7, <2>8, <2>9 DEF Thinned, p
<1> QED
  BY <1>1, <1>2

\* Storing an entry replaces the file's, evicts what it must, and adds one.
LEMMA InsertKeeps ==
    ASSUME CacheTypes, OnePerFile(entries),
           NEW f \in Files, NEW stat \in Nat, NEW span \in Spans, Insert(f, stat, span)
    PROVE  /\ entries' \in Seq(EntryType) /\ Len(entries') <= MaxEntries
           /\ OnePerFile(entries')
           /\ \A i \in DOMAIN entries' :
                 \/ entries'[i] = [file |-> f, stat |-> stat, span |-> span]
                 \/ \E j \in DOMAIN entries : entries'[i] = entries[j]
<1> DEFINE new == [file |-> f, stat |-> stat, span |-> span]
           w == Without(entries, f)
           k == Trimmed(w, Sizes[span])
<1>1. Thinned(w, entries) /\ \A i \in DOMAIN w : w[i].file # f
  BY WithoutThins DEF CacheTypes
<1>2. w \in Seq(EntryType) /\ OnePerFile(w) /\ Len(w) <= MaxEntries
  <2>1. Len(w) \in Nat /\ Len(entries) \in Nat /\ MaxEntries \in Nat
    BY <1>1, ConstantsAssumption DEF Thinned, CacheTypes
  <2> HIDE DEF w
  <2> QED
    BY <1>1, <2>1 DEF Thinned, CacheTypes
<1>3. entries' = Append(k, new)
  BY DEF Insert
<1>4. new \in EntryType
  BY DEF EntryType
<1> HIDE DEF w
<1>5. Thinned(k, w) /\ Len(k) < MaxEntries
  BY <1>2, TrimmedThins
<1> HIDE DEF k, new
<1>6. /\ Append(k, new) \in Seq(EntryType) /\ Len(Append(k, new)) = Len(k) + 1
      /\ DOMAIN Append(k, new) = 1..(Len(k) + 1)
      /\ DOMAIN k = 1..Len(k) /\ Len(k) \in Nat /\ MaxEntries \in Nat
      /\ \A i \in 1..Len(k) : Append(k, new)[i] = k[i]
      /\ Append(k, new)[Len(k) + 1] = new
  BY <1>4, <1>5, ConstantsAssumption DEF Thinned
<1>7. new.file = f
  BY DEF new
<1>8. \A i \in DOMAIN k : k[i].file # f /\ \E j \in DOMAIN entries : k[i] = entries[j]
  BY <1>1, <1>5 DEF Thinned
<1>9. OnePerFile(entries')
  BY <1>3, <1>5, <1>6, <1>7, <1>8 DEF OnePerFile, Thinned
<1>10. \A i \in DOMAIN entries' :
          entries'[i] = new \/ \E j \in DOMAIN entries : entries'[i] = entries[j]
  BY <1>3, <1>6, <1>8
<1> QED
  BY <1>3, <1>5, <1>6, <1>9, <1>10 DEF new

\* What is learned of a file leaves what is known of the others.
LEMMA LearnedOf ==
    ASSUME NEW what, NEW f, NEW spans \in SUBSET Spans, NEW v
    PROVE  /\ \A g, u : g # f /\ InPart(what, g, u) => InPart(Learned(what, f, spans, v), g, u)
           /\ spans # {} => InPart(Learned(what, f, spans, v), f, v)
<1>1. ASSUME NEW g, NEW u, g # f, NEW s \in Spans, <<g, s, u>> \in what
      PROVE  InPart(Learned(what, f, spans, v), g, u)
  BY <1>1 DEF InPart, Learned
<1>2. ASSUME NEW s \in spans
      PROVE  InPart(Learned(what, f, spans, v), f, v)
  <2>1. <<f, s, v>> \in {f} \X spans \X {v}
    OBVIOUS
  <2> QED
    BY <2>1 DEF InPart, Learned
<1> QED
  BY <1>1, <1>2 DEF InPart
-------------------------------------------------------------------------------
(* Every step keeps the entries.                                           *)

\* As long as nothing but recency changes.
LEMMA PromotionKeeps ==
    ASSUME CacheTypes, Truthful, NEW f \in Files,
           entries' \in {entries, Promoted(f)}, UNCHANGED <<disk, writes, known, raced>>
    PROVE  Truthful' /\ entries' \in Seq(EntryType) /\ Len(entries') <= MaxEntries
<1>1. OnePerFile(entries) /\ Len(entries) \in Nat /\ MaxEntries \in Nat
  BY ConstantsAssumption DEF Truthful, CacheTypes
<1>2. Thinned(entries', entries)
  <2>1. Thinned(entries, entries)
    BY <1>1 DEF Thinned, CacheTypes
  <2> QED
    BY <1>1, <2>1, PromotedThins
<1>3. Len(entries') <= MaxEntries
  <2>1. Len(entries') \in Nat /\ Len(entries') <= Len(entries) /\ Len(entries) <= MaxEntries
    BY <1>2 DEF Thinned, CacheTypes
  <2> QED
    BY <1>1, <2>1
<1>4. Dated'
  BY <1>2 DEF Truthful, Dated, Thinned
<1>5. Seen'
  <2>1. ASSUME NEW i \in DOMAIN entries', NEW g \in Files \ raced,
               entries'[i].file = g, entries'[i].stat = disk[g]
        PROVE  InPart(known, g, disk[g])
    <3>1. PICK j \in DOMAIN entries : entries'[i] = entries[j]
      BY <1>2, <2>1 DEF Thinned
    <3> QED
      BY <2>1, <3>1 DEF Truthful, Seen
  <2> QED
    BY <2>1 DEF Seen, InPart
<1> QED
  BY <1>2, <1>3, <1>4, <1>5 DEF Truthful, Thinned

\* Nobody stops racing for another file, and nothing known of one is forgotten.
OthersKept(f) ==
    \A g \in Files \ {f} :
        g \notin raced' =>
            g \notin raced /\ (InPart(known, g, disk[g]) => InPart(known', g, disk'[g]))

\* When an entry is stored for a file, and the file is known as it is now.
LEMMA StoringKeeps ==
    ASSUME CacheTypes, Truthful, NEW f \in Files, NEW stat \in 1..writes, NEW span \in Spans,
           Insert(f, stat, span), UNCHANGED <<disk, writes>>,
           f \notin raced' => InPart(known', f, disk'[f]), OthersKept(f)
    PROVE  Truthful' /\ entries' \in Seq(EntryType) /\ Len(entries') <= MaxEntries
<1>1. stat \in Nat /\ OnePerFile(entries)
  BY DEF CacheTypes, Truthful
<1>2. /\ entries' \in Seq(EntryType) /\ Len(entries') <= MaxEntries
      /\ OnePerFile(entries')
      /\ \A i \in DOMAIN entries' :
            \/ entries'[i] = [file |-> f, stat |-> stat, span |-> span]
            \/ \E j \in DOMAIN entries : entries'[i] = entries[j]
  BY <1>1, InsertKeeps
<1>3. Dated'
  BY <1>2 DEF Truthful, Dated
<1>4. Seen'
  <2> SUFFICES ASSUME NEW i \in DOMAIN entries', NEW g \in Files, g \notin raced',
                      entries'[i].file = g, entries'[i].stat = disk[g]
               PROVE  InPart(known', g, disk'[g])
    BY DEF Seen, InPart
  <2>1. CASE g = f
    BY <2>1
  <2>2. CASE g # f
    <3>1. PICK j \in DOMAIN entries : entries'[i] = entries[j]
      BY <1>2, <2>2
    <3>2. g \notin raced /\ (InPart(known, g, disk[g]) => InPart(known', g, disk'[g]))
      BY <2>2 DEF OthersKept
    <3> QED
      BY <3>1, <3>2 DEF Truthful, Seen
  <2> QED
    BY <2>1, <2>2
<1> QED
  BY <1>2, <1>3, <1>4 DEF Truthful

\* When nothing is stored: a file that is written anew has no entry of its new
\* version, and what was known of the others still is.
LEMMA WritingKeeps ==
    ASSUME CacheTypes, Truthful, UNCHANGED entries, NEW f \in Files,
           writes' = writes + 1, disk'[f] \in {0, writes + 1},
           \A g \in Files \ {f} : disk'[g] = disk[g], OthersKept(f)
    PROVE  Truthful'
<1>1. Dated'
  BY DEF CacheTypes, Truthful, Dated
<1>2. Seen'
  <2> SUFFICES ASSUME NEW i \in DOMAIN entries, NEW g \in Files, g \notin raced',
                      entries[i].file = g, entries[i].stat = disk'[g]
               PROVE  InPart(known', g, disk'[g])
    BY DEF Seen, InPart
  <2>1. g # f
    BY DEF CacheTypes, Truthful, Dated
  <2>2. disk'[g] = disk[g] /\ g \notin raced
        /\ (InPart(known, g, disk[g]) => InPart(known', g, disk'[g]))
    BY <2>1 DEF OthersKept
  <2> QED
    BY <2>2 DEF Truthful, Seen
<1> QED
  BY <1>1, <1>2 DEF Truthful
-------------------------------------------------------------------------------
(* The steps.                                                              *)

\* A tool call that ends has nothing in hand, and says "unchanged" of nothing.
LEMMA AnsweredHolds ==
    ASSUME CacheTypes, InHand, op.step # "none", NEW kind \in {"error", "binary", "content", "done"},
           Answer(kind), UNCHANGED writes
    PROVE  /\ op' \in OpType /\ InHand' /\ Told'
           /\ result' \in [kind : {"none", "error", "binary", "content", "unchanged", "done"},
                           file : Files \cup {NoFile}, span : Spans, at : Nat]
<1>1. op' = Idle /\ op' \in OpType
  BY DEF Answer, Idle, OpType, Spans
<1>2. /\ result' \in [kind : {"none", "error", "binary", "content", "unchanged", "done"},
                      file : Files \cup {NoFile}, span : Spans, at : Nat]
      /\ result'.kind # "unchanged"
  BY DEF Answer, CacheTypes, OpType
<1>3. InHand'
  BY <1>1 DEF InHand, Idle, At, CacheTypes
<1>4. Told'
  BY <1>2 DEF Told
<1> QED
  BY <1>1, <1>2, <1>3, <1>4

LEMMA CallStep ==
    ASSUME CacheInv,
           NEW tool \in {"Read", "Edit", "Write"}, NEW f \in Files, NEW span \in Spans,
           Call(tool, f, span)
    PROVE  CacheInv'
<1>1. op' = [tool |-> tool, step |-> "start", file |-> f, span |-> span, stat |-> 0, content |-> 0]
  BY DEF Call, Idle
<1>2. CacheTypes'
  BY <1>1 DEF CacheInv, CacheTypes, Call, cache, NoResult, OpType, Spans
<1>3. Truthful'
  BY DEF CacheInv, Call, cache, mind, Truthful, Dated, Seen, InPart
<1>4. InHand'
  BY <1>1 DEF CacheInv, CacheTypes, InHand, Call, At
<1>5. Told'
  BY DEF Call, Told, NoResult
<1> QED
  BY <1>2, <1>3, <1>4, <1>5 DEF CacheInv

LEMMA ReadStatStep ==
    ASSUME CacheInv, ReadStat
    PROVE  CacheInv'
<1>1. op.file \in Files /\ op.step = "start" /\ op.tool = "Read" /\ op \in OpType
  BY DEF CacheInv, CacheTypes, InHand, ReadStat, At
<1>2. Truthful' /\ entries' \in Seq(EntryType) /\ Len(entries') <= MaxEntries
  <2>1. entries' \in {entries, Promoted(op.file)} /\ UNCHANGED <<disk, writes, known, raced>>
    BY DEF ReadStat, mind
  <2> QED
    BY <1>1, <2>1, PromotionKeeps DEF CacheInv
<1>3. CASE Hit(op.file, op.span) /\ op' = Idle
           /\ result' = [kind |-> "unchanged", file |-> op.file, span |-> op.span,
                         at |-> disk[op.file]]
  <2>1. CacheTypes'
    BY <1>1, <1>2, <1>3 DEF CacheInv, CacheTypes, ReadStat, OpType, Idle, Spans
  <2>2. InHand'
    BY <1>3 DEF CacheInv, CacheTypes, InHand, ReadStat, At, Idle
  <2>3. op.file \notin raced => InPart(known, op.file, disk[op.file])
    <3>1. PICK i \in DOMAIN entries : Entry(op.file) = entries[i] /\ entries[i].file = op.file
      BY <1>3 DEF Hit, Cached, Entry, Lookup
    <3>2. entries[i].stat = disk[op.file]
      BY <1>3, <3>1 DEF Hit
    <3> QED
      BY <1>1, <3>1, <3>2 DEF CacheInv, Truthful, Seen
  <2>4. Told'
    BY <1>3, <2>3 DEF Told, Idle, ReadStat, mind, InPart
  <2> QED
    BY <1>2, <2>1, <2>2, <2>4 DEF CacheInv
<1>4. CASE /\ op' = [op EXCEPT !.step = "stated", !.stat = disk[op.file]]
           /\ UNCHANGED result
  <2>1. op' \in OpType /\ op'.tool = "Read" /\ op'.step = "stated" /\ op'.file = op.file
        /\ op'.stat = disk[op.file]
    BY <1>1, <1>4 DEF CacheInv, CacheTypes, OpType
  <2>2. CacheTypes'
    BY <1>2, <1>4, <2>1 DEF CacheInv, CacheTypes, ReadStat
  <2>3. InHand'
    BY <1>1, <2>1 DEF CacheInv, CacheTypes, InHand, ReadStat, At
  <2>4. Told'
    BY <1>1, <1>4 DEF CacheInv, Told, Idle
  <2> QED
    BY <1>2, <2>2, <2>3, <2>4 DEF CacheInv
<1> QED
  BY <1>3, <1>4 DEF ReadStat

LEMMA ReadBodyStep ==
    ASSUME CacheInv, ReadBody
    PROVE  CacheInv'
<1>1. op.file \in Files /\ op.step = "stated" /\ op.tool = "Read" /\ op \in OpType
      /\ op.stat \in Nat /\ op.stat <= writes
  BY DEF CacheInv, CacheTypes, InHand, ReadBody, At, OpType
<1>2. UNCHANGED <<disk, writes>> /\ \E kind \in {"error", "binary", "content"} : Answer(kind)
  BY DEF ReadBody
<1>3. /\ op' \in OpType /\ InHand' /\ Told'
      /\ result' \in [kind : {"none", "error", "binary", "content", "unchanged", "done"},
                      file : Files \cup {NoFile}, span : Spans, at : Nat]
  BY <1>1, <1>2, AnsweredHolds DEF CacheInv
<1>4. Truthful' /\ entries' \in Seq(EntryType) /\ Len(entries') <= MaxEntries
  <2>1. CASE UNCHANGED <<cache, mind, raced>>
    BY <1>1, <1>2, <2>1, PromotionKeeps DEF CacheInv, cache, mind
  <2>2. CASE /\ IF op.stat # 0 THEN Insert(op.file, op.stat, op.span) ELSE UNCHANGED cache
             /\ Show(op.file, {op.span}, disk[op.file])
             /\ raced' = raced \ {op.file}
    <3>1. op.span \in Spans /\ {op.span} \in SUBSET Spans /\ {op.span} # {}
      BY <1>1 DEF OpType
    <3>2. /\ InPart(known', op.file, disk'[op.file])
          /\ \A g, u : g # op.file /\ InPart(known, g, u) => InPart(known', g, u)
      BY <1>2, <2>2, <3>1, LearnedOf DEF Show
    <3>3. OthersKept(op.file)
      BY <1>2, <2>2, <3>2 DEF OthersKept
    <3>4. CASE op.stat # 0
      <4>1. op.stat \in 1..writes
        BY <1>1, <3>4 DEF CacheInv, CacheTypes
      <4>2. Insert(op.file, op.stat, op.span)
        BY <2>2, <3>4
      <4> QED
        BY <1>1, <1>2, <3>1, <3>2, <3>3, <4>1, <4>2, StoringKeeps DEF CacheInv
    <3>5. CASE op.stat = 0
      <4>1. UNCHANGED entries
        BY <2>2, <3>5 DEF cache
      <4>2. Seen'
        <5> SUFFICES ASSUME NEW i \in DOMAIN entries, NEW g \in Files, g \notin raced',
                            entries[i].file = g, entries[i].stat = disk[g]
                     PROVE  InPart(known', g, disk'[g])
          BY <1>2, <4>1 DEF Seen, InPart
        <5>1. g # op.file => InPart(known, g, disk[g])
          BY <3>3 DEF OthersKept, CacheInv, Truthful, Seen
        <5> QED
          BY <1>2, <3>2, <5>1
      <4> QED
        BY <1>2, <4>1, <4>2 DEF CacheInv, CacheTypes, Truthful, Dated
    <3> QED
      BY <3>4, <3>5
  <2> QED
    BY <2>1, <2>2 DEF ReadBody
<1> QED
  BY <1>2, <1>3, <1>4 DEF CacheInv, CacheTypes

\* The check promotes the entry; an entry that is not out of date is of a
\* version the model has seen.
LEMMA EditCheckStep ==
    ASSUME CacheInv, EditCheck
    PROVE  CacheInv'
<1>1. op.file \in Files /\ op.step = "start" /\ op.tool = "Edit" /\ op \in OpType
  BY DEF CacheInv, CacheTypes, InHand, EditCheck, At
<1>2. UNCHANGED <<disk, writes, known, raced>>
  BY DEF EditCheck, mind
<1>3. Truthful' /\ entries' \in Seq(EntryType) /\ Len(entries') <= MaxEntries
  <2>1. entries' \in {entries, Promoted(op.file)}
    BY DEF EditCheck
  <2> QED
    BY <1>1, <1>2, <2>1, PromotionKeeps DEF CacheInv
<1>4. CASE Answer("error")
  BY <1>1, <1>2, <1>3, <1>4, AnsweredHolds DEF CacheInv, CacheTypes
<1>5. CASE /\ Cached(op.file) /\ ~Stale(op.file)
           /\ op' = [op EXCEPT !.step = "checked", !.stat = disk[op.file]]
           /\ UNCHANGED result
  <2>1. op' \in OpType /\ op'.tool = "Edit" /\ op'.step = "checked" /\ op'.file = op.file
        /\ op'.stat = disk[op.file]
    BY <1>1, <1>5 DEF CacheInv, CacheTypes, OpType
  <2>2. CacheTypes'
    BY <1>2, <1>3, <1>5, <2>1 DEF CacheInv, CacheTypes
  <2>3. op.file \notin raced /\ disk[op.file] # 0 => InPart(known, op.file, disk[op.file])
    <3>1. PICK i \in DOMAIN entries : Entry(op.file) = entries[i] /\ entries[i].file = op.file
      BY <1>5 DEF Cached, Entry, Lookup
    <3>2. disk[op.file] # 0 => entries[i].stat = disk[op.file]
      BY <1>5, <3>1 DEF Stale
    <3> QED
      BY <1>1, <3>1, <3>2 DEF CacheInv, Truthful, Seen
  <2>4. InHand'
    BY <1>1, <1>2, <2>1, <2>3 DEF CacheInv, CacheTypes, InHand, At, InPart
  <2>5. Told'
    BY <1>1, <1>5 DEF CacheInv, Told, Idle
  <2> QED
    BY <1>3, <2>2, <2>4, <2>5 DEF CacheInv
<1> QED
  BY <1>4, <1>5 DEF EditCheck

LEMMA EditReadStep ==
    ASSUME CacheInv, EditRead
    PROVE  CacheInv'
<1>1. op.file \in Files /\ op.step = "checked" /\ op.tool = "Edit" /\ op \in OpType
  BY DEF CacheInv, CacheTypes, InHand, EditRead, At
<1>2. UNCHANGED <<disk, writes, entries, known, raced>>
  BY DEF EditRead, cache, mind
<1>3. Truthful' /\ entries' \in Seq(EntryType) /\ Len(entries') <= MaxEntries
  BY <1>1, <1>2, PromotionKeeps DEF CacheInv
<1>4. CASE Answer("error")
  BY <1>1, <1>2, <1>3, <1>4, AnsweredHolds DEF CacheInv, CacheTypes
<1>5. CASE /\ disk[op.file] # 0
           /\ op' = [op EXCEPT !.step = "write", !.content = disk[op.file]]
           /\ UNCHANGED result
  <2>1. op' \in OpType /\ op'.tool = "Edit" /\ op'.step = "write" /\ op'.file = op.file
        /\ op'.stat = op.stat /\ op'.content = disk[op.file]
    BY <1>1, <1>5 DEF CacheInv, CacheTypes, OpType
  <2>2. CacheTypes'
    BY <1>2, <1>3, <1>5, <2>1 DEF CacheInv, CacheTypes
  <2>3. op.file \notin raced => InPart(known, op.file, disk[op.file])
    BY <1>1, <1>5 DEF CacheInv, InHand, At
  <2>4. InHand'
    BY <1>1, <1>2, <2>1, <2>3 DEF CacheInv, InHand, At, InPart
  <2>5. Told'
    BY <1>1, <1>5 DEF CacheInv, Told, Idle
  <2> QED
    BY <1>3, <2>2, <2>4, <2>5 DEF CacheInv
<1> QED
  BY <1>4, <1>5 DEF EditRead

\* What a tool writes is known: all of it by a Write, and by an Edit what the
\* content it was made from was known by.
LEMMA WriteFileStep ==
    ASSUME CacheInv, WriteFile
    PROVE  CacheInv'
<1> DEFINE spans == IF op.tool = "Write" THEN Spans
                    ELSE {s \in Spans : <<op.file, s, op.content>> \in known
                                        \/ <<op.file, "full", op.content>> \in known}
<1>1. op.file \in Files /\ op.step \in {"write", "start"} /\ op \in OpType /\ op.stat <= writes
  BY DEF CacheInv, CacheTypes, InHand, WriteFile, At
<1>2. /\ writes' = writes + 1 /\ disk' = [disk EXCEPT ![op.file] = writes + 1]
      /\ known' = Learned(known, op.file, spans, writes + 1)
      /\ op' = [op EXCEPT !.step = "written"]
      /\ UNCHANGED <<entries, result, raced>>
  BY DEF WriteFile, Show, Go, cache
<1>3. writes \in Nat /\ disk \in [Files -> Nat] /\ \A f \in Files : disk[f] <= writes
  BY DEF CacheInv, CacheTypes
<1>4. spans \in SUBSET Spans
  OBVIOUS
<1>5. op.file \notin raced => spans # {}
  BY DEF CacheInv, InHand, WriteFile, At, InPart, Spans
<1> HIDE DEF spans
<1>6. /\ \A g, u : g # op.file /\ InPart(known, g, u) => InPart(known', g, u)
      /\ spans # {} => InPart(known', op.file, writes + 1)
  BY <1>2, <1>4, LearnedOf
<1>7. OthersKept(op.file) /\ disk'[op.file] = writes + 1
      /\ \A g \in Files \ {op.file} : disk'[g] = disk[g]
  BY <1>1, <1>2, <1>3, <1>6 DEF OthersKept
<1>8. Truthful'
  BY <1>1, <1>2, <1>7, WritingKeeps DEF CacheInv
<1>9. op' \in OpType /\ op'.step = "written" /\ op'.file = op.file /\ op'.stat = op.stat
  BY <1>1, <1>2 DEF OpType
<1>10. CacheTypes'
  <2>1. disk' \in [Files -> Nat] /\ writes' \in Nat /\ \A f \in Files : disk'[f] <= writes'
    <3>1. disk' \in [Files -> Nat] /\ writes' \in Nat
      <4>1. writes' \in Nat /\ writes + 1 \in Nat
        BY <1>2, <1>3
      <4> QED
        BY <1>2, <1>3, <4>1
    <3>2. ASSUME NEW f \in Files PROVE disk'[f] <= writes'
      BY <1>1, <1>2, <1>3, <1>7
    <3> QED
      BY <3>1, <3>2
  <2> QED
    BY <1>2, <1>9, <2>1 DEF CacheInv, CacheTypes
<1>11. InHand'
  <2>1. op'.stat <= writes'
    BY <1>1, <1>2, <1>3, <1>9 DEF OpType
  <2>2. op'.file \notin raced' => disk'[op'.file] # 0 /\ InPart(known', op'.file, disk'[op'.file])
    BY <1>2, <1>3, <1>5, <1>6, <1>7, <1>9
  <2> QED
    BY <1>1, <1>9, <2>1, <2>2 DEF InHand, At, InPart
<1>12. Told'
  BY <1>1, <1>2 DEF CacheInv, Told, Idle
<1> QED
  BY <1>8, <1>10, <1>11, <1>12 DEF CacheInv

LEMMA WriteFailsStep ==
    ASSUME CacheInv, WriteFails
    PROVE  CacheInv'
<1>1. op.file \in Files /\ op.step # "none"
  BY DEF CacheInv, CacheTypes, InHand, WriteFails, At
<1>2. UNCHANGED <<disk, writes, entries, known, raced>> /\ Answer("error")
  BY DEF WriteFails, cache, mind
<1>3. Truthful' /\ entries' \in Seq(EntryType) /\ Len(entries') <= MaxEntries
  BY <1>1, <1>2, PromotionKeeps DEF CacheInv
<1> QED
  BY <1>1, <1>2, <1>3, AnsweredHolds DEF CacheInv, CacheTypes

\* Without a race, the file the tool stats again is the one it wrote.
LEMMA RefreshStep ==
    ASSUME CacheInv, Refresh
    PROVE  CacheInv'
<1>1. op.file \in Files /\ op.step = "written" /\ op.step # "none"
  BY DEF CacheInv, InHand, Refresh
<1>2. UNCHANGED <<disk, writes, known, raced>> /\ Answer("done")
  BY DEF Refresh, mind
<1>3. Truthful' /\ entries' \in Seq(EntryType) /\ Len(entries') <= MaxEntries
  <2>1. CASE disk[op.file] = 0
    <3>1. UNCHANGED entries
      BY <2>1 DEF Refresh, cache
    <3> QED
      BY <1>1, <1>2, <3>1, PromotionKeeps DEF CacheInv
  <2>2. CASE disk[op.file] # 0
    <3>1. Insert(op.file, disk[op.file], "full") /\ "full" \in Spans
      BY <2>2 DEF Refresh, Spans
    <3>2. disk[op.file] \in 1..writes
      BY <1>1, <2>2 DEF CacheInv, CacheTypes
    <3>3. op.file \notin raced' => InPart(known', op.file, disk'[op.file])
      BY <1>1, <1>2 DEF CacheInv, InHand
    <3>4. OthersKept(op.file)
      BY <1>2 DEF OthersKept
    <3> QED
      BY <1>1, <1>2, <3>1, <3>2, <3>3, <3>4, StoringKeeps DEF CacheInv
  <2> QED
    BY <2>1, <2>2
<1> QED
  BY <1>1, <1>2, <1>3, AnsweredHolds DEF CacheInv, CacheTypes

\* A write by others leaves no fresh entry of the file, and races with the Edit or
\* Write that has it in hand.
LEMMA OutsideStep ==
    ASSUME CacheInv, NEW f \in Files, Outside(f)
    PROVE  CacheInv'
<1>1. /\ writes' = writes + 1
      /\ UNCHANGED <<entries, op, result, known>>
      /\ raced \subseteq raced'
      /\ op.step \in {"checked", "write", "written"} /\ op.file = f => f \in raced'
  BY DEF Outside, cache, mind
<1>2. PICK v \in {0, writes + 1} : disk' = [disk EXCEPT ![f] = v]
  BY DEF Outside
<1>3. writes \in Nat /\ disk \in [Files -> Nat] /\ \A g \in Files : disk[g] <= writes
  BY DEF CacheInv, CacheTypes
<1>4. disk'[f] \in {0, writes + 1} /\ \A g \in Files \ {f} : disk'[g] = disk[g]
  BY <1>2, <1>3
<1>5. OthersKept(f)
  BY <1>1, <1>4 DEF OthersKept
<1>6. Truthful'
  BY <1>1, <1>4, <1>5, WritingKeeps DEF CacheInv
<1>7. CacheTypes'
  <2>1. disk' \in [Files -> Nat] /\ writes' \in Nat /\ \A g \in Files : disk'[g] <= writes'
    BY <1>1, <1>2, <1>3, <1>4
  <2> QED
    BY <1>1, <2>1 DEF CacheInv, CacheTypes
<1>8. InHand'
  <2>1. op.stat <= writes /\ op.stat \in Nat /\ (op.step # "none" => op.file \in Files)
    BY DEF CacheInv, CacheTypes, InHand, OpType
  <2>2. op.stat <= writes'
    BY <1>1, <1>3, <2>1
  <2>3. op.file \notin raced' /\ op.step \in {"checked", "write", "written"} =>
            op.file \notin raced /\ disk'[op.file] = disk[op.file]
    BY <1>1, <1>4, <2>1
  <2> QED
    BY <1>1, <2>1, <2>2, <2>3 DEF CacheInv, InHand, At, InPart
<1>9. Told'
  BY <1>1 DEF CacheInv, Told, InPart
<1> QED
  BY <1>6, <1>7, <1>8, <1>9 DEF CacheInv

LEMMA CompactStep ==
    ASSUME CacheInv, Compact
    PROVE  CacheInv'
<1>1. UNCHANGED <<disk, writes, entries, op, known, raced>> /\ result' = NoResult
  BY DEF Compact, cache
<1>2. CacheTypes'
  BY <1>1 DEF CacheInv, CacheTypes, NoResult, Spans
<1>3. Truthful' /\ InHand'
  BY <1>1 DEF CacheInv, Truthful, Dated, Seen, InHand, At, InPart
<1>4. Told'
  BY <1>1 DEF Told, NoResult
<1> QED
  BY <1>2, <1>3, <1>4 DEF CacheInv

LEMMA CacheInit ==
    ASSUME Init
    PROVE  CacheInv
<1>1. entries = <<>> /\ entries \in Seq(EntryType) /\ Len(entries) = 0 /\ DOMAIN entries = {}
  BY DEF Init
<1>2. CacheTypes
  BY <1>1, ConstantsAssumption DEF Init, CacheTypes, OpType, Idle, NoResult, Spans
<1>3. Truthful
  BY <1>1 DEF Truthful, OnePerFile, Dated, Seen
<1>4. InHand /\ Told
  BY DEF Init, InHand, Told, Idle, NoResult, At
<1> QED
  BY <1>2, <1>3, <1>4 DEF CacheInv

LEMMA CacheStep ==
    ASSUME CacheInv, Next
    PROVE  CacheInv'
BY CallStep, ReadStatStep, ReadBodyStep, EditCheckStep, EditReadStep, WriteFileStep,
   WriteFailsStep, RefreshStep, OutsideStep, CompactStep DEF Next, Spans
-------------------------------------------------------------------------------
(* The books of the cache: its byte counter, and what is known of which    *)
(* version.                                                                *)

Size == [e \in EntryType |-> Sizes[e.span]]

LEMMA BytesAre ==
    ASSUME NEW es \in Seq(EntryType)
    PROVE  Bytes(es) = WeightOf(es, Size) /\ Bytes(es) \in Nat
<1>1. Size \in [EntryType -> Nat]
  BY ConstantsAssumption DEF Size, EntryType
<1>2. Weighed(es, Size) = [i \in DOMAIN es |-> Sizes[es[i].span]]
  BY DEF Weighed, Size
<1>3. Bytes(es) = WeightOf(es, Size)
  BY <1>2 DEF Bytes, WeightOf, SumOf
<1> QED
  BY <1>1, <1>3, WeightOfCat

LEMMA SizeIs == Size \in [EntryType -> Nat] /\ \A e \in EntryType : Size[e] = Sizes[e.span]
BY ConstantsAssumption DEF Size, EntryType

\* The evictions that the bytes ask for are those of the oldest entries, as many
\* as it takes: what is left fits, or nothing is left.
LEMMA TrimmedFits ==
    ASSUME NEW es \in Seq(EntryType), NEW size \in Nat
    PROVE  \/ Trimmed(es, size) = <<>>
           \/ Bytes(Trimmed(es, size)) + size <= MaxBytes
<1>1. PICK n \in Nat : n = Len(es)
  OBVIOUS
<1>2. MaxBytes \in Nat /\ MaxEntries \in Nat \ {0}
  BY ConstantsAssumption
<1> DEFINE rest(m) == SubSeq(es, m + 1, n)
           short == {k \in 0..(n - 1) : Bytes(rest(k)) + size > MaxBytes}
           c == Cardinality(short)
<1>3. ASSUME NEW m \in 0..n
      PROVE  rest(m) \in Seq(EntryType) /\ Len(rest(m)) = n - m
  <2>1. m \in Nat /\ m <= Len(es)
    BY <1>1
  <2> QED
    BY <1>1, <2>1, RestOf
<1>4. ASSUME NEW i \in 0..n, NEW j \in i..n
      PROVE  Bytes(rest(j)) <= Bytes(rest(i)) /\ Bytes(rest(j)) \in Nat /\ Bytes(rest(i)) \in Nat
  <2>1. j \in 0..n
    OBVIOUS
  <2>2. Bytes(rest(i)) = WeightOf(rest(i), Size) /\ Bytes(rest(j)) = WeightOf(rest(j), Size)
    BY <1>3, <2>1, BytesAre
  <2> QED
    BY <1>1, <2>2, WeightOfRest, SizeIs
<1> HIDE DEF rest
<1>5. c \in 0..n /\ (c < n => Bytes(rest(c)) + size <= MaxBytes)
  <2>1. CASE short = {}
    <3>1. c = 0
      BY <2>1, FS_EmptySet
    <3>2. 0 < n => 0 \in 0..(n - 1) /\ 0 \in 0..n /\ 0 \in 0..n
      OBVIOUS
    <3>3. 0 < n => Bytes(rest(0)) \in Nat
      BY <1>4, <3>2
    <3> HIDE DEF c
    <3> QED
      BY <1>2, <2>1, <3>1, <3>2, <3>3
  <2>2. CASE short # {}
    <3>1. short \in SUBSET (0..n) /\ short \in SUBSET (0..(n - 1))
      OBVIOUS
    <3>2. Max(short) \in short /\ \A x \in short : x <= Max(short)
      BY <2>2, <3>1, MaxOf
    <3>3. PICK m \in 0..(n - 1) : m = Max(short) /\ m \in short
      BY <3>1, <3>2
    <3>4. short = 0..m
      <4>1. ASSUME NEW k \in 0..m PROVE k \in short
        <5>1. k \in 0..n /\ m \in k..n /\ k \in 0..(n - 1)
          OBVIOUS
        <5>2. Bytes(rest(m)) <= Bytes(rest(k)) /\ Bytes(rest(m)) \in Nat /\ Bytes(rest(k)) \in Nat
          BY <1>4, <5>1
        <5>3. Bytes(rest(m)) + size > MaxBytes
          BY <3>3
        <5>4. Bytes(rest(k)) + size > MaxBytes
          BY <1>2, <5>2, <5>3
        <5> QED
          BY <5>1, <5>4
      <4> HIDE DEF short
      <4>2. ASSUME NEW k \in short PROVE k \in 0..m
        BY <3>1, <3>2, <3>3
      <4> QED
        BY <4>1, <4>2
    <3>5. c = m + 1
      <4>1. m + 1 \in Nat /\ 0..((m + 1) - 1) = 0..m
        OBVIOUS
      <4>2. Cardinality(0..((m + 1) - 1)) = m + 1
        BY <4>1, CountTo
      <4> QED
        BY <3>4, <4>1, <4>2
    <3>6. c < n => c \in 0..(n - 1) /\ c \notin short /\ Bytes(rest(c)) \in Nat
      <4> HIDE DEF c, short
      <4>1. c < n => c \in 0..(n - 1) /\ c \in 0..n /\ c \in c..n
        BY <3>5
      <4>2. c \notin short
        BY <3>4, <3>5
      <4> QED
        BY <1>4, <4>1, <4>2
    <3>7. c < n => ~ (Bytes(rest(c)) + size > MaxBytes)
      <4> HIDE DEF c
      <4> QED
        BY <3>6
    <3> HIDE DEF c, short
    <3> QED
      BY <1>2, <3>5, <3>6, <3>7
  <2> QED
    BY <2>1, <2>2
<1> DEFINE left == rest(c)
<1>6. Trimmed(es, size) = IF Len(left) = MaxEntries THEN Tail(left) ELSE left
  BY <1>1 DEF Trimmed, rest
<1> HIDE DEF c
<1>7. left \in Seq(EntryType) /\ Len(left) = n - c
  BY <1>3, <1>5
<1>8. c < n => Bytes(left) + size <= MaxBytes /\ Bytes(left) \in Nat
  BY <1>4, <1>5
<1> HIDE DEF left
<1>9. CASE c = n
  <2>1. Len(left) = 0 /\ left = <<>>
    BY <1>7, <1>9
  <2> QED
    BY <1>2, <1>6, <2>1
<1>10. CASE c < n
  <2>1. Len(left) # 0 /\ Len(left) \in Nat
    BY <1>5, <1>7, <1>10
  <2>2. PICK p \in Nat : p = Len(left) /\ p # 0
    BY <2>1
  <2>3. /\ SubSeq(left, 1 + 1, p) \in Seq(EntryType) /\ Len(SubSeq(left, 1 + 1, p)) = p - 1
        /\ \A i \in 1..(p - 1) : SubSeq(left, 1 + 1, p)[i] = left[1 + i]
        /\ SubSeq(left, 0 + 1, p) \in Seq(EntryType) /\ Len(SubSeq(left, 0 + 1, p)) = p - 0
        /\ \A i \in 1..(p - 0) : SubSeq(left, 0 + 1, p)[i] = left[0 + i]
    BY <1>7, <2>2, RestOf
  <2>4. SubSeq(left, 0 + 1, p) = left
    BY <1>7, <2>2, <2>3
  <2>5. Tail(left) = SubSeq(left, 1 + 1, p)
    <3> DEFINE x == Tail(left)
               y == SubSeq(left, 1 + 1, p)
    <3>1. /\ x \in Seq(EntryType) /\ Len(x) = p - 1 /\ \A i \in 1..(p - 1) : x[i] = left[i + 1]
      BY <1>7, <2>1, <2>2, HeadTailProperties
    <3>2. /\ y \in Seq(EntryType) /\ Len(y) = p - 1 /\ \A i \in 1..(p - 1) : y[i] = left[1 + i]
      BY <2>3
    <3> HIDE DEF x, y
    <3>3. x = [i \in 1..(p - 1) |-> x[i]] /\ y = [i \in 1..(p - 1) |-> y[i]]
      BY <3>1, <3>2
    <3>4. \A i \in 1..(p - 1) : x[i] = y[i]
      BY <3>1, <3>2
    <3>5. x = y
      BY <3>3, <3>4
    <3> QED
      BY <3>5 DEF x, y
  <2>6. Bytes(Tail(left)) = WeightOf(Tail(left), Size) /\ Bytes(left) = WeightOf(left, Size)
    BY <1>7, <2>3, <2>5, BytesAre
  <2>7. 0 \in 0..Len(left) /\ 1 \in 0..Len(left)
    BY <2>2
  <2>8. WeightOf(Tail(left), Size) <= WeightOf(left, Size) /\ WeightOf(Tail(left), Size) \in Nat
    BY <1>7, <2>2, <2>4, <2>5, <2>7, SizeIs, WeightOfRest
  <2>9. Bytes(Tail(left)) + size <= MaxBytes
    BY <1>2, <1>8, <1>10, <2>6, <2>8
  <2> QED
    BY <1>6, <1>8, <1>10, <2>9
<1> QED
  BY <1>5, <1>9, <1>10

\* The counter follows an insertion: what was replaced and what was evicted goes,
\* the new entry comes.
LEMMA InsertAccounts ==
    ASSUME CacheTypes, OnePerFile(entries), bytes = Bytes(entries),
           NEW f \in Files, NEW stat \in Nat, NEW span \in Spans, Insert(f, stat, span)
    PROVE  BytesAccounted'
<1> DEFINE new == [file |-> f, stat |-> stat, span |-> span]
           w == Without(entries, f)
           k == Trimmed(w, Sizes[span])
<1>1. Sizes[span] \in Nat /\ MaxBytes \in Nat
  BY ConstantsAssumption
<1>2. entries \in Seq(EntryType) /\ Thinned(w, entries) /\ w \in Seq(EntryType)
  BY WithoutThins DEF CacheTypes, Thinned
<1>3. OnePerFile(w) /\ Len(w) <= MaxEntries
  <2>1. Len(w) \in Nat /\ Len(entries) \in Nat /\ MaxEntries \in Nat
    BY <1>2, ConstantsAssumption
  <2> HIDE DEF w
  <2> QED
    BY <1>2, <2>1 DEF Thinned, CacheTypes
<1>4. entries' = Append(k, new) /\ bytes' = bytes - (Bytes(entries) - Bytes(k)) + Sizes[span]
  BY DEF Insert
<1>5. new \in EntryType /\ Size[new] = Sizes[span]
  BY SizeIs DEF EntryType
<1> HIDE DEF w
<1>6. k \in Seq(EntryType)
  BY <1>2, <1>3, TrimmedThins DEF Thinned
<1>7. k = <<>> \/ Bytes(k) + Sizes[span] <= MaxBytes
  BY <1>1, <1>2, TrimmedFits
<1> HIDE DEF k, new
<1>8. Bytes(k) = WeightOf(k, Size) /\ Bytes(k) \in Nat /\ Bytes(entries) \in Nat
  BY <1>2, <1>6, BytesAre
<1>9. Append(k, new) \in Seq(EntryType) /\ Bytes(Append(k, new)) = WeightOf(Append(k, new), Size)
  <2> DEFINE z == Append(k, new)
  <2>1. z \in Seq(EntryType)
    BY <1>5, <1>6
  <2> HIDE DEF z
  <2>2. Bytes(z) = WeightOf(z, Size)
    BY <2>1, BytesAre
  <2> QED
    BY <2>1, <2>2 DEF z
<1>10. WeightOf(Append(k, new), Size) = WeightOf(k, Size) + Size[new]
  BY <1>5, <1>6, SizeIs, WeightOfAppend
<1>11. bytes' = Bytes(k) + Sizes[span] /\ Bytes(entries') = Bytes(k) + Sizes[span]
  BY <1>1, <1>4, <1>5, <1>8, <1>9, <1>10
<1>12. k = <<>> => Len(entries') = 1
  BY <1>4
<1>13. bytes' = Bytes(entries')
  BY <1>11
<1> QED
  BY <1>7, <1>11, <1>12, <1>13 DEF BytesAccounted

LEMMA PromotionAccounts ==
    ASSUME CacheTypes, BytesAccounted, NEW f \in Files,
           entries' \in {entries, Promoted(f)}, bytes' = bytes
    PROVE  BytesAccounted'
<1>1. entries \in Seq(EntryType) /\ bytes = Bytes(entries)
      /\ (bytes <= MaxBytes \/ Len(entries) = 1)
  BY DEF CacheTypes, BytesAccounted
<1>2. Bytes(entries') = Bytes(entries) /\ Len(entries') = Len(entries)
  <2>1. CASE entries' = entries
    BY <2>1
  <2>2. CASE entries' = Promoted(f) /\ Cached(f)
    <3> DEFINE k == CHOOSE i \in Lookup(entries, f) : TRUE
    <3>1. k \in DOMAIN entries /\ Entry(f) = entries[k]
      BY <2>2 DEF Cached, Lookup, Entry
    <3>2. k \in 1..Len(entries) /\ Len(entries) \in Nat /\ entries[k] \in EntryType
      BY <1>1, <3>1
    <3>3. Promoted(f) = Append(RemoveAt(entries, k), entries[k])
      BY <2>2, <3>1 DEF Promoted, Cached, Without
    <3> HIDE DEF k
    <3>4. RemoveAt(entries, k) \in Seq(EntryType) /\ Len(RemoveAt(entries, k)) = Len(entries) - 1
      BY <1>1, <3>2, RemovedAt
    <3>5. WeightOf(RemoveAt(entries, k), Size) + Size[entries[k]] = WeightOf(entries, Size)
      BY <1>1, <3>2, SizeIs, WeightOfRemoved
    <3>6. WeightOf(Promoted(f), Size) = WeightOf(RemoveAt(entries, k), Size) + Size[entries[k]]
      <4>1. PICK x \in Seq(EntryType) : x = RemoveAt(entries, k)
        BY <3>4
      <4>2. PICK e \in EntryType : e = entries[k]
        BY <3>2
      <4>3. WeightOf(Append(x, e), Size) = WeightOf(x, Size) + Size[e]
        BY SizeIs, WeightOfAppend
      <4> QED
        BY <3>3, <4>1, <4>2, <4>3
    <3>7. Promoted(f) \in Seq(EntryType) /\ Len(Promoted(f)) = Len(entries)
      BY <3>2, <3>3, <3>4
    <3>8. Bytes(Promoted(f)) = WeightOf(Promoted(f), Size) /\ Bytes(entries) = WeightOf(entries, Size)
      BY <1>1, <3>7, BytesAre
    <3> QED
      BY <2>2, <3>5, <3>6, <3>7, <3>8
  <2>3. CASE entries' = Promoted(f) /\ ~Cached(f)
    BY <2>3 DEF Promoted
  <2> QED
    BY <2>1, <2>2, <2>3
<1> QED
  BY <1>1, <1>2 DEF BytesAccounted

KnownTypes ==
    /\ writes \in 1..MaxWrites /\ op.content <= writes
    /\ known \subseteq Files \X Spans \X (0..writes)
    /\ context \subseteq known /\ raced \subseteq Files

\* What is shown of the last version or an earlier one.
LEMMA ShowTyped ==
    ASSUME KnownTypes, NEW f \in Files, NEW spans \in SUBSET Spans, NEW v \in 0..writes',
           writes' \in 1..MaxWrites, writes <= writes', Show(f, spans, v),
           op'.content <= writes', raced' \subseteq Files
    PROVE  KnownTypes'
<1>1. 0..writes \subseteq 0..writes'
  BY DEF KnownTypes
<1>2. known' \subseteq Files \X Spans \X (0..writes')
  BY <1>1 DEF KnownTypes, Show, Learned
<1>3. context' \subseteq known'
  BY DEF KnownTypes, Show, Learned
<1> QED
  BY <1>2, <1>3 DEF KnownTypes

\* What adds nothing to what is known.
LEMMA QuietTyped ==
    ASSUME KnownTypes, writes' \in 1..MaxWrites, writes <= writes', known' = known,
           context' \in {{}, context}, op'.content <= writes', raced' \subseteq Files
    PROVE  KnownTypes'
<1>1. 0..writes \subseteq 0..writes'
  BY DEF KnownTypes
<1>2. Files \X Spans \X (0..writes) \subseteq Files \X Spans \X (0..writes')
  BY <1>1
<1> QED
  BY <1>2 DEF KnownTypes

BooksInv == KnownTypes /\ BytesAccounted

LEMMA BooksStep ==
    ASSUME CacheInv, BooksInv, Next
    PROVE  BooksInv'
<1>1. /\ writes \in 1..MaxWrites /\ MaxWrites \in Nat \ {0} /\ raced \subseteq Files
      /\ op \in OpType /\ op.content \in Nat /\ op.content <= writes /\ writes <= writes
      /\ \A f \in Files : disk[f] \in 0..writes
  BY ConstantsAssumption DEF BooksInv, KnownTypes, CacheInv, CacheTypes, OpType
<1>2. CacheTypes /\ OnePerFile(entries) /\ bytes = Bytes(entries) /\ BytesAccounted /\ KnownTypes
  BY DEF CacheInv, Truthful, BooksInv, BytesAccounted
<1>3. ASSUME UNCHANGED cache PROVE BytesAccounted'
  BY <1>2, <1>3 DEF cache, BytesAccounted
<1>4. \A kind : Answer(kind) => op'.content <= writes
  BY <1>1 DEF Answer, Idle
<1>5. op.step # "none" => op.file \in Files
  BY DEF CacheInv, InHand
<1>6. CASE \E f \in Files : \/ \E s \in Spans : Call("Read", f, s)
                            \/ Call("Edit", f, "full") \/ Call("Write", f, "full")
  <2>1. UNCHANGED <<writes, cache, mind, raced>> /\ op'.content = 0
    BY <1>6 DEF Call, Idle
  <2>2. KnownTypes'
    BY <1>1, <1>2, <2>1, QuietTyped DEF mind
  <2> QED
    BY <1>3, <2>1, <2>2 DEF BooksInv
<1>7. CASE \E f \in Files : Outside(f)
  <2>1. PICK f \in Files : Outside(f)
    BY <1>7
  <2>2. /\ writes' = writes + 1 /\ writes' \in 1..MaxWrites /\ writes <= writes'
        /\ UNCHANGED <<cache, op, mind>> /\ raced' \subseteq Files
    BY <1>1, <2>1 DEF Outside
  <2>3. op'.content <= writes'
    BY <1>1, <2>2
  <2>4. KnownTypes'
    BY <1>2, <2>2, <2>3, QuietTyped DEF mind
  <2> QED
    BY <1>3, <2>2, <2>4 DEF BooksInv
<1>8. CASE ReadStat
  <2>1. /\ op.file \in Files /\ entries' \in {entries, Promoted(op.file)} /\ bytes' = bytes
        /\ UNCHANGED <<writes, mind, raced>>
    BY <1>5, <1>8 DEF ReadStat, At
  <2>2. op'.content <= writes
    <3>1. op' = Idle \/ op' = [op EXCEPT !.step = "stated", !.stat = disk[op.file]]
      BY <1>8 DEF ReadStat
    <3>2. Idle.content = 0
      BY DEF Idle
    <3>3. [op EXCEPT !.step = "stated", !.stat = disk[op.file]].content = op.content
      OBVIOUS
    <3>4. op'.content \in {0, op.content}
      BY <3>1, <3>2, <3>3
    <3> QED
      BY <1>1, <3>4
  <2>3. BytesAccounted'
    BY <1>2, <2>1, PromotionAccounts
  <2>4. KnownTypes'
    BY <1>1, <1>2, <2>1, <2>2, QuietTyped DEF mind
  <2> QED
    BY <2>3, <2>4 DEF BooksInv
<1>9. CASE ReadBody
  <2>1. /\ op.file \in Files /\ op.stat \in Nat /\ op.span \in Spans /\ {op.span} \in SUBSET Spans
        /\ UNCHANGED <<disk, writes>>
    BY <1>1, <1>5, <1>9 DEF ReadBody, At, OpType
  <2>2. op'.content <= writes
    BY <1>4, <1>9 DEF ReadBody
  <2>3. CASE UNCHANGED <<cache, mind, raced>>
    <3>1. KnownTypes'
      BY <1>1, <1>2, <2>1, <2>2, <2>3, QuietTyped DEF mind
    <3> QED
      BY <1>3, <2>3, <3>1 DEF BooksInv
  <2>4. CASE /\ IF op.stat # 0 THEN Insert(op.file, op.stat, op.span) ELSE UNCHANGED cache
             /\ Show(op.file, {op.span}, disk[op.file])
             /\ raced' = raced \ {op.file}
    <3>1. BytesAccounted'
      BY <1>2, <1>3, <2>1, <2>4, InsertAccounts
    <3>2. raced' \subseteq Files /\ disk[op.file] \in 0..writes
      BY <1>1, <2>1, <2>4
    <3>3. KnownTypes'
      BY <1>1, <1>2, <2>1, <2>2, <2>4, <3>2, ShowTyped
    <3> QED
      BY <3>1, <3>3 DEF BooksInv
  <2> QED
    BY <1>9, <2>3, <2>4 DEF ReadBody
<1>10. CASE EditCheck
  <2>1. /\ op.file \in Files /\ entries' \in {entries, Promoted(op.file)} /\ bytes' = bytes
        /\ UNCHANGED <<writes, mind, raced>>
    BY <1>5, <1>10 DEF EditCheck, At
  <2>2. op'.content <= writes
    BY <1>1, <1>4, <1>10 DEF EditCheck, OpType
  <2>3. BytesAccounted'
    BY <1>2, <2>1, PromotionAccounts
  <2>4. KnownTypes'
    BY <1>1, <1>2, <2>1, <2>2, QuietTyped DEF mind
  <2> QED
    BY <2>3, <2>4 DEF BooksInv
<1>11. CASE EditRead
  <2>1. op.file \in Files /\ UNCHANGED <<writes, cache, mind, raced>>
    BY <1>5, <1>11 DEF EditRead, At
  <2>2. op'.content <= writes
    <3>1. Answer("error") \/ op' = [op EXCEPT !.step = "write", !.content = disk[op.file]]
      BY <1>11 DEF EditRead
    <3>2. CASE op' = [op EXCEPT !.step = "write", !.content = disk[op.file]]
      <4>1. op'.content = disk[op.file]
        BY <1>1, <3>2 DEF OpType
      <4> QED
        BY <1>1, <2>1, <4>1
    <3> QED
      BY <1>4, <3>1, <3>2
  <2>3. KnownTypes'
    BY <1>1, <1>2, <2>1, <2>2, QuietTyped DEF mind
  <2> QED
    BY <1>3, <2>1, <2>3 DEF BooksInv
<1>12. CASE WriteFile
  <2>1. op.file \in Files /\ UNCHANGED <<cache, raced>> /\ writes' = writes + 1 /\ writes < MaxWrites
        /\ Go("written")
    BY <1>5, <1>12 DEF WriteFile, At
  <2>2. writes' \in 1..MaxWrites /\ writes <= writes' /\ writes' \in 0..writes'
    BY <1>1, <2>1
  <2>3. op'.content = op.content
    BY <1>1, <2>1 DEF Go, OpType
  <2>4. op'.content <= writes'
    BY <1>1, <2>1, <2>3
  <2>5. PICK spans \in SUBSET Spans : Show(op.file, spans, writes')
    BY <1>12 DEF WriteFile
  <2>6. KnownTypes'
    BY <1>1, <1>2, <2>1, <2>2, <2>4, <2>5, ShowTyped
  <2> QED
    BY <1>3, <2>1, <2>6 DEF BooksInv
<1>13. CASE WriteFails
  <2>1. UNCHANGED <<writes, cache, mind, raced>> /\ op'.content <= writes
    BY <1>4, <1>13 DEF WriteFails
  <2>2. KnownTypes'
    BY <1>1, <1>2, <2>1, QuietTyped DEF mind
  <2> QED
    BY <1>3, <2>1, <2>2 DEF BooksInv
<1>14. CASE Refresh
  <2>1. /\ op.file \in Files /\ UNCHANGED <<disk, writes, mind, raced>> /\ op'.content <= writes
        /\ disk[op.file] \in Nat /\ "full" \in Spans
    BY <1>1, <1>4, <1>5, <1>14 DEF Refresh, Spans
  <2>2. BytesAccounted'
    BY <1>2, <1>3, <1>14, <2>1, InsertAccounts DEF Refresh
  <2>3. KnownTypes'
    BY <1>1, <1>2, <2>1, QuietTyped DEF mind
  <2> QED
    BY <2>2, <2>3 DEF BooksInv
<1>15. CASE Compact
  <2>1. UNCHANGED <<writes, cache, op, known, raced>> /\ context' = {}
    BY <1>15 DEF Compact
  <2>2. KnownTypes'
    BY <1>1, <1>2, <2>1, QuietTyped
  <2> QED
    BY <1>3, <2>1, <2>2 DEF BooksInv
<1> QED
  BY <1>6, <1>7, <1>8, <1>9, <1>10, <1>11, <1>12, <1>13, <1>14, <1>15 DEF Next

LEMMA BooksInit ==
    ASSUME Init
    PROVE  BooksInv
<1>1. entries = <<>> /\ <<>> \in Seq(EntryType) /\ MaxBytes \in Nat /\ MaxWrites \in Nat \ {0}
  BY ConstantsAssumption DEF Init
<1>2. Bytes(<<>>) = 0
  <2>1. Bytes(<<>>) = WeightOf(<<>>, Size)
    BY <1>1, BytesAre
  <2>2. Weighed(<<>>, Size) = <<>>
    BY DEF Weighed
  <2>3. WeightOf(<<>>, Size) = 0
    BY <2>2, SumOfOne DEF WeightOf
  <2> QED
    BY <2>1, <2>3
<1>3. BytesAccounted
  BY <1>1, <1>2 DEF Init, BytesAccounted
<1>4. KnownTypes
  BY <1>1 DEF Init, KnownTypes, Idle
<1> QED
  BY <1>3, <1>4 DEF BooksInv

\* The types of the cache, from the two invariants.
LEMMA CacheTyped ==
    ASSUME CacheInv, BooksInv
    PROVE  TypeOK
<1>1. /\ writes \in 1..MaxWrites /\ MaxWrites \in Nat \ {0} /\ 1..writes \subseteq Version
      /\ 0..writes \subseteq Version
  BY ConstantsAssumption DEF BooksInv, KnownTypes, Version
<1>2. disk \in [Files -> Version]
  <2>1. \A f \in Files : disk[f] \in 0..writes
    BY <1>1 DEF CacheInv, CacheTypes
  <2> QED
    BY <1>1, <2>1 DEF CacheInv, CacheTypes
<1>3. entries \in Seq([file : Files, stat : Version, span : Spans])
  <2>1. entries \in Seq(EntryType)
    BY DEF CacheInv, CacheTypes
  <2>2. \A i \in DOMAIN entries : entries[i].stat \in Version
    <3>1. \A i \in DOMAIN entries : entries[i].stat \in 1..writes
      BY DEF CacheInv, Truthful, Dated
    <3> QED
      BY <1>1, <3>1
  <2>3. PICK n \in Nat : n = Len(entries) /\ DOMAIN entries = 1..n
    BY <2>1
  <2>4. \A i \in 1..n : entries[i] \in EntryType
    BY <2>1, <2>3
  <2>5. \A i \in 1..n : entries[i] \in [file : Files, stat : Version, span : Spans]
    BY <2>2, <2>3, <2>4 DEF EntryType
  <2>6. entries \in [1..n -> [file : Files, stat : Version, span : Spans]]
    <3>1. entries = [i \in 1..n |-> entries[i]]
      BY <2>1, <2>3
    <3> QED
      BY <2>5, <3>1
  <2> QED
    BY <2>6, AsSequence
<1>4. bytes \in Nat
  BY BytesAre DEF BooksInv, BytesAccounted, CacheInv, CacheTypes
<1>5. op.stat \in 0..writes /\ op.content \in 0..writes
  BY <1>1 DEF CacheInv, CacheTypes, InHand, OpType, BooksInv, KnownTypes
<1>6. op \in [tool : {"none", "Read", "Edit", "Write"},
              step : {"none", "start", "stated", "checked", "write", "written"},
              file : Files \cup {NoFile}, span : Spans,
              stat : Version, content : Version]
  BY <1>1, <1>5 DEF CacheInv, CacheTypes, OpType
<1>7. known \subseteq Files \X Spans \X Version
  BY <1>1 DEF BooksInv, KnownTypes
<1>8. \A f \in Files : \A i, j \in Lookup(entries, f) : i = j
  BY DEF CacheInv, Truthful, OnePerFile, Lookup
<1>9. Len(entries) <= MaxEntries /\ writes \in Version /\ context \subseteq known /\ raced \subseteq Files
  BY <1>1 DEF CacheInv, CacheTypes, BooksInv, KnownTypes
<1> QED
  BY <1>2, <1>3, <1>4, <1>6, <1>7, <1>8, <1>9 DEF TypeOK
-------------------------------------------------------------------------------
(* The shapes a gateway takes.  One call is under way at a time, and it    *)
(* starts from what was learned: its shape covers it until it is accepted. *)

Rungs(s) == 1 + s.level + (IF s.maxCompletion THEN 1 ELSE 0) + (IF s.responses THEN 1 ELSE 0)

\* The calls' variables are those of the cache: see Shapes.
ShapesTypes ==
    /\ disk \in Shapes!Shape
    /\ writes \in [Files -> {"idle", "trying", "failed", "streaming"}]
    /\ entries \in [Files -> Shapes!Shape] /\ bytes \in [Files -> Shapes!Need]
    /\ op \in [Files -> Nat]

OneAtATime == \A c, d \in Files : writes[c] = "trying" /\ writes[d] = "trying" => c = d
Covering   == \A c \in Files : writes[c] = "trying" => Shapes!Covers(entries[c], disk)
OnTheLadder == \A c \in Files : op[c] <= Rungs(entries[c])

ShapesInv == ShapesTypes /\ OneAtATime /\ Covering /\ OnTheLadder

LEMMA ShapesInitHolds ==
    ASSUME Shapes!ShapesInit
    PROVE  ShapesInv
<1>1. Shapes!AsConfigured \in Shapes!Shape /\ Shapes!AsConfigured \in Shapes!Need
  BY DEF Shapes!AsConfigured, Shapes!Shape, Shapes!Need
<1>2. ShapesTypes
  BY <1>1 DEF Shapes!ShapesInit, ShapesTypes
<1>3. OneAtATime /\ Covering
  BY DEF Shapes!ShapesInit, OneAtATime, Covering
<1>4. OnTheLadder
  BY DEF Shapes!ShapesInit, OnTheLadder, Rungs, Shapes!AsConfigured
<1> QED
  BY <1>2, <1>3, <1>4 DEF ShapesInv

LEMMA CoversItself ==
    ASSUME NEW s \in Shapes!Shape
    PROVE  Shapes!Covers(s, s)
BY DEF Shapes!Covers, Shapes!Shape

LEMMA BeginStep ==
    ASSUME ShapesInv, NEW c \in Files, Shapes!Begin(c)
    PROVE  ShapesInv' /\ disk' = disk
<1>1. \A d \in Files : writes[d] # "trying"
  <2> SUFFICES ASSUME NEW d \in Files, writes[d] = "trying"
               PROVE  FALSE
    OBVIOUS
  <2>1. {e \in Files : writes[e] = "trying"} = {d}
    BY DEF ShapesInv, OneAtATime
  <2>2. Cardinality({d}) = 1
    BY FS_Singleton
  <2>3. Cardinality({e \in Files : writes[e] = "trying"}) < 1
    BY Zenon DEF Shapes!Begin, Shapes!Cardinality, Cardinality
  <2> QED
    BY <2>1, <2>2, <2>3
<1>2. /\ disk' = disk /\ writes' = [writes EXCEPT ![c] = "trying"]
      /\ entries' = [entries EXCEPT ![c] = disk] /\ op' = [op EXCEPT ![c] = 1]
      /\ bytes' \in [Files -> Shapes!Need]
  BY DEF Shapes!Begin, ShapesInv, ShapesTypes
<1>3. ShapesTypes'
  BY <1>2 DEF ShapesInv, ShapesTypes
<1>4. OneAtATime'
  BY <1>1, <1>2 DEF ShapesInv, ShapesTypes, OneAtATime
<1>5. Covering'
  <2> SUFFICES ASSUME NEW d \in Files, writes'[d] = "trying"
               PROVE  Shapes!Covers(entries'[d], disk')
    BY DEF Covering, Shapes!Covers
  <2>1. d = c /\ entries'[d] = disk
    BY <1>1, <1>2 DEF ShapesInv, ShapesTypes
  <2> QED
    BY <1>2, <2>1, CoversItself DEF ShapesInv, ShapesTypes
<1>6. OnTheLadder'
  <2> SUFFICES ASSUME NEW d \in Files
               PROVE  op'[d] <= Rungs(entries'[d])
    BY DEF OnTheLadder, Rungs
  <2>1. CASE d = c
    <3>1. op'[d] = 1 /\ entries'[d] = disk /\ disk.level \in Nat
      BY <1>2, <2>1 DEF ShapesInv, ShapesTypes, Shapes!Shape
    <3> QED
      BY <3>1 DEF Rungs
  <2>2. CASE d # c
    BY <1>2, <2>2 DEF ShapesInv, ShapesTypes, OnTheLadder
  <2> QED
    BY <2>1, <2>2
<1> QED
  BY <1>2, <1>3, <1>4, <1>5, <1>6 DEF ShapesInv

\* A rejection adds to the call's shape what it lacked, and one request.
LEMMA EscalateStep ==
    ASSUME ShapesInv, NEW c \in Files, Shapes!Escalate(c)
    PROVE  ShapesInv' /\ disk' = disk
<1> DEFINE s == entries[c]
           t == entries'[c]
<1>1. s \in Shapes!Shape /\ op \in [Files -> Nat] /\ writes[c] = "trying"
  BY DEF ShapesInv, ShapesTypes, Shapes!Escalate
<1>2. /\ disk' = disk /\ writes' = writes /\ bytes' = bytes
      /\ op' = [op EXCEPT ![c] = @ + 1]
  BY DEF Shapes!Escalate
<1>3. /\ entries' \in [Files -> Shapes!Shape]
      /\ \A d \in Files \ {c} : entries'[d] = entries[d]
      /\ Shapes!Covers(t, s) /\ Rungs(t) = Rungs(s) + 1
  <2>1. CASE s.level < 3 /\ entries' = [entries EXCEPT ![c].level = @ + 1]
    <3>1. t = [s EXCEPT !.level = s.level + 1]
      BY <2>1 DEF ShapesInv, ShapesTypes
    <3>2. t \in Shapes!Shape /\ t.level = s.level + 1
          /\ t.maxCompletion = s.maxCompletion /\ t.responses = s.responses
      BY <1>1, <2>1, <3>1 DEF Shapes!Shape
    <3>3. entries' \in [Files -> Shapes!Shape] /\ \A d \in Files \ {c} : entries'[d] = entries[d]
      BY <2>1, <3>1, <3>2 DEF ShapesInv, ShapesTypes
    <3>4. s.level \in Nat
      BY <1>1 DEF Shapes!Shape
    <3>5. Shapes!Covers(t, s)
      BY <3>2, <3>4 DEF Shapes!Covers
    <3>6. Rungs(t) = Rungs(s) + 1
      BY <3>2, <3>4 DEF Rungs
    <3> QED
      BY <3>3, <3>5, <3>6
  <2>2. CASE ~s.maxCompletion /\ entries' = [entries EXCEPT ![c].maxCompletion = TRUE]
    <3>1. t = [s EXCEPT !.maxCompletion = TRUE]
      BY <2>2 DEF ShapesInv, ShapesTypes
    <3>2. t \in Shapes!Shape /\ t.level = s.level
          /\ t.maxCompletion = TRUE /\ t.responses = s.responses
      BY <1>1, <3>1 DEF Shapes!Shape
    <3>3. entries' \in [Files -> Shapes!Shape] /\ \A d \in Files \ {c} : entries'[d] = entries[d]
      BY <2>2, <3>1, <3>2 DEF ShapesInv, ShapesTypes
    <3>4. s.level \in Nat
      BY <1>1 DEF Shapes!Shape
    <3>5. Shapes!Covers(t, s)
      BY <3>2, <3>4 DEF Shapes!Covers
    <3>6. Rungs(t) = Rungs(s) + 1
      BY <2>2, <3>2, <3>4 DEF Rungs
    <3> QED
      BY <3>3, <3>5, <3>6
  <2>3. CASE ~s.responses /\ entries' = [entries EXCEPT ![c].responses = TRUE]
    <3>1. t = [s EXCEPT !.responses = TRUE]
      BY <2>3 DEF ShapesInv, ShapesTypes
    <3>2. t \in Shapes!Shape /\ t.level = s.level
          /\ t.maxCompletion = s.maxCompletion /\ t.responses = TRUE
      BY <1>1, <3>1 DEF Shapes!Shape
    <3>3. entries' \in [Files -> Shapes!Shape] /\ \A d \in Files \ {c} : entries'[d] = entries[d]
      BY <2>3, <3>1, <3>2 DEF ShapesInv, ShapesTypes
    <3>4. s.level \in Nat
      BY <1>1 DEF Shapes!Shape
    <3>5. Shapes!Covers(t, s)
      BY <3>2, <3>4 DEF Shapes!Covers
    <3>6. Rungs(t) = Rungs(s) + 1
      BY <2>3, <3>2, <3>4 DEF Rungs
    <3> QED
      BY <3>3, <3>5, <3>6
  <2> QED
    BY <2>1, <2>2, <2>3 DEF Shapes!Escalate, Shapes!Unmet
<1>4. ShapesTypes'
  <2>1. op' \in [Files -> Nat]
    BY <1>1, <1>2
  <2> QED
    BY <1>2, <1>3, <2>1 DEF ShapesInv, ShapesTypes
<1>5. OneAtATime'
  BY <1>2 DEF ShapesInv, OneAtATime
<1>6. Covering'
  <2> SUFFICES ASSUME NEW d \in Files, writes[d] = "trying"
               PROVE  Shapes!Covers(entries'[d], disk)
    BY <1>2 DEF Covering, Shapes!Covers
  <2>1. d = c
    BY <1>1 DEF ShapesInv, OneAtATime
  <2>2. Shapes!Covers(t, s) /\ Shapes!Covers(s, disk)
    BY <1>1, <1>3 DEF ShapesInv, Covering
  <2>3. t.level \in Nat /\ s.level \in Nat /\ disk.level \in Nat
    BY <1>1, <1>3 DEF ShapesInv, ShapesTypes, Shapes!Shape
  <2> QED
    BY <2>1, <2>2, <2>3 DEF Shapes!Covers
<1>7. OnTheLadder'
  <2> SUFFICES ASSUME NEW d \in Files
               PROVE  op'[d] <= Rungs(entries'[d])
    BY DEF OnTheLadder, Rungs
  <2>1. op[d] <= Rungs(entries[d]) /\ op[d] \in Nat
    BY <1>1 DEF ShapesInv, OnTheLadder
  <2>2. Rungs(s) \in Nat
    BY <1>1 DEF Rungs, Shapes!Shape
  <2>3. CASE d = c
    <3>1. op'[d] = op[d] + 1
      BY <1>1, <1>2, <2>3
    <3> QED
      BY <1>3, <2>1, <2>2, <2>3, <3>1
  <2>4. CASE d # c
    BY <1>1, <1>2, <1>3, <2>1, <2>4
  <2> QED
    BY <2>3, <2>4
<1> QED
  BY <1>2, <1>4, <1>5, <1>6, <1>7 DEF ShapesInv

\* A call ends, and an accepted one leaves its shape, which covers what was learned.
LEMMA EndStep ==
    ASSUME ShapesInv, NEW c \in Files, Shapes!Fail(c) \/ Shapes!Accept(c)
    PROVE  ShapesInv' /\ Shapes!Covers(disk', disk)
<1>1. /\ entries' = entries /\ bytes' = bytes /\ op' = op /\ writes[c] = "trying"
      /\ disk' \in {disk, entries[c]}
      /\ \E last \in {"failed", "streaming"} : writes' = [writes EXCEPT ![c] = last]
  BY DEF Shapes!Fail, Shapes!Accept
<1>2. ShapesTypes'
  BY <1>1 DEF ShapesInv, ShapesTypes
<1>3. \A d \in Files : writes'[d] # "trying"
  BY <1>1 DEF ShapesInv, ShapesTypes, OneAtATime
<1>4. OneAtATime' /\ Covering' /\ OnTheLadder'
  BY <1>1, <1>3 DEF ShapesInv, OneAtATime, Covering, OnTheLadder
<1>5. Shapes!Covers(disk', disk)
  BY <1>1, CoversItself DEF ShapesInv, ShapesTypes, Covering
<1> QED
  BY <1>2, <1>4, <1>5 DEF ShapesInv

LEMMA ShapesStep ==
    ASSUME ShapesInv, Shapes!ShapesNext
    PROVE  ShapesInv' /\ Shapes!Covers(disk', disk)
<1>1. Shapes!Covers(disk, disk)
  BY CoversItself DEF ShapesInv, ShapesTypes
<1> QED
  BY <1>1, BeginStep, EscalateStep, EndStep DEF Shapes!ShapesNext

LEMMA ShapesTyped ==
    ASSUME ShapesInv
    PROVE  Shapes!ShapesTypeOK
<1>1. ASSUME NEW c \in Files PROVE op[c] \in 0..(3 + 3)
  <2>1. entries[c].level \in 0..3 /\ op[c] \in Nat /\ op[c] <= Rungs(entries[c])
    BY DEF ShapesInv, ShapesTypes, OnTheLadder, Shapes!Shape
  <2> QED
    BY <2>1 DEF Rungs
<1>2. op \in [Files -> 0..(3 + 3)]
  BY <1>1 DEF ShapesInv, ShapesTypes
<1> QED
  BY <1>2 DEF ShapesInv, ShapesTypes, Shapes!ShapesTypeOK
-------------------------------------------------------------------------------
(* The memories.  A memory that is still kept has its file as it was       *)
(* written, and its line if it was listed.                                 *)

FileNames == {FileName(name, now) : name \in Names, now \in Nat \ {0}}
LineType  == [file : FileNames \cup {Nameless}, size : Nat]
AtType == [op : {"idle", "saved", "forget", "append", "remove"}, name : Names \cup {""},
           file : FileNames \cup {Nameless}, copy : Seq(LineType), size : Nat]
KeptType == [name : Names, file : FileNames, m : Bodies, listed : BOOLEAN]

\* No file of a memory has the name of what is no entry.
LEMMA NamesOfFiles == Nameless \notin FileNames
<1>1. ASSUME NEW name \in Names, NEW now \in Nat \ {0}, FileName(name, now) = Nameless
      PROVE  FALSE
  <2>1. CASE Stem(name) = NoStem
    BY <1>1, <2>1 DEF FileName, Nameless
  <2>2. CASE Stem(name) # NoStem
    BY <1>1, <2>2 DEF FileName, Nameless
  <2> QED
    BY <2>1, <2>2
<1> QED
  BY <1>1 DEF FileNames

MemoryTypes ==
    /\ index \in Seq(LineType) /\ clock \in 0..MaxClock
    /\ at \in [Writers -> AtType] /\ kept \subseteq KeptType

\* Files are finitely many, and no two were written last at the same time.
Stamped ==
    /\ IsFiniteSet(DOMAIN stored) /\ DOMAIN stored \subseteq FileNames
    /\ \A f \in DOMAIN stored : stored[f].mtime \in 1..clock
    /\ \A f, g \in DOMAIN stored : stored[f].mtime = stored[g].mtime => f = g

IsListed(lines, f) == \E i \in DOMAIN lines : lines[i].file = f

Recalled ==
    \A k \in kept : /\ k.file \in DOMAIN stored /\ stored[k.file].lines = Serialized(k.m)
                    /\ k.listed => IsListed(index, k.file)

MemoryInv == MemoryTypes /\ Stamped /\ Recalled
-------------------------------------------------------------------------------
(* What Removed and Volume do.                                             *)

\* Taking the lines of one file away keeps those of the others.
LEMMA RemovedKeeps ==
    ASSUME NEW lines \in Seq(LineType), NEW f
    PROVE  /\ Removed(lines, f) \in Seq(LineType)
           /\ \A g : g # f /\ IsListed(lines, g) => IsListed(Removed(lines, f), g)
<1> DEFINE n == Len(lines)
           T == Seq(LineType)
           G == [x \in (1..n) \X T |-> IF lines[x[1]].file = f THEN x[2]
                                       ELSE Append(x[2], lines[x[1]])]
<1>1. n \in Nat /\ DOMAIN lines = 1..n /\ (\A x \in 1..n : lines[x] \in LineType) /\ <<>> \in T
  OBVIOUS
<1> HIDE DEF n
<1>2. \A x \in 1..n, v \in T :
          /\ G[<<x, v>>] = IF lines[x].file = f THEN v ELSE Append(v, lines[x])
          /\ G[<<x, v>>] \in T
  BY <1>1
<1>3. Closed(G, 1..n, T)
  BY <1>2 DEF Closed
<1> HIDE DEF T, G
<1>4. PICK it \in [SUBSET (1..n) -> T] : IsLeftFold(it, n, <<>>, G)
  BY <1>1, <1>3, FoldLeftExists
<1>5. \A u \in [SUBSET (1..n) -> T], d \in SUBSET (1..n) : d # {} =>
            G[<<Max(d), u[d \ {Max(d)}]>>]
               = IF lines[Max(d)].file = f THEN u[d \ {Max(d)}]
                 ELSE Append(u[d \ {Max(d)}], lines[Max(d)])
  <2> SUFFICES ASSUME NEW u \in [SUBSET (1..n) -> T], NEW d \in SUBSET (1..n), d # {}
               PROVE  G[<<Max(d), u[d \ {Max(d)}]>>]
                         = IF lines[Max(d)].file = f THEN u[d \ {Max(d)}]
                           ELSE Append(u[d \ {Max(d)}], lines[Max(d)])
    OBVIOUS
  <2>1. d \in SUBSET (0..n)
    BY <1>1
  <2>2. Max(d) \in 1..n
    BY <1>1, <2>1, MaxOf
  <2> QED
    BY <1>2, <2>2
<1>6. it = [d \in SUBSET (1..n) |->
               IF d = {} THEN <<>>
               ELSE IF lines[Max(d)].file = f THEN it[d \ {Max(d)}]
                    ELSE Append(it[d \ {Max(d)}], lines[Max(d)])]
  <2>1. \A d \in SUBSET (1..n) :
            (IF d = {} THEN <<>> ELSE G[<<Max(d), it[d \ {Max(d)}]>>])
               = (IF d = {} THEN <<>>
                  ELSE IF lines[Max(d)].file = f THEN it[d \ {Max(d)}]
                       ELSE Append(it[d \ {Max(d)}], lines[Max(d)]))
    BY <1>5
  <2> QED
    BY <1>4, <2>1 DEF IsLeftFold
<1>7. PICK h : /\ h = [d \in SUBSET (1..n) |->
                         IF d = {} THEN <<>>
                         ELSE IF lines[Max(d)].file = f THEN h[d \ {Max(d)}]
                              ELSE Append(h[d \ {Max(d)}], lines[Max(d)])]
               /\ Removed(lines, f) = h[1..n]
  <2>1. \E h : /\ h = [d \in SUBSET (1..n) |->
                         IF d = {} THEN <<>>
                         ELSE IF lines[Max(d)].file = f THEN h[d \ {Max(d)}]
                              ELSE Append(h[d \ {Max(d)}], lines[Max(d)])]
               /\ Removed(lines, f) = h[1..n]
    BY <1>1, <1>6 DEF Removed, FoldLeft, MapThenFoldSet
  <2> QED
    BY <2>1
<1>8. h[{}] = <<>>
  <2>1. {} \in SUBSET (1..n)
    OBVIOUS
  <2> QED
    BY <1>7, <2>1
<1>9. ASSUME NEW k \in 1..n, h[1..(k - 1)] \in T
      PROVE  h[1..k] = G[<<k, h[1..(k - 1)]>>]
  <2>1. /\ 1..k \in SUBSET (1..n) /\ 1..k # {}
        /\ Max(1..k) = k /\ (1..k) \ {k} = 1..(k - 1)
    BY <1>1, Segments
  <2>2. h[1..k] = IF lines[k].file = f THEN h[1..(k - 1)] ELSE Append(h[1..(k - 1)], lines[k])
    BY <1>7, <2>1
  <2> QED
    BY <1>2, <1>9, <2>2
<1>10. Recurses(h, n, T, <<>>, G)
  BY <1>8, <1>9 DEF Recurses
<1>11. PICK c : Steps(c, n, T, <<>>, G) /\ h[1..n] = c[n]
  <2>1. HasSteps(h, n, T, <<>>, G)
    BY <1>1, <1>3, <1>10, FoldSteps
  <2> QED
    BY <2>1 DEF HasSteps
<1>12. ASSUME NEW g, g # f, IsListed(lines, g)
       PROVE  IsListed(Removed(lines, f), g)
  <2> DEFINE P == {p \in (0..n) \X T :
                      (\E i \in 1..p[1] : lines[i].file = g) => IsListed(p[2], g)}
  <2>1. <<0, <<>>>> \in P
    BY <1>1
  <2>2. ASSUME NEW k \in 1..n, NEW v \in T, <<k - 1, v>> \in P
        PROVE  <<k, G[<<k, v>>]>> \in P
    <3>1. (\E i \in 1..(k - 1) : lines[i].file = g) => IsListed(v, g)
      BY <2>2
    <3>2. G[<<k, v>>] \in T /\ k \in 0..n
      BY <1>1, <1>2
    <3>3. (\E i \in 1..k : lines[i].file = g) => IsListed(G[<<k, v>>], g)
      <4>1. CASE lines[k].file = f
        <5>1. G[<<k, v>>] = v
          BY <1>2, <4>1
        <5>2. \A i \in 1..k : lines[i].file = g => i \in 1..(k - 1)
          BY <1>12, <4>1
        <5> QED
          BY <3>1, <5>1, <5>2
      <4>2. CASE lines[k].file # f
        <5>1. G[<<k, v>>] = Append(v, lines[k]) /\ v \in Seq(LineType)
          BY <1>2, <4>2 DEF T
        <5>2. IsListed(v, g) => IsListed(Append(v, lines[k]), g)
          <6>1. ASSUME NEW i \in DOMAIN v, v[i].file = g
                PROVE  IsListed(Append(v, lines[k]), g)
            <7>1. i \in DOMAIN Append(v, lines[k]) /\ Append(v, lines[k])[i] = v[i]
              BY <5>1, <6>1
            <7> QED
              BY <6>1, <7>1 DEF IsListed
          <6> QED
            BY <6>1 DEF IsListed
        <5>3. lines[k].file = g => IsListed(Append(v, lines[k]), g)
          <6>1. Append(v, lines[k])[Len(v) + 1] = lines[k] /\ Len(v) + 1 \in DOMAIN Append(v, lines[k])
            BY <5>1
          <6> QED
            BY <6>1 DEF IsListed
        <5>4. \A i \in 1..k : i = k \/ i \in 1..(k - 1)
          OBVIOUS
        <5> QED
          BY <3>1, <5>1, <5>2, <5>3, <5>4
      <4> QED
        BY <4>1, <4>2
    <3> QED
      BY <3>2, <3>3
  <2> HIDE DEF P
  <2>3. Kept(P, n, T, <<>>, G)
    BY <2>1, <2>2 DEF Kept
  <2>4. \A k \in 0..n : <<k, c[k]>> \in P
    BY <1>1, <1>11, <2>3, StepsKeep
  <2>5. <<n, c[n]>> \in P
    BY <1>1, <2>4
  <2>6. \E i \in 1..n : lines[i].file = g
    BY <1>1, <1>12 DEF IsListed
  <2> QED
    BY <1>7, <1>11, <2>5, <2>6 DEF P
<1>13. Removed(lines, f) \in T
  <2> HIDE DEF T
  <2>1. c \in [0..n -> T] /\ n \in 0..n
    BY <1>1, <1>11 DEF Steps
  <2>2. c[n] \in T
    BY <2>1
  <2>3. Removed(lines, f) = h[1..n]
    BY <1>7, Zenon
  <2>4. h[1..n] = c[n]
    BY <1>11, Zenon
  <2> QED
    BY <2>2, <2>3, <2>4, Zenon
<1> QED
  BY <1>12, <1>13 DEF T

Cost == [l \in LineType |-> l.size + 1]

LEMMA CostIs == Cost \in [LineType -> Nat] /\ \A l \in LineType : Cost[l] = l.size + 1
BY DEF Cost, LineType

LEMMA VolumeIs ==
    ASSUME NEW lines \in Seq(LineType)
    PROVE  Volume(lines) = WeightOf(lines, Cost) /\ Volume(lines) \in Nat
<1>1. Weighed(lines, Cost) = [i \in DOMAIN lines |-> lines[i].size + 1]
  BY DEF Weighed, Cost
<1>2. Volume(lines) = WeightOf(lines, Cost)
  BY <1>1 DEF Volume, WeightOf, SumOf
<1> QED
  BY <1>2, WeightOfCat, CostIs

\* The newest j of a sequence.
Newest(all, j) == SubSeq(all, (Len(all) - j) + 1, Len(all))

LEMMA NewestIs ==
    ASSUME NEW all \in Seq(LineType), NEW j \in 0..Len(all)
    PROVE  /\ Newest(all, j) \in Seq(LineType) /\ Len(Newest(all, j)) = j
           /\ \A i \in 1..j : Newest(all, j)[i] = all[(Len(all) - j) + i]
<1>1. PICK n \in Nat : n = Len(all)
  OBVIOUS
<1>2. n - j \in Nat /\ n - j <= Len(all) /\ n - (n - j) = j
  BY <1>1
<1>3. /\ SubSeq(all, (n - j) + 1, Len(all)) \in Seq(LineType)
      /\ Len(SubSeq(all, (n - j) + 1, Len(all))) = Len(all) - (n - j)
      /\ \A i \in 1..(Len(all) - (n - j)) : SubSeq(all, (n - j) + 1, Len(all))[i] = all[(n - j) + i]
  BY <1>2, RestOf
<1> QED
  BY <1>1, <1>2, <1>3 DEF Newest

\* One more is the line before them, and its size.
LEMMA OneMore ==
    ASSUME NEW all \in Seq(LineType), NEW j \in 1..Len(all)
    PROVE  /\ all[(Len(all) - j) + 1] \in LineType
           /\ Newest(all, j) = <<all[(Len(all) - j) + 1]>> \o Newest(all, j - 1)
           /\ Volume(Newest(all, j)) = Volume(Newest(all, j - 1)) + all[(Len(all) - j) + 1].size + 1
           /\ Volume(Newest(all, j - 1)) \in Nat
<1>1. PICK n \in Nat : n = Len(all)
  OBVIOUS
<1>2. PICK l \in LineType : l = all[(n - j) + 1]
  <2>1. (n - j) + 1 \in 1..n
    BY <1>1
  <2> QED
    BY <1>1, <2>1
<1>3. j \in 0..Len(all) /\ j - 1 \in 0..Len(all)
  OBVIOUS
<1>4. PICK a : a = Newest(all, j)
  OBVIOUS
<1>5. PICK b : b = Newest(all, j - 1)
  OBVIOUS
<1>6. /\ a \in Seq(LineType) /\ Len(a) = j /\ \A i \in 1..j : a[i] = all[(n - j) + i]
      /\ b \in Seq(LineType) /\ Len(b) = j - 1
      /\ \A i \in 1..(j - 1) : b[i] = all[(n - (j - 1)) + i]
  BY <1>1, <1>3, <1>4, <1>5, NewestIs
<1>7. a = <<l>> \o b
  <2>1. <<l>> \o b = [i \in 1..j |-> IF i <= 1 THEN l ELSE b[i - 1]]
    BY <1>6
  <2>2. ASSUME NEW i \in 1..j
        PROVE  a[i] = IF i <= 1 THEN l ELSE b[i - 1]
    <3>1. CASE i = 1
      BY <1>2, <1>6, <3>1
    <3>2. CASE i # 1
      <4>1. i - 1 \in 1..(j - 1) /\ (n - (j - 1)) + (i - 1) = (n - j) + i /\ ~ (i <= 1)
        BY <1>1, <3>2
      <4>2. b[i - 1] = all[(n - (j - 1)) + (i - 1)] /\ a[i] = all[(n - j) + i]
        BY <1>6, <4>1
      <4> QED
        BY <4>1, <4>2
    <3> QED
      BY <3>1, <3>2
  <2>3. a = [i \in 1..j |-> a[i]]
    BY <1>6
  <2> QED
    BY <2>1, <2>2, <2>3
<1>8. Volume(a) = l.size + 1 + Volume(b) /\ Volume(b) \in Nat /\ l.size \in Nat
  <2>1. WeightOf(<<l>> \o b, Cost) = Cost[l] + WeightOf(b, Cost)
    <3>1. Cost \in [LineType -> Nat]
      BY CostIs
    <3>2. b \in Seq(LineType) /\ l \in LineType
      BY <1>2, <1>6
    <3> QED
      BY <3>1, <3>2, WeightOfAppend
  <2>2. /\ Volume(a) = WeightOf(a, Cost) /\ Volume(b) = WeightOf(b, Cost) /\ Volume(b) \in Nat
        /\ Cost[l] = l.size + 1 /\ l.size \in Nat
    BY <1>2, <1>6, VolumeIs, CostIs DEF LineType
  <2> QED
    BY <1>7, <2>1, <2>2
<1>9. Volume(a) = Volume(b) + l.size + 1
  BY <1>8
<1> QED
  BY <1>1, <1>2, <1>4, <1>5, <1>7, <1>8, <1>9

Fit(all, j) == j <= PromptLines /\ Volume(Newest(all, j)) <= PromptBytes

\* What fits, fits without its oldest lines.
LEMMA FitsShorter ==
    ASSUME NEW all \in Seq(LineType), NEW j \in 0..Len(all), NEW i \in 0..j, Fit(all, j)
    PROVE  Fit(all, i)
<1>1. PICK n \in Nat : n = Len(all)
  OBVIOUS
<1>2. n - j \in 0..Len(all) /\ n - i \in (n - j)..Len(all) /\ i \in 0..Len(all)
  BY <1>1
<1>3. WeightOf(Newest(all, i), Cost) <= WeightOf(Newest(all, j), Cost)
  BY <1>1, <1>2, WeightOfRest, CostIs DEF Newest
<1>4. /\ Volume(Newest(all, i)) = WeightOf(Newest(all, i), Cost)
      /\ Volume(Newest(all, j)) = WeightOf(Newest(all, j), Cost)
      /\ Volume(Newest(all, i)) \in Nat /\ Volume(Newest(all, j)) \in Nat
  BY <1>2, NewestIs, VolumeIs
<1> QED
  BY <1>3, <1>4, MemoryAssumption DEF Fit

TakenType == [lines : Seq(LineType), full : BOOLEAN]

\* After k lines, the newest ones that fit, or all of the k; and no more would fit
\* once it is full.
TakenOf(all, k, v) ==
    \E j \in 0..k :
        /\ v.lines = Newest(all, j) /\ (k >= 1 => j >= 1) /\ (j > 1 => Fit(all, j))
        /\ IF v.full THEN j < k /\ ~Fit(all, j + 1) ELSE j = k

\* One line more.
LEMMA TakenNext ==
    ASSUME NEW all \in Seq(LineType), NEW k \in 1..Len(all), NEW v \in TakenType,
           TakenOf(all, k - 1, v)
    PROVE  /\ Taken(v, all[(Len(all) - k) + 1]) \in TakenType
           /\ TakenOf(all, k, Taken(v, all[(Len(all) - k) + 1]))
<1>1. PICK n \in Nat : n = Len(all)
  OBVIOUS
<1>2. PICK l \in LineType : l = all[(n - k) + 1]
  BY <1>1, OneMore
<1>3. PICK j \in 0..(k - 1) :
        /\ v.lines = Newest(all, j) /\ (k - 1 >= 1 => j >= 1) /\ (j > 1 => Fit(all, j))
        /\ IF v.full THEN j < k - 1 /\ ~Fit(all, j + 1) ELSE j = k - 1
  BY DEF TakenOf
<1>4. PromptLines \in Nat /\ PromptBytes \in Nat
  BY MemoryAssumption
<1>5. v.lines \in Seq(LineType) /\ v.full \in BOOLEAN /\ j \in 0..k
  BY DEF TakenType
<1> DEFINE stop == v.full \/ (v.lines # <<>> /\ (Len(v.lines) >= PromptLines
                                         \/ Volume(v.lines) + l.size + 1 > PromptBytes))
<1>6. /\ stop => Taken(v, l) = [v EXCEPT !.full = TRUE]
      /\ ~stop => Taken(v, l) = [v EXCEPT !.lines = <<l>> \o @]
  BY DEF Taken
<1>7. CASE v.full
  <2>1. Taken(v, l) = v
    BY <1>6, <1>7 DEF TakenType
  <2>2. k >= 1 => j >= 1
    BY <1>3, <1>7
  <2>3. j < k /\ ~Fit(all, j + 1)
    BY <1>3, <1>7
  <2>4. TakenOf(all, k, v)
    BY <1>3, <1>5, <1>7, <2>2, <2>3 DEF TakenOf
  <2> QED
    BY <1>1, <1>2, <2>1, <2>4
<1>8. CASE ~v.full
  <2>1. /\ j = k - 1 /\ v.lines = Newest(all, k - 1) /\ Len(v.lines) = k - 1
        /\ k - 1 \in 0..Len(all) /\ k \in 0..Len(all)
    <3>1. j = k - 1 /\ v.lines = Newest(all, k - 1) /\ k - 1 \in 0..Len(all) /\ k \in 0..Len(all)
      BY <1>3, <1>8
    <3> QED
      BY <3>1, NewestIs
  <2>2. /\ Newest(all, k) = <<l>> \o v.lines
        /\ Volume(Newest(all, k)) = Volume(v.lines) + l.size + 1 /\ Volume(v.lines) \in Nat
        /\ l.size \in Nat
    <3>1. l.size \in Nat
      BY <1>2 DEF LineType
    <3> QED
      BY <1>1, <1>2, <2>1, <3>1, OneMore
  <2>3. CASE stop
    <3>1. Taken(v, l) = [v EXCEPT !.full = TRUE]
      BY <1>6, <2>3
    <3>2. Taken(v, l).lines = v.lines /\ Taken(v, l).full = TRUE /\ Taken(v, l) \in TakenType
      BY <3>1 DEF TakenType
    <3>3. /\ v.lines # <<>>
          /\ Len(v.lines) >= PromptLines \/ Volume(v.lines) + l.size + 1 > PromptBytes
      BY <1>8, <2>3
    <3>4. k - 1 >= 1
      BY <1>5, <2>1, <3>3
    <3>5. ~Fit(all, k)
      BY <1>4, <2>1, <2>2, <3>3 DEF Fit
    <3>6. (k - 1) + 1 = k /\ k - 1 < k /\ k - 1 \in 0..k
      OBVIOUS
    <3>7. TakenOf(all, k, Taken(v, l))
      BY <1>3, <2>1, <3>2, <3>4, <3>5, <3>6 DEF TakenOf
    <3> QED
      BY <1>1, <1>2, <3>2, <3>7
  <2>4. CASE ~stop
    <3>1. Taken(v, l) = [v EXCEPT !.lines = <<l>> \o @]
      BY <1>6, <2>4
    <3>2. <<l>> \o v.lines \in Seq(LineType)
      BY <1>5
    <3>3. /\ Taken(v, l).lines = Newest(all, k) /\ ~Taken(v, l).full
          /\ Taken(v, l) \in TakenType
      BY <1>8, <2>2, <3>1, <3>2 DEF TakenType
    <3>4. k > 1 => v.lines # <<>>
      BY <2>1
    <3>5. k > 1 => Fit(all, k)
      <4>1. k > 1 => ~ (Len(v.lines) >= PromptLines)
                     /\ ~ (Volume(v.lines) + l.size + 1 > PromptBytes)
        BY <2>4, <3>4
      <4> QED
        BY <1>4, <2>1, <2>2, <4>1 DEF Fit
    <3>6. k \in 0..k
      OBVIOUS
    <3>7. TakenOf(all, k, Taken(v, l))
      BY <3>3, <3>5, <3>6 DEF TakenOf
    <3> QED
      BY <1>1, <1>2, <3>3, <3>7
  <2> QED
    BY <2>3, <2>4
<1> QED
  BY <1>5, <1>7, <1>8

LEMMA TakenTyped ==
    ASSUME NEW v \in TakenType, NEW l \in LineType
    PROVE  Taken(v, l) \in TakenType
<1>1. Taken(v, l) \in {[v EXCEPT !.full = TRUE], [v EXCEPT !.lines = <<l>> \o @]}
  BY DEF Taken
<1>2. <<l>> \o v.lines \in Seq(LineType)
  BY DEF TakenType
<1> QED
  BY <1>1, <1>2 DEF TakenType

\* What the prompt shows when the index is over budget.
LEMMA ShownOf ==
    ASSUME NEW all \in Seq(LineType)
    PROVE  \E v \in TakenType :
              /\ FoldLeft(Taken, [lines |-> <<>>, full |-> FALSE], Reverse(all)) = v
              /\ TakenOf(all, Len(all), v)
<1>1. PICK n \in Nat : n = Len(all)
  OBVIOUS
<1> DEFINE base == [lines |-> <<>>, full |-> FALSE]
           back == Reverse(all)
           G == [x \in (1..n) \X TakenType |-> Taken(x[2], back[x[1]])]
           D == DOMAIN back
<1>2. D = 1..n /\ \A k \in 1..n : back[k] = all[(n - k) + 1] /\ back[k] \in LineType
  <2>1. \A k \in 1..n : (n - k) + 1 \in 1..n
    OBVIOUS
  <2>2. back = [k \in 1..n |-> all[(n - k) + 1]]
    BY <1>1 DEF Reverse
  <2> QED
    BY <1>1, <2>1, <2>2
<1>3. base \in TakenType
  BY DEF TakenType
<1> HIDE DEF back, base
<1>4. \A k \in 1..n, v \in TakenType :
          G[<<k, v>>] = Taken(v, back[k]) /\ G[<<k, v>>] \in TakenType
  BY <1>2, TakenTyped
<1> HIDE DEF G
<1>5. Closed(G, 1..n, TakenType)
  BY <1>4 DEF Closed
<1>6. PICK it \in [SUBSET (1..n) -> TakenType] : IsLeftFold(it, n, base, G)
  BY <1>3, <1>5, FoldLeftExists
<1>7. \A d \in SUBSET D : d # {} =>
            G[<<Max(d), it[d \ {Max(d)}]>>] = Taken(it[d \ {Max(d)}], back[Max(d)])
  <2> SUFFICES ASSUME NEW d \in SUBSET (1..n), d # {}
               PROVE  G[<<Max(d), it[d \ {Max(d)}]>>] = Taken(it[d \ {Max(d)}], back[Max(d)])
    BY <1>2
  <2>1. d \in SUBSET (0..n)
    OBVIOUS
  <2>2. Max(d) \in 1..n /\ d \ {Max(d)} \in SUBSET (1..n)
    BY <2>1, MaxOf
  <2> QED
    BY <1>4, <2>2
<1>8. it = [d \in SUBSET D |->
               IF d = {} THEN base ELSE Taken(it[d \ {Max(d)}], back[Max(d)])]
  <2>1. \A d \in SUBSET D :
            (IF d = {} THEN base ELSE G[<<Max(d), it[d \ {Max(d)}]>>])
            = (IF d = {} THEN base ELSE Taken(it[d \ {Max(d)}], back[Max(d)]))
    BY <1>7
  <2>2. it = [d \in SUBSET D |-> IF d = {} THEN base ELSE G[<<Max(d), it[d \ {Max(d)}]>>]]
    BY <1>2, <1>6 DEF IsLeftFold
  <2> HIDE DEF D
  <2> QED
    BY <2>1, <2>2
<1>9. PICK h : /\ h = [d \in SUBSET D |->
                          IF d = {} THEN base ELSE Taken(h[d \ {Max(d)}], back[Max(d)])]
               /\ FoldLeft(Taken, base, back) = h[D]
  <2>1. \E h : /\ h = [d \in SUBSET D |->
                          IF d = {} THEN base ELSE Taken(h[d \ {Max(d)}], back[Max(d)])]
               /\ FoldLeft(Taken, base, back) = h[D]
    BY <1>8 DEF FoldLeft, MapThenFoldSet
  <2> QED
    BY <2>1
<1> HIDE DEF D
<1>10. Recurses(h, n, TakenType, base, G)
  <2>1. h[{}] = base
    <3>1. {} \in SUBSET D
      OBVIOUS
    <3> QED
      BY <1>9, <3>1, Zenon
  <2>2. ASSUME NEW k \in 1..n, h[1..(k - 1)] \in TakenType
        PROVE  h[1..k] = G[<<k, h[1..(k - 1)]>>]
    <3>1. /\ 1..k \in SUBSET (1..n) /\ 1..k # {}
          /\ Max(1..k) = k /\ (1..k) \ {k} = 1..(k - 1)
      BY Segments
    <3> DEFINE q == 1..k
    <3>2. q \in SUBSET D /\ q # {} /\ Max(q) = k /\ q \ {k} = 1..(k - 1)
      BY <1>2, <3>1
    <3> HIDE DEF q
    <3>3. h[q] = Taken(h[q \ {Max(q)}], back[Max(q)])
      BY <1>9, <3>2
    <3>4. h[q] = Taken(h[1..(k - 1)], back[k])
      BY <3>2, <3>3
    <3> QED
      BY <1>4, <2>2, <3>4 DEF q
  <2> QED
    BY <2>1, <2>2 DEF Recurses
<1>11. HasSteps(h, n, TakenType, base, G)
  BY <1>3, <1>5, <1>10, FoldSteps
<1>12. PICK c : Steps(c, n, TakenType, base, G) /\ h[1..n] = c[n]
  BY <1>11 DEF HasSteps
<1> DEFINE P == {x \in (0..n) \X TakenType : TakenOf(all, x[1], x[2])}
<1>13. Kept(P, n, TakenType, base, G)
  <2>1. TakenOf(all, 0, base)
    <3>1. 0 \in 0..Len(all) /\ 0 \in 0..0 /\ ~ (0 >= 1) /\ ~ (0 > 1)
      BY <1>1
    <3>2. Len(Newest(all, 0)) = 0 /\ Newest(all, 0) \in Seq(LineType)
      BY <3>1, NewestIs
    <3>3. Newest(all, 0) = <<>>
      BY <3>2
    <3> QED
      BY <3>1, <3>3 DEF TakenOf, base
  <2>2. ASSUME NEW k \in 1..n, NEW v \in TakenType, <<k - 1, v>> \in P
        PROVE  <<k, G[<<k, v>>]>> \in P
    <3>1. TakenOf(all, k - 1, v) /\ k \in 0..n
      BY <2>2
    <3>2. TakenOf(all, k, Taken(v, back[k]))
      BY <1>1, <1>2, <3>1, TakenNext
    <3>3. TakenOf(all, k, G[<<k, v>>]) /\ G[<<k, v>>] \in TakenType
      BY <1>4, <3>2
    <3> QED
      BY <3>1, <3>3
  <2>3. <<0, base>> \in P
    BY <1>3, <2>1
  <2> HIDE DEF P
  <2> QED
    BY <2>2, <2>3 DEF Kept
<1> HIDE DEF P
<1>14. <<n, c[n]>> \in P
  <2>1. \A k \in 0..n : <<k, c[k]>> \in P
    BY <1>12, <1>13, StepsKeep
  <2> QED
    BY <2>1
<1>15. c[n] \in TakenType /\ TakenOf(all, n, c[n])
  BY <1>14 DEF P
<1>16. FoldLeft(Taken, base, back) = c[n]
  BY <1>2, <1>9, <1>12
<1> QED
  BY <1>1, <1>15, <1>16 DEF base, back

\* The prompt shows the newest entries that fit, one at least.
LEMMA PromptShows ==
    ASSUME index \in Seq(LineType)
    PROVE  NewestShown
<1> DEFINE all == Entries(index)
           N == Len(all)
           Fits(n) == n <= PromptLines
                      /\ Volume(SubSeq(all, Len(all) - n + 1, Len(all))) <= PromptBytes
           fitting == {1} \cup {i \in 1..Len(all) : Fits(i)}
<1>1. all \in Seq(LineType)
  BY RemovedKeeps DEF Entries
<1> SUFFICES ASSUME ~WithinBudget(index), all # <<>>
             PROVE  ForPrompt(index) = SubSeq(all, Len(all) - Max(fitting) + 1, Len(all))
  BY DEF NewestShown
<1>2. PICK v \in TakenType :
              /\ FoldLeft(Taken, [lines |-> <<>>, full |-> FALSE], Reverse(all)) = v
              /\ TakenOf(all, Len(all), v)
  BY <1>1, ShownOf
<1>3. ForPrompt(index) = v.lines
  BY <1>2 DEF ForPrompt
<1> HIDE DEF all
<1>4. PICK n \in Nat : n = Len(all) /\ n >= 1
  BY <1>1
<1>5. PICK j \in 0..n :
        /\ v.lines = Newest(all, j) /\ (n >= 1 => j >= 1) /\ (j > 1 => Fit(all, j))
        /\ IF v.full THEN j < n /\ ~Fit(all, j + 1) ELSE j = n
  BY <1>2, <1>4 DEF TakenOf
<1>6. j \in 1..n
  BY <1>4, <1>5
<1>7. ASSUME NEW i \in 1..n
      PROVE  Fits(i) <=> Fit(all, i)
  BY DEF Fit, Newest
<1> HIDE DEF Fits
<1>8. j \in fitting
  BY <1>4, <1>5, <1>6, <1>7
<1>9. ASSUME NEW i \in fitting
      PROVE  i <= j
  <2>1. CASE i = 1
    BY <1>6, <2>1
  <2>2. CASE i # 1 /\ i > j
    <3>1. i \in 1..n /\ Fit(all, i)
      BY <1>4, <1>7, <2>2
    <3>2. j < n /\ ~Fit(all, j + 1)
      BY <1>5, <1>6, <2>2, <3>1
    <3>3. i \in 0..Len(all) /\ j + 1 \in 0..i
      BY <1>4, <1>6, <2>2, <3>1
    <3>4. Fit(all, j + 1)
      BY <1>1, <3>1, <3>3, FitsShorter
    <3> QED
      BY <3>2, <3>4
  <2>3. i \in Nat
    OBVIOUS
  <2> QED
    BY <1>6, <2>1, <2>2, <2>3
<1>10. fitting \in SUBSET (0..n) /\ fitting # {}
  BY <1>4
<1> HIDE DEF fitting
<1>11. Max(fitting) = j
  <2>1. Max(fitting) \in fitting /\ \A x \in fitting : x <= Max(fitting)
    BY <1>4, <1>10, MaxOf
  <2>2. PICK x \in fitting : x = Max(fitting)
    BY <2>1
  <2>3. x \in 0..n
    BY <1>10
  <2>4. x <= j /\ j <= x
    BY <1>8, <1>9, <2>1, <2>2
  <2> QED
    BY <1>6, <2>2, <2>3, <2>4
<1> QED
  BY <1>3, <1>5, <1>11 DEF Newest

\* A memory reads back as it was written, up to the blank lines its body begins
\* with: the header closes at the delimiter that was written, whatever lines the
\* body has.
LEMMA ReadsBack ==
    ASSUME NEW m \in Bodies
    PROVE  Parsed(Serialized(m)) = [m EXCEPT !.body = Unblank(@)]
<1>1. PICK fields \in Seq({"fields"}) : fields = m.fields
  BY MemoryAssumption
<1>2. PICK body \in Seq(Line) : body = m.body
  BY MemoryAssumption
<1>3. PICK p \in Nat : p = Len(fields)
  OBVIOUS
<1>4. PICK q \in Nat : q = Len(body)
  OBVIOUS
<1>5. m = [fields |-> fields, body |-> body] /\ p < HeaderLines /\ HeaderLines \in Nat
  BY <1>1, <1>2, <1>3, MemoryAssumption
<1>6. PICK s : s = Serialized(m)
  OBVIOUS
<1>7. /\ s \in Seq(Line) /\ Len(s) = p + q + 3 /\ DOMAIN s = 1..(p + q + 3)
      /\ s[1] = "delim" /\ \A i \in 1..p : s[i + 1] = fields[i]
      /\ s[p + 2] = "delim" /\ s[p + 3] = "blank"
      /\ \A i \in 1..q : s[i + (p + 3)] = body[i]
  <2> DEFINE a == <<"delim">> \o fields
             b == a \o <<"delim", "blank">>
  <2>1. fields \in Seq(Line) /\ <<"delim">> \in Seq(Line) /\ <<"delim", "blank">> \in Seq(Line)
    <3>1. \A i \in 1..p : fields[i] \in Line
      BY <1>3 DEF Line
    <3> QED
      BY <1>3, <3>1 DEF Line
  <2>2. /\ a \in Seq(Line) /\ Len(a) = 1 + p /\ a[1] = "delim"
        /\ \A i \in 1..p : a[i + 1] = fields[i]
    BY <1>3, <2>1
  <2> HIDE DEF a
  <2>3. /\ b \in Seq(Line) /\ Len(b) = p + 3 /\ \A i \in 1..(1 + p) : b[i] = a[i]
        /\ b[p + 2] = "delim" /\ b[p + 3] = "blank"
    BY <2>1, <2>2
  <2> HIDE DEF b
  <2>4. /\ b \o body \in Seq(Line) /\ Len(b \o body) = p + q + 3
        /\ \A i \in 1..(p + 3) : (b \o body)[i] = b[i]
        /\ \A i \in 1..q : (b \o body)[i + (p + 3)] = body[i]
    <3> DEFINE c == b \o body
    <3>1. c = [i \in 1..(Len(b) + Len(body)) |-> IF i <= Len(b) THEN b[i] ELSE body[i - Len(b)]]
      BY <2>3, CatIs
    <3>2. c \in Seq(Line) /\ Len(c) = Len(b) + Len(body)
      BY <2>3, ConcatProperties
    <3> HIDE DEF c
    <3>3. c = [i \in 1..((p + 3) + q) |-> IF i <= p + 3 THEN b[i] ELSE body[i - (p + 3)]]
      BY <1>4, <2>3, <3>1
    <3>4. (p + 3) + q = p + q + 3
      OBVIOUS
    <3>5. \A i \in 1..(p + 3) : i \in 1..((p + 3) + q) /\ i <= p + 3
      OBVIOUS
    <3>6. \A i \in 1..q : i + (p + 3) \in 1..((p + 3) + q) /\ ~ (i + (p + 3) <= p + 3)
                         /\ (i + (p + 3)) - (p + 3) = i
      OBVIOUS
    <3>7. (\A i \in 1..(p + 3) : c[i] = b[i]) /\ (\A i \in 1..q : c[i + (p + 3)] = body[i])
      BY <3>3, <3>5, <3>6
    <3>8. Len(c) = p + q + 3
      BY <1>4, <2>3, <3>2, <3>4
    <3> QED
      BY <3>2, <3>7, <3>8 DEF c
  <2>5. s = b \o body
    BY <1>5, <1>6 DEF Serialized, a, b
  <2>6. \A i \in 1..p : i + 1 \in 1..(1 + p) /\ i + 1 \in 1..(p + 3)
    OBVIOUS
  <2>7. 1 \in 1..(1 + p) /\ 1 \in 1..(p + 3) /\ p + 2 \in 1..(p + 3) /\ p + 3 \in 1..(p + 3)
    OBVIOUS
  <2> QED
    BY <2>2, <2>3, <2>4, <2>5, <2>6, <2>7
<1> DEFINE last == Min({Len(s), HeaderLines + 1})
           closes == {i \in 2..last : s[i] = "delim"}
<1>8. last \in Nat /\ last >= p + 2 /\ last <= Len(s)
  <2>1. {Len(s), HeaderLines + 1} \in SUBSET Nat /\ {Len(s), HeaderLines + 1} # {}
    BY <1>5, <1>7
  <2>2. last \in {Len(s), HeaderLines + 1} /\ \A x \in {Len(s), HeaderLines + 1} : last <= x
    BY <2>1, MinOf
  <2> HIDE DEF last
  <2> QED
    BY <1>5, <1>7, <2>2
<1> HIDE DEF last
<1>9. closes # {} /\ Min(closes) = p + 2
  <2>1. p + 2 \in closes
    BY <1>7, <1>8
  <2>2. \A i \in closes : i >= p + 2
    <3> SUFFICES ASSUME NEW i \in closes, i < p + 2
                 PROVE  FALSE
      BY <1>8
    <3>1. i - 1 \in 1..p /\ (i - 1) + 1 = i
      BY <1>8
    <3>2. s[i] = fields[i - 1]
      BY <1>7, <3>1
    <3>3. fields[i - 1] = "fields"
      BY <1>3, <3>1
    <3> QED
      BY <3>2, <3>3
  <2>3. closes \in SUBSET Nat
    BY <1>8
  <2> HIDE DEF closes
  <2>4. Min(closes) \in closes /\ \A i \in closes : Min(closes) <= i
    BY <2>1, <2>3, MinOf
  <2>5. Min(closes) \in Nat /\ Min(closes) <= p + 2 /\ Min(closes) >= p + 2
    BY <2>1, <2>2, <2>3, <2>4
  <2> QED
    BY <2>1, <2>5
<1>10. s # <<>>
  BY <1>7
<1> DEFINE u == SubSeq(s, (p + 2) + 1, Len(s))
<1>11. Parsed(s) = [fields |-> SubSeq(s, 2, (p + 2) - 1), body |-> Unblank(u)]
  <2> HIDE DEF u, closes
  <2>1. Parsed(s) = [fields |-> SubSeq(s, 2, Min(closes) - 1),
                     body |-> Unblank(SubSeq(s, Min(closes) + 1, Len(s)))]
    BY <1>7, <1>9, <1>10, Zenon DEF Parsed, closes, last
  <2> QED
    BY <1>9, <2>1 DEF u
<1> HIDE DEF closes
<1>12. SubSeq(s, 2, (p + 2) - 1) = fields
  <2>1. 2 \in Int /\ p + 1 \in Int /\ (p + 2) - 1 = p + 1
    OBVIOUS
  <2>2. \A i \in 2..(p + 1) : s[i] \in Line
    BY <1>7
  <2>3. /\ SubSeq(s, 2, p + 1) \in Seq(Line)
        /\ Len(SubSeq(s, 2, p + 1)) = (IF 2 <= p + 1 THEN (p + 1) - 2 + 1 ELSE 0)
        /\ \A i \in 1..((p + 1) - 2 + 1) : SubSeq(s, 2, p + 1)[i] = s[2 + i - 1]
    BY <2>1, <2>2, SubSeqProperties
  <2> DEFINE g == SubSeq(s, 2, p + 1)
  <2> HIDE DEF g
  <2>4. (IF 2 <= p + 1 THEN (p + 1) - 2 + 1 ELSE 0) = p /\ (p + 1) - 2 + 1 = p
        /\ \A i \in 1..p : 2 + i - 1 = i + 1
    OBVIOUS
  <2>5. g \in Seq(Line) /\ Len(g) = p /\ \A i \in 1..p : g[i] = fields[i]
    BY <1>7, <2>3, <2>4 DEF g
  <2>6. g = [i \in 1..p |-> g[i]] /\ fields = [i \in 1..p |-> fields[i]]
    BY <1>3, <2>5
  <2>7. g = fields
    BY <2>5, <2>6
  <2> QED
    BY <2>1, <2>7 DEF g
<1>13. u \in Seq(Line) /\ Len(u) = q + 1 /\ u[1] = "blank" /\ \A i \in 1..q : u[i + 1] = body[i]
  <2>1. p + 2 \in Nat /\ p + 2 <= Len(s) /\ Len(s) - (p + 2) = q + 1
    BY <1>7
  <2>2. u \in Seq(Line) /\ Len(u) = q + 1 /\ \A i \in 1..(q + 1) : u[i] = s[(p + 2) + i]
    BY <1>7, <2>1, RestOf
  <2>3. (p + 2) + 1 = p + 3 /\ 1 \in 1..(q + 1)
        /\ \A i \in 1..q : i + 1 \in 1..(q + 1) /\ (p + 2) + (i + 1) = i + (p + 3)
    OBVIOUS
  <2> HIDE DEF u
  <2> QED
    BY <1>7, <2>2, <2>3
<1> HIDE DEF u
<1>14. Unblank(u) = Unblank(body)
  <2> DEFINE full == {i \in DOMAIN body : body[i] # "blank"}
             fullU == {i \in DOMAIN u : u[i] # "blank"}
  <2>1. /\ full \in SUBSET Nat /\ fullU \in SUBSET Nat
        /\ \A i \in full : i + 1 \in fullU
        /\ \A i \in fullU : i - 1 \in full
    <3>1. DOMAIN body = 1..q /\ DOMAIN u = 1..(q + 1)
      BY <1>4, <1>13
    <3>2. \A i \in full : i + 1 \in fullU
      BY <1>13, <3>1
    <3>3. \A i \in fullU : i - 1 \in full
      <4> SUFFICES ASSUME NEW i \in fullU
                   PROVE  i - 1 \in full
        OBVIOUS
      <4>1. i \in 1..(q + 1) /\ i # 1
        BY <1>13, <3>1
      <4>2. i - 1 \in 1..q /\ (i - 1) + 1 = i
        BY <4>1
      <4> QED
        BY <1>13, <3>1, <4>2
    <3> QED
      BY <3>1, <3>2, <3>3
  <2>2. /\ Unblank(u) = IF fullU = {} THEN <<>> ELSE SubSeq(u, Min(fullU), Len(u))
        /\ Unblank(body) = IF full = {} THEN <<>> ELSE SubSeq(body, Min(full), Len(body))
    BY DEF Unblank
  <2>3. full \subseteq 1..q
    BY <1>4
  <2> HIDE DEF full, fullU
  <2>4. CASE full = {}
    BY <2>1, <2>2, <2>4
  <2>5. CASE full # {}
    <3>1. Min(full) \in full /\ \A i \in full : Min(full) <= i
      BY <2>1, <2>5, MinOf
    <3>2. fullU # {}
      BY <2>1, <2>5
    <3>3. Min(fullU) \in fullU /\ \A i \in fullU : Min(fullU) <= i
      BY <2>1, <3>2, MinOf
    <3>4. PICK k \in 1..q : k = Min(full)
      BY <2>3, <3>1
    <3>5. Min(fullU) = k + 1
      <4>1. Min(fullU) <= k + 1 /\ k <= Min(fullU) - 1 /\ Min(fullU) \in Nat
        BY <2>1, <3>1, <3>3, <3>4
      <4> QED
        BY <4>1
    <3>6. k \in Nat /\ k <= Len(u) /\ Len(u) - k = (q - k) + 1
          /\ k - 1 \in Nat /\ k - 1 <= Len(body) /\ Len(body) - (k - 1) = (q - k) + 1
          /\ (k - 1) + 1 = k
      BY <1>4, <1>13
    <3> DEFINE x == SubSeq(u, k + 1, Len(u))
               y == SubSeq(body, (k - 1) + 1, Len(body))
    <3>7. /\ x \in Seq(Line) /\ Len(x) = (q - k) + 1 /\ \A i \in 1..((q - k) + 1) : x[i] = u[k + i]
          /\ y \in Seq(Line) /\ Len(y) = (q - k) + 1
          /\ \A i \in 1..((q - k) + 1) : y[i] = body[(k - 1) + i]
      BY <1>13, <3>6, RestOf
    <3> HIDE DEF x, y
    <3>8. \A i \in 1..((q - k) + 1) : (k - 1) + i \in 1..q /\ ((k - 1) + i) + 1 = k + i
      OBVIOUS
    <3>9. \A i \in 1..((q - k) + 1) : x[i] = y[i]
      BY <1>13, <3>7, <3>8
    <3>10. x = [i \in 1..((q - k) + 1) |-> x[i]] /\ y = [i \in 1..((q - k) + 1) |-> y[i]]
      BY <3>7
    <3>11. x = y
      BY <3>9, <3>10
    <3> QED
      BY <2>2, <2>5, <3>2, <3>4, <3>5, <3>6, <3>11 DEF x, y
  <2> QED
    BY <2>4, <2>5
<1>15. Parsed(Serialized(m)) = [fields |-> fields, body |-> Unblank(body)]
  BY <1>6, <1>11, <1>12, <1>14
<1> QED
  BY <1>5, <1>15

\* The scan lists every file.
LEMMA ScansAll ==
    ASSUME Stamped, clock \in Nat
    PROVE  DOMAIN stored \subseteq ToSet(Scanned)
<1> DEFINE D == DOMAIN stored
           n == Cardinality(D)
           t == [f \in D |-> stored[f].mtime]
           Newer(s) == \A i, j \in DOMAIN s : i < j => stored[s[i]].mtime > stored[s[j]].mtime
<1>1. IsFiniteSet(D) /\ t \in [D -> 0..clock] /\ t \in [D -> Nat]
      /\ \A f, g \in D : t[f] = t[g] => f = g
  BY DEF Stamped
<1>2. \A s \in [1..n -> D] : Newer(s) <=> Descends(s, D, t)
  <2> SUFFICES ASSUME NEW s \in [1..n -> D]
               PROVE  Newer(s) <=> Descends(s, D, t)
    OBVIOUS
  <2>1. DOMAIN s = 1..n /\ \A i \in 1..n : s[i] \in D /\ t[s[i]] = stored[s[i]].mtime
    OBVIOUS
  <2> QED
    BY <2>1 DEF Descends
<1> HIDE DEF t
<1>3. PICK s : Descends(s, D, t)
  BY <1>1, DescendingExists
<1>4. s \in [1..n -> D] /\ Newer(s)
  BY <1>2, <1>3 DEF Descends
<1>5. Scanned \in [1..n -> D] /\ Newer(Scanned)
  <2>1. Scanned = CHOOSE z \in [1..n -> D] : Newer(z)
    BY DEF Scanned
  <2> HIDE DEF Newer
  <2> QED
    BY <1>4, <2>1
<1>6. Descends(Scanned, D, t)
  BY <1>2, <1>5
<1>7. \A f \in D : \E i \in 1..n : Scanned[i] = f
  BY <1>1, <1>6, DescendingAll
<1> QED
  BY <1>5, <1>7 DEF ToSet
-------------------------------------------------------------------------------
(* Every step keeps the memories.                                          *)

LEMMA FreeIs == Free \in AtType
<1>1. <<>> \in Seq(LineType)
  OBVIOUS
<1> QED
  BY <1>1 DEF Free, AtType

\* What a writer holds: a record with only some of its fields set.
Held(o, name, f, size) == [op |-> o, name |-> name, file |-> f, copy |-> <<>>, size |-> size]

Started(o, name, f, size) ==
    [Free EXCEPT !.op = o, !.name = name, !.file = f, !.size = size]

LEMMA StartedIs ==
    ASSUME NEW o, NEW name, NEW f, NEW size
    PROVE  Started(o, name, f, size) = Held(o, name, f, size)
<1>1. PICK idle, blank, none, zero : idle = "idle" /\ blank = "" /\ none = Nameless /\ zero = 0
  OBVIOUS
<1>2. [Free EXCEPT !.op = o, !.name = name, !.file = f, !.size = size]
        = [[[[Free EXCEPT !.op = o] EXCEPT !.name = name] EXCEPT !.file = f] EXCEPT !.size = size]
  BY DEF Free
<1>3. Free = Held(idle, blank, none, zero)
  BY <1>1 DEF Free, Held
<1>4. [Held(idle, blank, none, zero) EXCEPT !.op = o] = Held(o, blank, none, zero)
  BY DEF Held
<1>5. [Held(o, blank, none, zero) EXCEPT !.name = name] = Held(o, name, none, zero)
  BY DEF Held
<1>6. [Held(o, name, none, zero) EXCEPT !.file = f] = Held(o, name, f, zero)
  BY DEF Held
<1>7. [Held(o, name, f, zero) EXCEPT !.size = size] = Held(o, name, f, size)
  BY DEF Held
<1> QED
  BY <1>2, <1>3, <1>4, <1>5, <1>6, <1>7 DEF Started

LEMMA ForgettingIs ==
    ASSUME NEW o, NEW f
    PROVE  [Free EXCEPT !.op = o, !.file = f] = Held(o, "", f, 0)
<1>1. PICK idle, blank, none, zero : idle = "idle" /\ blank = "" /\ none = Nameless /\ zero = 0
  OBVIOUS
<1>2. [Free EXCEPT !.op = o, !.file = f] = [[Free EXCEPT !.op = o] EXCEPT !.file = f]
  BY DEF Free
<1>3. Free = Held(idle, blank, none, zero)
  BY <1>1 DEF Free, Held
<1>4. [Held(idle, blank, none, zero) EXCEPT !.op = o] = Held(o, blank, none, zero)
  BY DEF Held
<1>5. [Held(o, blank, none, zero) EXCEPT !.file = f] = Held(o, blank, f, zero)
  BY DEF Held
<1>6. [Free EXCEPT !.op = o, !.file = f] = Held(o, blank, f, zero)
  BY <1>2, <1>3, <1>4, <1>5
<1>7. Held(o, blank, f, zero) = Held(o, "", f, 0)
  BY <1>1
<1> QED
  BY <1>6, <1>7

LEMMA MemoryInitHolds ==
    ASSUME MemoryInit
    PROVE  MemoryInv
<1>1. DOMAIN stored = {} /\ IsFiniteSet(DOMAIN stored) /\ kept = {} /\ clock = 0
  BY FS_EmptySet DEF MemoryInit
<1>2. index \in Seq(LineType)
  <2>1. Heading \in LineType
    BY DEF Heading, LineType
  <2>2. index = <<>> \/ index = <<Heading>>
    BY DEF MemoryInit
  <2>3. \A h \in LineType : <<h>> \in Seq(LineType) /\ <<>> \in Seq(LineType)
    OBVIOUS
  <2> QED
    BY <2>1, <2>2, <2>3
<1>3. Free \in AtType
  BY FreeIs
<1>4. MemoryTypes
  BY <1>1, <1>2, <1>3, MemoryAssumption DEF MemoryInit, MemoryTypes
<1> QED
  BY <1>1, <1>4 DEF MemoryInv, Stamped, Recalled

LEMMA SaveStep ==
    ASSUME MemoryInv, NEW w \in Writers, NEW name \in Names, NEW m \in Bodies, Save(w, name, m)
    PROVE  MemoryInv'
<1>1. /\ clock \in Nat /\ clock' = clock + 1 /\ clock' \in 0..MaxClock /\ clock' \in Nat \ {0}
      /\ index' = index
  BY MemoryAssumption DEF MemoryInv, MemoryTypes, Save
<1>2. PICK f \in FileNames : f = FileName(name, clock')
  BY <1>1 DEF FileNames
<1>3. /\ stored' = [g \in DOMAIN stored \cup {f} |->
                      IF g = f THEN [lines |-> Serialized(m), mtime |-> clock'] ELSE stored[g]]
      /\ at' = [at EXCEPT ![w] = [Free EXCEPT !.op = "saved", !.name = name, !.file = f,
                                              !.size = Len(m.body)]]
      /\ kept' = {k \in kept : k.file # f}
                   \cup {[name |-> name, file |-> f, m |-> m, listed |-> FALSE]}
  BY <1>2 DEF Save
<1>4. [Free EXCEPT !.op = "saved", !.name = name, !.file = f, !.size = Len(m.body)] \in AtType
  <2>1. m.body \in Seq(Line)
    BY MemoryAssumption
  <2>2. PICK size \in Nat : size = Len(m.body)
    BY <2>1
  <2>3. [Free EXCEPT !.op = "saved", !.name = name, !.file = f, !.size = size]
           = Held("saved", name, f, size)
    <3>1. [Free EXCEPT !.op = "saved", !.name = name, !.file = f, !.size = size]
             = Started("saved", name, f, size)
      BY DEF Started
    <3>2. Started("saved", name, f, size) = Held("saved", name, f, size)
      BY StartedIs
    <3> QED
      BY <3>1, <3>2
  <2>4. <<>> \in Seq(LineType)
    OBVIOUS
  <2> QED
    BY <2>2, <2>3, <2>4 DEF AtType, Held
<1>5. MemoryTypes'
  <2>1. kept' \subseteq KeptType
    <3>1. [name |-> name, file |-> f, m |-> m, listed |-> FALSE] \in KeptType
      BY DEF KeptType
    <3> QED
      BY <1>3, <3>1 DEF MemoryInv, MemoryTypes
  <2>2. at' \in [Writers -> AtType]
    BY <1>3, <1>4 DEF MemoryInv, MemoryTypes
  <2> QED
    BY <1>1, <2>1, <2>2 DEF MemoryInv, MemoryTypes
<1>6. /\ DOMAIN stored' = DOMAIN stored \cup {f}
      /\ stored'[f] = [lines |-> Serialized(m), mtime |-> clock']
      /\ \A g \in DOMAIN stored : g # f => stored'[g] = stored[g]
  BY <1>3
<1>7. Stamped'
  <2>1. IsFiniteSet(DOMAIN stored \cup {f})
    BY FS_AddElement DEF MemoryInv, Stamped
  <2>2. \A g \in DOMAIN stored : stored[g].mtime \in 1..clock
    BY DEF MemoryInv, Stamped
  <2>3. \A g \in DOMAIN stored \cup {f} :
            /\ g = f => stored'[g].mtime = clock'
            /\ g # f => stored'[g].mtime = stored[g].mtime /\ stored'[g].mtime \in 1..clock
    BY <1>6, <2>2
  <2>4. \A g \in DOMAIN stored \cup {f} : stored'[g].mtime \in 1..clock'
    BY <1>1, <2>3
  <2>5. \A g, h \in DOMAIN stored \cup {f} : stored'[g].mtime = stored'[h].mtime => g = h
    BY <1>1, <2>3 DEF MemoryInv, Stamped
  <2> QED
    BY <1>6, <2>1, <2>4, <2>5 DEF MemoryInv, Stamped
<1>8. Recalled'
  <2> SUFFICES ASSUME NEW k \in kept'
               PROVE  /\ k.file \in DOMAIN stored' /\ stored'[k.file].lines = Serialized(k.m)
                      /\ k.listed => IsListed(index', k.file)
    BY DEF Recalled
  <2>1. CASE k = [name |-> name, file |-> f, m |-> m, listed |-> FALSE]
    BY <1>6, <2>1
  <2>2. CASE k \in kept /\ k.file # f
    BY <1>1, <1>6, <2>2 DEF MemoryInv, Recalled
  <2> QED
    BY <1>3, <2>1, <2>2
<1> QED
  BY <1>5, <1>7, <1>8 DEF MemoryInv

LEMMA ReadIndexStep ==
    ASSUME MemoryInv, NEW w \in Writers, ReadIndex(w)
    PROVE  MemoryInv'
<1>1. /\ UNCHANGED <<stored, index, clock, kept>>
      /\ at' = [at EXCEPT ![w] = [at[w] EXCEPT !.op = IF @ = "saved" THEN "append" ELSE "remove",
                                               !.copy = index]]
  BY DEF ReadIndex, MemoryInv, MemoryTypes
<1>2. [at[w] EXCEPT !.op = IF @ = "saved" THEN "append" ELSE "remove", !.copy = index] \in AtType
  BY DEF MemoryInv, MemoryTypes, AtType
<1>3. MemoryTypes'
  BY <1>1, <1>2 DEF MemoryInv, MemoryTypes
<1> QED
  BY <1>1, <1>3 DEF MemoryInv, Stamped, Recalled, IsListed

\* The index is written back with a line more or without one: who raced for it
\* loses what the other did since the index was read.
LEMMA WriteIndexStep ==
    ASSUME MemoryInv, NEW w \in Writers, WriteIndex(w)
    PROVE  MemoryInv'
<1>1. PICK a \in AtType : a = at[w]
  BY DEF MemoryInv, MemoryTypes
<1>2. /\ a.op \in {"append", "remove"} /\ a.copy \in Seq(LineType) /\ a.size \in Nat
      /\ a.file \in FileNames \cup {Nameless}
  BY <1>1 DEF AtType, WriteIndex
<1> DEFINE l == [file |-> a.file, size |-> a.size]
<1>3. /\ index' = IF a.op = "append" THEN Append(a.copy, l) ELSE Removed(a.copy, a.file)
      /\ kept' = {IF a.op = "append" /\ k.file = a.file
                  THEN [k EXCEPT !.listed = TRUE] ELSE k : k \in kept \ Unlisted(w)}
      /\ at' = [at EXCEPT ![w] = Free] /\ UNCHANGED <<stored, clock>>
  BY <1>1 DEF WriteIndex, Appended
<1>4. l \in LineType
  BY <1>2 DEF LineType
<1> HIDE DEF l
<1>5. index' \in Seq(LineType)
  <2>1. Append(a.copy, l) \in Seq(LineType)
    BY <1>2, <1>4
  <2>2. Removed(a.copy, a.file) \in Seq(LineType)
    BY <1>2, RemovedKeeps
  <2> QED
    BY <1>3, <2>1, <2>2
<1>6. Free \in AtType
  BY FreeIs
<1>7. \A k \in kept' : \E j \in kept \ Unlisted(w) :
          k = IF a.op = "append" /\ j.file = a.file THEN [j EXCEPT !.listed = TRUE] ELSE j
  BY <1>3
<1>8. kept' \subseteq KeptType
  <2> SUFFICES ASSUME NEW k \in kept'
               PROVE  k \in KeptType
    OBVIOUS
  <2>1. PICK j \in kept :
          k = IF a.op = "append" /\ j.file = a.file THEN [j EXCEPT !.listed = TRUE] ELSE j
    BY <1>7
  <2>2. j \in KeptType
    BY DEF MemoryInv, MemoryTypes
  <2> QED
    BY <2>1, <2>2 DEF KeptType
<1>9. MemoryTypes'
  BY <1>3, <1>5, <1>6, <1>8 DEF MemoryInv, MemoryTypes
<1>10. Recalled'
  <2> SUFFICES ASSUME NEW k \in kept'
               PROVE  /\ k.file \in DOMAIN stored' /\ stored'[k.file].lines = Serialized(k.m)
                      /\ k.listed => IsListed(index', k.file)
    BY DEF Recalled
  <2>1. PICK j \in kept \ Unlisted(w) :
          k = IF a.op = "append" /\ j.file = a.file THEN [j EXCEPT !.listed = TRUE] ELSE j
    BY <1>7
  <2>2. /\ j \in KeptType /\ j.file \in DOMAIN stored /\ stored[j.file].lines = Serialized(j.m)
        /\ j.listed => IsListed(index, j.file)
    BY DEF MemoryInv, MemoryTypes, Recalled
  <2>3. k.file = j.file /\ k.m = j.m
    BY <2>1, <2>2 DEF KeptType
  <2>4. CASE a.op = "append" /\ j.file = a.file
    <3>1. index' = Append(a.copy, l) /\ l.file = k.file
      BY <1>3, <2>3, <2>4 DEF l
    <3>2. index'[Len(a.copy) + 1] = l /\ Len(a.copy) + 1 \in DOMAIN index'
      BY <1>2, <1>4, <3>1
    <3>3. IsListed(index', k.file)
      BY <3>1, <3>2 DEF IsListed
    <3> QED
      BY <1>3, <2>2, <2>3, <3>3
  <2>5. CASE ~ (a.op = "append" /\ j.file = a.file) /\ j.listed
    <3>1. k = j
      BY <2>1, <2>5
    <3>2. CASE IsListed(index', j.file)
      BY <1>3, <2>2, <3>1, <3>2
    <3>3. CASE ~IsListed(index', j.file)
      <4>1. a.copy = index /\ ~ (a.op = "remove" /\ a.file = j.file)
        BY <1>1, <2>1, <2>5, <3>3 DEF Unlisted, IsListed
      <4>2. IsListed(a.copy, j.file)
        BY <2>2, <2>5, <4>1
      <4>3. CASE a.op = "append"
        <5>1. index' = Append(a.copy, l)
          BY <1>3, <4>3
        <5>2. IsListed(index', j.file)
          BY <1>2, <1>4, <4>2, <5>1 DEF IsListed
        <5> QED
          BY <3>3, <5>2
      <4>4. CASE a.op = "remove"
        <5>1. index' = Removed(a.copy, a.file) /\ j.file # a.file
          BY <1>3, <4>1, <4>4
        <5>2. IsListed(index', j.file)
          BY <1>2, <4>2, <5>1, RemovedKeeps
        <5> QED
          BY <3>3, <5>2
      <4> QED
        BY <1>2, <4>3, <4>4
    <3> QED
      BY <3>2, <3>3
  <2>6. CASE ~ (a.op = "append" /\ j.file = a.file) /\ ~j.listed
    BY <1>3, <2>1, <2>2, <2>6
  <2> QED
    BY <2>4, <2>5, <2>6
<1> QED
  BY <1>3, <1>9, <1>10 DEF MemoryInv, Stamped

LEMMA ForgetStep ==
    ASSUME MemoryInv, NEW w \in Writers, NEW f \in DOMAIN stored, Forget(w, f)
    PROVE  MemoryInv'
<1>1. /\ stored' = [g \in DOMAIN stored \ {f} |-> stored[g]]
      /\ kept' = {k \in kept : k.file # f}
      /\ at' = [at EXCEPT ![w] = [Free EXCEPT !.op = "forget", !.file = f]]
      /\ UNCHANGED <<index, clock>> /\ f \in FileNames
  BY DEF Forget, MemoryInv, Stamped
<1>2. [Free EXCEPT !.op = "forget", !.file = f] \in AtType
  <2>1. [Free EXCEPT !.op = "forget", !.file = f]
           = Held("forget", "", f, 0)
    BY ForgettingIs
  <2>2. <<>> \in Seq(LineType)
    OBVIOUS
  <2>3. f \in FileNames
    BY <1>1, Zenon
  <2>4. Held("forget", "", f, 0) \in AtType
    BY <2>2, <2>3 DEF AtType, Held
  <2> QED
    BY <2>1, <2>4, Zenon
<1>3. MemoryTypes'
  BY <1>1, <1>2 DEF MemoryInv, MemoryTypes
<1>4. /\ DOMAIN stored' = DOMAIN stored \ {f}
      /\ \A g \in DOMAIN stored \ {f} : stored'[g] = stored[g]
  BY <1>1
<1>5. IsFiniteSet(DOMAIN stored \ {f})
  BY FS_Subset DEF MemoryInv, Stamped
<1>6. Stamped'
  BY <1>1, <1>4, <1>5 DEF MemoryInv, Stamped
<1>7. Recalled'
  BY <1>1, <1>4 DEF MemoryInv, Recalled, IsListed
<1> QED
  BY <1>3, <1>6, <1>7 DEF MemoryInv

LEMMA CrashStep ==
    ASSUME MemoryInv, NEW w \in Writers, Crash(w)
    PROVE  MemoryInv'
<1>1. Free \in AtType
  BY FreeIs
<1> QED
  BY <1>1 DEF Crash, MemoryInv, MemoryTypes, Stamped, Recalled, IsListed

LEMMA MemoryStep ==
    ASSUME MemoryInv, MemoryNext
    PROVE  MemoryInv'
BY SaveStep, ReadIndexStep, WriteIndexStep, ForgetStep, CrashStep DEF MemoryNext

LEMMA MemoryTyped ==
    ASSUME MemoryInv
    PROVE  MemoryTypeOK
<1>1. \A f \in DOMAIN stored : stored[f].mtime \in 1..clock
  BY DEF MemoryInv, Stamped
<1>2. \A i \in DOMAIN index : index[i] \in LineType
  BY DEF MemoryInv, MemoryTypes
<1>3. \A w \in Writers : at[w] \in AtType
  BY DEF MemoryInv, MemoryTypes
<1>4. clock \in 0..MaxClock
  BY DEF MemoryInv, MemoryTypes
<1> QED
  BY <1>1, <1>2, <1>3, <1>4 DEF MemoryTypeOK, LineType, AtType

LEMMA MemoryFound ==
    ASSUME MemoryInv
    PROVE  MemoryRecalled /\ NewestShown
<1>1. clock \in Nat /\ index \in Seq(LineType)
  BY MemoryAssumption DEF MemoryInv, MemoryTypes
<1>2. NewestShown
  BY <1>1, PromptShows
<1>3. DOMAIN stored \subseteq ToSet(Scanned)
  BY <1>1, ScansAll DEF MemoryInv
<1>4. ASSUME NEW k \in kept, k.listed
      PROVE  /\ \E i \in DOMAIN index : index[i].file = k.file
             /\ k.file \in ToSet(Scanned)
             /\ Parsed(stored[k.file].lines) = [k.m EXCEPT !.body = Unblank(@)]
  <2>1. /\ k.m \in Bodies /\ k.file \in DOMAIN stored /\ stored[k.file].lines = Serialized(k.m)
        /\ IsListed(index, k.file)
    BY <1>4 DEF MemoryInv, MemoryTypes, Recalled, KeptType
  <2>2. Parsed(Serialized(k.m)) = [k.m EXCEPT !.body = Unblank(@)]
    BY <2>1, ReadsBack
  <2> QED
    BY <1>3, <2>1, <2>2 DEF IsListed
<1> QED
  BY <1>2, <1>4 DEF MemoryRecalled
-------------------------------------------------------------------------------
(* The theorems, for a behaviour of any of the components.                 *)

LearnedInv == /\ which = "files" => CacheInv /\ BooksInv
              /\ which = "shapes" => ShapesInv
              /\ which = "memory" => MemoryInv

LEMMA LearnedInit ==
    ASSUME MemoriesInit
    PROVE  LearnedInv
BY CacheInit, BooksInit, ShapesInitHolds, MemoryInitHolds DEF MemoriesInit, LearnedInv

LEMMA LearnedStep ==
    ASSUME LearnedInv, [MemoriesNext]_<<which, vars, memoryVars>>
    PROVE  LearnedInv' /\ (which = "shapes" => Shapes!Covers(disk', disk))
<1>1. CASE MemoriesNext
  <2>1. CASE which = "files" /\ Next /\ UNCHANGED <<which, memoryVars>>
    BY <2>1, CacheStep, BooksStep DEF LearnedInv
  <2>2. CASE which = "shapes" /\ Shapes!ShapesNext /\ UNCHANGED <<which, AfterFive, memoryVars>>
    BY <2>2, ShapesStep DEF LearnedInv
  <2>3. CASE which = "memory" /\ MemoryNext /\ UNCHANGED <<which, vars>>
    BY <2>3, MemoryStep DEF LearnedInv
  <2> QED
    BY <1>1, <2>1, <2>2, <2>3 DEF MemoriesNext
<1>2. CASE UNCHANGED <<which, vars, memoryVars>>
  <2>1. CacheInv => CacheInv'
    BY <1>2 DEF vars, cache, mind, CacheInv, CacheTypes, Truthful, Dated, Seen, InHand, Told,
                At, InPart
  <2>2. ShapesInv => ShapesInv'
    BY <1>2 DEF vars, cache, ShapesInv, ShapesTypes, OneAtATime, Covering, OnTheLadder,
                Shapes!Covers
  <2>3. ShapesInv => Shapes!Covers(disk', disk)
    BY <1>2, CoversItself DEF vars, ShapesInv, ShapesTypes
  <2>4. BooksInv => BooksInv'
    BY <1>2 DEF vars, cache, mind, BooksInv, KnownTypes, BytesAccounted
  <2>5. MemoryInv => MemoryInv'
    BY <1>2 DEF memoryVars, MemoryInv, MemoryTypes, Stamped, Recalled, IsListed
  <2> QED
    BY <1>2, <2>1, <2>2, <2>3, <2>4, <2>5 DEF LearnedInv
<1> QED
  BY <1>1, <1>2

LEMMA LearnedAlways == MemoriesSpec => []LearnedInv
<1>1. MemoriesInit => LearnedInv
  BY LearnedInit
<1>2. LearnedInv /\ [MemoriesNext]_<<which, vars, memoryVars>> => LearnedInv'
  BY LearnedStep
<1> QED
  BY <1>1, <1>2, PTL DEF MemoriesSpec

\* The Read tool says "File unchanged" only of a version of the file the model has
\* read or written something of, however others write the file between the system
\* calls of the tools, and whatever the cache evicts (read.rs, file_cache.rs).
THEOREM UnchangedSeenAlways == MemoriesSpec => []UnchangedWasSeen
<1>1. LearnedInv => UnchangedWasSeen
  BY DEF LearnedInv, CacheInv, Told, UnchangedWasSeen, UnchangedSeenInPart
<1> QED
  BY <1>1, LearnedAlways, PTL

\* An Edit that passes its check found the file as the model knows it: what others
\* wrote before the check, outside an Edit or Write of that file, is noticed
\* (edit.rs check_staleness).
THEOREM EditsKnownAlways == MemoriesSpec => []EditsWhatItKnows
<1>1. LearnedInv => EditsWhatItKnows
  BY DEF LearnedInv, CacheInv, InHand, At, EditsWhatItKnows, EditsTheKnown
<1> QED
  BY <1>1, LearnedAlways, PTL

\* The cache never holds more entries than its limit, nor two of one file, whatever
\* is read, replaced and evicted (file_cache.rs insert).
THEOREM CacheBounded ==
    MemoriesSpec => [](which = "files" => Len(entries) <= MaxEntries /\ OnePerFile(entries))
<1>1. LearnedInv => (which = "files" => Len(entries) <= MaxEntries /\ OnePerFile(entries))
  BY DEF LearnedInv, CacheInv, CacheTypes, Truthful
<1> QED
  BY <1>1, LearnedAlways, PTL

\* While calls come one at a time, no step makes the provider forget a shape the
\* gateway asked for: what is learned next covers what was learned before
\* (composed.rs).
THEOREM NeverUnlearnedAlways == MemoriesSpec => NeverUnlearned
<1>1. LearnedInv /\ [MemoriesNext]_<<which, vars, memoryVars>>
          => [which = "shapes" => Shapes!Covers(disk', disk)]_<<which, vars, memoryVars>>
  BY LearnedStep
<1> QED
  BY <1>1, LearnedAlways, PTL DEF MemoriesSpec, NeverUnlearned

\* A call asks the gateway for no more shapes than the ladder has rungs: one for
\* each replay level and one for each of the two flags, after the first request.
THEOREM LadderAlways == MemoriesSpec => [](which = "shapes" => Shapes!ShapesTypeOK)
<1>1. LearnedInv => (which = "shapes" => Shapes!ShapesTypeOK)
  BY ShapesTyped DEF LearnedInv
<1> QED
  BY <1>1, LearnedAlways, PTL

\* The byte counter of the cache is the sum of the sizes of its entries, and within
\* the budget unless one entry alone exceeds it, whatever is read, replaced and
\* evicted (file_cache.rs 49-70); and every variable of the three components has its
\* type.
THEOREM MemoriesTypeCorrect == MemoriesSpec => []MemoriesTypeOK
<1>1. LearnedInv => MemoriesTypeOK
  BY CacheTyped, ShapesTyped, MemoryTyped DEF LearnedInv, MemoriesTypeOK, BooksInv
<1> QED
  BY <1>1, LearnedAlways, PTL

\* However many processes save, list and forget memories, and wherever one is cut
\* off: a memory that is in the index reads back as it was written, its file is
\* found by the scan, and the prompt shows the newest entries that fit its budget,
\* none left out between them (store.rs, index.rs).
THEOREM MemoryKeptAlways == MemoriesSpec => []MemoryKept
<1>1. LearnedInv => MemoryKept
  BY MemoryFound DEF LearnedInv, MemoryKept
<1> QED
  BY <1>1, LearnedAlways, PTL
===============================================================================
