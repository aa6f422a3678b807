----------------------------- MODULE WatchedProofs -----------------------------
(***************************************************************************)
(* Theorems about what watches a run: the guards of the tool loop, for any *)
(* fingerprints, limits and number of turns, and the user at the terminal, *)
(* for any calls, histories and sizes of the channel.                      *)
(***************************************************************************)
EXTENDS MCWatched, FoldTheorems

-------------------------------------------------------------------------------
(* The guards.  The trackers are set against the trail, read from its end: *)
(* what was seen j rounds ago.                                             *)

FailedAt(t)    == [j \in 0..(Len(t) - 1) |-> FailurePrint(t[Len(t) - j])]
MalformedAt(t) == [j \in 0..(Len(t) - 1) |-> MalformedPrint(t[Len(t) - j])]

\* A tracker counts the newest of n rounds that are all of one fingerprint.
Counts(t, n, at) ==
    /\ t.count \in 0..n
    /\ t.count = 0 => t.last = None /\ (n > 0 => at[0] = None)
    /\ t.count > 0 => t.last # None
    /\ \A j \in 0..(t.count - 1) : at[j] = t.last
    /\ t.count > 0 /\ t.count < n => at[t.count] # t.last

\* The newest k of n rounds are alike, and count.
Alike(k, n, at) == k <= n /\ \A j \in 0..(k - 1) : at[j] # None /\ at[j] = at[0]

\* What is seen after one more round, of which w are kept.
Seen(n, at, w, print, n2, at2) ==
    /\ n2 = IF n = w THEN n ELSE n + 1
    /\ at2[0] = print /\ \A j \in 0..(n2 - 2) : at2[j + 1] = at[j]

LEMMA ObserveCounts ==
    ASSUME NEW n \in Nat, NEW at, NEW t, Counts(t, n, at), NEW limit \in Nat, NEW w \in Nat,
           t.count < limit, limit <= w, n <= w, NEW print, NEW n2, NEW at2,
           Seen(n, at, w, print, n2, at2)
    PROVE  Counts(Observe(t, print), n2, at2) /\ Observe(t, print).count <= limit
<1> DEFINE u == Observe(t, print)
<1>1. n2 \in Nat /\ n2 > 0 /\ (n2 = n + 1 \/ (n = w /\ n2 = n))
  BY DEF Seen, Counts
<1>2. CASE print = None
  <2>1. u.last = None /\ u.count = 0
    BY <1>2 DEF Observe
  <2>. QED  BY <1>1, <1>2, <2>1 DEF Counts, Seen
<1>3. CASE print # None /\ t.last = print
  <2>1. u.last = print /\ u.count = t.count + 1
    BY <1>3 DEF Observe
  <2>2. t.count > 0 /\ t.count + 1 <= n2
    BY <1>1, <1>3 DEF Counts
  <2>3. \A j \in 0..(u.count - 1) : at2[j] = u.last
    <3>. SUFFICES ASSUME NEW j \in 0..(u.count - 1), j > 0 PROVE at2[j] = u.last
      BY <2>1 DEF Seen
    <3>1. j - 1 \in 0..(n2 - 2) /\ j - 1 \in 0..(t.count - 1)
      BY <1>1, <2>1, <2>2 DEF Counts
    <3>. QED  BY <1>3, <2>1, <3>1 DEF Seen, Counts
  <2>4. ASSUME u.count < n2 PROVE at2[u.count] # u.last
    <3>1. t.count \in 0..(n2 - 2) /\ t.count < n
      BY <1>1, <2>1, <2>2, <2>4 DEF Counts
    <3>. QED  BY <1>3, <2>1, <2>2, <3>1 DEF Seen, Counts
  <2>. QED  BY <1>1, <1>3, <2>1, <2>2, <2>3, <2>4 DEF Counts
<1>4. CASE print # None /\ t.last # print
  <2>1. u.last = print /\ u.count = 1
    BY <1>4 DEF Observe
  <2>2. ASSUME 1 < n2 PROVE at2[1] # print
    <3>1. 0 \in 0..(n2 - 2) /\ at2[0 + 1] = at[0] /\ n > 0
      BY <1>1, <2>2 DEF Seen
    <3>. QED  BY <1>4, <3>1 DEF Counts
  <2>. QED  BY <1>1, <1>4, <2>1, <2>2 DEF Counts, Seen
<1>. QED  BY <1>2, <1>3, <1>4

\* The count reaches k when the newest k rounds are alike, and only then.
LEMMA CountIs ==
    ASSUME NEW n \in Nat, NEW at, NEW t, Counts(t, n, at), NEW k \in Nat \ {0}
    PROVE  t.count >= k <=> Alike(k, n, at)
<1>1. ASSUME t.count >= k PROVE Alike(k, n, at)
  BY <1>1 DEF Counts, Alike
<1>2. ASSUME Alike(k, n, at), t.count < k PROVE FALSE
  <2>1. CASE t.count = 0
    BY <1>2, <2>1 DEF Counts, Alike
  <2>2. CASE t.count > 0
    <3>1. t.count \in 0..(k - 1) /\ t.count < n /\ 0 \in 0..(t.count - 1)
      BY <1>2, <2>2 DEF Counts, Alike
    <3>. QED  BY <1>2, <2>2, <3>1 DEF Counts, Alike
  <2>. QED  BY <2>1, <2>2 DEF Counts
<1>3. t.count \in Int
  BY DEF Counts
<1>. QED  BY <1>1, <1>2, <1>3
-------------------------------------------------------------------------------
(* Cycles.                                                                 *)

\* The last k copies of p fingerprints are the same.
Repeats(h, p, k) == \A i \in 0..((k - 1) * p - 1) : h[Len(h) - i] = h[Len(h) - i - p]
Cycles(h, k)     == \E p \in 2..MaxPeriod : p * k <= Len(h) /\ Repeats(h, p, k)

LEMMA DivIs ==
    ASSUME NEW n \in Nat, NEW p \in Nat \ {0}
    PROVE  n \div p \in Nat /\ \A k \in Nat : k <= n \div p <=> p * k <= n
<1> DEFINE q == n \div p
<1>1. q \in Int /\ p * q <= n /\ n < p * (q + 1)
  OBVIOUS
<1> HIDE DEF q
<1>2. q \in Nat
  <2>. SUFFICES ASSUME q + 1 <= 0 PROVE FALSE
    BY <1>1
  <2>1. p * (q + 1) <= 0
    BY <1>1
  <2>. QED  BY <1>1, <2>1
<1>3. ASSUME NEW k \in Nat, k <= q PROVE p * k <= n
  <2>1. p * k <= p * q
    BY <1>1, <1>3
  <2>. QED  BY <1>1, <2>1
<1>4. ASSUME NEW k \in Nat, p * k <= n, q < k PROVE FALSE
  <2>1. p * (q + 1) <= p * k
    BY <1>1, <1>4
  <2>. QED  BY <1>1, <1>4, <2>1
<1>. QED  BY <1>1, <1>2, <1>3, <1>4 DEF q

LEMMA FewerRepeat ==
    ASSUME NEW h, NEW p \in Nat \ {0}, NEW c \in Nat \ {0}, Repeats(h, p, c),
           NEW k \in 1..c
    PROVE  Repeats(h, p, k) /\ p * k <= p * c
<1>1. (k - 1) * p <= (c - 1) * p /\ p * k <= p * c
  OBVIOUS
<1>2. (k - 1) * p \in Int /\ (c - 1) * p \in Int
  OBVIOUS
<1>. QED  BY <1>1, <1>2 DEF Repeats

LEMMA CopiesIs ==
    ASSUME NEW S, NEW h \in Seq(S), NEW p \in Nat \ {0}, p <= Len(h)
    PROVE  /\ Copies(h, p) \in Nat \ {0}
           /\ \A k \in Nat \ {0} : k <= Copies(h, p) <=> p * k <= Len(h) /\ Repeats(h, p, k)
<1> DEFINE q == Len(h) \div p
           Ks == {k \in 1..q : Repeats(h, p, k)}
           c  == Copies(h, p)
<1>1. q \in Nat /\ \A k \in Nat : k <= q <=> p * k <= Len(h)
  BY DivIs
<1>2. c = Max(Ks)
  BY Zenon DEF Copies, Repeats
<1> HIDE DEF q, c
<1>3. 1 \in Ks
  <2>1. 1 <= q /\ (1 - 1) * p = 0
    BY <1>1
  <2>. QED  BY <1>1, <2>1 DEF Repeats
<1>4. c \in Ks /\ \A k \in Ks : k <= c
  <2>1. Ks \in SUBSET (0..q) /\ Ks # {}
    BY <1>1, <1>3
  <2>. HIDE DEF Ks
  <2>. QED  BY <1>1, <1>2, <2>1, MaxOf
<1>5. ASSUME NEW k \in Nat \ {0}, k <= c PROVE p * k <= Len(h) /\ Repeats(h, p, k)
  <2>1. k \in 1..c /\ p * c <= Len(h) /\ Repeats(h, p, c) /\ c \in Nat \ {0}
    BY <1>1, <1>4, <1>5
  <2>2. Repeats(h, p, k) /\ p * k <= p * c
    BY <2>1, FewerRepeat
  <2>3. p * k \in Int /\ p * c \in Int /\ Len(h) \in Int
    BY <2>1
  <2>. QED  BY <2>1, <2>2, <2>3
<1>6. ASSUME NEW k \in Nat \ {0}, p * k <= Len(h), Repeats(h, p, k) PROVE k <= c
  BY <1>1, <1>4, <1>6
<1>7. c \in Nat \ {0}
  BY <1>1, <1>4
<1>. QED  BY <1>5, <1>6, <1>7 DEF c

LEMMA DetectIs ==
    ASSUME NEW S, NEW h \in Seq(S)
    PROVE  /\ \A k \in Nat \ {0, 1} : DetectCycle(h).repetitions >= k <=> Cycles(h, k)
           /\ DetectCycle(h).repetitions \in Nat \ {1}
           /\ DetectCycle(h).period # 0 <=> DetectCycle(h).repetitions >= 2
           /\ DetectCycle(h).period # 0 => h # <<>>
<1> DEFINE n == Len(h)
           top == Min({MaxPeriod, n \div 2})
           periods == {p \in 2..top : Copies(h, p) >= 2}
           counts  == {Copies(h, p) : p \in periods}
           most    == Max(counts)
           bests   == {p \in periods : Copies(h, p) = most}
           best    == Min(bests)
<1>1. n \in Nat /\ n \div 2 \in Nat /\ \A k \in Nat : k <= n \div 2 <=> 2 * k <= n
  BY DivIs
<1>a. DetectCycle(h) = IF n < 4 \/ periods = {} THEN [period |-> 0, repetitions |-> 0]
                       ELSE [period |-> best, repetitions |-> most]
  BY Zenon DEF DetectCycle
<1> HIDE DEF n
<1>2. MaxPeriod \in Nat /\ MaxPeriod >= 2
  BY ConstantsAssumption
<1>3. top \in Nat /\ \A p \in Nat : p <= top <=> p <= MaxPeriod /\ 2 * p <= n
  <2>1. {MaxPeriod, n \div 2} \in SUBSET Nat
    BY <1>1, <1>2 DEF n
  <2>2. top \in {MaxPeriod, n \div 2} /\ \A x \in {MaxPeriod, n \div 2} : top <= x
    BY <2>1, MinOf
  <2>. HIDE DEF top
  <2>. QED  BY <1>1, <1>2, <2>2
<1> HIDE DEF top
<1>4. \A p \in 2..top : /\ p \in Nat \ {0} /\ p <= n /\ p <= MaxPeriod
                        /\ Copies(h, p) \in 1..n
                        /\ \A k \in Nat \ {0} : k <= Copies(h, p) <=> p * k <= n /\ Repeats(h, p, k)
  <2>. SUFFICES ASSUME NEW p \in 2..top
                PROVE  /\ p \in Nat \ {0} /\ p <= n /\ p <= MaxPeriod
                       /\ Copies(h, p) \in 1..n
                       /\ \A k \in Nat \ {0} : k <= Copies(h, p) <=> p * k <= n /\ Repeats(h, p, k)
    OBVIOUS
  <2>1. p \in Nat \ {0} /\ p <= n /\ p <= MaxPeriod
    BY <1>1, <1>3
  <2>2. /\ Copies(h, p) \in Nat \ {0}
        /\ \A k \in Nat \ {0} : k <= Copies(h, p) <=> p * k <= n /\ Repeats(h, p, k)
    BY <2>1, CopiesIs DEF n
  <2>3. \A c \in Nat : p * c <= n => c <= n
    BY <1>1, <2>1
  <2>. QED  BY <1>1, <2>1, <2>2, <2>3
<1>5. \A k \in Nat \ {0, 1} : Cycles(h, k) <=> \E p \in periods : k <= Copies(h, p)
  <2>. SUFFICES ASSUME NEW k \in Nat \ {0, 1}
                PROVE  Cycles(h, k) <=> \E p \in periods : k <= Copies(h, p)
    OBVIOUS
  <2>1. ASSUME NEW p \in periods, k <= Copies(h, p) PROVE Cycles(h, k)
    BY <1>3, <1>4, <2>1 DEF Cycles, n
  <2>2. ASSUME NEW p \in 2..MaxPeriod, p * k <= n, Repeats(h, p, k)
        PROVE  p \in periods /\ k <= Copies(h, p)
    <3>1. p * 2 <= p * k
      BY <1>2
    <3>2. p \in 2..top
      BY <1>1, <1>2, <1>3, <2>2, <3>1
    <3>. QED  BY <1>4, <2>2, <3>2
  <2>. QED  BY <2>1, <2>2 DEF Cycles, n
<1>6. CASE n < 4 \/ periods = {}
  <2>1. DetectCycle(h) = [period |-> 0, repetitions |-> 0]
    BY <1>6, <1>a
  <2>2. periods = {}
    BY <1>1, <1>3, <1>6
  <2>. QED  BY <1>5, <2>1, <2>2
<1>7. CASE ~ (n < 4 \/ periods = {})
  <2>1. DetectCycle(h) = [period |-> best, repetitions |-> most]
    BY <1>7, <1>a
  <2>2. counts \in SUBSET (0..n) /\ counts # {}
    <3>1. \A p \in periods : p \in 2..top /\ Copies(h, p) \in 0..n
      BY <1>1, <1>4
    <3>2. periods # {}
      BY <1>7
    <3>. HIDE DEF periods
    <3>. QED  BY <3>1, <3>2
  <2>3. most \in counts /\ \A c \in counts : c <= most
    <3>. HIDE DEF counts
    <3>. QED  BY <1>1, <2>2, MaxOf
  <2>4. most \in Nat /\ most >= 2 /\ most <= n
    BY <1>1, <2>2, <2>3
  <2>5. bests \in SUBSET Nat /\ bests # {} /\ bests \subseteq 2..top
    <3>. HIDE DEF most
    <3>. QED  BY <1>3, <2>3
  <2>6. best \in Nat /\ best >= 2
    <3>. HIDE DEF bests
    <3>1. best \in bests
      BY <2>5, MinOf
    <3>. HIDE DEF best
    <3>. QED  BY <1>3, <2>5, <3>1
  <2>7. \A k \in Nat : k <= most <=> \E p \in periods : k <= Copies(h, p)
    <3>. HIDE DEF most
    <3>. QED  BY <1>1, <1>4, <2>2, <2>3, <2>4
  <2>8. h # <<>> /\ ~ (n < 4)
    BY <1>1, <1>7 DEF n
  <2>. HIDE DEF periods, most, best
  <2>9. \A k \in Nat \ {0, 1} : most >= k <=> Cycles(h, k)
    BY <1>5, <2>4, <2>7
  <2>. QED  BY <2>1, <2>4, <2>6, <2>8, <2>9
<1>. QED  BY <1>6, <1>7
-------------------------------------------------------------------------------
(* What the trail and the history have to do with each other.              *)

\* Loops and its like, of any trail.
LoopsOf(t, p, k) ==
    /\ Len(t) >= p * k
    /\ \A i \in (Len(t) - p * k + 1)..Len(t) :
          /\ Failing(t[i])
          /\ i + p <= Len(t) => t[i].print = t[i + p].print

Fails(t, k) == Len(t) >= k /\ \A i \in (Len(t) - k + 1)..Len(t) : t[i].kind = "failed"

Breaks(t, k) ==
    /\ Len(t) >= k
    /\ \A i \in (Len(t) - k + 1)..Len(t) : t[i].kind = "malformed" /\ t[i].print = t[Len(t)].print

\* h is the prints of the newest rounds of t, all of which failed.
TailOf(h, t) ==
    /\ h \in Seq(Prints) /\ Len(h) <= Len(t) /\ Len(h) <= MaxHistory
    /\ \A j \in 0..(Len(h) - 1) : h[Len(h) - j] = FailedAt(t)[j]
    /\ Len(h) \in {MaxHistory, Len(t)} \/ FailedAt(t)[Len(h)] = None

\* c counts the newest rounds in which everything failed.
ErrorsOf(c, t) ==
    /\ c \in 0..Len(t) /\ \A j \in 0..(c - 1) : t[Len(t) - j].kind = "failed"
    /\ c < Len(t) => t[Len(t) - c].kind # "failed"

LEMMA PrintsAre ==
    ASSUME NEW t \in Seq(Round), NEW j \in 0..(Len(t) - 1)
    PROVE  /\ Len(t) - j \in DOMAIN t /\ t[Len(t) - j] \in Round
           /\ Failing(t[Len(t) - j]) => FailedAt(t)[j] = t[Len(t) - j].print
           /\ ~ Failing(t[Len(t) - j]) => FailedAt(t)[j] = None
           /\ FailedAt(t)[j] # None <=> Failing(t[Len(t) - j])
           /\ FailedAt(t)[j] \in Prints \cup {None}
           /\ MalformedAt(t)[j] # None <=> t[Len(t) - j].kind = "malformed"
           /\ t[Len(t) - j].kind = "malformed" => MalformedAt(t)[j] = t[Len(t) - j].print
<1>1. Len(t) - j \in 1..Len(t)
  OBVIOUS
<1>2. t[Len(t) - j] \in Round
  BY <1>1
<1>3. t[Len(t) - j].print # None /\ t[Len(t) - j].print \in Prints
  BY <1>2, ConstantsAssumption DEF Round
<1>. QED  BY <1>1, <1>2, <1>3 DEF FailedAt, MalformedAt, FailurePrint, MalformedPrint, Failing

\* The newest k rounds are the same failure each like the next, and so each like
\* the newest.
LEMMA AlikeLoops ==
    ASSUME NEW t \in Seq(Round), NEW k \in Nat \ {0}
    PROVE  Alike(k, Len(t), FailedAt(t)) <=> LoopsOf(t, 1, k)
<1> DEFINE n == Len(t)
           at == FailedAt(t)
<1>1. n \in Nat /\ 1 * k = k
  OBVIOUS
<1>2. ASSUME Alike(k, n, at) PROVE LoopsOf(t, 1, k)
  <2>. SUFFICES ASSUME NEW i \in (n - k + 1)..n
                PROVE  Failing(t[i]) /\ (i + 1 <= n => t[i].print = t[i + 1].print)
    BY <1>1, <1>2 DEF LoopsOf, Alike
  <2>1. n - i \in 0..(k - 1) /\ n - i \in 0..(n - 1) /\ n - (n - i) = i
    BY <1>1, <1>2 DEF Alike
  <2>2. Failing(t[i]) /\ at[n - i] = t[i].print
    BY <1>2, <2>1, PrintsAre DEF Alike
  <2>3. ASSUME i + 1 <= n PROVE t[i].print = t[i + 1].print
    <3>1. n - (i + 1) \in 0..(k - 1) /\ n - (i + 1) \in 0..(n - 1) /\ n - (n - (i + 1)) = i + 1
      BY <1>1, <2>1, <2>3
    <3>2. at[n - (i + 1)] = t[i + 1].print
      BY <1>2, <3>1, PrintsAre DEF Alike
    <3>. QED  BY <1>2, <2>1, <2>2, <3>1, <3>2 DEF Alike
  <2>. QED  BY <2>2, <2>3
<1>3. ASSUME LoopsOf(t, 1, k) PROVE Alike(k, n, at)
  <2>1. k <= n
    BY <1>1, <1>3 DEF LoopsOf
  <2>2. ASSUME NEW j \in 0..(k - 1)
        PROVE  /\ n - j \in (n - k + 1)..n /\ j \in 0..(n - 1)
               /\ at[j] # None /\ at[j] = t[n - j].print
    <3>1. n - j \in (n - k + 1)..n /\ j \in 0..(n - 1)
      BY <1>1, <2>1
    <3>2. Failing(t[n - j])
      BY <1>1, <1>3, <3>1 DEF LoopsOf
    <3>. QED  BY <3>1, <3>2, PrintsAre
  <2> DEFINE S == {j \in Nat : j < k => at[j] = at[0]}
  <2>3. 0 \in S
    OBVIOUS
  <2>4. ASSUME NEW j \in S PROVE j + 1 \in S
    <3>. SUFFICES ASSUME j + 1 < k PROVE at[j + 1] = at[0]
      OBVIOUS
    <3>1. /\ j \in 0..(k - 1) /\ j + 1 \in 0..(k - 1) /\ at[j] = at[0]
          /\ n - (j + 1) + 1 = n - j /\ n - j <= n
      BY <1>1
    <3>2. t[n - (j + 1)].print = t[n - j].print
      BY <1>1, <1>3, <2>2, <3>1 DEF LoopsOf
    <3>. QED  BY <2>2, <3>1, <3>2
  <2>. HIDE DEF S
  <2>5. S = Nat
    <3>1. S \in SUBSET Nat
      BY DEF S
    <3>. QED  BY <2>3, <2>4, <3>1, SetInduction
  <2>6. \A j \in 0..(k - 1) : at[j] = at[0]
    BY <2>5 DEF S
  <2>. QED  BY <2>1, <2>2, <2>6 DEF Alike
<1>. QED  BY <1>2, <1>3

LEMMA AlikeBreaks ==
    ASSUME NEW t \in Seq(Round), NEW k \in Nat \ {0}
    PROVE  Alike(k, Len(t), MalformedAt(t)) <=> Breaks(t, k)
<1> DEFINE n == Len(t)
<1>1. n \in Nat
  OBVIOUS
<1>2. ASSUME Alike(k, n, MalformedAt(t)) PROVE Breaks(t, k)
  <2>1. k <= n /\ n - 0 = n /\ 0 \in 0..(n - 1) /\ 0 \in 0..(k - 1)
    BY <1>1, <1>2 DEF Alike
  <2>2. ASSUME NEW i \in (n - k + 1)..n PROVE t[i].kind = "malformed" /\ t[i].print = MalformedAt(t)[0]
    <3>1. n - i \in 0..(k - 1) /\ n - i \in 0..(n - 1) /\ n - (n - i) = i
      BY <1>1, <2>1
    <3>. QED  BY <1>2, <3>1, PrintsAre DEF Alike
  <2>3. n \in (n - k + 1)..n
    BY <1>1, <2>1
  <2>. QED  BY <2>1, <2>2, <2>3 DEF Breaks
<1>3. ASSUME Breaks(t, k) PROVE Alike(k, n, MalformedAt(t))
  <2>1. k <= n
    BY <1>3 DEF Breaks
  <2>2. ASSUME NEW j \in 0..(k - 1)
        PROVE  MalformedAt(t)[j] # None /\ MalformedAt(t)[j] = t[n].print
    <3>1. n - j \in (n - k + 1)..n /\ j \in 0..(n - 1)
      BY <1>1, <2>1
    <3>. QED  BY <1>3, <3>1, PrintsAre DEF Breaks
  <2>3. 0 \in 0..(k - 1)
    OBVIOUS
  <2>. QED  BY <2>1, <2>2, <2>3 DEF Alike
<1>. QED  BY <1>2, <1>3
-------------------------------------------------------------------------------
(* One more round.                                                         *)

LEMMA WindowIs ==
    /\ Window \in Nat \ {0} /\ MaxHistory \in Nat \ {0} /\ MaxHistory <= Window
    /\ AllErrorLimit <= Window /\ FailureLimit <= Window /\ MalformedLimit <= Window
<1> DEFINE sizes == {MaxHistory, AllErrorLimit, FailureLimit, MalformedLimit}
           all   == MaxHistory + AllErrorLimit + FailureLimit + MalformedLimit
<1>1. MaxHistory \in Nat \ {0}
  BY ConstantsAssumption DEF MaxHistory
<1>2. AllErrorLimit \in Nat \ {0} /\ FailureLimit \in Nat /\ MalformedLimit \in Nat
  BY ConstantsAssumption
<1>3. sizes \in SUBSET (0..all) /\ sizes # {} /\ all \in Nat
  BY <1>1, <1>2
<1>4. Max(sizes) \in sizes /\ \A x \in sizes : x <= Max(sizes)
  <2>. HIDE DEF sizes, all
  <2>. QED  BY <1>3, MaxOf
<1>5. Window = Max(sizes)
  BY Zenon DEF Window
<1>. QED  BY <1>1, <1>2, <1>4, <1>5

\* t2 is t after the round r: t without its oldest round when it is full.
Newer(t, t2, r) ==
    /\ t2 \in Seq(Round) /\ Len(t) <= Window
    /\ Len(t2) = IF Len(t) = Window THEN Len(t) ELSE Len(t) + 1
    /\ t2[Len(t2)] = r
    /\ \A j \in 0..(Len(t2) - 2) : t2[Len(t2) - (j + 1)] = t[Len(t) - j]

Noted(t, r) == IF Len(t) = Window THEN Append(Tail(t), r) ELSE Append(t, r)

LEMMA NotedIs ==
    ASSUME NEW t \in Seq(Round), NEW r \in Round, Len(t) <= Window
    PROVE  Newer(t, Noted(t, r), r)
<1>1. Window \in Nat \ {0}
  BY WindowIs
<1>2. CASE Len(t) = Window
  <2> DEFINE u == Tail(t)
  <2>1. Noted(t, r) = Append(u, r)
    BY <1>2 DEF Noted
  <2>2. u \in Seq(Round) /\ Len(u) = Len(t) - 1 /\ \A i \in 1..Len(u) : u[i] = t[i + 1]
    BY <1>1, <1>2
  <2>. HIDE DEF u
  <2>3. Append(u, r) \in Seq(Round) /\ Len(Append(u, r)) = Len(t) /\ Append(u, r)[Len(t)] = r
    BY <1>1, <1>2, <2>2
  <2>4. ASSUME NEW j \in 0..(Len(t) - 2) PROVE Append(u, r)[Len(t) - (j + 1)] = t[Len(t) - j]
    <3>1. Len(t) - (j + 1) \in 1..Len(u) /\ Len(t) - (j + 1) + 1 = Len(t) - j
      BY <1>1, <1>2, <2>2
    <3>. QED  BY <2>2, <3>1
  <2>. QED  BY <1>2, <2>1, <2>3, <2>4 DEF Newer
<1>3. CASE Len(t) # Window
  <2>1. Noted(t, r) = Append(t, r)
    BY <1>3 DEF Noted
  <2>2. Append(t, r) \in Seq(Round) /\ Len(Append(t, r)) = Len(t) + 1 /\ Append(t, r)[Len(t) + 1] = r
    OBVIOUS
  <2>3. ASSUME NEW j \in 0..(Len(t) - 1) PROVE Append(t, r)[Len(t) + 1 - (j + 1)] = t[Len(t) - j]
    <3>1. Len(t) - j \in 1..Len(t) /\ Len(t) + 1 - (j + 1) = Len(t) - j
      OBVIOUS
    <3>. QED  BY <3>1
  <2>. QED  BY <1>3, <2>1, <2>2, <2>3 DEF Newer
<1>. QED  BY <1>2, <1>3

LEMMA NewerIs ==
    ASSUME NEW t \in Seq(Round), NEW t2, NEW r \in Round, Newer(t, t2, r)
    PROVE  /\ Len(t2) \in 1..Window /\ t2 # <<>>
           /\ Seen(Len(t), FailedAt(t), Window, FailurePrint(r), Len(t2), FailedAt(t2))
           /\ Seen(Len(t), MalformedAt(t), Window, MalformedPrint(r), Len(t2), MalformedAt(t2))
<1>1. Window \in Nat \ {0} /\ Len(t) \in 0..Window /\ t2 \in Seq(Round)
  BY WindowIs DEF Newer
<1>2. Len(t2) \in 1..Window
  BY <1>1 DEF Newer
<1>3. 0 \in 0..(Len(t2) - 1) /\ Len(t2) - 0 = Len(t2)
  BY <1>2
<1>4. FailedAt(t2)[0] = FailurePrint(r) /\ MalformedAt(t2)[0] = MalformedPrint(r)
  BY <1>3 DEF FailedAt, MalformedAt, Newer
<1>5. ASSUME NEW j \in 0..(Len(t2) - 2)
      PROVE  FailedAt(t2)[j + 1] = FailedAt(t)[j] /\ MalformedAt(t2)[j + 1] = MalformedAt(t)[j]
  <2>1. j + 1 \in 0..(Len(t2) - 1) /\ j \in 0..(Len(t) - 1)
    BY <1>1, <1>2 DEF Newer
  <2>2. t2[Len(t2) - (j + 1)] = t[Len(t) - j]
    BY DEF Newer
  <2>. QED  BY <2>1, <2>2 DEF FailedAt, MalformedAt
<1>. QED  BY <1>2, <1>4, <1>5 DEF Seen, Newer

LEMMA ErrorsStep ==
    ASSUME NEW t \in Seq(Round), NEW t2, NEW r \in Round, Newer(t, t2, r),
           NEW c, ErrorsOf(c, t), c < Window
    PROVE  ErrorsOf(IF r.kind = "failed" THEN c + 1 ELSE 0, t2)
<1>1. Window \in Nat \ {0} /\ Len(t) \in 0..Window /\ Len(t2) \in 1..Window /\ c \in 0..Len(t)
  BY WindowIs, NewerIs DEF Newer, ErrorsOf
<1>2. CASE r.kind # "failed"
  <2>1. t2[Len(t2) - 0].kind # "failed"
    BY <1>1, <1>2 DEF Newer
  <2>. QED  BY <1>1, <1>2, <2>1 DEF ErrorsOf
<1>3. CASE r.kind = "failed"
  <2>1. c + 1 \in 0..Len(t2)
    BY <1>1 DEF Newer
  <2>2. ASSUME NEW j \in 0..c PROVE t2[Len(t2) - j].kind = "failed"
    <3>1. CASE j = 0
      BY <1>1, <1>3, <3>1 DEF Newer
    <3>2. CASE j > 0
      <4>1. j - 1 \in 0..(Len(t2) - 2) /\ j - 1 \in 0..(c - 1) /\ (j - 1) + 1 = j
        BY <1>1, <2>1, <3>2
      <4>2. t2[Len(t2) - j] = t[Len(t) - (j - 1)]
        BY <4>1 DEF Newer
      <4>. QED  BY <4>1, <4>2 DEF ErrorsOf
    <3>. QED  BY <3>1, <3>2
  <2>3. ASSUME c + 1 < Len(t2) PROVE t2[Len(t2) - (c + 1)].kind # "failed"
    <3>1. c \in 0..(Len(t2) - 2) /\ c < Len(t)
      BY <1>1, <2>3 DEF Newer
    <3>2. t2[Len(t2) - (c + 1)] = t[Len(t) - c]
      BY <3>1 DEF Newer
    <3>. QED  BY <3>1, <3>2 DEF ErrorsOf
  <2>4. (c + 1) - 1 = c
    BY <1>1
  <2>. QED  BY <1>3, <2>1, <2>2, <2>3, <2>4 DEF ErrorsOf
<1>. QED  BY <1>2, <1>3

LEMMA ErrorsIs ==
    ASSUME NEW t \in Seq(Round), NEW c, ErrorsOf(c, t), NEW k \in Nat \ {0}
    PROVE  c >= k <=> Fails(t, k)
<1>1. c \in 0..Len(t) /\ Len(t) \in Nat
  BY DEF ErrorsOf
<1>2. ASSUME c >= k PROVE Fails(t, k)
  <2>. SUFFICES ASSUME NEW i \in (Len(t) - k + 1)..Len(t) PROVE t[i].kind = "failed"
    BY <1>1, <1>2 DEF Fails
  <2>1. Len(t) - i \in 0..(c - 1) /\ Len(t) - (Len(t) - i) = i
    BY <1>1, <1>2
  <2>. QED  BY <2>1 DEF ErrorsOf
<1>3. ASSUME Fails(t, k), c < k PROVE FALSE
  <2>1. Len(t) - c \in (Len(t) - k + 1)..Len(t) /\ c < Len(t)
    BY <1>1, <1>3 DEF Fails
  <2>. QED  BY <1>3, <2>1 DEF Fails, ErrorsOf
<1>. QED  BY <1>1, <1>2, <1>3

LEMMA RememberTail ==
    ASSUME FailureLimit > 0, NEW t \in Seq(Round), NEW t2, NEW r \in Round, Newer(t, t2, r),
           NEW h, TailOf(h, t)
    PROVE  TailOf(Remember(h, FailurePrint(r)), t2)
<1> DEFINE print == FailurePrint(r)
           h2 == Remember(h, print)
           n == Len(t)
           n2 == Len(t2)
           m == Len(h)
<1>1. /\ Window \in Nat \ {0} /\ MaxHistory \in Nat \ {0} /\ MaxHistory <= Window
      /\ n \in 0..Window /\ n2 \in 1..Window
      /\ n2 = IF n = Window THEN n ELSE n + 1
  BY WindowIs, NewerIs DEF Newer
<1>2. Seen(n, FailedAt(t), Window, print, n2, FailedAt(t2))
  BY NewerIs
<1>3. print \in Prints \cup {None}
  BY DEF FailurePrint, Round
<1>4. FailureLimit \in Nat \ {0}
  BY ConstantsAssumption
<1>5. h \in Seq(Prints) /\ m \in Nat /\ m <= n /\ m <= MaxHistory
  BY DEF TailOf
<1>6. CASE print = None
  <2>1. h2 = <<>> /\ Len(h2) = 0
    BY <1>6 DEF Remember
  <2>2. FailedAt(t2)[0] = None
    BY <1>2, <1>6 DEF Seen
  <2>. QED  BY <1>1, <2>1, <2>2 DEF TailOf
<1>7. CASE print # None
  <2>. SUFFICES TailOf(h2, t2)
    OBVIOUS
  <2> DEFINE m2 == Len(h2)
  <2>1. print \in Prints
    BY <1>3, <1>7
  <2>2. /\ h2 \in Seq(Prints) /\ m2 = (IF m = MaxHistory THEN m ELSE m + 1)
        /\ h2[m2] = print
        /\ \A j \in 1..(m2 - 1) : h2[m2 - j] = h[m - (j - 1)]
    <3>1. CASE m = MaxHistory
      <4> DEFINE u == Tail(h)
      <4>1. h2 = Append(u, print)
        BY <1>4, <1>7, <3>1 DEF Remember
      <4>2. u \in Seq(Prints) /\ Len(u) = m - 1 /\ \A i \in 1..Len(u) : u[i] = h[i + 1]
        BY <1>1, <1>5, <3>1
      <4>. HIDE DEF u, h2
      <4>3. h2 \in Seq(Prints) /\ m2 = m /\ h2[m] = print /\ \A i \in 1..(m - 1) : h2[i] = u[i]
        BY <1>1, <1>5, <2>1, <3>1, <4>1, <4>2
      <4>4. ASSUME NEW j \in 1..(m - 1) PROVE h2[m - j] = h[m - (j - 1)]
        <5>1. m - j \in 1..(m - 1) /\ m - j \in 1..Len(u) /\ m - j + 1 = m - (j - 1)
          BY <1>5, <4>2
        <5>. QED  BY <4>2, <4>3, <5>1
      <4>. QED  BY <3>1, <4>3, <4>4
    <3>2. CASE m # MaxHistory
      <4>1. h2 = Append(h, print)
        BY <1>4, <1>7, <3>2 DEF Remember
      <4>. HIDE DEF h2
      <4>2. /\ h2 \in Seq(Prints) /\ m2 = m + 1 /\ h2[m + 1] = print
            /\ \A i \in 1..m : h2[i] = h[i]
        BY <1>5, <2>1, <4>1
      <4>3. ASSUME NEW j \in 1..m PROVE h2[m + 1 - j] = h[m - (j - 1)]
        <5>1. m + 1 - j \in 1..m /\ m + 1 - j = m - (j - 1)
          BY <1>5
        <5>. QED  BY <4>2, <5>1
      <4>. QED  BY <1>5, <3>2, <4>2, <4>3
    <3>. QED  BY <3>1, <3>2
  <2>. HIDE DEF h2, print
  <2>3. m2 \in Nat \ {0} /\ m2 <= n2 /\ m2 <= MaxHistory
    BY <1>1, <1>5, <2>2
  <2>4. ASSUME NEW j \in 0..(m2 - 1) PROVE h2[m2 - j] = FailedAt(t2)[j]
    <3>1. CASE j = 0
      BY <1>2, <2>2, <2>3, <3>1 DEF Seen
    <3>2. CASE j > 0
      <4>1. j \in 1..(m2 - 1) /\ j - 1 \in 0..(m - 1) /\ j - 1 \in 0..(n2 - 2) /\ (j - 1) + 1 = j
        BY <1>5, <2>2, <2>3, <3>2
      <4>2. h2[m2 - j] = h[m - (j - 1)]
        BY <2>2, <4>1
      <4>3. h[m - (j - 1)] = FailedAt(t)[j - 1]
        BY <4>1 DEF TailOf
      <4>4. FailedAt(t2)[(j - 1) + 1] = FailedAt(t)[j - 1]
        BY <1>2, <4>1 DEF Seen
      <4>. QED  BY <4>1, <4>2, <4>3, <4>4
    <3>. QED  BY <2>3, <3>1, <3>2
  <2>5. m2 \in {MaxHistory, n2} \/ FailedAt(t2)[m2] = None
    <3>. SUFFICES ASSUME m2 # MaxHistory, m2 # n2 PROVE FailedAt(t2)[m2] = None
      OBVIOUS
    <3>1. m # MaxHistory /\ m2 = m + 1
      BY <1>1, <2>2
    <3>2. m # n
      BY <1>1, <1>5, <2>3, <3>1
    <3>3. FailedAt(t)[m] = None
      BY <3>1, <3>2 DEF TailOf
    <3>4. m \in 0..(n2 - 2)
      BY <1>1, <1>5, <2>3, <3>1
    <3>5. FailedAt(t2)[m + 1] = FailedAt(t)[m]
      BY <1>2, <3>4 DEF Seen
    <3>. QED  BY <3>1, <3>3, <3>5
  <2>. QED  BY <2>2, <2>3, <2>4, <2>5 DEF TailOf
<1>. QED  BY <1>6, <1>7 DEF print

\* The rounds go round with a period when the history does: it is long enough.
LEMMA LoopsIs ==
    ASSUME NEW t \in Seq(Round), NEW h, TailOf(h, t), NEW p \in Nat \ {0}, NEW k \in Nat \ {0},
           p * k <= MaxHistory
    PROVE  LoopsOf(t, p, k) <=> p * k <= Len(h) /\ Repeats(h, p, k)
<1> DEFINE n == Len(t)
           m == Len(h)
           q == p * k
<1>1. MaxHistory \in Nat \ {0} /\ n \in Nat /\ m \in 0..n /\ m <= MaxHistory /\ h \in Seq(Prints)
  BY WindowIs DEF TailOf
<1>2. q \in Nat \ {0} /\ p <= q /\ (k - 1) * p = q - p
  OBVIOUS
<1>3. LoopsOf(t, p, k) <=>
        /\ n >= q
        /\ \A i \in (n - q + 1)..n : /\ Failing(t[i])
                                     /\ i + p <= n => t[i].print = t[i + p].print
  BY DEF LoopsOf
<1>4. Repeats(h, p, k) <=> \A i \in 0..(q - p - 1) : h[m - i] = h[m - i - p]
  BY <1>2 DEF Repeats
<1>a. q <= MaxHistory
  OBVIOUS
<1>. HIDE DEF q
<1>5. ASSUME LoopsOf(t, p, k) PROVE q <= m /\ Repeats(h, p, k)
  <2>1. q <= m
    <3>. SUFFICES ASSUME m < q PROVE FALSE
      BY <1>1, <1>2
    <3>1. m # MaxHistory /\ m # n /\ m \in 0..(n - 1) /\ n - m \in (n - q + 1)..n
      BY <1>1, <1>2, <1>3, <1>5, <1>a
    <3>2. FailedAt(t)[m] = None
      BY <3>1 DEF TailOf
    <3>3. Failing(t[n - m])
      BY <1>3, <1>5, <3>1
    <3>. QED  BY <3>1, <3>2, <3>3, PrintsAre
  <2>2. ASSUME NEW j \in 0..(q - 1) PROVE h[m - j] = t[n - j].print
    <3>1. j \in 0..(m - 1) /\ j \in 0..(n - 1) /\ n - j \in (n - q + 1)..n
      BY <1>1, <1>2, <2>1
    <3>2. h[m - j] = FailedAt(t)[j]
      BY <3>1 DEF TailOf
    <3>3. Failing(t[n - j])
      BY <1>3, <1>5, <3>1
    <3>. QED  BY <3>1, <3>2, <3>3, PrintsAre
  <2>3. ASSUME NEW i \in 0..(q - p - 1) PROVE h[m - i] = h[m - i - p]
    <3>1. /\ i \in 0..(q - 1) /\ i + p \in 0..(q - 1) /\ m - (i + p) = m - i - p
          /\ n - (i + p) \in (n - q + 1)..n /\ n - (i + p) + p = n - i /\ n - i <= n
      BY <1>1, <1>2, <2>1
    <3>2. t[n - (i + p)].print = t[n - i].print
      BY <1>3, <1>5, <3>1
    <3>. QED  BY <2>2, <3>1, <3>2
  <2>. QED  BY <1>4, <2>1, <2>3
<1>6. ASSUME q <= m, Repeats(h, p, k) PROVE LoopsOf(t, p, k)
  <2>1. ASSUME NEW j \in 0..(q - 1)
        PROVE  j \in 0..(n - 1) /\ Failing(t[n - j]) /\ h[m - j] = t[n - j].print
    <3>1. j \in 0..(m - 1) /\ j \in 0..(n - 1) /\ m - j \in 1..m
      BY <1>1, <1>2, <1>6
    <3>2. h[m - j] = FailedAt(t)[j]
      BY <3>1 DEF TailOf
    <3>3. h[m - j] \in Prints
      BY <1>1, <3>1
    <3>4. h[m - j] # None
      BY <3>3, ConstantsAssumption
    <3>. QED  BY <3>1, <3>2, <3>4, PrintsAre
  <2>2. ASSUME NEW i \in (n - q + 1)..n
        PROVE  Failing(t[i]) /\ (i + p <= n => t[i].print = t[i + p].print)
    <3>1. n - i \in 0..(q - 1) /\ n - (n - i) = i
      BY <1>1, <1>2
    <3>2. Failing(t[i]) /\ h[m - (n - i)] = t[i].print
      BY <2>1, <3>1
    <3>3. ASSUME i + p <= n PROVE t[i].print = t[i + p].print
      <4> DEFINE j == n - i - p
      <4>1. /\ j \in 0..(q - 1) /\ j \in 0..(q - p - 1) /\ n - j = i + p
            /\ m - j - p = m - (n - i)
        BY <1>1, <1>2, <3>1, <3>3
      <4>. HIDE DEF j
      <4>2. h[m - j] = t[i + p].print
        BY <2>1, <4>1
      <4>3. h[m - j] = h[m - j - p]
        BY <1>4, <1>6, <4>1
      <4>. QED  BY <3>2, <4>1, <4>2, <4>3
    <3>. QED  BY <3>2, <3>3
  <2>3. n >= q
    BY <1>1, <1>2, <1>6
  <2>. QED  BY <1>3, <2>2, <2>3
<1>. QED  BY <1>5, <1>6 DEF q

\* A cycle that has gone round three times had gone round twice a round before.
LEMMA CyclesBefore ==
    ASSUME NEW h \in Seq(Prints), Len(h) <= MaxHistory, NEW print \in Prints \cup {None},
           NEW k \in Nat \ {0, 1, 2}, Cycles(Remember(h, print), k)
    PROVE  print # None /\ FailureLimit # 0 /\ Cycles(h, 2)
<1> DEFINE h2 == Remember(h, print)
           m == Len(h)
<1>1. MaxHistory \in Nat \ {0} /\ m \in Nat
  BY WindowIs
<1>2. PICK p \in 2..MaxPeriod : p * k <= Len(h2) /\ Repeats(h2, p, k)
  BY DEF Cycles
<1>3. p \in Nat /\ p >= 2 /\ p * k >= p * 3 /\ p * 3 >= 6 /\ (k - 1) * p = p * k - p /\ p * k \in Nat
  BY ConstantsAssumption
<1>4. print # None /\ FailureLimit # 0
  <2>. SUFFICES ASSUME print = None \/ FailureLimit = 0 PROVE FALSE
    OBVIOUS
  <2>1. Len(h2) = 0
    BY DEF Remember
  <2>. QED  BY <1>2, <1>3, <2>1
<1>5. /\ Len(h2) \in 1..(m + 1)
      /\ \A j \in 1..(Len(h2) - 1) : h2[Len(h2) - j] = h[m - (j - 1)]
  <2>1. CASE m = MaxHistory
    <3> DEFINE u == Tail(h)
    <3>1. h2 = Append(u, print)
      BY <1>4, <2>1 DEF Remember
    <3>2. u \in Seq(Prints) /\ Len(u) = m - 1 /\ \A i \in 1..Len(u) : u[i] = h[i + 1]
      BY <1>1, <2>1
    <3>. HIDE DEF u, h2
    <3>3. Len(h2) = m /\ \A i \in 1..(m - 1) : h2[i] = u[i]
      BY <1>1, <3>1, <3>2
    <3>4. ASSUME NEW j \in 1..(m - 1) PROVE h2[m - j] = h[m - (j - 1)]
      <4>1. m - j \in 1..(m - 1) /\ m - j \in 1..Len(u) /\ m - j + 1 = m - (j - 1)
        BY <1>1, <3>2
      <4>. QED  BY <3>2, <3>3, <4>1
    <3>. QED  BY <1>1, <2>1, <3>3, <3>4
  <2>2. CASE m # MaxHistory
    <3>1. h2 = Append(h, print)
      BY <1>4, <2>2 DEF Remember
    <3>. HIDE DEF h2
    <3>2. Len(h2) = m + 1 /\ \A i \in 1..m : h2[i] = h[i]
      BY <1>1, <3>1
    <3>3. ASSUME NEW j \in 1..m PROVE h2[m + 1 - j] = h[m - (j - 1)]
      <4>1. m + 1 - j \in 1..m /\ m + 1 - j = m - (j - 1)
        BY <1>1
      <4>. QED  BY <3>2, <4>1
    <3>. QED  BY <1>1, <3>2, <3>3
  <2>. QED  BY <2>1, <2>2
<1>. HIDE DEF h2
<1> DEFINE q == p * k
<1>6. /\ q \in Nat /\ p * 2 <= m /\ p * 3 <= q /\ q <= Len(h2) /\ Len(h2) \in 1..(m + 1)
      /\ (k - 1) * p = q - p
  <2>1. q \in Nat /\ p * 3 <= q /\ q <= Len(h2) /\ (k - 1) * p = q - p
    BY <1>2, <1>3
  <2>. HIDE DEF q
  <2>2. Len(h2) \in 1..(m + 1)
    BY <1>5
  <2>3. p * 2 <= m
    BY <1>1, <1>3, <2>1, <2>2
  <2>. QED  BY <2>1, <2>2, <2>3
<1>. HIDE DEF q
<1>7. ASSUME NEW i \in 0..(p - 1) PROVE h[m - i] = h[m - i - p]
  <2>1. /\ i + 1 \in 1..(Len(h2) - 1) /\ i + 1 + p \in 1..(Len(h2) - 1)
        /\ (i + 1) - 1 = i /\ m - ((i + 1 + p) - 1) = m - i - p
        /\ i + 1 \in 0..(q - p - 1) /\ Len(h2) - (i + 1 + p) = Len(h2) - (i + 1) - p
    <3>. p \in Nat /\ p >= 2
      BY <1>3
    <3>. QED  BY <1>1, <1>6
  <2>2. h2[Len(h2) - (i + 1)] = h2[Len(h2) - (i + 1) - p]
    BY <1>2, <1>6, <2>1 DEF Repeats
  <2>3. h2[Len(h2) - (i + 1)] = h[m - ((i + 1) - 1)] /\ h2[Len(h2) - (i + 1 + p)] = h[m - ((i + 1 + p) - 1)]
    BY <1>5, <2>1
  <2>. QED  BY <2>1, <2>2, <2>3
<1>8. (2 - 1) * p - 1 = p - 1
  BY <1>3
<1>. QED  BY <1>4, <1>6, <1>7, <1>8 DEF Cycles, Repeats
-------------------------------------------------------------------------------
(* The invariant of the guards.  While the run is let go on, each tracker  *)
(* says what the newest rounds were, and has not reached its limit.        *)

GuardTypes ==
    /\ turns \in 0..MaxTurns
    /\ malformed \in [last : Prints \cup {None}, count : 0..turns]
    /\ failures \in [last : Prints \cup {None}, count : 0..turns]
    /\ allError \in 0..turns
    /\ history \in Seq(Prints) /\ Len(history) <= MaxHistory
    /\ cycleWarned \in BOOLEAN /\ alerted \in BOOLEAN
    /\ verdict \in Going \cup {"stop", "tool_failure", "turn_budget", "max_turns"}
    /\ trail \in Seq(Round) /\ Len(trail) <= Window

MalformedInv ==
    MalformedLimit > 0 =>
        Counts(malformed, Len(trail), MalformedAt(trail)) /\ malformed.count < MalformedLimit

FailureInv ==
    FailureLimit > 0 =>
        /\ Counts(failures, Len(trail), FailedAt(trail)) /\ failures.count < FailureLimit
        /\ ErrorsOf(allError, trail) /\ allError < AllErrorLimit
        /\ TailOf(history, trail) /\ ~ Cycles(history, MaxRepetitions)

\* A run in which failures add up has been warned since they began.
AlertInv ==
    /\ FailureLimit > ExactWarning /\ failures.count >= ExactWarning => alerted
    /\ cycleWarned => alerted
    /\ Cycles(history, CycleWarning) => alerted
    /\ FailureLimit > 0 /\ allError >= AllErrorWarning => alerted

GuardInv ==
    /\ GuardTypes /\ NoFalseAlarm /\ WarnedFirst
    /\ verdict \in Going => MalformedInv /\ FailureInv /\ AlertInv

GuardsInv == which = "guards" => GuardInv

\* Stuck and StuckMalformed, of any trail.
StuckOf(t) ==
    /\ FailureLimit > 0
    /\ \/ LoopsOf(t, 1, FailureLimit)
       \/ \E p \in 2..MaxPeriod : LoopsOf(t, p, MaxRepetitions)
       \/ Fails(t, AllErrorLimit)

BrokenOf(t) == MalformedLimit > 0 /\ Breaks(t, MalformedLimit)

LEMMA StuckIs ==
    ASSUME NEW t \in Seq(Round), FailureLimit > 0, NEW f, Counts(f, Len(t), FailedAt(t)),
           NEW c, ErrorsOf(c, t), NEW h, TailOf(h, t)
    PROVE  StuckOf(t) <=> \/ f.count >= FailureLimit
                          \/ Cycles(h, MaxRepetitions)
                          \/ c >= AllErrorLimit
<1>1. /\ FailureLimit \in Nat \ {0} /\ AllErrorLimit \in Nat \ {0} /\ Len(t) \in Nat
      /\ MaxRepetitions \in Nat \ {0} /\ MaxPeriod \in Nat
  BY ConstantsAssumption
<1>2. LoopsOf(t, 1, FailureLimit) <=> f.count >= FailureLimit
  <2>1. f.count >= FailureLimit <=> Alike(FailureLimit, Len(t), FailedAt(t))
    BY <1>1, CountIs
  <2>. QED  BY <1>1, <2>1, AlikeLoops
<1>3. Fails(t, AllErrorLimit) <=> c >= AllErrorLimit
  BY <1>1, ErrorsIs
<1>4. ASSUME NEW p \in 2..MaxPeriod
      PROVE  LoopsOf(t, p, MaxRepetitions) <=>
                p * MaxRepetitions <= Len(h) /\ Repeats(h, p, MaxRepetitions)
  <2>1. p \in Nat \ {0} /\ p * MaxRepetitions <= MaxPeriod * MaxRepetitions
    BY <1>1
  <2>2. p * MaxRepetitions <= MaxHistory
    BY <2>1 DEF MaxHistory
  <2>. QED  BY <1>1, <2>1, <2>2, LoopsIs
<1>5. (\E p \in 2..MaxPeriod : LoopsOf(t, p, MaxRepetitions)) <=> Cycles(h, MaxRepetitions)
  BY <1>4 DEF Cycles
<1>. QED  BY <1>2, <1>3, <1>5 DEF StuckOf

LEMMA BrokenIs ==
    ASSUME NEW t \in Seq(Round), MalformedLimit > 0, NEW f, Counts(f, Len(t), MalformedAt(t))
    PROVE  BrokenOf(t) <=> f.count >= MalformedLimit
<1>1. MalformedLimit \in Nat \ {0} /\ Len(t) \in Nat
  BY ConstantsAssumption
<1>2. f.count >= MalformedLimit <=> Alike(MalformedLimit, Len(t), MalformedAt(t))
  BY <1>1, CountIs
<1>. QED  BY <1>1, <1>2, AlikeBreaks DEF BrokenOf

LEMMA GuardInvImplies ==
    ASSUME GuardInv
    PROVE  TypeOK /\ NoRunaway /\ NoFalseAlarm /\ WarnedFirst
<1>1. TypeOK
  BY ConstantsAssumption DEF GuardInv, GuardTypes, TypeOK
<1>2. (Stuck <=> StuckOf(trail)) /\ (StuckMalformed <=> BrokenOf(trail))
  BY DEF Stuck, StuckOf, Loops, LoopsOf, Fails, StuckMalformed, BrokenOf, Breaks
<1>3. ASSUME verdict \in Going PROVE ~ Stuck /\ ~ StuckMalformed
  <2>1. MalformedInv /\ FailureInv /\ trail \in Seq(Round)
    BY <1>3 DEF GuardInv, GuardTypes
  <2>2. ~ StuckOf(trail)
    <3>1. CASE FailureLimit > 0
      <4>1. /\ Counts(failures, Len(trail), FailedAt(trail)) /\ failures.count < FailureLimit
            /\ ErrorsOf(allError, trail) /\ allError < AllErrorLimit
            /\ TailOf(history, trail) /\ ~ Cycles(history, MaxRepetitions)
        BY <2>1, <3>1 DEF FailureInv
      <4>2. failures.count \in Int /\ allError \in Int /\ FailureLimit \in Int /\ AllErrorLimit \in Int
        BY <4>1, ConstantsAssumption DEF Counts, ErrorsOf
      <4>. QED  BY <2>1, <3>1, <4>1, <4>2, StuckIs
    <3>2. CASE ~ (FailureLimit > 0)
      BY <3>2 DEF StuckOf
    <3>. QED  BY <3>1, <3>2
  <2>3. ~ BrokenOf(trail)
    <3>1. CASE MalformedLimit > 0
      <4>1. Counts(malformed, Len(trail), MalformedAt(trail)) /\ malformed.count < MalformedLimit
        BY <2>1, <3>1 DEF MalformedInv
      <4>2. malformed.count \in Int /\ MalformedLimit \in Int
        BY <4>1, ConstantsAssumption DEF Counts
      <4>. QED  BY <2>1, <3>1, <4>1, <4>2, BrokenIs
    <3>2. CASE ~ (MalformedLimit > 0)
      BY <3>2 DEF BrokenOf
    <3>. QED  BY <3>1, <3>2
  <2>. QED  BY <1>2, <2>2, <2>3
<1>. QED  BY <1>1, <1>3 DEF GuardInv, NoRunaway

LEMMA ObserveType ==
    ASSUME NEW n \in Nat, NEW t \in [last : Prints \cup {None}, count : 0..n],
           NEW print \in Prints \cup {None}
    PROVE  Observe(t, print) \in [last : Prints \cup {None}, count : 0..(n + 1)]
BY DEF Observe

LEMMA RememberType ==
    ASSUME NEW h \in Seq(Prints), Len(h) <= MaxHistory, NEW print \in Prints \cup {None}
    PROVE  Remember(h, print) \in Seq(Prints) /\ Len(Remember(h, print)) <= MaxHistory
<1>1. MaxHistory \in Nat \ {0}
  BY WindowIs
<1>. QED  BY <1>1 DEF Remember

LEMMA PrintTypes ==
    ASSUME NEW r \in Round
    PROVE  FailurePrint(r) \in Prints \cup {None} /\ MalformedPrint(r) \in Prints \cup {None}
BY DEF FailurePrint, MalformedPrint, Round

LEMMA GuardTypesStep ==
    ASSUME GuardTypes, NEW r \in Round, AfterToolRound(r)
    PROVE  GuardTypes' /\ Newer(trail, trail', r)
<1>1. /\ turns \in Nat /\ turns' = turns + 1 /\ turns' \in 0..MaxTurns
      /\ \A c \in 0..turns : c \in 0..turns'
  BY ConstantsAssumption DEF GuardTypes, AfterToolRound
<1>2. FailurePrint(r) \in Prints \cup {None} /\ MalformedPrint(r) \in Prints \cup {None}
  BY PrintTypes
<1>3. trail' = Noted(trail, r)
  BY DEF AfterToolRound, Note, Noted
<1>4. Newer(trail, trail', r)
  BY <1>3, NotedIs DEF GuardTypes
<1>5. trail' \in Seq(Round) /\ Len(trail') <= Window
  BY <1>4, NewerIs, WindowIs DEF GuardTypes, Newer
<1>6. /\ malformed \in [last : Prints \cup {None}, count : 0..turns']
      /\ failures \in [last : Prints \cup {None}, count : 0..turns'] /\ allError \in 0..turns'
  BY <1>1 DEF GuardTypes
<1>7. malformed' \in [last : Prints \cup {None}, count : 0..turns']
  <2>1. malformed' = Observe(malformed, MalformedPrint(r))
    BY DEF AfterToolRound, StopMalformed, Guard
  <2>. QED  BY <1>1, <1>2, <2>1, ObserveType DEF GuardTypes
<1>8. CASE StopMalformed(r)
  <2>1. /\ failures' = failures /\ allError' = allError /\ history' = history
        /\ cycleWarned' = cycleWarned /\ alerted' = alerted /\ verdict' = "stop"
    BY <1>8 DEF StopMalformed
  <2>2. /\ failures' \in [last : Prints \cup {None}, count : 0..turns'] /\ allError' \in 0..turns'
        /\ history' \in Seq(Prints) /\ Len(history') <= MaxHistory
        /\ cycleWarned' \in BOOLEAN /\ alerted' \in BOOLEAN
        /\ verdict' \in Going \cup {"stop", "tool_failure", "turn_budget", "max_turns"}
    BY <1>6, <2>1, Zenon DEF GuardTypes
  <2>. QED  BY <1>1, <1>4, <1>5, <1>7, <2>2, Zenon DEF GuardTypes
<1>9. CASE Guard(r)
  <2>1. /\ failures' = Observe(failures, FailurePrint(r))
        /\ allError' = (IF r.kind = "failed" THEN allError + 1 ELSE 0)
        /\ history' = Remember(history, FailurePrint(r))
    BY <1>9 DEF Guard
  <2>2. failures' \in [last : Prints \cup {None}, count : 0..turns']
    BY <1>1, <1>2, <2>1, ObserveType DEF GuardTypes
  <2>3. allError' \in 0..turns'
    BY <1>1, <2>1 DEF GuardTypes
  <2>4. history' \in Seq(Prints) /\ Len(history') <= MaxHistory
    BY <1>2, <2>1, RememberType DEF GuardTypes
  <2>5. verdict' \in Going \cup {"stop", "tool_failure", "turn_budget", "max_turns"}
    BY <1>9 DEF Guard, Warning, Going
  <2>6. cycleWarned' \in BOOLEAN /\ alerted' \in BOOLEAN
    BY <1>9 DEF Guard, GuardTypes
  <2>. QED  BY <1>1, <1>4, <1>5, <1>7, <2>2, <2>3, <2>4, <2>5, <2>6, Zenon DEF GuardTypes
<1>. QED  BY <1>4, <1>8, <1>9 DEF AfterToolRound

\* A round that does not stop the run as malformed.
LEMMA GuardStep ==
    ASSUME GuardInv, NEW r \in Round, AfterToolRound(r), Guard(r)
    PROVE  GuardInv'
<1> DEFINE print == FailurePrint(r)
<1>1. GuardTypes /\ GuardTypes' /\ Newer(trail, trail', r)
  BY GuardTypesStep DEF GuardInv
<1>2. MalformedInv /\ FailureInv /\ AlertInv
  BY DEF GuardInv, AfterToolRound
<1>3. /\ malformed' = Observe(malformed, MalformedPrint(r)) /\ failures' = Observe(failures, print)
      /\ allError' = (IF r.kind = "failed" THEN allError + 1 ELSE 0)
      /\ history' = Remember(history, print)
      /\ ~ Exceeded(malformed'.count, MalformedLimit)
  BY DEF Guard
<1>4. /\ trail \in Seq(Round) /\ trail' \in Seq(Round) /\ history \in Seq(Prints) /\ history' \in Seq(Prints)
      /\ Len(trail) \in Nat /\ Len(trail) <= Window /\ Len(history) <= MaxHistory
      /\ allError \in Nat /\ allError' \in Nat /\ failures.count \in Nat /\ failures'.count \in Nat
      /\ malformed'.count \in Nat /\ print \in Prints \cup {None} /\ cycleWarned \in BOOLEAN
  <2>1. /\ history' \in Seq(Prints) /\ failures' \in [last : Prints \cup {None}, count : 0..turns']
        /\ malformed' \in [last : Prints \cup {None}, count : 0..turns']
        /\ allError' \in 0..turns' /\ trail' \in Seq(Round)
    BY <1>1, Zenon DEF GuardTypes
  <2>. QED  BY <1>1, <2>1, PrintTypes DEF GuardTypes
<1>5. /\ Window \in Nat /\ FailureLimit \in Nat /\ MalformedLimit \in Nat /\ AllErrorLimit \in Nat
      /\ FailureLimit <= Window /\ MalformedLimit <= Window /\ AllErrorLimit <= Window
      /\ MaxRepetitions \in Nat \ {0, 1, 2} /\ AllErrorWarning \in Nat /\ AllErrorWarning < AllErrorLimit
  BY WindowIs, ConstantsAssumption
<1>6. /\ Seen(Len(trail), FailedAt(trail), Window, print, Len(trail'), FailedAt(trail'))
      /\ Seen(Len(trail), MalformedAt(trail), Window, MalformedPrint(r), Len(trail'), MalformedAt(trail'))
  BY <1>1, <1>4, NewerIs
<1>7. ASSUME MalformedLimit > 0 PROVE Counts(malformed', Len(trail'), MalformedAt(trail'))
  BY <1>2, <1>3, <1>4, <1>5, <1>6, <1>7, ObserveCounts DEF MalformedInv
<1>8. ASSUME FailureLimit > 0
      PROVE  /\ Counts(failures', Len(trail'), FailedAt(trail'))
             /\ ErrorsOf(allError', trail') /\ TailOf(history', trail')
  <2>1. /\ Counts(failures, Len(trail), FailedAt(trail)) /\ failures.count < FailureLimit
        /\ ErrorsOf(allError, trail) /\ allError < AllErrorLimit /\ TailOf(history, trail)
    BY <1>2, <1>8 DEF FailureInv
  <2>2. Counts(failures', Len(trail'), FailedAt(trail'))
    BY <1>3, <1>4, <1>5, <1>6, <2>1, ObserveCounts
  <2>3. ErrorsOf(allError', trail')
    <3>1. allError < Window
      BY <1>4, <1>5, <2>1
    <3>. QED  BY <1>1, <1>3, <1>4, <2>1, <3>1, ErrorsStep
  <2>4. TailOf(history', trail')
    BY <1>1, <1>3, <1>4, <1>8, <2>1, RememberTail
  <2>. QED  BY <2>2, <2>3, <2>4
<1>9. PICK cycle : cycle = DetectCycle(history')
  OBVIOUS
<1>10. /\ \A k \in Nat \ {0, 1} : cycle.repetitions >= k <=> Cycles(history', k)
       /\ cycle.repetitions \in Nat \ {1}
       /\ cycle.period # 0 => history' # <<>>
  BY <1>4, <1>9, DetectIs
<1>11. PICK warned \in BOOLEAN : warned = (cycleWarned /\ cycle.period # 0)
  OBVIOUS
<1>12. PICK tripped \in BOOLEAN :
          tripped = (\/ Exceeded(failures'.count, FailureLimit)
                     \/ cycle.repetitions >= MaxRepetitions
                     \/ FailureLimit > 0 /\ Exceeded(allError', AllErrorLimit))
  OBVIOUS
<1>13. /\ verdict' = (IF tripped THEN "tool_failure"
                      ELSE IF turns' >= MaxTurns THEN "turn_budget"
                      ELSE Warning(failures'.count, cycle, warned, allError'))
       /\ cycleWarned' = (warned \/ verdict' = "warn_cycle")
       /\ alerted' = (verdict' \in Going \ {"continue"} \/ (alerted /\ print # None))
  BY <1>9, <1>11, <1>12, <1>3 DEF Guard
<1>. HIDE DEF print
<1>14. \A k \in Nat \ {0, 1, 2} :
          Cycles(history', k) => print # None /\ FailureLimit # 0 /\ Cycles(history, 2)
  BY <1>3, <1>4, CyclesBefore
<1>15. tripped <=> StuckOf(trail')
  <2>1. cycle.repetitions >= MaxRepetitions <=> Cycles(history', MaxRepetitions)
    BY <1>5, <1>10
  <2>2. CASE FailureLimit > 0
    <3>1. StuckOf(trail') <=> \/ failures'.count >= FailureLimit
                              \/ Cycles(history', MaxRepetitions)
                              \/ allError' >= AllErrorLimit
      BY <1>4, <1>8, <2>2, StuckIs
    <3>. QED  BY <1>5, <1>12, <2>1, <2>2, <3>1 DEF Exceeded
  <2>3. CASE ~ (FailureLimit > 0)
    <3>1. ~ Cycles(history', MaxRepetitions)
      BY <1>5, <1>14, <2>3
    <3>. QED  BY <1>12, <2>1, <2>3, <3>1 DEF Exceeded, StuckOf
  <2>. QED  BY <2>2, <2>3
<1>16. Stuck' <=> StuckOf(trail')
  BY DEF Stuck, StuckOf, Loops, LoopsOf, Fails
<1>17. verdict' # "stop" /\ (verdict' = "tool_failure" <=> tripped) /\ ("tool_failure" \notin Going)
  BY <1>13 DEF Warning, Going
<1>18. NoFalseAlarm'
  BY <1>15, <1>16, <1>17 DEF NoFalseAlarm
<1>19. /\ FailureLimit > ExactWarning /\ failures'.count > ExactWarning => alerted /\ print # None
       /\ \A k \in Nat \ {0, 1, 2} : Cycles(history', k) => alerted /\ print # None
       /\ FailureLimit > 0 /\ allError' > AllErrorWarning => alerted /\ print # None
       /\ warned => alerted /\ print # None
  <2>1. ASSUME FailureLimit > ExactWarning, failures'.count > ExactWarning PROVE alerted /\ print # None
    <3>1. print # None /\ failures.count >= ExactWarning
      BY <1>3, <1>4, <2>1 DEF Observe, ExactWarning
    <3>. QED  BY <1>2, <2>1, <3>1 DEF AlertInv
  <2>2. ASSUME NEW k \in Nat \ {0, 1, 2}, Cycles(history', k) PROVE alerted /\ print # None
    BY <1>2, <1>14, <2>2 DEF AlertInv, CycleWarning
  <2>3. ASSUME FailureLimit > 0, allError' > AllErrorWarning PROVE alerted /\ print # None
    <3>1. r.kind = "failed" /\ allError >= AllErrorWarning
      BY <1>3, <1>4, <1>5, <2>3
    <3>2. print # None
      BY <3>1, ConstantsAssumption DEF print, FailurePrint, Round
    <3>. QED  BY <1>2, <2>3, <3>1, <3>2 DEF AlertInv
  <2>4. ASSUME warned PROVE alerted /\ print # None
    <3>1. cycleWarned /\ history' # <<>>
      BY <1>10, <1>11, <2>4
    <3>. QED  BY <1>2, <1>3, <3>1 DEF AlertInv, Remember
  <2>. QED  BY <2>1, <2>2, <2>3, <2>4
<1>20. WarnedFirst'
  <2>. SUFFICES ASSUME tripped, FailureLimit > ExactWarning PROVE alerted'
    BY <1>17 DEF WarnedFirst
  <2>1. alerted /\ print # None
    <3>1. CASE Exceeded(failures'.count, FailureLimit)
      BY <1>4, <1>5, <1>19, <3>1 DEF Exceeded, ExactWarning
    <3>2. CASE cycle.repetitions >= MaxRepetitions
      BY <1>5, <1>10, <1>19, <3>2
    <3>3. CASE FailureLimit > 0 /\ Exceeded(allError', AllErrorLimit)
      BY <1>4, <1>5, <1>19, <3>3 DEF Exceeded
    <3>. QED  BY <1>12, <3>1, <3>2, <3>3
  <2>. QED  BY <1>13, <2>1
<1>21. ASSUME verdict' \in Going PROVE MalformedInv' /\ FailureInv' /\ AlertInv'
  <2>1. ~ tripped /\ verdict' = Warning(failures'.count, cycle, warned, allError')
    BY <1>13, <1>17, <1>21 DEF Going
  <2>2. MalformedInv'
    <3>1. MalformedLimit > 0 => malformed'.count < MalformedLimit
      BY <1>3, <1>4, <1>5 DEF Exceeded
    <3>. QED  BY <1>7, <3>1 DEF MalformedInv
  <2>3. FailureInv'
    <3>1. /\ FailureLimit > 0 => failures'.count < FailureLimit /\ allError' < AllErrorLimit
          /\ ~ Cycles(history', MaxRepetitions)
      BY <1>4, <1>5, <1>10, <1>12, <2>1 DEF Exceeded
    <3>. QED  BY <1>8, <3>1 DEF FailureInv
  <2>4. AlertInv'
    <3>1. CASE alerted'
      BY <3>1 DEF AlertInv
    <3>2. CASE ~ alerted'
      <4>1. verdict' \notin {"warn_exact", "warn_cycle", "warn_all"} /\ ~ (alerted /\ print # None)
        BY <1>13, <3>2 DEF Going
      <4>2. ~ warned /\ ~ cycleWarned'
        BY <1>13, <1>19, <4>1
      <4>3. ~ (FailureLimit > ExactWarning /\ failures'.count >= ExactWarning)
        BY <1>4, <1>19, <2>1, <4>1 DEF Warning, ExactWarning
      <4>4. ~ Cycles(history', CycleWarning)
        <5>1. ~ (cycle.repetitions >= 3)
          BY <1>10, <1>19, <4>1
        <5>2. cycle.repetitions # 2
          BY <2>1, <4>1, <4>2 DEF Warning, CycleWarning
        <5>. QED  BY <1>10, <5>1, <5>2 DEF CycleWarning
      <4>5. ~ (FailureLimit > 0 /\ allError' >= AllErrorWarning)
        BY <1>4, <1>5, <1>19, <2>1, <4>1 DEF Warning
      <4>. QED  BY <4>2, <4>3, <4>4, <4>5 DEF AlertInv
    <3>. QED  BY <3>1, <3>2
  <2>. QED  BY <2>2, <2>3, <2>4
<1>. QED  BY <1>1, <1>18, <1>20, <1>21 DEF GuardInv

\* A round that does.
LEMMA StopStep ==
    ASSUME GuardInv, NEW r \in Round, AfterToolRound(r), StopMalformed(r)
    PROVE  GuardInv'
<1>1. GuardTypes' /\ Newer(trail, trail', r)
  BY GuardTypesStep DEF GuardInv
<1>2. malformed' = Observe(malformed, MalformedPrint(r)) /\ verdict' = "stop" /\ "stop" \notin Going
  BY DEF StopMalformed, Going
<1>3. Window \in Nat /\ MalformedLimit \in Nat /\ MalformedLimit <= Window
  BY WindowIs, ConstantsAssumption
<1>4. MalformedLimit > 0 /\ malformed'.count >= MalformedLimit
  BY <1>2 DEF StopMalformed, Exceeded
<1>5. /\ trail \in Seq(Round) /\ trail' \in Seq(Round) /\ Len(trail) \in Nat /\ Len(trail) <= Window
      /\ Counts(malformed, Len(trail), MalformedAt(trail)) /\ malformed.count < MalformedLimit
  BY <1>1, <1>4 DEF GuardInv, GuardTypes, AfterToolRound, MalformedInv, Newer
<1>6. Seen(Len(trail), MalformedAt(trail), Window, MalformedPrint(r), Len(trail'), MalformedAt(trail'))
  BY <1>1, <1>5, NewerIs
<1>7. Counts(malformed', Len(trail'), MalformedAt(trail'))
  BY <1>2, <1>3, <1>5, <1>6, ObserveCounts
<1>8. BrokenOf(trail')
  BY <1>4, <1>5, <1>7, BrokenIs
<1>9. StuckMalformed'
  BY <1>8 DEF StuckMalformed, BrokenOf, Breaks
<1>. QED  BY <1>1, <1>2, <1>9 DEF GuardInv, NoFalseAlarm, WarnedFirst

LEMMA GuardNext ==
    ASSUME GuardInv, [Next]_vars
    PROVE  GuardInv'
<1>1. CASE \E r \in Round : AfterToolRound(r)
  BY <1>1, GuardStep, StopStep DEF AfterToolRound
<1>2. ASSUME verdict' = verdict \/ (verdict' = "max_turns" /\ verdict' \notin Going),
             turns' = turns \/ (turns' = turns + 1 /\ turns < MaxTurns),
             UNCHANGED <<trackers, trail, alerted>>
      PROVE  GuardInv'
  <2>1. /\ malformed' = malformed /\ failures' = failures /\ allError' = allError
        /\ history' = history /\ cycleWarned' = cycleWarned /\ trail' = trail /\ alerted' = alerted
    BY <1>2 DEF trackers
  <2>2. turns' \in 0..MaxTurns /\ \A c \in 0..turns : c \in 0..turns'
    BY <1>2, ConstantsAssumption DEF GuardInv, GuardTypes
  <2>3. /\ malformed \in [last : Prints \cup {None}, count : 0..turns']
        /\ failures \in [last : Prints \cup {None}, count : 0..turns'] /\ allError \in 0..turns'
    BY <2>2 DEF GuardInv, GuardTypes
  <2>4. verdict' \in Going \cup {"stop", "tool_failure", "turn_budget", "max_turns"}
    BY <1>2 DEF GuardInv, GuardTypes
  <2>5. GuardTypes'
    BY <2>1, <2>2, <2>3, <2>4, Zenon DEF GuardInv, GuardTypes
  <2>6. (Stuck' <=> Stuck) /\ (StuckMalformed' <=> StuckMalformed)
    BY <2>1 DEF Stuck, Loops, StuckMalformed
  <2>7. NoFalseAlarm' /\ WarnedFirst'
    BY <1>2, <2>1, <2>6 DEF GuardInv, NoFalseAlarm, WarnedFirst
  <2>8. verdict' \in Going => MalformedInv' /\ FailureInv' /\ AlertInv'
    BY <1>2, <2>1 DEF GuardInv, MalformedInv, FailureInv, AlertInv
  <2>. QED  BY <2>5, <2>7, <2>8 DEF GuardInv
<1>3. CASE OtherTurn
  BY <1>2, <1>3 DEF OtherTurn
<1>4. CASE BudgetSpent
  BY <1>2, <1>4 DEF BudgetSpent, Going
<1>5. CASE UNCHANGED vars
  BY <1>2, <1>5 DEF vars
<1>. QED  BY <1>1, <1>3, <1>4, <1>5 DEF Next

LEMMA GuardStarts ==
    ASSUME Init
    PROVE  GuardInv
<1>1. MaxHistory \in Nat \ {0} /\ Window \in Nat \ {0}
  BY WindowIs
<1>2. GuardTypes
  <2>1. turns = 0 /\ turns \in 0..MaxTurns /\ 0 \in 0..turns
    BY ConstantsAssumption DEF Init
  <2>2. malformed = [last |-> None, count |-> 0] /\ failures = malformed /\ allError = 0
    BY DEF Init
  <2>3. <<>> \in Seq(Prints) /\ <<>> \in Seq(Round) /\ Len(<<>>) <= MaxHistory /\ Len(<<>>) <= Window
    BY <1>1
  <2>4. /\ malformed \in [last : Prints \cup {None}, count : 0..turns]
        /\ failures \in [last : Prints \cup {None}, count : 0..turns]
    BY <2>1, <2>2
  <2>5. verdict = "continue" /\ "continue" \in Going
    BY DEF Init, Going
  <2>. QED  BY <2>1, <2>2, <2>3, <2>4, <2>5, Zenon DEF Init, GuardTypes
<1>3. NoFalseAlarm /\ WarnedFirst
  BY DEF Init, NoFalseAlarm, WarnedFirst
<1>4. MalformedInv
  BY ConstantsAssumption DEF Init, MalformedInv, Counts
<1>5. ~ Cycles(history, MaxRepetitions) /\ ~ Cycles(history, CycleWarning)
  <2>1. ASSUME NEW k \in Nat \ {0}, NEW p \in 2..MaxPeriod PROVE p * k > Len(history)
    BY ConstantsAssumption DEF Init
  <2>2. CycleWarning \in Nat \ {0} /\ MaxRepetitions \in Nat \ {0} /\ Len(history) \in Nat
    BY ConstantsAssumption DEF Init, CycleWarning
  <2>3. \A p \in 2..MaxPeriod : ~ (p * MaxRepetitions <= Len(history)) /\ ~ (p * CycleWarning <= Len(history))
    BY <2>1, <2>2, ConstantsAssumption
  <2>. QED  BY <2>3 DEF Cycles
<1>6. FailureInv
  BY <1>1, <1>5, ConstantsAssumption DEF Init, FailureInv, Counts, ErrorsOf, TailOf
<1>7. AlertInv
  BY <1>5, ConstantsAssumption DEF Init, AlertInv, ExactWarning
<1>. QED  BY <1>2, <1>3, <1>4, <1>6, <1>7 DEF GuardInv

LEMMA GuardsInvAlways == WatchedSpec => []GuardsInv
<1>1. WatchedInit => GuardsInv
  BY GuardStarts DEF WatchedInit, GuardsInv
<1>2. GuardsInv /\ [WatchedNext]_<<which, vars, uiVars>> => GuardsInv'
  <2>. SUFFICES ASSUME GuardsInv, [WatchedNext]_<<which, vars, uiVars>>, which' = "guards"
                PROVE  GuardInv'
    BY DEF GuardsInv
  <2>1. which = "guards" /\ [Next]_vars
    BY DEF WatchedNext
  <2>. QED  BY <2>1, GuardNext DEF GuardsInv
<1>. QED  BY <1>1, <1>2, PTL DEF WatchedSpec

\* A run whose last rounds are a loop is never let go on, one that is stopped is
\* in a loop, and one finalized for its failures was warned since they began:
\* counting round by round, and remembering so many fingerprints, misses nothing,
\* for all limits, periods and repetitions (turn.rs 255-353, tool_call.rs).
THEOREM GuardsAlways == WatchedSpec => []GuardsHold
<1>1. GuardsInv => GuardsHold
  BY GuardInvImplies DEF GuardsInv, GuardsHold
<1>. QED  BY <1>1, GuardsInvAlways, PTL
-------------------------------------------------------------------------------
(* The terminal.  What the interface holds is well formed, and so is what  *)
(* any handler makes of it.                                                *)

UiStates ==
    [transcript : Seq(Entries), committed : Nat, assistant : Nat, thinking : Nat,
     tools : [Calls -> Nat], muted : SUBSET Calls, approval : Calls \cup {NoCall}, busy : BOOLEAN]

\* Every index is inside the transcript, and no entry shows more than it has.
Bounded(u) ==
    /\ u.committed <= Len(u.transcript)
    /\ u.assistant <= Len(u.transcript) /\ u.thinking <= Len(u.transcript)
    /\ \A c \in Calls : u.tools[c] <= Len(u.transcript)
    /\ \A i \in DOMAIN u.transcript : u.transcript[i].offset <= u.transcript[i].size

Good == {u \in UiStates : Bounded(u)}

\* The handler made w of u, and left the prompt alone.
Made(u, w) == w \in Good /\ w.approval = u.approval

\* The same interface with another transcript.
With(u, t, committed, assistant, thinking, tools, busy) ==
    [transcript |-> t, committed |-> committed, assistant |-> assistant, thinking |-> thinking,
     tools |-> tools, muted |-> u.muted, approval |-> u.approval, busy |-> busy]

PlainEvents == [what : {"start", "assistant", "thinking", "info"}, call : {NoCall}]
CallEvents ==
    [what : {"call", "request", "running", "cancelled", "done", "failed", "success", "error"},
     call : Calls]
Events == PlainEvents \cup CallEvents

LEMMA GoodIs ==
    ASSUME NEW u \in Good
    PROVE  /\ u \in UiStates /\ u.transcript \in Seq(Entries) /\ Len(u.transcript) \in Nat
           /\ u.committed \in 0..Len(u.transcript) /\ u.assistant \in 0..Len(u.transcript)
           /\ u.thinking \in 0..Len(u.transcript)
           /\ u.tools \in [Calls -> 0..Len(u.transcript)]
           /\ u.muted \in SUBSET Calls /\ u.approval \in Calls \cup {NoCall} /\ u.busy \in BOOLEAN
           /\ \A i \in DOMAIN u.transcript : /\ u.transcript[i] \in Entries
                                             /\ u.transcript[i].offset <= u.transcript[i].size
BY DEF Good, UiStates, Bounded

LEMMA ShapeIs ==
    ASSUME NEW u \in Good
    PROVE  u = With(u, u.transcript, u.committed, u.assistant, u.thinking, u.tools, u.busy)
<1>1. u \in UiStates
  BY DEF Good
<1>. QED  BY <1>1 DEF UiStates, With

LEMMA WithGood ==
    ASSUME NEW u \in Good, NEW t \in Seq(Entries),
           \A i \in DOMAIN t : t[i].offset <= t[i].size,
           NEW committed \in 0..Len(t), NEW assistant \in 0..Len(t), NEW thinking \in 0..Len(t),
           NEW tools \in [Calls -> 0..Len(t)], NEW busy \in BOOLEAN
    PROVE  Made(u, With(u, t, committed, assistant, thinking, tools, busy))
<1> DEFINE w == With(u, t, committed, assistant, thinking, tools, busy)
<1>1. Len(t) \in Nat /\ tools \in [Calls -> Nat]
  OBVIOUS
<1>2. u.muted \in SUBSET Calls /\ u.approval \in Calls \cup {NoCall}
  BY GoodIs
<1>3. w \in UiStates /\ w.approval = u.approval
  BY <1>1, <1>2 DEF With, UiStates
<1>4. Bounded(w)
  BY <1>1 DEF With, Bounded
<1>. QED  BY <1>3, <1>4 DEF Made, Good

LEMMA PushMade ==
    ASSUME NEW u \in Good, NEW e \in Entries, e.offset <= e.size
    PROVE  /\ Made(u, Push(u, e)) /\ Push(u, e).transcript = Append(u.transcript, e)
           /\ Len(Push(u, e).transcript) = Len(u.transcript) + 1
<1> DEFINE t == Append(u.transcript, e)
<1>1. t \in Seq(Entries) /\ Len(t) = Len(u.transcript) + 1 /\ \A i \in DOMAIN t : t[i].offset <= t[i].size
  BY GoodIs
<1>2. Push(u, e) = With(u, t, u.committed, u.assistant, u.thinking, u.tools, u.busy)
  <2>. HIDE DEF t
  <2>1. Push(u, e) = [u EXCEPT !.transcript = t]
    BY DEF Push, t
  <2>. QED  BY ShapeIs, <2>1 DEF With
<1>3. /\ u.committed \in 0..Len(t) /\ u.assistant \in 0..Len(t) /\ u.thinking \in 0..Len(t)
      /\ u.tools \in [Calls -> 0..Len(t)] /\ u.busy \in BOOLEAN
  <2>. HIDE DEF t
  <2>1. Len(u.transcript) \in Nat /\ \A k \in 0..Len(u.transcript) : k \in 0..Len(t)
    BY <1>1, GoodIs
  <2>. QED  BY <2>1, GoodIs
<1>4. Push(u, e).transcript = t
  BY <1>2 DEF With
<1>. HIDE DEF t
<1>5. Made(u, Push(u, e))
  BY <1>1, <1>2, <1>3, WithGood
<1>. QED  BY <1>1, <1>4, <1>5 DEF t

LEMMA EntryIs ==
    ASSUME NEW kind \in EntryKinds, NEW status \in Statuses, NEW size \in Nat \ {0}
    PROVE  Entry(kind, status, size) \in Entries /\ Entry(kind, status, size).offset <= Entry(kind, status, size).size
BY DEF Entry, Entries

\* One entry is another than before.
LEMMA ChangedMade ==
    ASSUME NEW u \in Good, NEW i \in DOMAIN u.transcript, NEW e \in Entries, e.offset <= e.size,
           NEW committed \in 0..Len(u.transcript)
    PROVE  Made(u, With(u, [u.transcript EXCEPT ![i] = e], committed,
                        u.assistant, u.thinking, u.tools, u.busy))
<1> DEFINE t == [u.transcript EXCEPT ![i] = e]
<1>1. t \in Seq(Entries) /\ Len(t) = Len(u.transcript) /\ \A j \in DOMAIN t : t[j].offset <= t[j].size
  BY GoodIs
<1>. HIDE DEF t
<1>2. Made(u, With(u, t, committed, u.assistant, u.thinking, u.tools, u.busy))
  BY <1>1, GoodIs, WithGood
<1>. QED  BY <1>2 DEF t

LEMMA StepMade ==
    ASSUME NEW u \in Good, NEW c \in Calls, NEW status \in Statuses
    PROVE  Made(u, Step(u, c, status))
<1>1. CASE u.tools[c] \in DOMAIN u.transcript
  <2>1. PICK i \in DOMAIN u.transcript : i = u.tools[c]
    BY <1>1
  <2> DEFINE e == [u.transcript[i] EXCEPT !.status = status]
             t == [u.transcript EXCEPT ![i] = e]
  <2>2. e \in Entries /\ e.offset <= e.size
    <3>1. PICK x \in Entries : x = u.transcript[i] /\ x.offset <= x.size
      BY GoodIs
    <3>2. e = [x EXCEPT !.status = status]
      BY <3>1
    <3>. HIDE DEF e
    <3>. QED  BY <3>1, <3>2 DEF Entries
  <2>3. Step(u, c, status) = [u EXCEPT !.transcript = t]
    BY <1>1, <2>1 DEF Step
  <2>4. Made(u, With(u, t, u.committed, u.assistant, u.thinking, u.tools, u.busy))
    <3>1. u.committed \in 0..Len(u.transcript)
      BY GoodIs
    <3>. HIDE DEF e
    <3>. QED  BY <2>2, <3>1, ChangedMade
  <2>. HIDE DEF t
  <2>5. [u EXCEPT !.transcript = t] = With(u, t, u.committed, u.assistant, u.thinking, u.tools, u.busy)
    BY ShapeIs DEF With
  <2>. QED  BY <2>3, <2>4, <2>5
<1>2. CASE u.tools[c] \notin DOMAIN u.transcript
  <2>1. PICK v : v = Push(u, Entry("tool", status, 1))
    OBVIOUS
  <2>2. Made(u, v) /\ v \in Good /\ Len(v.transcript) = Len(u.transcript) + 1
    <3>1. "tool" \in EntryKinds /\ 1 \in Nat \ {0}
      BY DEF EntryKinds
    <3>. QED  BY <2>1, <3>1, EntryIs, PushMade DEF Made
  <2> DEFINE tools == [v.tools EXCEPT ![c] = Len(u.transcript) + 1]
  <2>3. Step(u, c, status) = [v EXCEPT !.tools = tools]
    BY <1>2, <2>1 DEF Step
  <2>4. tools \in [Calls -> 0..Len(v.transcript)]
    <3>1. Len(u.transcript) + 1 \in 0..Len(v.transcript) /\ v.tools \in [Calls -> 0..Len(v.transcript)]
      BY <2>2, GoodIs
    <3>. QED  BY <3>1
  <2>. HIDE DEF tools
  <2>5. Made(v, With(v, v.transcript, v.committed, v.assistant, v.thinking, tools, v.busy))
    BY <2>2, <2>4, GoodIs, WithGood
  <2>6. [v EXCEPT !.tools = tools] = With(v, v.transcript, v.committed, v.assistant, v.thinking, tools, v.busy)
    BY <2>2, ShapeIs DEF With
  <2>. QED  BY <2>2, <2>3, <2>5, <2>6 DEF Made
<1>. QED  BY <1>1, <1>2

LEMMA GrowMade ==
    ASSUME NEW u \in Good, NEW kind \in {"assistant", "thinking"}
    PROVE  Made(u, Grow(u, kind))
<1>1. u[kind] \in 0..Len(u.transcript) /\ kind \in EntryKinds
  BY GoodIs DEF EntryKinds
<1>2. CASE u[kind] # 0
  <2>1. PICK i \in DOMAIN u.transcript : i = u[kind]
    BY <1>1, <1>2, GoodIs
  <2> DEFINE e == [u.transcript[i] EXCEPT !.size = @ + 1]
             t == [u.transcript EXCEPT ![i] = e]
  <2>2. e \in Entries /\ e.offset <= e.size
    <3>1. PICK x \in Entries : x = u.transcript[i] /\ x.offset <= x.size
      BY GoodIs
    <3>2. x.size \in Nat \ {0} /\ x.offset \in Nat
      BY <3>1 DEF Entries
    <3>3. PICK g \in Nat \ {0} : g = x.size + 1 /\ x.offset <= g
      BY <3>1, <3>2
    <3>4. e = [x EXCEPT !.size = g]
      BY <3>1, <3>3
    <3>. HIDE DEF e
    <3>. QED  BY <3>1, <3>3, <3>4 DEF Entries
  <2>3. Grow(u, kind) = [u EXCEPT !.transcript = t]
    BY <1>2, <2>1 DEF Grow
  <2>4. Made(u, With(u, t, u.committed, u.assistant, u.thinking, u.tools, u.busy))
    <3>1. u.committed \in 0..Len(u.transcript)
      BY GoodIs
    <3>. HIDE DEF e
    <3>. QED  BY <2>2, <3>1, ChangedMade
  <2>. HIDE DEF t
  <2>5. [u EXCEPT !.transcript = t] = With(u, t, u.committed, u.assistant, u.thinking, u.tools, u.busy)
    BY ShapeIs DEF With
  <2>. QED  BY <2>3, <2>4, <2>5
<1>3. CASE u[kind] = 0
  <2>1. PICK v : v = Push(u, Entry(kind, "success", 1))
    OBVIOUS
  <2>2. Made(u, v) /\ v \in Good /\ Len(v.transcript) = Len(u.transcript) + 1
    <3>1. "success" \in Statuses /\ 1 \in Nat \ {0}
      BY DEF Statuses
    <3>. QED  BY <1>1, <2>1, <3>1, EntryIs, PushMade DEF Made
  <2>3. PICK n : n = Len(u.transcript) + 1
    OBVIOUS
  <2>4. Grow(u, kind) = [v EXCEPT ![kind] = n]
    BY <1>3, <2>1, <2>3 DEF Grow
  <2>5. n \in 0..Len(v.transcript)
    BY <2>2, <2>3, GoodIs
  <2>6. CASE kind = "assistant"
    <3>1. Made(v, With(v, v.transcript, v.committed, n, v.thinking, v.tools, v.busy))
      BY <2>2, <2>5, GoodIs, WithGood
    <3>2. [v EXCEPT !.assistant = n] = With(v, v.transcript, v.committed, n, v.thinking, v.tools, v.busy)
      BY <2>2, ShapeIs DEF With
    <3>. QED  BY <2>2, <2>4, <2>6, <3>1, <3>2 DEF Made
  <2>7. CASE kind = "thinking"
    <3>1. Made(v, With(v, v.transcript, v.committed, v.assistant, n, v.tools, v.busy))
      BY <2>2, <2>5, GoodIs, WithGood
    <3>2. [v EXCEPT !.thinking = n] = With(v, v.transcript, v.committed, v.assistant, n, v.tools, v.busy)
      BY <2>2, ShapeIs DEF With
    <3>. QED  BY <2>2, <2>4, <2>7, <3>1, <3>2 DEF Made
  <2>. QED  BY <2>6, <2>7
<1>. QED  BY <1>2, <1>3

LEMMA FieldsGood ==
    ASSUME NEW u \in Good
    PROVE  /\ \A a \in Calls \cup {NoCall} :
                 [u EXCEPT !.approval = a] \in Good /\ [u EXCEPT !.approval = a].approval = a
           /\ \A m \in SUBSET Calls : Made(u, [u EXCEPT !.muted = m])
           /\ \A b \in BOOLEAN : Made(u, [u EXCEPT !.busy = b])
           /\ \A k \in 0..Len(u.transcript) : Made(u, [u EXCEPT !.committed = k])
           /\ Made(u, [u EXCEPT !.assistant = 0, !.thinking = 0])
           /\ \A b \in BOOLEAN : Made(u, [u EXCEPT !.busy = b, !.assistant = 0, !.thinking = 0])
<1>1. u \in UiStates /\ Bounded(u) /\ Len(u.transcript) \in Nat
  BY DEF Good, UiStates
<1>2. ASSUME NEW a \in Calls \cup {NoCall}
      PROVE  [u EXCEPT !.approval = a] \in Good /\ [u EXCEPT !.approval = a].approval = a
  <2>1. [u EXCEPT !.approval = a] \in UiStates /\ [u EXCEPT !.approval = a].approval = a
    BY <1>1 DEF UiStates
  <2>2. Bounded([u EXCEPT !.approval = a])
    BY <1>1 DEF UiStates, Bounded
  <2>. QED  BY <2>1, <2>2 DEF Good
<1>3. ASSUME NEW m \in SUBSET Calls PROVE Made(u, [u EXCEPT !.muted = m])
  <2>1. [u EXCEPT !.muted = m] \in UiStates /\ [u EXCEPT !.muted = m].approval = u.approval
    BY <1>1 DEF UiStates
  <2>2. Bounded([u EXCEPT !.muted = m])
    BY <1>1 DEF UiStates, Bounded
  <2>. QED  BY <2>1, <2>2 DEF Good, Made
<1>4. \A b \in BOOLEAN : Made(u, [u EXCEPT !.busy = b])
  <2>. TAKE b \in BOOLEAN
  <2>1. [u EXCEPT !.busy = b] = With(u, u.transcript, u.committed, u.assistant, u.thinking, u.tools, b)
    BY ShapeIs DEF With
  <2>. QED  BY <2>1, GoodIs, WithGood
<1>5. ASSUME NEW k \in 0..Len(u.transcript) PROVE Made(u, [u EXCEPT !.committed = k])
  <2>1. [u EXCEPT !.committed = k] = With(u, u.transcript, k, u.assistant, u.thinking, u.tools, u.busy)
    BY ShapeIs DEF With
  <2>2. /\ u.transcript \in Seq(Entries) /\ u.assistant \in 0..Len(u.transcript)
        /\ u.thinking \in 0..Len(u.transcript) /\ u.tools \in [Calls -> 0..Len(u.transcript)]
        /\ u.busy \in BOOLEAN
        /\ \A i \in DOMAIN u.transcript : u.transcript[i].offset <= u.transcript[i].size
    BY GoodIs
  <2>3. Made(u, With(u, u.transcript, k, u.assistant, u.thinking, u.tools, u.busy))
    BY <2>2, WithGood
  <2>. QED  BY <2>1, <2>3
<1>6. Made(u, [u EXCEPT !.assistant = 0, !.thinking = 0])
  <2>1. [u EXCEPT !.assistant = 0, !.thinking = 0] = With(u, u.transcript, u.committed, 0, 0, u.tools, u.busy)
    <3> DEFINE v == [u EXCEPT !.assistant = 0]
    <3>1. [u EXCEPT !.assistant = 0, !.thinking = 0] = [v EXCEPT !.thinking = 0]
      OBVIOUS
    <3>2. v = With(u, u.transcript, u.committed, 0, u.thinking, u.tools, u.busy)
      BY ShapeIs DEF With
    <3>. HIDE DEF v
    <3>. QED  BY <3>1, <3>2 DEF With
  <2>2. 0 \in 0..Len(u.transcript)
    BY <1>1
  <2>. QED  BY <2>1, <2>2, GoodIs, WithGood
<1>7. \A b \in BOOLEAN : Made(u, [u EXCEPT !.busy = b, !.assistant = 0, !.thinking = 0])
  <2>. TAKE b \in BOOLEAN
  <2>1. [u EXCEPT !.busy = b, !.assistant = 0, !.thinking = 0] = With(u, u.transcript, u.committed, 0, 0, u.tools, b)
    <3> DEFINE v == [u EXCEPT !.busy = b]
               w == [v EXCEPT !.assistant = 0]
    <3>1. [u EXCEPT !.busy = b, !.assistant = 0, !.thinking = 0] = [w EXCEPT !.thinking = 0]
      OBVIOUS
    <3>2. v = With(u, u.transcript, u.committed, u.assistant, u.thinking, u.tools, b)
      BY ShapeIs DEF With
    <3>. HIDE DEF v
    <3>3. w = With(u, u.transcript, u.committed, 0, u.thinking, u.tools, b)
      BY <3>2 DEF With
    <3>. HIDE DEF w
    <3>. QED  BY <3>1, <3>3 DEF With
  <2>2. 0 \in 0..Len(u.transcript)
    BY <1>1
  <2>. QED  BY <2>1, <2>2, GoodIs, WithGood
<1>. QED  BY <1>2, <1>3, <1>4, <1>5, <1>6, <1>7

\* A handler keeps what the interface holds well formed, and a request puts its
\* call on the screen, whatever prompt was there.
LEMMA HandledIs ==
    ASSUME NEW u \in Good, NEW e \in Events
    PROVE  Handled(u, e) \in Good /\ (e.what = "request" => Handled(u, e).approval = e.call)
<1>1. \A status \in {"queued", "approval", "running", "success", "error", "cancelled"} : status \in Statuses
  BY DEF Statuses
<1>2. e.what \in {"start", "assistant", "thinking", "info"} \/ e.call \in Calls
  BY DEF Events, PlainEvents, CallEvents
<1>3. e.what \in {"start", "assistant", "thinking", "info", "call", "request", "running", "cancelled",
                  "done", "failed", "success", "error"}
  BY DEF Events, PlainEvents, CallEvents
<1>4. \A v \in Good, c \in Calls \cup {NoCall} : Unasked(v, c) \in Good
  BY FieldsGood, GoodIs DEF Unasked
<1>5. CASE e.what = "start"
  BY <1>5, FieldsGood DEF Handled, Made
<1>6. CASE e.what \in {"assistant", "thinking"}
  BY <1>6, GrowMade DEF Handled, Made
<1>7. CASE e.what = "info"
  <2>1. Entry("info", "success", 1) \in Entries /\ Entry("info", "success", 1).offset <= Entry("info", "success", 1).size
    BY <1>1, EntryIs DEF EntryKinds
  <2>. QED  BY <1>7, <2>1, PushMade DEF Handled, Made
<1>8. CASE e.what = "call"
  BY <1>1, <1>2, <1>8, StepMade DEF Handled, Made
<1>9. CASE e.what = "request"
  <2>1. Step(u, e.call, "approval") \in Good
    BY <1>1, <1>2, <1>9, StepMade DEF Made
  <2>. QED  BY <1>2, <1>9, <2>1, FieldsGood DEF Handled, Prompted
<1>10. CASE e.what \in {"running", "cancelled"}
  <2>1. Unasked(u, e.call) \in Good
    BY <1>2, <1>4, <1>10
  <2>. QED  BY <1>1, <1>2, <1>10, <2>1, StepMade DEF Handled, Made
<1>11. CASE e.what \in {"done", "failed"}
  <2>1. PICK status \in Statuses : status = IF e.what = "done" THEN "success" ELSE "error"
    BY <1>1
  <2>2. PICK v : v = Step(u, e.call, status)
    OBVIOUS
  <2>3. v \in Good
    BY <1>2, <1>11, <2>2, StepMade DEF Made
  <2>4. Handled(u, e) = [v EXCEPT !.muted = v.muted \cup {e.call}]
    BY <1>11, <2>1, <2>2 DEF Handled
  <2>5. v.muted \cup {e.call} \in SUBSET Calls
    BY <1>2, <1>11, <2>3, GoodIs
  <2>6. Made(v, [v EXCEPT !.muted = v.muted \cup {e.call}])
    BY <2>3, <2>5, FieldsGood
  <2>. QED  BY <1>11, <2>4, <2>6 DEF Made
<1>12. CASE e.what \in {"success", "error"}
  <2>1. Handled(u, e) = ToolResult(u, e.call, e.what)
    BY <1>12 DEF Handled
  <2>2. CASE e.call \in u.muted
    <3>1. u.muted \ {e.call} \in SUBSET Calls
      BY GoodIs
    <3>2. Handled(u, e) = [u EXCEPT !.muted = u.muted \ {e.call}]
      BY <2>1, <2>2 DEF ToolResult
    <3>3. Made(u, [u EXCEPT !.muted = u.muted \ {e.call}])
      BY <3>1, FieldsGood
    <3>. QED  BY <1>12, <3>2, <3>3 DEF Made
  <2>3. CASE e.call \notin u.muted
    BY <1>1, <1>2, <1>12, <2>1, <2>3, StepMade DEF ToolResult, Made
  <2>. QED  BY <2>2, <2>3
<1>. QED  BY <1>3, <1>5, <1>6, <1>7, <1>8, <1>9, <1>10, <1>11, <1>12

\* What the events of the channel make of the interface, one after another.
Drains(q) == [x \in (1..Len(q)) \X Good |-> Handled(x[2], q[x[1]])]

LEMMA DrainedSteps ==
    ASSUME NEW u \in Good, NEW q \in Seq(Events)
    PROVE  /\ \E c : Steps(c, Len(q), Good, u, Drains(q)) /\ Drained(u, q) = c[Len(q)]
           /\ \A i \in 1..Len(q), v \in Good :
                 Drains(q)[<<i, v>>] = Handled(v, q[i]) /\ Drains(q)[<<i, v>>] \in Good
<1> DEFINE n == Len(q)
           G == Drains(q)
<1>1. n \in Nat /\ DOMAIN q = 1..n /\ \A i \in 1..n : q[i] \in Events
  OBVIOUS
<1>2. \A i \in 1..n, v \in Good : G[<<i, v>>] = Handled(v, q[i]) /\ G[<<i, v>>] \in Good
  <2>. TAKE i \in 1..n, v \in Good
  <2>1. Handled(v, q[i]) \in Good
    BY <1>1, HandledIs
  <2>2. <<i, v>> \in (1..n) \X Good /\ <<i, v>>[1] = i /\ <<i, v>>[2] = v
    OBVIOUS
  <2>. QED  BY <2>1, <2>2 DEF Drains
<1>3. Closed(G, 1..n, Good)
  BY <1>2 DEF Closed
<1> HIDE DEF n, G
<1>4. PICK it \in [SUBSET (1..n) -> Good] : IsLeftFold(it, n, u, G)
  BY <1>1, <1>3, FoldLeftExists
<1>5. \A f \in [SUBSET (1..n) -> Good], d \in SUBSET (1..n) : d # {} =>
            G[<<Max(d), f[d \ {Max(d)}]>>] = Handled(f[d \ {Max(d)}], q[Max(d)])
  <2>. SUFFICES ASSUME NEW f \in [SUBSET (1..n) -> Good], NEW d \in SUBSET (1..n), d # {}
                PROVE  G[<<Max(d), f[d \ {Max(d)}]>>] = Handled(f[d \ {Max(d)}], q[Max(d)])
    OBVIOUS
  <2>1. d \in SUBSET (0..n)
    BY <1>1
  <2>2. Max(d) \in 1..n
    BY <1>1, <2>1, MaxOf
  <2>. QED  BY <1>2, <2>2
<1>6. it = [d \in SUBSET (1..n) |-> IF d = {} THEN u ELSE Handled(it[d \ {Max(d)}], q[Max(d)])]
  <2>1. \A d \in SUBSET (1..n) : (IF d = {} THEN u ELSE G[<<Max(d), it[d \ {Max(d)}]>>])
                = (IF d = {} THEN u ELSE Handled(it[d \ {Max(d)}], q[Max(d)]))
    BY <1>5
  <2>. QED  BY <1>4, <2>1 DEF IsLeftFold
<1>7. PICK f : /\ f = [d \in SUBSET (1..n) |-> IF d = {} THEN u ELSE Handled(f[d \ {Max(d)}], q[Max(d)])]
               /\ Drained(u, q) = f[1..n]
  <2>1. \E f : /\ f = [d \in SUBSET (1..n) |-> IF d = {} THEN u ELSE Handled(f[d \ {Max(d)}], q[Max(d)])]
               /\ Drained(u, q) = f[1..n]
    BY <1>1, <1>6 DEF Drained, FoldLeft, MapThenFoldSet
  <2>. QED  BY <2>1
<1>8. f[{}] = u
  <2>1. {} \in SUBSET (1..n)
    OBVIOUS
  <2>. QED  BY <1>7, <2>1
<1>9. ASSUME NEW k \in 1..n, f[1..(k - 1)] \in Good
      PROVE  f[1..k] = G[<<k, f[1..(k - 1)]>>]
  <2>1. /\ 1..k \in SUBSET (1..n) /\ 1..k # {}
        /\ Max(1..k) = k /\ (1..k) \ {k} = 1..(k - 1)
    BY <1>1, Segments
  <2>2. f[1..k] = Handled(f[1..(k - 1)], q[k])
    BY <1>7, <2>1
  <2>. QED  BY <1>2, <1>9, <2>2
<1>10. Recurses(f, n, Good, u, G)
  BY <1>8, <1>9 DEF Recurses
<1>11. HasSteps(f, n, Good, u, G)
  BY <1>1, <1>3, <1>10, FoldSteps
<1>12. PICK c : Steps(c, n, Good, u, G) /\ f[1..n] = c[n]
  BY <1>11 DEF HasSteps
<1>. QED  BY <1>2, <1>7, <1>12 DEF n, G

\* So do all the events in the channel, one after another.
LEMMA DrainedGood ==
    ASSUME NEW u \in Good, NEW q \in Seq(Events)
    PROVE  Drained(u, q) \in Good
<1>1. PICK n \in Nat : n = Len(q)
  OBVIOUS
<1>2. PICK c : Steps(c, n, Good, u, Drains(q)) /\ Drained(u, q) = c[n]
  BY <1>1, DrainedSteps
<1>. QED  BY <1>1, <1>2 DEF Steps
-------------------------------------------------------------------------------
(* What is committed, and written anew.                                    *)

LEMMA CommitAllMade ==
    ASSUME NEW s, s.u \in Good
    PROVE  Made(s.u, CommitAll(s).u)
<1>1. CommitAll(s).u = [s.u EXCEPT !.committed = Len(s.u.transcript)]
  BY DEF CommitAll
<1>2. Len(s.u.transcript) \in 0..Len(s.u.transcript)
  BY GoodIs
<1>. QED  BY <1>1, <1>2, FieldsGood

LEMMA CommitStreamingMade ==
    ASSUME NEW s, s.u \in Good
    PROVE  Made(s.u, CommitStreaming(s).u)
<1>1. PICK u \in Good : u = s.u
  OBVIOUS
<1>2. PICK n : n = Len(u.transcript)
  OBVIOUS
<1>3. PICK grown, shown : grown = u.transcript[n].size - 1 /\ shown = u.transcript[n].offset
  OBVIOUS
<1>4. CASE CommitStreaming(s) = s
  BY <1>4 DEF Made
<1>5. CASE CommitStreaming(s) # s
  <2>1. n > u.committed
    <3>1. ~ (n <= u.committed)
      BY <1>1, <1>2, <1>5, Zenon DEF CommitStreaming
    <3>. QED  BY <1>2, <3>1, GoodIs
  <2>2. CommitStreaming(s).u = [u EXCEPT !.committed = n - 1,
                                         !.transcript[n].offset = IF grown > @ THEN grown ELSE @]
    BY <1>1, <1>2, <1>3, <1>5 DEF CommitStreaming
  <2>3. n \in DOMAIN u.transcript /\ n - 1 \in 0..Len(u.transcript)
    BY <1>2, <2>1, GoodIs
  <2>4. PICK x \in Entries : x = u.transcript[n] /\ x.offset <= x.size
    BY <2>3, GoodIs
  <2> DEFINE e == [x EXCEPT !.offset = IF grown > shown THEN grown ELSE shown]
             t == [u.transcript EXCEPT ![n] = e]
  <2>5. e \in Entries /\ e.offset <= e.size
    <3>1. (IF grown > shown THEN grown ELSE shown) \in 0..x.size
      BY <1>3, <2>4 DEF Entries
    <3>. QED  BY <3>1 DEF Entries
  <2>6. Made(u, With(u, t, n - 1, u.assistant, u.thinking, u.tools, u.busy))
    <3>. HIDE DEF e
    <3>. QED  BY <2>3, <2>5, ChangedMade
  <2>7. CommitStreaming(s).u = With(u, t, n - 1, u.assistant, u.thinking, u.tools, u.busy)
    <3> DEFINE v == [u EXCEPT !.committed = n - 1]
    <3>1. v = With(u, u.transcript, n - 1, u.assistant, u.thinking, u.tools, u.busy)
      BY ShapeIs DEF With
    <3>2. CommitStreaming(s).u = [v EXCEPT !.transcript[n].offset = IF grown > @ THEN grown ELSE @]
      BY <2>2
    <3>3. v.transcript = u.transcript
      BY <3>1 DEF With
    <3>. HIDE DEF v
    <3>4. CommitStreaming(s).u = [v EXCEPT !.transcript = t]
      BY <1>3, <2>3, <2>4, <3>2, <3>3
    <3>. HIDE DEF t
    <3>. QED  BY <3>1, <3>4 DEF With
  <2>. QED  BY <1>1, <2>6, <2>7
<1>. QED  BY <1>4, <1>5

LEMMA ReplayableIs ==
    ASSUME NEW u \in Good
    PROVE  Replayable(u) \in 0..Len(u.transcript)
<1> DEFINE U == Unsettled(u)
           n == Len(u.transcript)
<1>1. n \in Nat /\ DOMAIN u.transcript = 1..n /\ u.assistant \in 0..n /\ u.thinking \in 0..n
  BY GoodIs
<1>2. U \in SUBSET (1..n)
  BY <1>1 DEF Unsettled
<1>. HIDE DEF U
<1>3. CASE U = {}
  BY <1>1, <1>3 DEF Replayable, U
<1>4. CASE U # {}
  <2>1. \E i \in U : \A j \in U : i <= j
    BY <1>2, <1>4, LeastOf
  <2>2. PICK i : i = CHOOSE k \in U : \A j \in U : k <= j
    OBVIOUS
  <2>3. i \in U
    BY <2>1, <2>2
  <2>4. Replayable(u) = i - 1
    BY <1>4, <2>2 DEF Replayable, U
  <2>. QED  BY <1>1, <1>2, <2>3, <2>4
<1>. QED  BY <1>3, <1>4

LEMMA ReflowedMade ==
    ASSUME NEW u0 \in Good
    PROVE  Made(u0, Reflowed(u0).u)
<1> DEFINE t == [i \in DOMAIN u0.transcript |-> [u0.transcript[i] EXCEPT !.offset = 0]]
           u == With(u0, t, 0, u0.assistant, u0.thinking, u0.tools, u0.busy)
<1>1. /\ u0.transcript \in Seq(Entries) /\ Len(u0.transcript) \in Nat
      /\ DOMAIN u0.transcript = 1..Len(u0.transcript)
  BY GoodIs
<1>2. t \in Seq(Entries) /\ Len(t) = Len(u0.transcript) /\ \A i \in DOMAIN t : t[i].offset <= t[i].size
  <2>1. \A i \in DOMAIN u0.transcript : t[i] \in Entries /\ t[i].offset <= t[i].size
    <3>. SUFFICES ASSUME NEW x \in Entries
                  PROVE  [x EXCEPT !.offset = 0] \in Entries
                         /\ [x EXCEPT !.offset = 0].offset <= [x EXCEPT !.offset = 0].size
      BY <1>1
    <3>. QED  BY DEF Entries
  <2>2. DOMAIN t = DOMAIN u0.transcript /\ t = [i \in 1..Len(u0.transcript) |-> t[i]]
    BY <1>1
  <2>. HIDE DEF t
  <2>3. t \in [1..Len(u0.transcript) -> Entries]
    BY <1>1, <2>1, <2>2
  <2>4. t \in Seq(Entries) /\ Len(t) = Len(u0.transcript)
    BY <1>1, <2>3
  <2>. QED  BY <2>1, <2>2, <2>4
<1>3. Reflowed(u0).u = [u EXCEPT !.committed = Replayable(u)]
  <2> DEFINE v == [u0 EXCEPT !.committed = 0]
             w == [v EXCEPT !.transcript = t]
  <2>1. v = With(u0, u0.transcript, 0, u0.assistant, u0.thinking, u0.tools, u0.busy)
    BY ShapeIs DEF With
  <2>2. [u0 EXCEPT !.committed = 0,
            !.transcript = [i \in DOMAIN u0.transcript |-> [u0.transcript[i] EXCEPT !.offset = 0]]] = w
    OBVIOUS
  <2>. HIDE DEF t, v
  <2>3. w = u
    BY <2>1 DEF With
  <2>. HIDE DEF w, u
  <2>. QED  BY <2>2, <2>3 DEF Reflowed
<1>. HIDE DEF t
<1>4. Made(u0, u) /\ u \in Good
  <2>1. 0 \in 0..Len(t)
    BY <1>1, <1>2
  <2>2. Made(u0, u)
    BY <1>2, <2>1, GoodIs, WithGood
  <2>. QED  BY <2>2 DEF Made
<1>. HIDE DEF u
<1>5. Made(u, [u EXCEPT !.committed = Replayable(u)])
  BY <1>4, ReplayableIs, FieldsGood
<1>. QED  BY <1>3, <1>4, <1>5 DEF Made
-------------------------------------------------------------------------------
(* The invariant of the terminal.  A request the engine waits for is in    *)
(* the channel, behind everything else, or on the screen.                  *)

Turns == [calls : Seq(Calls), at : Nat, ran : SUBSET Calls, texts : BOOLEAN]

UiTypes ==
    /\ ui \in Good /\ queue \in Seq(Events) /\ turn \in Turns
    /\ stage \in {"idle", "run", "stream", "tools", "waiting", "running", "over", "exit"}
    /\ asked \in SUBSET Calls /\ granted \in BOOLEAN /\ pending \in BOOLEAN
    /\ stage \in {"tools", "waiting", "running"} => turn.at > 0
    /\ stage \in {"waiting", "running"} => turn.at <= Len(turn.calls)

WaitInv ==
    stage = "waiting" =>
        /\ Current \in asked
        /\ queue = <<>> => ui.approval = Current
        /\ queue # <<>> => queue[Len(queue)] = Ev("request", Current)

UiInv == UiTypes /\ WaitInv
UisInv == which = "ui" => UiInv

LEMMA EventIs ==
    ASSUME NEW c \in Calls
    PROVE  /\ \A what \in {"call", "request", "running", "cancelled", "done", "failed", "success", "error"} :
                 Ev(what, c) \in Events
           /\ \A what \in {"start", "assistant", "thinking", "info"} : Ev(what, NoCall) \in Events
BY DEF Ev, Events, PlainEvents, CallEvents

LEMMA EmitIs ==
    ASSUME NEW q \in Seq(Events), NEW e \in Events
    PROVE  /\ q \o <<e>> \in Seq(Events) /\ q \o <<e>> # <<>>
           /\ (q \o <<e>>)[Len(q \o <<e>>)] = e
OBVIOUS

LEMMA TurnIs ==
    ASSUME UiTypes
    PROVE  /\ turn \in Turns /\ turn.calls \in Seq(Calls) /\ turn.at \in Nat /\ NewTurn \in Turns
           /\ stage \in {"waiting", "running"} => Current \in Calls
           /\ stage = "tools" /\ turn.at <= Len(turn.calls) => Current \in Calls
<1>1. turn \in Turns /\ turn.calls \in Seq(Calls) /\ turn.at \in Nat
  BY DEF UiTypes, Turns
<1>2. NewTurn \in Turns
  BY DEF NewTurn, Turns
<1>3. turn.at > 0 /\ turn.at <= Len(turn.calls) => turn.calls[turn.at] \in Calls
  BY <1>1
<1>. QED  BY <1>1, <1>2, <1>3 DEF UiTypes, Current

LEMMA ResultsAre ==
    ASSUME UiTypes, NEW ran
    PROVE  Results(ran) \in Seq(Events)
<1>1. turn.calls \in Seq(Calls) /\ Len(turn.calls) \in Nat /\ DOMAIN turn.calls = 1..Len(turn.calls)
  BY TurnIs
<1>2. \A i \in 1..Len(turn.calls) :
         Ev(IF turn.calls[i] \in ran THEN "success" ELSE "error", turn.calls[i]) \in Events
  BY <1>1, EventIs
<1>3. Results(ran) \in [1..Len(turn.calls) -> Events]
  BY <1>1, <1>2 DEF Results
<1>. QED  BY <1>1, <1>3

TurnOf(calls, at, ran, texts) == [calls |-> calls, at |-> at, ran |-> ran, texts |-> texts]

LEMMA TurnShape ==
    ASSUME NEW t \in Turns
    PROVE  /\ t = TurnOf(t.calls, t.at, t.ran, t.texts)
           /\ t.calls \in Seq(Calls) /\ t.at \in Nat /\ t.ran \in SUBSET Calls /\ t.texts \in BOOLEAN
BY DEF Turns, TurnOf

LEMMA TurnOfIs ==
    ASSUME NEW calls \in Seq(Calls), NEW at \in Nat, NEW ran \in SUBSET Calls, NEW texts \in BOOLEAN
    PROVE  /\ TurnOf(calls, at, ran, texts) \in Turns
           /\ TurnOf(calls, at, ran, texts).at = at /\ TurnOf(calls, at, ran, texts).calls = calls
BY DEF Turns, TurnOf

LEMMA TurnWith ==
    ASSUME NEW t \in Turns
    PROVE  /\ \A c \in Calls : [t EXCEPT !.calls = Append(@, c)] \in Turns
           /\ \A at \in Nat : /\ [t EXCEPT !.at = at] \in Turns /\ [t EXCEPT !.at = at].at = at
                              /\ [t EXCEPT !.at = at].calls = t.calls
           /\ \A texts \in BOOLEAN :
                 [t EXCEPT !.texts = texts] \in Turns /\ [t EXCEPT !.texts = texts].at = t.at
           /\ \A ran \in SUBSET Calls :
                 [t EXCEPT !.ran = ran] \in Turns /\ [t EXCEPT !.ran = ran].at = t.at
<1>1. ASSUME NEW c \in Calls PROVE [t EXCEPT !.calls = Append(@, c)] \in Turns
  <2>1. Append(t.calls, c) \in Seq(Calls)
    BY TurnShape
  <2>2. PICK calls \in Seq(Calls) : calls = Append(t.calls, c)
    BY <2>1
  <2>3. [t EXCEPT !.calls = Append(@, c)] = [t EXCEPT !.calls = calls]
    BY <2>2
  <2>4. [t EXCEPT !.calls = calls] = TurnOf(calls, t.at, t.ran, t.texts)
    BY TurnShape DEF TurnOf
  <2>5. TurnOf(calls, t.at, t.ran, t.texts) \in Turns
    BY TurnShape, TurnOfIs
  <2>. QED  BY <2>3, <2>4, <2>5
<1>2. ASSUME NEW at \in Nat
      PROVE  /\ [t EXCEPT !.at = at] \in Turns /\ [t EXCEPT !.at = at].at = at
             /\ [t EXCEPT !.at = at].calls = t.calls
  <2>1. [t EXCEPT !.at = at] = TurnOf(t.calls, at, t.ran, t.texts)
    BY TurnShape DEF TurnOf
  <2>. QED  BY <2>1, TurnShape, TurnOfIs
<1>3. ASSUME NEW texts \in BOOLEAN
      PROVE  [t EXCEPT !.texts = texts] \in Turns /\ [t EXCEPT !.texts = texts].at = t.at
  <2>1. [t EXCEPT !.texts = texts] = TurnOf(t.calls, t.at, t.ran, texts)
    BY TurnShape DEF TurnOf
  <2>. QED  BY <2>1, TurnShape, TurnOfIs
<1>4. ASSUME NEW ran \in SUBSET Calls
      PROVE  [t EXCEPT !.ran = ran] \in Turns /\ [t EXCEPT !.ran = ran].at = t.at
  <2>1. [t EXCEPT !.ran = ran] = TurnOf(t.calls, t.at, ran, t.texts)
    BY TurnShape DEF TurnOf
  <2>. QED  BY <2>1, TurnShape, TurnOfIs
<1>. QED  BY <1>1, <1>2, <1>3, <1>4

\* While the engine writes its answer it adds what it says to the channel.
LEMMA StreamSteps ==
    ASSUME UiInv, \/ StreamStart \/ (\E kind \in {"assistant", "thinking"} : Delta(kind))
                  \/ (\E c \in Calls : ToolUse(c)) \/ ResponseEnds
    PROVE  UiInv'
<1>1. UiTypes /\ turn \in Turns /\ NewTurn \in Turns /\ queue \in Seq(Events)
  BY TurnIs DEF UiInv, UiTypes
<1>2. \A what \in {"start", "assistant", "thinking", "info"} : Ev(what, NoCall) \in Events
  BY DEF Ev, Events, PlainEvents
<1>3. CASE StreamStart
  <2>1. /\ ui' = ui /\ asked' = asked /\ granted' = granted /\ pending' = pending
        /\ stage' = "stream" /\ turn' = NewTurn /\ queue' = queue \o <<Ev("start", NoCall)>>
    BY <1>3 DEF StreamStart, Emit
  <2>2. queue' \in Seq(Events)
    BY <1>1, <1>2, <2>1, EmitIs
  <2>. QED  BY <1>1, <2>1, <2>2 DEF UiInv, UiTypes, WaitInv
<1>4. ASSUME NEW kind \in {"assistant", "thinking"}, Delta(kind) PROVE UiInv'
  <2>1. /\ ui' = ui /\ asked' = asked /\ granted' = granted /\ pending' = pending
        /\ stage' = "stream" /\ queue' = queue \o <<Ev(kind, NoCall)>>
        /\ turn' = [turn EXCEPT !.texts = @ \/ kind = "assistant"]
    BY <1>4 DEF Delta, Emit
  <2>2. queue' \in Seq(Events)
    BY <1>1, <1>2, <2>1, EmitIs
  <2>3. turn' \in Turns
    BY <1>1, <2>1 DEF Turns
  <2>. QED  BY <1>1, <2>1, <2>2, <2>3 DEF UiInv, UiTypes, WaitInv
<1>5. ASSUME NEW c \in Calls, ToolUse(c) PROVE UiInv'
  <2>1. /\ ui' = ui /\ asked' = asked /\ granted' = granted /\ pending' = pending
        /\ stage' = "stream" /\ queue' = queue \o <<Ev("call", c)>>
        /\ turn' = [turn EXCEPT !.calls = Append(@, c)]
    BY <1>5 DEF ToolUse, Emit
  <2>2. queue' \in Seq(Events)
    BY <1>1, <2>1, EventIs, EmitIs
  <2>3. turn' \in Turns
    BY <1>1, <2>1, TurnWith
  <2>. QED  BY <1>1, <2>1, <2>2, <2>3 DEF UiInv, UiTypes, WaitInv
<1>6. CASE ResponseEnds
  <2>1. /\ ui' = ui /\ asked' = asked /\ granted' = granted /\ pending' = pending /\ queue' = queue
        /\ stage' \in {"tools", "over"} /\ turn' \in Turns /\ (stage' = "tools" => turn'.at = 1)
    <3>1. PICK no \in BOOLEAN : no = FALSE
      OBVIOUS
    <3>2. PICK v : v = [turn EXCEPT !.at = 1]
      OBVIOUS
    <3>3. v \in Turns /\ v.at = 1
      BY <1>1, <3>2, TurnWith
    <3>4. [v EXCEPT !.texts = no] \in Turns /\ [v EXCEPT !.texts = no].at = 1
      BY <3>3, TurnWith
    <3>5. CASE turn' = NewTurn /\ stage' = "over"
      BY <1>1, <1>6, <3>5 DEF ResponseEnds
    <3>6. CASE stage' = "tools" /\ turn' = [turn EXCEPT !.at = 1, !.texts = FALSE]
      <4>1. turn' = [v EXCEPT !.texts = no]
        BY <3>1, <3>2, <3>6
      <4>. QED  BY <1>6, <3>4, <3>6, <4>1 DEF ResponseEnds
    <3>. QED  BY <1>6, <3>5, <3>6 DEF ResponseEnds
  <2>. QED  BY <1>1, <2>1 DEF UiInv, UiTypes, WaitInv
<1>. QED  BY <1>3, <1>4, <1>5, <1>6

\* The engine runs its tools, and asks before it runs one.
LEMMA ToolSteps ==
    ASSUME UiInv, \/ Request \/ RunGranted \/ RoundEnds
                  \/ (\E outcome \in {"done", "failed"} : Execute(outcome))
    PROVE  UiInv'
<1>1. UiTypes /\ turn \in Turns /\ NewTurn \in Turns /\ queue \in Seq(Events) /\ turn.at \in Nat
  BY TurnIs DEF UiInv, UiTypes
<1>2. CASE Request
  <2>1. /\ stage = "tools" /\ turn.at <= Len(turn.calls)
        /\ ui' = ui /\ granted' = granted /\ pending' = pending /\ turn' = turn
        /\ stage' = "waiting" /\ asked' = asked \cup {Current}
        /\ queue' = queue \o <<Ev("request", Current)>>
    BY <1>2 DEF Request, Emit
  <2>2. Current \in Calls
    BY <1>1, <2>1, TurnIs
  <2>3. queue' \in Seq(Events) /\ queue' # <<>> /\ queue'[Len(queue')] = Ev("request", Current)
    BY <1>1, <2>1, <2>2, EventIs, EmitIs
  <2>4. Current' = Current
    BY <2>1 DEF Current
  <2>5. UiTypes'
    BY <1>1, <2>1, <2>2, <2>3 DEF UiTypes
  <2>6. WaitInv'
    BY <2>1, <2>3, <2>4 DEF WaitInv
  <2>. QED  BY <2>5, <2>6 DEF UiInv
<1>3. CASE RunGranted
  <2>1. /\ stage = "tools" /\ turn.at <= Len(turn.calls)
        /\ ui' = ui /\ granted' = granted /\ pending' = pending /\ turn' = turn
        /\ stage' = "running" /\ asked' = asked
        /\ queue' = queue \o <<Ev("running", Current)>>
    BY <1>3 DEF RunGranted, Emit
  <2>2. queue' \in Seq(Events)
    BY <1>1, <2>1, TurnIs, EventIs, EmitIs
  <2>. QED  BY <1>1, <2>1, <2>2 DEF UiInv, UiTypes, WaitInv
<1>4. CASE RoundEnds
  <2>1. /\ ui' = ui /\ granted' = granted /\ pending' = pending /\ asked' = asked
        /\ stage' \in {"run", "over"} /\ turn' = NewTurn /\ queue' = queue \o Results(turn.ran)
    BY <1>4 DEF RoundEnds, Emit
  <2>2. queue' \in Seq(Events)
    BY <1>1, <2>1, ResultsAre
  <2>. QED  BY <1>1, <2>1, <2>2 DEF UiInv, UiTypes, WaitInv
<1>5. ASSUME NEW outcome \in {"done", "failed"}, Execute(outcome) PROVE UiInv'
  <2>1. /\ ui' = ui /\ granted' = granted /\ pending' = pending /\ asked' = asked
        /\ stage = "running" /\ stage' = "tools"
        /\ queue' = queue \o <<Ev(outcome, Current)>>
        /\ turn' = [turn EXCEPT !.at = @ + 1,
                                !.ran = IF outcome = "done" THEN @ \cup {Current} ELSE @]
    BY <1>5 DEF Execute, Emit
  <2>2. Current \in Calls
    BY <1>1, <2>1, TurnIs
  <2>3. queue' \in Seq(Events)
    BY <1>1, <2>1, <2>2, EventIs, EmitIs
  <2>4. turn' \in Turns /\ turn'.at = turn.at + 1
    <3>1. PICK ran \in SUBSET Calls : ran = IF outcome = "done" THEN turn.ran \cup {Current} ELSE turn.ran
      BY <1>1, <2>2 DEF Turns
    <3>2. PICK at \in Nat : at = turn.at + 1
      BY <1>1
    <3>3. PICK v : v = [turn EXCEPT !.at = at]
      OBVIOUS
    <3>4. turn' = [v EXCEPT !.ran = ran]
      <4>1. v.ran = turn.ran
        BY <1>1, <3>3 DEF Turns
      <4>. QED  BY <2>1, <3>1, <3>2, <3>3, <4>1
    <3>5. v \in Turns /\ v.at = at
      BY <1>1, <2>2, <3>3, TurnWith
    <3>. QED  BY <2>2, <3>2, <3>4, <3>5, TurnWith
  <2>. QED  BY <1>1, <2>1, <2>3, <2>4 DEF UiInv, UiTypes, WaitInv
<1>. QED  BY <1>2, <1>3, <1>4, <1>5

LEMMA ShownGood ==
    ASSUME NEW x \in Good
    PROVE  /\ Made(x, CommitAll([Now EXCEPT !.u = x]).u)
           /\ Made(x, CommitStreaming([Now EXCEPT !.u = x]).u)
           /\ [Now EXCEPT !.u = x].u = x
<1>1. PICK s : s = [Now EXCEPT !.u = x]
  OBVIOUS
<1>2. s.u = x
  BY <1>1 DEF Now
<1>. QED  BY <1>1, <1>2, CommitAllMade, CommitStreamingMade

LEMMA TurnMade ==
    ASSUME NEW u \in Good
    PROVE  /\ Made(u, Push(u, Entry("info", "success", 1)))
           /\ \A recognized \in BOOLEAN : Made(u, BeginTurn(u, recognized))
           /\ Made(u, EndTurn(u)) /\ Made(u, CancelTurn(u))
<1>1. /\ Entry("info", "success", 1) \in Entries
      /\ Entry("info", "success", 1).offset <= Entry("info", "success", 1).size
      /\ Entry("user", "success", 1) \in Entries
      /\ Entry("user", "success", 1).offset <= Entry("user", "success", 1).size
  BY EntryIs DEF EntryKinds, Statuses
<1>2. \A v \in Good : Made(v, Push(v, Entry("info", "success", 1))) /\ Made(v, Push(v, Entry("user", "success", 1)))
  BY <1>1, PushMade
<1>3. PICK no, yes \in BOOLEAN : no = FALSE /\ yes = TRUE
  OBVIOUS
<1>4. PICK v : v = [u EXCEPT !.busy = yes, !.assistant = 0, !.thinking = 0]
  OBVIOUS
<1>5. Made(u, v)
  BY <1>3, <1>4, FieldsGood
<1>6. \A recognized \in BOOLEAN : Made(u, BeginTurn(u, recognized))
  <2>. TAKE recognized \in BOOLEAN
  <2>1. BeginTurn(u, recognized) = IF recognized THEN v ELSE Push(v, Entry("user", "success", 1))
    BY <1>3, <1>4 DEF BeginTurn
  <2>. QED  BY <1>2, <1>5, <2>1 DEF Made
<1>7. EndTurn(u) = [u EXCEPT !.busy = no, !.assistant = 0, !.thinking = 0]
  BY <1>3 DEF EndTurn
<1>8. Made(u, EndTurn(u))
  BY <1>3, <1>7, FieldsGood
<1>9. Made(u, CancelTurn(u))
  BY <1>2, <1>8 DEF CancelTurn, Made
<1>. QED  BY <1>2, <1>6, <1>8, <1>9

LEMMA FreshGood ==
    ASSUME NEW h \in Seq(Entries), \A i \in DOMAIN h : h[i].offset = 0
    PROVE  Fresh(h) \in Good
<1>1. Len(h) \in Nat /\ \A i \in DOMAIN h : h[i].offset <= h[i].size
  <2>1. \A i \in DOMAIN h : h[i] \in Entries
    OBVIOUS
  <2>2. \A e \in Entries : e.size \in Nat
    BY DEF Entries
  <2>. QED  BY <2>1, <2>2
<1>2. PICK f : f = Fresh(h)
  OBVIOUS
<1>3. PICK no \in BOOLEAN : no = FALSE
  OBVIOUS
<1>4. PICK tools \in [Calls -> Nat] : tools = [c \in Calls |-> 0]
  OBVIOUS
<1>5. f = [transcript |-> h, committed |-> 0, assistant |-> 0, thinking |-> 0,
           tools |-> tools, muted |-> {}, approval |-> NoCall, busy |-> no]
  BY <1>2, <1>3, <1>4 DEF Fresh
<1>6. f \in UiStates
  BY <1>1, <1>5 DEF UiStates
<1>7. Bounded(f)
  BY <1>1, <1>4, <1>5 DEF Bounded
<1>. QED  BY <1>2, <1>6, <1>7 DEF Good

\* What is typed when no turn runs, and a turn's end.
LEMMA IdleSteps ==
    ASSUME UiInv, \/ (\E recognized \in BOOLEAN : Submit(recognized)) \/ SessionFails
                  \/ (\E yolo \in BOOLEAN : Command(yolo))
                  \/ (\E outcome \in {"ok", "error", "abort"} : Finish(outcome))
                  \/ (\E earlier \in Histories : Switch(earlier))
    PROVE  UiInv'
<1>1. /\ UiTypes /\ turn \in Turns /\ NewTurn \in Turns /\ queue \in Seq(Events) /\ ui \in Good
      /\ <<>> \in Seq(Events)
  BY TurnIs DEF UiInv, UiTypes
<1>2. CASE \E recognized \in BOOLEAN : Submit(recognized)
  <2>1. PICK recognized \in BOOLEAN : Submit(recognized)
    BY <1>2
  <2>2. /\ ui' = CommitAll([Now EXCEPT !.u = BeginTurn(ui, recognized)]).u
        /\ asked' = asked /\ granted' = granted /\ pending' \in BOOLEAN /\ turn' = NewTurn
        /\ \/ stage' = "over" /\ queue' = queue \o <<Ev("info", NoCall)>>
           \/ stage' = "run" /\ queue' = queue
    BY <1>1, <2>1 DEF Submit, Show, Emit, UiTypes
  <2>3. ui' \in Good
    BY <1>1, <2>2, TurnMade, ShownGood DEF Made
  <2>4. queue' \in Seq(Events)
    <3>1. Ev("info", NoCall) \in Events
      BY DEF Ev, Events, PlainEvents
    <3>. QED  BY <1>1, <2>2, <3>1, EmitIs
  <2>. QED  BY <1>1, <2>2, <2>3, <2>4 DEF UiInv, UiTypes, WaitInv
<1>3. CASE SessionFails
  BY <1>1, <1>3 DEF SessionFails, UiInv, UiTypes, WaitInv
<1>4. CASE \E yolo \in BOOLEAN : Command(yolo)
  <2>1. PICK yolo \in BOOLEAN : Command(yolo)
    BY <1>4
  <2>2. /\ ui' = CommitAll([Now EXCEPT !.u = Push(ui, Entry("info", "success", 1))]).u
        /\ asked' = asked /\ granted' \in BOOLEAN /\ pending' = pending /\ turn' = turn
        /\ stage = "idle" /\ stage' = stage /\ queue' = queue
    BY <1>1, <2>1 DEF Command, Show, UiTypes
  <2>3. ui' \in Good
    BY <1>1, <2>2, TurnMade, ShownGood DEF Made
  <2>. QED  BY <1>1, <2>2, <2>3 DEF UiInv, UiTypes, WaitInv
<1>5. CASE \E outcome \in {"ok", "error", "abort"} : Finish(outcome)
  <2>1. PICK outcome \in {"ok", "error", "abort"} : Finish(outcome)
    BY <1>5
  <2>2. PICK drained : drained = Drained(ui, queue)
    OBVIOUS
  <2>3. drained \in Good
    BY <1>1, <2>2, DrainedGood
  <2>4. PICK no \in BOOLEAN : no = FALSE
    OBVIOUS
  <2>5. PICK still : still = [drained EXCEPT !.busy = no]
    OBVIOUS
  <2>6. still \in Good
    BY <2>3, <2>4, <2>5, FieldsGood DEF Made
  <2>7. /\ asked' = asked /\ granted' = granted /\ pending' = pending /\ turn' = turn
        /\ stage' \in {"exit", "idle"} /\ queue' = <<>>
    BY <2>1 DEF Finish
  <2>8. ui' \in Good
    <3>1. CASE outcome = "ok"
      <4>1. ui' = CommitAll([Now EXCEPT !.u = EndTurn(drained)]).u
        BY <2>1, <2>2, <3>1 DEF Finish, Show
      <4>. QED  BY <2>3, <4>1, TurnMade, ShownGood DEF Made
    <3>2. CASE outcome = "error"
      <4>1. ui' = CommitAll([Now EXCEPT !.u = Push(still, Entry("info", "success", 1))]).u
        BY <2>1, <2>2, <2>4, <2>5, <3>2 DEF Finish, Show
      <4>. QED  BY <2>6, <4>1, TurnMade, ShownGood DEF Made
    <3>3. CASE outcome = "abort"
      <4>1. ui' = [Now EXCEPT !.u = still].u
        BY <2>1, <2>2, <2>4, <2>5, <3>3 DEF Finish, Show
      <4>. QED  BY <2>6, <4>1, ShownGood
    <3>. QED  BY <3>1, <3>2, <3>3
  <2>. QED  BY <1>1, <2>7, <2>8 DEF UiInv, UiTypes, WaitInv
<1>6. CASE \E earlier \in Histories : Switch(earlier)
  <2>1. PICK earlier \in Histories : Switch(earlier)
    BY <1>6
  <2>2. /\ asked' = asked /\ granted' = granted /\ turn' = turn
        /\ stage = "idle" /\ stage' = stage /\ pending' \in BOOLEAN /\ queue' \in {queue, <<>>}
    BY <1>1, <2>1 DEF Switch, UiTypes
  <2>3. ui' \in Good
    <3>1. CASE Show(CommitAll([u |-> Fresh(earlier), on |-> <<>>]))
      <4>1. PICK s : s = [u |-> Fresh(earlier), on |-> <<>>]
        OBVIOUS
      <4>2. s.u \in Good /\ ui' = CommitAll(s).u
        BY <3>1, <4>1, FreshGood, HistoriesAssumption DEF Show
      <4>. QED  BY <4>2, CommitAllMade DEF Made
    <3>2. CASE Show([Now EXCEPT !.u = Push(ui, Entry("info", "success", 1))])
      <4>1. ui' = [Now EXCEPT !.u = Push(ui, Entry("info", "success", 1))].u
        BY <3>2 DEF Show
      <4>. QED  BY <1>1, <4>1, TurnMade, ShownGood DEF Made
    <3>. QED  BY <2>1, <3>1, <3>2 DEF Switch
  <2>. QED  BY <1>1, <2>2, <2>3 DEF UiInv, UiTypes, WaitInv
<1>. QED  BY <1>2, <1>3, <1>4, <1>5, <1>6

LEMMA ReceiveStep ==
    ASSUME UiInv, Receive
    PROVE  UiInv'
<1>1. /\ UiTypes /\ ui \in Good /\ queue \in Seq(Events) /\ queue # <<>> /\ queue' = Tail(queue)
      /\ stage' = stage /\ turn' = turn /\ asked' = asked /\ granted' = granted /\ pending' = pending
  BY DEF UiInv, UiTypes, Receive, engineVars
<1>2. PICK x : x = Handled(ui, Head(queue))
  OBVIOUS
<1>3. Head(queue) \in Events /\ queue' \in Seq(Events)
  BY <1>1
<1>4. x \in Good /\ (Head(queue).what = "request" => x.approval = Head(queue).call)
  BY <1>1, <1>2, <1>3, HandledIs
<1>5. Made(x, ui')
  <2>1. ui' = [Now EXCEPT !.u = x].u \/ ui' = CommitStreaming([Now EXCEPT !.u = x]).u
    BY <1>2 DEF Receive, Show
  <2>. QED  BY <1>4, <2>1, ShownGood DEF Made
<1>6. UiTypes'
  BY <1>1, <1>3, <1>5 DEF UiTypes, Made
<1>7. ASSUME stage = "waiting"
      PROVE  /\ Current \in asked
             /\ queue' = <<>> => ui'.approval = Current
             /\ queue' # <<>> => queue'[Len(queue')] = Ev("request", Current)
  <2>1. Current \in asked /\ queue[Len(queue)] = Ev("request", Current)
    BY <1>1, <1>7 DEF UiInv, WaitInv
  <2>2. CASE Len(queue) = 1
    <3>1. queue' = <<>> /\ Head(queue) = Ev("request", Current)
      BY <1>1, <2>1, <2>2
    <3>2. x.approval = Current
      BY <1>4, <3>1 DEF Ev
    <3>. QED  BY <1>5, <2>1, <3>1, <3>2 DEF Made
  <2>3. CASE Len(queue) # 1
    <3>1. queue' # <<>> /\ Len(queue') \in 1..(Len(queue) - 1) /\ queue'[Len(queue')] = queue[Len(queue)]
      <4>1. Len(queue) \in Nat /\ Len(queue) >= 2
        <5>1. queue \in Seq(Events) /\ queue # <<>>
          BY <1>1
        <5>2. PICK n \in Nat : n = Len(queue) /\ n # 0
          BY <5>1
        <5>3. n # 1
          BY <2>3, <5>2
        <5>4. n >= 2
          BY <5>2, <5>3
        <5>. QED  BY <5>2, <5>4
      <4>2. Len(queue') = Len(queue) - 1 /\ \A i \in 1..Len(queue') : queue'[i] = queue[i + 1]
        BY <1>1, <4>1
      <4>3. queue' # <<>> /\ Len(queue') \in 1..Len(queue')
        BY <1>3, <4>1, <4>2
      <4>. QED  BY <4>1, <4>2, <4>3
    <3>. QED  BY <2>1, <3>1
  <2>. QED  BY <2>2, <2>3
<1>8. Current' = Current
  BY <1>1 DEF Current
<1>9. WaitInv'
  BY <1>1, <1>7, <1>8 DEF WaitInv
<1>. QED  BY <1>6, <1>9 DEF UiInv

LEMMA AnswerStep ==
    ASSUME UiInv, NEW choice \in {"once", "always", "deny"}, Answer(choice)
    PROVE  UiInv'
<1> DEFINE c == ui.approval
           waited == stage = "waiting" /\ c = Current /\ c \in asked
<1>1. /\ UiTypes /\ WaitInv /\ ui \in Good /\ turn \in Turns /\ queue \in Seq(Events)
      /\ c \in Calls \cup {NoCall} /\ c # NoCall
  BY TurnIs, GoodIs DEF UiInv, UiTypes, Answer
<1>2. PICK x : x = [ui EXCEPT !.approval = NoCall]
  OBVIOUS
<1>3. x \in Good
  BY <1>1, <1>2, FieldsGood
<1>4. /\ ui' = CommitStreaming([Now EXCEPT !.u = x]).u
      /\ asked' = asked \ {c} /\ granted' \in BOOLEAN /\ pending' = pending
      /\ ~ waited => stage' = stage /\ turn' = turn /\ queue' = queue
      /\ waited /\ choice = "deny" =>
            /\ stage' = "tools" /\ turn' = [turn EXCEPT !.at = @ + 1]
            /\ queue' = queue \o <<Ev("cancelled", c)>>
      /\ waited /\ choice # "deny" =>
            stage' = "running" /\ turn' = turn /\ queue' = queue \o <<Ev("running", c)>>
  <2>1. [Now EXCEPT !.u.approval = NoCall] = [Now EXCEPT !.u = x]
    BY <1>2 DEF Now
  <2>. QED  BY <1>1, <2>1 DEF Answer, Show, Emit, UiTypes
<1>5. ui' \in Good
  BY <1>3, <1>4, ShownGood DEF Made
<1>6. CASE ~ waited
  <2>1. UiTypes'
    BY <1>1, <1>4, <1>5, <1>6 DEF UiTypes
  <2>2. Current' = Current
    BY <1>4, <1>6 DEF Current
  <2>3. WaitInv'
    <3>. SUFFICES ASSUME stage = "waiting"
                  PROVE  Current \in asked' /\ queue # <<>> /\ queue[Len(queue)] = Ev("request", Current)
      BY <1>4, <1>6, <2>2 DEF WaitInv
    <3>. QED  BY <1>1, <1>4, <1>6 DEF WaitInv
  <2>. QED  BY <2>1, <2>3 DEF UiInv
<1>7. CASE waited /\ choice = "deny"
  <2>1. queue' \in Seq(Events)
    BY <1>1, <1>4, <1>7, EventIs, EmitIs
  <2>2. PICK at \in Nat : at = turn.at + 1 /\ at > 0
    BY <1>1, TurnIs
  <2>3. turn' \in Turns /\ turn'.at > 0
    <3>1. turn' = [turn EXCEPT !.at = at]
      BY <1>4, <1>7, <2>2
    <3>. QED  BY <1>1, <2>2, <3>1, TurnWith
  <2>. QED  BY <1>1, <1>4, <1>5, <1>7, <2>1, <2>3 DEF UiInv, UiTypes, WaitInv
<1>8. CASE waited /\ choice # "deny"
  <2>1. queue' \in Seq(Events)
    BY <1>1, <1>4, <1>8, EventIs, EmitIs
  <2>. QED  BY <1>1, <1>4, <1>5, <1>8, <2>1 DEF UiInv, UiTypes, WaitInv
<1>. QED  BY <1>6, <1>7, <1>8

LEMMA CancelStep ==
    ASSUME UiInv, Cancel
    PROVE  UiInv'
<1>1. /\ UiTypes /\ ui \in Good /\ NewTurn \in Turns /\ queue \in Seq(Events) /\ <<>> \in Seq(Events)
  BY TurnIs DEF UiInv, UiTypes
<1>2. PICK denied : denied = [ui EXCEPT !.approval = NoCall]
  OBVIOUS
<1>3. PICK all : all = queue \o (IF stage \in {"tools", "waiting", "running"} THEN Results({}) ELSE <<>>)
  OBVIOUS
<1>4. PICK x : x = Drained(CancelTurn(denied), all)
  OBVIOUS
<1>5. all \in Seq(Events)
  BY <1>1, <1>3, ResultsAre
<1>6. CancelTurn(denied) \in Good
  <2>1. denied \in Good
    BY <1>1, <1>2, FieldsGood
  <2>. QED  BY <2>1, TurnMade DEF Made
<1>7. x \in Good
  BY <1>4, <1>5, <1>6, DrainedGood
<1>8. /\ ui' = CommitAll([Now EXCEPT !.u = x]).u
      /\ asked' \in SUBSET Calls /\ queue' = <<>> /\ stage' = "idle" /\ turn' = NewTurn
      /\ granted' = granted /\ pending' = pending
  BY <1>1, <1>2, <1>3, <1>4 DEF Cancel, Show, UiTypes
<1>9. ui' \in Good
  BY <1>7, <1>8, ShownGood DEF Made
<1>. QED  BY <1>1, <1>8, <1>9 DEF UiInv, UiTypes, WaitInv

LEMMA ResizeStep ==
    ASSUME UiInv, Resize
    PROVE  UiInv'
<1>1. /\ UiTypes /\ WaitInv /\ ui \in Good
      /\ queue' = queue /\ stage' = stage /\ turn' = turn /\ asked' = asked
      /\ granted' = granted /\ pending' = pending
  BY DEF UiInv, UiTypes, Resize
<1>2. PICK s : s = Reflowed(ui)
  OBVIOUS
<1>3. Made(ui, s.u) /\ Made(s.u, CommitStreaming(s).u)
  BY <1>1, <1>2, ReflowedMade, CommitStreamingMade DEF Made
<1>4. ui' = s.u \/ ui' = CommitStreaming(s).u
  BY <1>2 DEF Resize, Show
<1>5. ui' \in Good /\ ui'.approval = ui.approval
  BY <1>3, <1>4 DEF Made
<1>6. Current' = Current
  BY <1>1 DEF Current
<1>7. UiTypes'
  BY <1>1, <1>5 DEF UiTypes
<1>8. WaitInv'
  BY <1>1, <1>5, <1>6 DEF WaitInv
<1>. QED  BY <1>7, <1>8 DEF UiInv

LEMMA UiStarts ==
    ASSUME UiInit
    PROVE  UiInv
<1>1. Fresh(<<>>) \in Good
  <2>1. <<>> \in Seq(Entries) /\ DOMAIN <<>> = {}
    OBVIOUS
  <2>. QED  BY <2>1, FreshGood
<1>2. NewTurn \in Turns
  BY DEF NewTurn, Turns
<1>3. asked \in SUBSET Calls /\ granted \in BOOLEAN /\ pending \in BOOLEAN /\ queue \in Seq(Events)
  <2>1. <<>> \in Seq(Events)
    OBVIOUS
  <2>. QED  BY <2>1, Zenon DEF UiInit
<1>. QED  BY <1>1, <1>2, <1>3 DEF UiInit, UiInv, UiTypes, WaitInv

LEMMA UiStep ==
    ASSUME UiInv, [UiNext]_uiVars
    PROVE  UiInv'
<1>1. CASE UNCHANGED uiVars
  <2>1. /\ ui' = ui /\ queue' = queue /\ stage' = stage /\ turn' = turn /\ asked' = asked
        /\ granted' = granted /\ pending' = pending
    BY <1>1 DEF uiVars
  <2>. QED  BY <2>1 DEF UiInv, UiTypes, WaitInv, Current
<1>2. CASE UiNext
  BY <1>2, StreamSteps, ToolSteps, IdleSteps, ReceiveStep, AnswerStep, CancelStep, ResizeStep DEF UiNext
<1>. QED  BY <1>1, <1>2

LEMMA UisInvAlways == WatchedSpec => []UisInv
<1>1. WatchedInit => UisInv
  BY UiStarts DEF WatchedInit, UisInv
<1>2. UisInv /\ [WatchedNext]_<<which, vars, uiVars>> => UisInv'
  <2>. SUFFICES ASSUME UisInv, [WatchedNext]_<<which, vars, uiVars>>, which' = "ui"
                PROVE  UiInv'
    BY DEF UisInv
  <2>1. which = "ui" /\ [UiNext]_uiVars
    BY DEF WatchedNext
  <2>. QED  BY <2>1, UiStep DEF UisInv
<1>. QED  BY <1>1, <1>2, PTL DEF WatchedSpec

\* When the engine waits for a decision and nothing is on its way to the screen,
\* the prompt there is the one for that call, and deciding on it lets the engine
\* go on: whatever is streamed, resized, answered too early or cancelled
\* meanwhile, and however long the channel (app.rs 500-565, tui state.rs 234-309).
THEOREM PromptAlways == WatchedSpec => []WaitIsPrompted
<1>1. UisInv => WaitIsPrompted
  BY DEF UisInv, UiInv, WaitInv, WaitIsPrompted, PromptReachesUser
<1>. QED  BY <1>1, UisInvAlways, PTL

\* Every tracker, index and tool state has its type in every behaviour.
THEOREM WatchedTypeCorrect == WatchedSpec => []WatchedTypeOK
<1>1. UisInv => (which = "ui" => UiTypeOK)
  <2>. SUFFICES ASSUME UiTypes PROVE UiTypeOK
    BY DEF UisInv, UiInv
  <2>1. ui \in Good
    BY DEF UiTypes
  <2>2. \A i \in DOMAIN ui.transcript : /\ ui.transcript[i].kind \in EntryKinds
                                        /\ ui.transcript[i].status \in Statuses
                                        /\ ui.transcript[i].offset \in 0..ui.transcript[i].size
    <3>1. \A e \in Entries : /\ e.kind \in EntryKinds /\ e.status \in Statuses
                             /\ (e.offset <= e.size => e.offset \in 0..e.size)
      BY DEF Entries
    <3>. QED  BY <2>1, <3>1, GoodIs
  <2>3. \A c \in Calls : ui.tools[c] \in 0..Len(ui.transcript)
    BY <2>1, GoodIs
  <2>. QED  BY <2>1, <2>2, <2>3, GoodIs DEF UiTypes, UiTypeOK
<1>2. GuardsInv => (which = "guards" => TypeOK)
  BY GuardInvImplies DEF GuardsInv
<1>3. UisInv /\ GuardsInv => WatchedTypeOK
  BY <1>1, <1>2 DEF WatchedTypeOK
<1>. QED  BY <1>3, UisInvAlways, GuardsInvAlways, PTL

-------------------------------------------------------------------------------
(* The scrollback.  ScrollbackTrue is not inductive: that a paragraph is    *)
(* written once depends on where the text that grows stands, and that a    *)
(* tool's line is final on the events that are still in the channel and on *)
(* those the engine has yet to send.  ScreenInv says how the three agree.  *)

Texts == {"assistant", "thinking"}

\* How much of each entry is in the scrollback.
ReachTo(u, b) == [i \in DOMAIN u.transcript |-> IF i <= b THEN u.transcript[i].size
                                                ELSE u.transcript[i].offset]
Reach(u) == ReachTo(u, u.committed)

PieceType == [entry : Nat, from : Nat, to : Nat, status : Statuses]

\* The pieces follow one another, entry after entry, up to what r says of each.
Sewn(on, r) ==
    /\ \A j, k \in DOMAIN on : j <= k => on[j].entry <= on[k].entry
    /\ \A k \in DOMAIN on :
          /\ on[k].entry \in DOMAIN r
          /\ on[k].from = IF k > 1 /\ on[k - 1].entry = on[k].entry THEN on[k - 1].to ELSE 0
          /\ (k = Len(on) \/ on[k + 1].entry # on[k].entry) => on[k].to = r[on[k].entry]
    /\ \A i \in DOMAIN r : r[i] > 0 <=> \E k \in DOMAIN on : on[k].entry = i

Agrees(a, b) == a = b \/ {a, b} = {"cancelled", "error"}
Shows(u, on) == \A k \in DOMAIN on : Agrees(on[k].status, u.transcript[on[k].entry].status)

\* Of what is not committed, only a text that comes next is shown in part.
Peeked(u) ==
    \A i \in DOMAIN u.transcript :
        i > u.committed /\ u.transcript[i].offset > 0 =>
            i = u.committed + 1 /\ u.transcript[i].kind \in Texts

\* A call has an entry of its own; one that is muted has had its end.
Tooled(u) ==
    \A c \in Calls :
        /\ u.tools[c] # 0 => u.transcript[u.tools[c]].kind = "tool"
        /\ \A d \in Calls : u.tools[c] = u.tools[d] /\ u.tools[c] # 0 => c = d
        /\ c \in u.muted => /\ u.tools[c] # 0
                            /\ u.transcript[u.tools[c]].status \in {"success", "error"}

Scrolled(u, on) ==
    on \in Seq(PieceType) /\ Peeked(u) /\ Tooled(u) /\ Sewn(on, Reach(u)) /\ Shows(u, on)

\* The text that grows is the last one, and not committed.
LastText(u, i) == i > u.committed
                  /\ \A j \in DOMAIN u.transcript : j > i => u.transcript[j].kind \notin Texts
Growing(u) ==
    /\ u.assistant # 0 => LastText(u, u.assistant)
    /\ u.thinking # 0 /\ u.assistant = 0 => LastText(u, u.thinking)

\* How far a call has come: by its events, and by its entry.
LevelOf(what) == CASE what = "call" -> 1 [] what = "request" -> 2 [] what = "running" -> 3
                   [] what \in {"cancelled", "done", "failed"} -> 4 [] OTHER -> 5
StatusLevel(status) == CASE status = "queued" -> 1 [] status = "approval" -> 2
                         [] status = "running" -> 3 [] status = "cancelled" -> 4 [] OTHER -> 5
Reached(u, c) == IF u.tools[c] = 0 THEN 0 ELSE IF c \in u.muted THEN 4
                 ELSE StatusLevel(u.transcript[u.tools[c]].status)

\* A call's events are ahead of its entry, and in order.
Ahead(u, q) ==
    \A k \in DOMAIN q : q[k].call \in Calls =>
        /\ LevelOf(q[k].what) > Reached(u, q[k].call)
        /\ \A j \in 1..(k - 1) : q[j].call = q[k].call => LevelOf(q[j].what) < LevelOf(q[k].what)

\* A call is known before anything else of it, and a success has been earned.
Announced(u, q, c) == u.tools[c] # 0 \/ \E j \in DOMAIN q : q[j] = Ev("call", c)
Earned(u, q, c)    == c \in u.muted \/ \E j \in DOMAIN q : q[j] = Ev("done", c)

\* What is committed has ended.
Settled(u, c) == u.tools[c] \in 1..u.committed => Reached(u, c) >= 4

\* No thinking follows a text of the same response.
Quiet(u, q, k) ==
    /\ u.assistant # 0 => \E m \in 1..(k - 1) : q[m].what = "start"
    /\ \A j \in 1..(k - 1) : q[j].what = "assistant" =>
            \E m \in (j + 1)..(k - 1) : q[m].what = "start"

Coming(u, q) ==
    /\ Ahead(u, q)
    /\ \A k \in DOMAIN q :
          /\ q[k].call \in Calls => Announced(u, q, q[k].call) /\ Settled(u, q[k].call)
          /\ q[k].what = "success" => Earned(u, q, q[k].call)
          /\ q[k].what = "thinking" => Quiet(u, q, k)

\* How far the engine has told of a call of its response.
Due(st, t, p) == IF st = "stream" \/ p > t.at THEN 1 ELSE IF p < t.at THEN 4
                 ELSE IF st = "waiting" THEN 2 ELSE IF st = "running" THEN 3 ELSE 1

\* Nothing of a call is further than d, and what is committed of it has ended.
Told(u, q, c, d) ==
    /\ Reached(u, c) <= d
    /\ \A k \in DOMAIN q : q[k].call = c => LevelOf(q[k].what) <= d
    /\ Announced(u, q, c) /\ Settled(u, c)

CallRuns(u, q, st, t, p) ==
    /\ Told(u, q, t.calls[p], Due(st, t, p))
    /\ t.calls[p] \in t.ran => Earned(u, q, t.calls[p])

Responding(u, q, st, t) ==
    /\ st \notin {"stream", "tools", "waiting", "running"} => t.calls = <<>>
    /\ st = "stream" => t.ran = {}
    /\ \A p, o \in DOMAIN t.calls : t.calls[p] = t.calls[o] => p = o
    /\ \A p \in DOMAIN t.calls : CallRuns(u, q, st, t, p)
    /\ st = "stream" /\ ~t.texts => Quiet(u, q, Len(q) + 1)

ScreenInv ==
    /\ Scrolled(ui, scroll)
    /\ stage = "idle" => queue = <<>>
    /\ InTurn => Growing(ui) /\ Coming(ui, queue) /\ Responding(ui, queue, stage, turn)

\* What is on the screen goes on with the entries up to b.
Continues(u, on, b) ==
    /\ on \o Pieces(u, u.committed, b) \in Seq(PieceType)
    /\ Sewn(on \o Pieces(u, u.committed, b), ReachTo(u, b))
    /\ Shows(u, on \o Pieces(u, u.committed, b))

\* A commit changes what has been shown, and nothing else.
Commits(u, w) ==
    /\ w.tools = u.tools /\ w.muted = u.muted
    /\ w.assistant = u.assistant /\ w.thinking = u.thinking
    /\ Len(w.transcript) = Len(u.transcript)
    /\ \A i \in DOMAIN u.transcript : /\ w.transcript[i].kind = u.transcript[i].kind
                                      /\ w.transcript[i].status = u.transcript[i].status

\* commit_streaming_history made s of the interface u, whose last entry is x.
Streams(u, n, x, on, s) ==
    /\ n > u.committed /\ x.kind \in Texts
    /\ \A i \in (u.committed + 1)..(n - 1) : Stable(u.transcript[i])
    /\ s.u = With(u, [u.transcript EXCEPT ![n] =
                         [x EXCEPT !.offset = IF x.size - 1 > x.offset THEN x.size - 1 ELSE x.offset]],
                  n - 1, u.assistant, u.thinking, u.tools, u.busy)
    /\ s.on = on \o Pieces(u, u.committed, n - 1)
                 \o (IF x.size - 1 > x.offset THEN <<Piece(u, n, x.size - 1)>> ELSE <<>>)

LEMMA ReachIs ==
    ASSUME NEW u \in Good
    PROVE  /\ Len(u.transcript) \in Nat /\ DOMAIN u.transcript = 1..Len(u.transcript)
           /\ u.committed \in 0..Len(u.transcript)
           /\ Reach(u) = ReachTo(u, u.committed)
           /\ \A b : ReachTo(u, b) \in [1..Len(u.transcript) -> Nat]
           /\ \A i \in 1..Len(u.transcript) :
                 /\ u.transcript[i].size \in Nat /\ u.transcript[i].size > 0
                 /\ u.transcript[i].offset \in Nat /\ u.transcript[i].status \in Statuses
                 /\ \A b : ReachTo(u, b)[i] = IF i <= b THEN u.transcript[i].size
                                              ELSE u.transcript[i].offset
<1>1. /\ Len(u.transcript) \in Nat /\ DOMAIN u.transcript = 1..Len(u.transcript)
      /\ u.committed \in 0..Len(u.transcript)
  BY GoodIs
<1>2. ASSUME NEW i \in 1..Len(u.transcript)
      PROVE  /\ u.transcript[i].size \in Nat /\ u.transcript[i].size > 0
             /\ u.transcript[i].offset \in Nat /\ u.transcript[i].status \in Statuses
  <2>1. u.transcript[i] \in Entries
    BY <1>1, <1>2, GoodIs
  <2>. QED  BY <2>1 DEF Entries
<1>3. ASSUME NEW b
      PROVE  /\ ReachTo(u, b) \in [1..Len(u.transcript) -> Nat]
             /\ \A i \in 1..Len(u.transcript) :
                   ReachTo(u, b)[i] = IF i <= b THEN u.transcript[i].size ELSE u.transcript[i].offset
  BY <1>1, <1>2 DEF ReachTo
<1>. QED  BY <1>1, <1>2, <1>3 DEF Reach

\* A piece more, of the last entry or of a later one, that begins where the entry's
\* pieces end.
LEMMA SewnOne ==
    ASSUME NEW on \in Seq(PieceType), NEW n \in Nat, NEW r \in [1..n -> Nat], Sewn(on, r),
           NEW p \in PieceType, p.entry \in 1..n, p.from = r[p.entry], p.to > 0,
           \A k \in DOMAIN on : on[k].entry <= p.entry
    PROVE  /\ Append(on, p) \in Seq(PieceType)
           /\ Sewn(Append(on, p), [r EXCEPT ![p.entry] = p.to])
<1>1. PICK l \in Nat : l = Len(on)
  OBVIOUS
<1>2. PICK e \in 1..n : e = p.entry
  OBVIOUS
<1>3. PICK a : a = Append(on, p)
  OBVIOUS
<1>4. /\ a \in Seq(PieceType) /\ Len(a) = l + 1 /\ DOMAIN a = 1..(l + 1) /\ DOMAIN on = 1..l
      /\ a[l + 1] = p /\ \A k \in 1..l : a[k] = on[k]
  BY <1>1, <1>3
<1>5. PICK s \in [1..n -> Nat] : s = [r EXCEPT ![e] = p.to]
  <2>1. p.to \in Nat
    BY DEF PieceType
  <2>. QED  BY <2>1
<1>6. s[e] = p.to /\ \A i \in 1..n : i # e => s[i] = r[i]
  BY <1>5
<1>7. DOMAIN s = 1..n /\ DOMAIN r = 1..n
  BY <1>5
<1>8. \A k \in 1..l : on[k] \in PieceType /\ on[k].entry \in 1..n /\ on[k].entry <= e
  <2>. TAKE k \in 1..l
  <2>1. on[k] \in PieceType /\ k \in DOMAIN on
    BY <1>1, <1>4
  <2>2. on[k].entry \in DOMAIN r
    BY <2>1, Zenon DEF Sewn
  <2>. QED  BY <1>2, <1>7, <2>1, <2>2
<1>9. \A j, k \in DOMAIN a : j <= k => a[j].entry <= a[k].entry
  <2>1. ASSUME NEW j \in 1..(l + 1), NEW k \in 1..(l + 1), j <= k PROVE a[j].entry <= a[k].entry
    <3>1. CASE k \in 1..l
      <4>1. j \in 1..l /\ a[j] = on[j] /\ a[k] = on[k]
        BY <1>4, <2>1, <3>1
      <4>. QED  BY <1>4, <2>1, <3>1, <4>1 DEF Sewn
    <3>2. CASE k = l + 1
      <4>1. CASE j = l + 1
        BY <1>2, <1>4, <3>2, <4>1
      <4>2. CASE j \in 1..l
        BY <1>2, <1>4, <1>8, <3>2, <4>2
      <4>. QED  BY <4>1, <4>2
    <3>. QED  BY <3>1, <3>2
  <2>. QED  BY <1>4, <2>1
\* no piece of the entry yet, or the last one ends where this one begins
<1>10. IF l > 0 /\ on[l].entry = e THEN p.from = on[l].to
       ELSE p.from = 0 /\ \A k \in 1..l : on[k].entry # e
  <2>1. CASE l > 0 /\ on[l].entry = e
    <3>1. l \in DOMAIN on /\ l = Len(on)
      BY <1>1, <1>4, <2>1
    <3>2. on[l].to = r[on[l].entry]
      BY <3>1 DEF Sewn
    <3>. QED  BY <1>2, <2>1, <3>2
  <2>2. CASE ~ (l > 0 /\ on[l].entry = e)
    <3>1. ASSUME NEW k \in 1..l, on[k].entry = e PROVE FALSE
      <4>1. k <= l /\ l \in 1..l
        BY <3>1
      <4>2. on[k].entry <= on[l].entry
        BY <1>4, <4>1 DEF Sewn
      <4>3. on[l].entry <= e /\ on[l].entry \in Nat
        BY <1>8, <4>1
      <4>4. e <= on[l].entry /\ l > 0
        BY <3>1, <4>1, <4>2
      <4>5. \A i \in Nat : e <= i /\ i <= e => i = e
        OBVIOUS
      <4>. QED  BY <2>2, <4>3, <4>4, <4>5
    <3>2. ~ (r[e] > 0)
      BY <1>4, <1>7, <3>1 DEF Sewn
    <3>. QED  BY <1>2, <2>2, <3>1, <3>2
  <2>. QED  BY <2>1, <2>2
<1>11. ASSUME NEW k \in DOMAIN a
       PROVE  /\ a[k].entry \in DOMAIN s
              /\ a[k].from = IF k > 1 /\ a[k - 1].entry = a[k].entry THEN a[k - 1].to ELSE 0
              /\ (k = Len(a) \/ a[k + 1].entry # a[k].entry) => a[k].to = s[a[k].entry]
  <2>1. CASE k \in 1..l
    <3>1. /\ on[k].entry \in 1..n
          /\ on[k].from = IF k > 1 /\ on[k - 1].entry = on[k].entry THEN on[k - 1].to ELSE 0
          /\ (k = l \/ on[k + 1].entry # on[k].entry) => on[k].to = r[on[k].entry]
      BY <1>1, <1>4, <1>7, <2>1 DEF Sewn
    <3>2. a[k] = on[k] /\ (k > 1 => a[k - 1] = on[k - 1])
      BY <1>4, <2>1
    <3>3. ASSUME k = Len(a) \/ a[k + 1].entry # a[k].entry
          PROVE  a[k].to = s[a[k].entry]
      <4>1. CASE k = l
        <5>1. p.entry # on[k].entry
          BY <1>4, <2>1, <3>2, <3>3, <4>1
        <5>. QED  BY <1>2, <1>6, <3>1, <3>2, <4>1, <5>1
      <4>2. CASE k # l
        <5>1. k + 1 \in 1..l /\ a[k + 1] = on[k + 1]
          <6>1. k + 1 \in 1..l
            BY <2>1, <4>2
          <6>. QED  BY <1>4, <6>1
        <5>2. on[k + 1].entry # on[k].entry
          BY <1>4, <3>2, <3>3, <5>1
        <5>3. on[k].entry # e
          <6>1. on[k].entry <= on[k + 1].entry
            <7>1. k \in DOMAIN on /\ k + 1 \in DOMAIN on /\ k <= k + 1
              BY <1>4, <2>1, <5>1
            <7>. QED  BY <7>1, Zenon DEF Sewn
          <6>. QED  BY <1>8, <2>1, <5>1, <5>2, <6>1
        <5>. QED  BY <1>6, <3>1, <3>2, <5>2, <5>3
      <4>. QED  BY <4>1, <4>2
    <3>. QED  BY <1>7, <3>1, <3>2, <3>3
  <2>2. CASE k = l + 1
    <3>1. a[k] = p /\ a[k].entry = e /\ a[k].to = s[e] /\ (k > 1 => a[k - 1] = on[l])
      <4>1. a[k] = p /\ p.entry = e /\ s[e] = p.to
        BY <1>2, <1>4, <1>6, <2>2
      <4>2. k > 1 => a[k - 1] = on[l]
        <5>. SUFFICES ASSUME k > 1 PROVE a[k - 1] = on[l]
          OBVIOUS
        <5>1. k - 1 = l /\ l \in 1..l
          BY <1>1, <2>2
        <5>. QED  BY <1>4, <5>1
      <4>. QED  BY <4>1, <4>2
    <3>2. a[k].from = IF k > 1 /\ a[k - 1].entry = a[k].entry THEN a[k - 1].to ELSE 0
      BY <1>10, <2>2, <3>1
    <3>. QED  BY <1>2, <1>7, <3>1, <3>2
  <2>. QED  BY <1>4, <2>1, <2>2
<1>12. ASSUME NEW i \in DOMAIN s PROVE s[i] > 0 <=> \E k \in DOMAIN a : a[k].entry = i
  <2>1. CASE i = e
    <3>1. l + 1 \in DOMAIN a /\ a[l + 1].entry = e
      BY <1>2, <1>4
    <3>. QED  BY <1>6, <2>1, <3>1
  <2>2. CASE i # e
    <3>1. r[i] > 0 <=> \E k \in 1..l : on[k].entry = i
      BY <1>4, <1>7, <1>12 DEF Sewn
    <3>2. (\E k \in DOMAIN a : a[k].entry = i) <=> \E k \in 1..l : on[k].entry = i
      <4>1. ASSUME NEW k \in DOMAIN a, a[k].entry = i PROVE k \in 1..l /\ on[k].entry = i
        BY <1>2, <1>4, <2>2, <4>1
      <4>2. ASSUME NEW k \in 1..l, on[k].entry = i PROVE k \in DOMAIN a /\ a[k].entry = i
        BY <1>4, <4>2
      <4>. QED  BY <4>1, <4>2
    <3>. QED  BY <1>6, <1>7, <1>12, <2>2, <3>1, <3>2
  <2>. QED  BY <2>1, <2>2
<1>13. Sewn(a, s)
  BY <1>9, <1>11, <1>12 DEF Sewn
<1>. QED  BY <1>2, <1>3, <1>4, <1>5, <1>13

LEMMA AppendIs ==
    ASSUME NEW T, NEW s \in Seq(T), NEW e \in T, NEW n \in Nat, n = Len(s)
    PROVE  Append(s, e) = [k \in 1..(n + 1) |-> IF k <= n THEN s[k] ELSE e]
<1>1. PICK a : a = Append(s, e)
  OBVIOUS
<1>2. /\ a \in Seq(T) /\ Len(a) = n + 1 /\ a[n + 1] = e /\ \A k \in 1..n : a[k] = s[k]
  BY <1>1
<1>3. \A k \in 1..(n + 1) : a[k] = IF k <= n THEN s[k] ELSE e
  BY <1>2
<1>4. a = [k \in 1..(n + 1) |-> a[k]]
  BY <1>2
<1>. QED  BY <1>1, <1>3, <1>4

LEMMA CatAppend ==
    ASSUME NEW T, NEW a \in Seq(T), NEW b \in Seq(T), NEW e \in T
    PROVE  a \o Append(b, e) = Append(a \o b, e)
OBVIOUS

LEMMA ShowsOne ==
    ASSUME NEW u, NEW on \in Seq(PieceType), Shows(u, on), NEW p \in PieceType,
           p.status = u.transcript[p.entry].status
    PROVE  Shows(u, Append(on, p))
<1>1. PICK a : a = Append(on, p)
  OBVIOUS
<1>2. PICK l \in Nat : l = Len(on)
  OBVIOUS
<1>3. DOMAIN a = 1..(l + 1) /\ DOMAIN on = 1..l /\ a[l + 1] = p /\ \A k \in 1..l : a[k] = on[k]
  BY <1>1, <1>2
<1>4. ASSUME NEW k \in DOMAIN a PROVE Agrees(a[k].status, u.transcript[a[k].entry].status)
  <2>1. CASE k \in 1..l
    <3>1. a[k] = on[k] /\ k \in DOMAIN on
      BY <1>3, <2>1
    <3>. QED  BY <3>1 DEF Shows
  <2>2. CASE k = l + 1
    BY <1>3, <2>2 DEF Agrees
  <2>. QED  BY <1>3, <2>1, <2>2
<1>. QED  BY <1>1, <1>4 DEF Shows

\* The entries from the first that is not committed to b are added whole.
LEMMA SewnPieces ==
    ASSUME NEW u \in Good, NEW on \in Seq(PieceType), Peeked(u), Sewn(on, Reach(u)), Shows(u, on),
           NEW b \in u.committed..Len(u.transcript)
    PROVE  Continues(u, on, b)
<1> DEFINE c == u.committed
           S == {m \in Nat : m \in c..b => Continues(u, on, m)}
<1>1. PICK n \in Nat : n = Len(u.transcript)
  BY ReachIs
<1>2. /\ DOMAIN u.transcript = 1..n /\ c \in 0..n /\ Reach(u) = ReachTo(u, c) /\ b \in c..n
      /\ \A m : ReachTo(u, m) \in [1..n -> Nat]
      /\ \A i \in 1..n : /\ u.transcript[i].size \in Nat /\ u.transcript[i].size > 0
                         /\ u.transcript[i].offset \in Nat /\ u.transcript[i].status \in Statuses
                         /\ \A m : ReachTo(u, m)[i] = IF i <= m THEN u.transcript[i].size
                                                      ELSE u.transcript[i].offset
  BY <1>1, ReachIs
<1>3. Continues(u, on, c)
  <2>1. Pieces(u, c, c) = <<>>
    <3>1. 1..(c - c) = {}
      BY <1>2
    <3>. QED  BY <3>1 DEF Pieces
  <2>2. on \o Pieces(u, c, c) = on
    <3>1. on \o <<>> = on
      OBVIOUS
    <3>. QED  BY <2>1, <3>1
  <2>. QED  BY <1>2, <2>2 DEF Continues
<1>4. ASSUME NEW m \in c..(b - 1), Continues(u, on, m)
      PROVE  Continues(u, on, m + 1)
  <2>1. m \in Nat /\ m + 1 \in 1..n /\ m <= b
    BY <1>2
  <2>2. PICK a : a = on \o Pieces(u, c, m)
    OBVIOUS
  <2>3. a \in Seq(PieceType) /\ Sewn(a, ReachTo(u, m)) /\ Shows(u, a)
    BY <1>4, <2>2 DEF Continues
  <2>4. PICK p : p = Whole(u, m + 1)
    OBVIOUS
  <2>5. PICK x : x = u.transcript[m + 1]
    OBVIOUS
  <2>6. /\ p = [entry |-> m + 1, from |-> x.offset, to |-> x.size, status |-> x.status]
        /\ x.offset \in Nat /\ x.size \in Nat /\ x.size > 0 /\ x.status \in Statuses
    BY <1>2, <2>1, <2>4, <2>5 DEF Whole, Piece
  <2>7. p \in PieceType /\ p.entry = m + 1 /\ p.from = x.offset /\ p.to = x.size /\ p.status = x.status
    BY <2>1, <2>6 DEF PieceType
  <2>8. on \o Pieces(u, c, m + 1) = Append(a, p)
    <3>1. PICK q : q = Pieces(u, c, m)
      OBVIOUS
    <3>2. m - c \in Nat /\ (m + 1) - c = (m - c) + 1 /\ c + ((m - c) + 1) = m + 1
      <4>1. c \in Nat /\ m \in Nat /\ c <= m
        BY <1>2, <2>1
      <4>2. PICK j \in Nat : j = c /\ j <= m
        BY <4>1
      <4>. QED  BY <4>1, <4>2
    <3>3. \A k \in 1..((m - c) + 1) : Whole(u, c + k) \in PieceType
      <4>. TAKE k \in 1..((m - c) + 1)
      <4>1. c + k \in 1..n
        <5>1. c \in Nat /\ m \in Nat /\ n \in Nat /\ c <= m /\ m + 1 <= n
          BY <1>2, <2>1
        <5>2. k \in Nat /\ 1 <= k /\ k <= (m - c) + 1
          BY <5>1
        <5>. QED  BY <5>1, <5>2
      <4>2. PICK y : y = u.transcript[c + k]
        OBVIOUS
      <4>3. y.offset \in Nat /\ y.size \in Nat /\ y.status \in Statuses
        BY <1>2, <4>1, <4>2
      <4>4. Whole(u, c + k) = [entry |-> c + k, from |-> y.offset, to |-> y.size, status |-> y.status]
        BY <4>2 DEF Whole, Piece
      <4>. QED  BY <4>1, <4>3, <4>4 DEF PieceType
    <3>4. q = [k \in 1..(m - c) |-> Whole(u, c + k)]
      BY <3>1 DEF Pieces
    <3>5. q \in Seq(PieceType) /\ Len(q) = m - c /\ \A k \in 1..(m - c) : q[k] = Whole(u, c + k)
      <4>1. \A k \in 1..(m - c) : Whole(u, c + k) \in PieceType
        BY <3>2, <3>3
      <4>2. q \in [1..(m - c) -> PieceType]
        BY <3>4, <4>1
      <4>3. PICK l \in Nat : l = m - c
        BY <3>2
      <4>4. q \in [1..l -> PieceType] /\ \A k \in 1..l : q[k] = Whole(u, c + k)
        BY <3>4, <4>2, <4>3
      <4>5. q \in Seq(PieceType) /\ Len(q) = l
        BY <4>4
      <4>. QED  BY <4>3, <4>4, <4>5
    <3>6. Pieces(u, c, m + 1) = Append(q, p)
      <4>1. Pieces(u, c, m + 1) = [k \in 1..((m - c) + 1) |-> Whole(u, c + k)]
        BY <3>2 DEF Pieces
      <4>2. Append(q, p) = [k \in 1..((m - c) + 1) |-> IF k <= m - c THEN q[k] ELSE p]
        BY <2>7, <3>2, <3>5, AppendIs
      <4>3. ASSUME NEW k \in 1..((m - c) + 1)
            PROVE  Whole(u, c + k) = IF k <= m - c THEN q[k] ELSE p
        <5>1. CASE k <= m - c
          BY <3>2, <3>5, <5>1
        <5>2. CASE ~ (k <= m - c)
          <6>1. k = (m - c) + 1
            BY <3>2, <5>2
          <6>. QED  BY <2>4, <3>2, <5>2, <6>1
        <5>. QED  BY <5>1, <5>2
      <4>. QED  BY <4>1, <4>2, <4>3
    <3>7. on \o Append(q, p) = Append(on \o q, p)
      <4>1. p \in PieceType /\ q \in Seq(PieceType) /\ on \in Seq(PieceType)
        BY <2>7, <3>5
      <4>. QED  BY <4>1, CatAppend
    <3>. QED  BY <2>2, <3>1, <3>6, <3>7
  <2>9. p.from = ReachTo(u, m)[m + 1] /\ p.to > 0
    BY <1>2, <2>1, <2>5, <2>6, <2>7
  <2>10. ASSUME NEW k \in DOMAIN a PROVE a[k].entry <= p.entry
    <3>1. PICK i : i = a[k].entry
      OBVIOUS
    <3>2. DOMAIN ReachTo(u, m) = 1..n
      BY <1>2
    <3>3. i \in 1..n /\ ReachTo(u, m)[i] > 0
      BY <2>3, <2>10, <3>1, <3>2, Zenon DEF Sewn
    <3>4. CASE i <= m
      BY <2>1, <2>7, <3>1, <3>3, <3>4
    <3>5. CASE ~ (i <= m)
      <4>1. i > c /\ u.transcript[i].offset > 0
        <5>1. ReachTo(u, m)[i] = u.transcript[i].offset
          BY <1>2, <3>3, <3>5
        <5>2. i > c
          BY <1>2, <2>1, <3>3, <3>5
        <5>. QED  BY <3>3, <5>1, <5>2
      <4>2. i = c + 1
        BY <1>2, <3>3, <4>1 DEF Peeked
      <4>. QED  BY <1>2, <2>1, <2>7, <3>1, <4>2
    <3>. QED  BY <3>4, <3>5
  <2>11. [ReachTo(u, m) EXCEPT ![p.entry] = p.to] = ReachTo(u, m + 1)
    <3>1. PICK r \in [1..n -> Nat] : r = ReachTo(u, m)
      BY <1>2
    <3>2. PICK s \in [1..n -> Nat] : s = ReachTo(u, m + 1)
      BY <1>2
    <3>3. ASSUME NEW i \in 1..n PROVE s[i] = IF i = m + 1 THEN x.size ELSE r[i]
      <4>1. /\ s[i] = IF i <= m + 1 THEN u.transcript[i].size ELSE u.transcript[i].offset
            /\ r[i] = IF i <= m THEN u.transcript[i].size ELSE u.transcript[i].offset
        BY <1>2, <3>1, <3>2
      <4>. QED  BY <2>1, <2>5, <4>1
    <3>4. [r EXCEPT ![m + 1] = x.size] = s
      BY <2>1, <2>6, <3>3
    <3>. QED  BY <2>7, <3>1, <3>2, <3>4
  <2>12. Append(a, p) \in Seq(PieceType) /\ Sewn(Append(a, p), ReachTo(u, m + 1))
    <3>1. PICK r \in [1..n -> Nat] : r = ReachTo(u, m)
      BY <1>2
    <3>2. p.entry \in 1..n /\ p.from = r[p.entry] /\ Sewn(a, r)
      BY <2>1, <2>3, <2>7, <2>9, <3>1
    <3>3. Append(a, p) \in Seq(PieceType) /\ Sewn(Append(a, p), [r EXCEPT ![p.entry] = p.to])
      BY <2>3, <2>7, <2>9, <2>10, <3>2, SewnOne
    <3>. QED  BY <2>11, <3>1, <3>3
  <2>13. Shows(u, Append(a, p))
    BY <2>3, <2>5, <2>7, ShowsOne
  <2>. QED  BY <2>8, <2>12, <2>13 DEF Continues
<1>5. 0 \in S
  <2>1. ASSUME 0 \in c..b PROVE Continues(u, on, 0)
    <3>1. c = 0
      BY <1>2, <2>1
    <3>. QED  BY <1>3, <3>1
  <2>. QED  BY <2>1
<1>6. ASSUME NEW m \in S PROVE m + 1 \in S
  <2>. SUFFICES ASSUME m + 1 \in c..b PROVE Continues(u, on, m + 1)
    OBVIOUS
  <2>1. CASE m + 1 = c
    BY <1>3, <2>1
  <2>2. CASE m + 1 # c
    <3>1. m \in c..(b - 1) /\ m \in c..b
      BY <1>2, <2>2
    <3>. QED  BY <1>4, <1>6, <3>1
  <2>. QED  BY <2>1, <2>2
<1>. HIDE DEF S
<1>7. S = Nat
  <2>1. S \in SUBSET Nat
    BY DEF S
  <2>. QED  BY <1>5, <1>6, <2>1, SetInduction
<1>. QED
  <2>1. b \in Nat /\ b \in c..b
    BY <1>2
  <2>. QED  BY <1>7, <2>1 DEF S

-------------------------------------------------------------------------------
(* What is committed, and what a resize writes anew.                       *)

LEMMA CommitsReached ==
    ASSUME NEW u \in Good, NEW w \in Good, Commits(u, w)
    PROVE  /\ \A c \in Calls : Reached(w, c) = Reached(u, c)
           /\ Tooled(u) => Tooled(w)
           /\ \A on : Shows(u, on) /\ (\A k \in DOMAIN on : on[k].entry \in DOMAIN u.transcript)
                         => Shows(w, on)
<1>1. /\ Len(u.transcript) \in Nat /\ DOMAIN u.transcript = 1..Len(u.transcript)
      /\ DOMAIN w.transcript = DOMAIN u.transcript
      /\ \A c \in Calls : u.tools[c] \in 0..Len(u.transcript)
  BY GoodIs DEF Commits
<1>2. \A c \in Calls : u.tools[c] # 0 => u.tools[c] \in DOMAIN u.transcript
  BY <1>1
<1>3. \A c \in Calls : Reached(w, c) = Reached(u, c)
  BY <1>2 DEF Commits, Reached
<1>4. Tooled(u) => Tooled(w)
  <2>. SUFFICES ASSUME Tooled(u), NEW c \in Calls
                PROVE  /\ w.tools[c] # 0 => w.transcript[w.tools[c]].kind = "tool"
                       /\ \A d \in Calls : w.tools[c] = w.tools[d] /\ w.tools[c] # 0 => c = d
                       /\ c \in w.muted =>
                             /\ w.tools[c] # 0
                             /\ w.transcript[w.tools[c]].status \in {"success", "error"}
    BY DEF Tooled
  <2>1. w.tools = u.tools /\ w.muted = u.muted
    BY DEF Commits
  <2>2. u.tools[c] # 0 => /\ w.transcript[u.tools[c]].kind = u.transcript[u.tools[c]].kind
                          /\ w.transcript[u.tools[c]].status = u.transcript[u.tools[c]].status
    BY <1>2 DEF Commits
  <2>. QED  BY <2>1, <2>2 DEF Tooled
<1>5. \A on : Shows(u, on) /\ (\A k \in DOMAIN on : on[k].entry \in DOMAIN u.transcript)
                  => Shows(w, on)
  BY DEF Commits, Shows
<1>. QED  BY <1>3, <1>4, <1>5

\* What is to come stays as it is, as long as what is committed has ended.
LEMMA CommitsComing ==
    ASSUME NEW u \in Good, NEW w \in Good, Commits(u, w),
           \A c \in Calls : Settled(u, c) => Settled(w, c),
           NEW q \in Seq(Events)
    PROVE  /\ Coming(u, q) => Coming(w, q)
           /\ \A st : \A t \in Turns : Responding(u, q, st, t) => Responding(w, q, st, t)
<1>1. /\ w.tools = u.tools /\ w.muted = u.muted /\ w.assistant = u.assistant
      /\ \A c \in Calls : Reached(w, c) = Reached(u, c)
  BY CommitsReached DEF Commits
<1>2. Ahead(u, q) => Ahead(w, q)
  BY <1>1 DEF Ahead
<1>3. \A c : (Announced(u, q, c) <=> Announced(w, q, c)) /\ (Earned(u, q, c) <=> Earned(w, q, c))
  BY <1>1 DEF Announced, Earned
<1>4. \A k : Quiet(u, q, k) <=> Quiet(w, q, k)
  BY <1>1 DEF Quiet
<1>5. Coming(u, q) => Coming(w, q)
  BY <1>2, <1>3, <1>4 DEF Coming
<1>6. ASSUME NEW st, NEW t \in Turns, Responding(u, q, st, t)
      PROVE  Responding(w, q, st, t)
  <2>1. \A p \in DOMAIN t.calls : t.calls[p] \in Calls
    BY TurnShape
  <2>2. ASSUME NEW p \in DOMAIN t.calls PROVE CallRuns(w, q, st, t, p)
    <3>1. CallRuns(u, q, st, t, p)
      BY <1>6 DEF Responding
    <3>. QED  BY <1>1, <1>3, <2>1, <3>1 DEF CallRuns, Told
  <2>. QED  BY <1>4, <1>6, <2>2 DEF Responding
<1>. QED  BY <1>5, <1>6

\* Everything is committed.
LEMMA CommitAllScrolled ==
    ASSUME NEW s, s.u \in Good, Scrolled(s.u, s.on)
    PROVE  /\ Scrolled(CommitAll(s).u, CommitAll(s).on) /\ Commits(s.u, CommitAll(s).u)
           /\ CommitAll(s).u \in Good
<1>1. PICK u \in Good : u = s.u
  OBVIOUS
<1>2. PICK on \in Seq(PieceType) : on = s.on
  BY DEF Scrolled
<1>3. PICK n \in Nat : n = Len(u.transcript)
  BY ReachIs
<1>4. PICK w : w = CommitAll(s).u
  OBVIOUS
<1>5. w = [u EXCEPT !.committed = n] /\ CommitAll(s).on = on \o Pieces(u, u.committed, n)
  BY <1>1, <1>2, <1>3, <1>4 DEF CommitAll
<1>6. w = With(u, u.transcript, n, u.assistant, u.thinking, u.tools, u.busy)
  <2>1. [u EXCEPT !.committed = n] =
            With(u, u.transcript, n, u.assistant, u.thinking, u.tools, u.busy)
    BY ShapeIs DEF With
  <2>. QED  BY <1>5, <2>1
<1>7. w \in Good
  BY <1>1, <1>4, CommitAllMade DEF Made
<1>8. Commits(u, w) /\ w.transcript = u.transcript /\ w.committed = n
  BY <1>6 DEF With, Commits
<1>9. n \in u.committed..n /\ Peeked(u) /\ Sewn(on, Reach(u)) /\ Shows(u, on) /\ Tooled(u)
  BY <1>1, <1>2, <1>3, GoodIs DEF Scrolled
<1>10. Continues(u, on, n)
  BY <1>3, <1>9, SewnPieces
<1>11. PICK more \in Seq(PieceType) : more = on \o Pieces(u, u.committed, n)
  BY <1>10 DEF Continues
<1>12. Sewn(more, Reach(w)) /\ Shows(w, more)
  BY <1>8, <1>10, <1>11 DEF Continues, Shows, Reach, ReachTo
<1>13. Peeked(w)
  BY <1>3, <1>8, ReachIs DEF Peeked
<1>14. Tooled(w)
  BY <1>7, <1>8, <1>9, CommitsReached
<1>. QED  BY <1>1, <1>4, <1>5, <1>7, <1>8, <1>11, <1>12, <1>13, <1>14 DEF Scrolled

\* What commit_streaming_history makes, when there is something to commit.
LEMMA CommitStreamingIs ==
    ASSUME NEW s, NEW u \in Good, u = s.u, CommitStreaming(s) # s, NEW n \in Nat, n = Len(u.transcript),
           NEW x \in Entries, x = u.transcript[n]
    PROVE  Streams(u, n, x, s.on, CommitStreaming(s))
<1>1. /\ ~ (n <= u.committed) /\ x.kind \in Texts
      /\ ~ \E i \in (u.committed + 1)..(n - 1) : ~ Stable(u.transcript[i])
  BY Zenon DEF CommitStreaming, Texts
<1>a. PICK grown, shown : grown = u.transcript[n].size - 1 /\ shown = u.transcript[n].offset
  OBVIOUS
<1>2. /\ CommitStreaming(s).u = [u EXCEPT !.committed = n - 1,
                                          !.transcript[n].offset = IF grown > @ THEN grown ELSE @]
      /\ CommitStreaming(s).on = s.on \o Pieces(u, u.committed, n - 1)
                     \o (IF grown > shown THEN <<Piece(u, n, grown)>> ELSE <<>>)
  BY <1>a DEF CommitStreaming
<1>3. n > u.committed /\ n \in DOMAIN u.transcript
  BY <1>1, GoodIs
<1> DEFINE v == [u EXCEPT !.committed = n - 1]
           e == [x EXCEPT !.offset = IF x.size - 1 > x.offset THEN x.size - 1 ELSE x.offset]
           t == [u.transcript EXCEPT ![n] = e]
<1>4. v = With(u, u.transcript, n - 1, u.assistant, u.thinking, u.tools, u.busy)
  BY ShapeIs DEF With
<1>5. CommitStreaming(s).u = [v EXCEPT !.transcript[n].offset = IF x.size - 1 > @ THEN x.size - 1 ELSE @]
  <2>1. CommitStreaming(s).u = [v EXCEPT !.transcript[n].offset = IF grown > @ THEN grown ELSE @]
    BY <1>2
  <2>. QED  BY <1>a, <2>1
<1>6. v.transcript = u.transcript
  BY <1>4 DEF With
<1>. HIDE DEF v
<1>7. CommitStreaming(s).u = [v EXCEPT !.transcript = t]
  BY <1>3, <1>5, <1>6
<1>. HIDE DEF t
<1>8. CommitStreaming(s).u = With(u, t, n - 1, u.assistant, u.thinking, u.tools, u.busy)
  BY <1>4, <1>7 DEF With
<1>9. \A i \in (u.committed + 1)..(n - 1) : Stable(u.transcript[i])
  BY <1>1
<1>10. CommitStreaming(s).on =
          s.on \o Pieces(u, u.committed, n - 1)
               \o (IF x.size - 1 > x.offset THEN <<Piece(u, n, x.size - 1)>> ELSE <<>>)
  BY <1>a, <1>2
<1>. QED  BY <1>1, <1>3, <1>8, <1>9, <1>10 DEF t, Streams

\* A tool that has its entry and is settled has had its end.
LEMMA StableReached ==
    ASSUME NEW u \in Good, Tooled(u), NEW c \in Calls, u.tools[c] # 0, Stable(u.transcript[u.tools[c]])
    PROVE  Reached(u, c) >= 4
<1>1. PICK st : st = u.transcript[u.tools[c]].status
  OBVIOUS
<1>2. st \in {"success", "error", "cancelled"}
  BY <1>1 DEF Tooled, Stable, Terminal
<1>3. StatusLevel(st) >= 4
  BY <1>2 DEF StatusLevel
<1>4. Reached(u, c) = IF c \in u.muted THEN 4 ELSE StatusLevel(st)
  BY <1>1 DEF Reached
<1>. QED  BY <1>3, <1>4

\* While a text grows: what is before it, and of it all but the last paragraph.
LEMMA CommitStreamingScrolled ==
    ASSUME NEW s, s.u \in Good, Scrolled(s.u, s.on)
    PROVE  /\ Scrolled(CommitStreaming(s).u, CommitStreaming(s).on)
           /\ CommitStreaming(s).u \in Good /\ Commits(s.u, CommitStreaming(s).u)
           /\ Growing(s.u) => Growing(CommitStreaming(s).u)
           /\ \A c \in Calls : Settled(s.u, c) => Settled(CommitStreaming(s).u, c)
<1>1. CASE CommitStreaming(s) = s
  BY <1>1 DEF Commits
<1>2. CASE CommitStreaming(s) # s
  <2>1. PICK u \in Good : u = s.u
    OBVIOUS
  <2>2. PICK on \in Seq(PieceType) : on = s.on
    BY DEF Scrolled
  <2>3. PICK n \in Nat : n = Len(u.transcript)
    BY ReachIs
  <2>4. ~ (n <= u.committed)
    BY <1>2, <2>1, <2>3, Zenon DEF CommitStreaming
  <2>5. n \in DOMAIN u.transcript /\ n \in 1..n /\ u.committed \in 0..(n - 1) /\ n - 1 \in u.committed..n
        /\ DOMAIN u.transcript = 1..n
    BY <2>3, <2>4, GoodIs
  <2>6. PICK x \in Entries : x = u.transcript[n] /\ x.offset <= x.size
    BY <2>5, GoodIs
  <2>7. PICK g \in Nat : g = x.size - 1
    BY <2>6 DEF Entries
  <2>8. PICK o \in Nat : o = IF g > x.offset THEN g ELSE x.offset
    BY <2>6, <2>7 DEF Entries
  <2>9. PICK y : y = [x EXCEPT !.offset = o]
    OBVIOUS
  <2>10. /\ y \in Entries /\ y.offset = o
         /\ y.kind = x.kind /\ y.status = x.status /\ y.size = x.size
    BY <2>6, <2>8, <2>9 DEF Entries
  <2>11. PICK t : t = [u.transcript EXCEPT ![n] = y]
    OBVIOUS
  <2>12. PICK w : w = CommitStreaming(s).u
    OBVIOUS
  <2>13. /\ x.kind \in Texts
         /\ \A i \in (u.committed + 1)..(n - 1) : Stable(u.transcript[i])
         /\ w = With(u, t, n - 1, u.assistant, u.thinking, u.tools, u.busy)
         /\ CommitStreaming(s).on = on \o Pieces(u, u.committed, n - 1)
                                       \o (IF g > x.offset THEN <<Piece(u, n, g)>> ELSE <<>>)
    <3>1. /\ x.kind \in Texts
          /\ \A i \in (u.committed + 1)..(n - 1) : Stable(u.transcript[i])
          /\ CommitStreaming(s).u =
                With(u, [u.transcript EXCEPT ![n] =
                            [x EXCEPT !.offset = IF x.size - 1 > x.offset THEN x.size - 1 ELSE x.offset]],
                     n - 1, u.assistant, u.thinking, u.tools, u.busy)
          /\ CommitStreaming(s).on =
                s.on \o Pieces(u, u.committed, n - 1)
                     \o (IF x.size - 1 > x.offset THEN <<Piece(u, n, x.size - 1)>> ELSE <<>>)
      <4>1. Streams(u, n, x, s.on, CommitStreaming(s))
        BY <1>2, <2>1, <2>3, <2>6, CommitStreamingIs
      <4>. QED  BY <4>1, Zenon DEF Streams
    <3>2. [u.transcript EXCEPT ![n] =
              [x EXCEPT !.offset = IF x.size - 1 > x.offset THEN x.size - 1 ELSE x.offset]] = t
      BY <2>7, <2>8, <2>9, <2>11
    <3>. QED  BY <2>2, <2>7, <2>12, <3>1, <3>2
  <2>14. /\ w.transcript = t /\ w.committed = n - 1 /\ w.assistant = u.assistant
         /\ w.thinking = u.thinking /\ w.tools = u.tools /\ w.muted = u.muted
    BY <2>13 DEF With
  <2>15. Len(t) = n /\ DOMAIN t = 1..n /\ t[n] = y /\ \A i \in 1..(n - 1) : t[i] = u.transcript[i]
    BY <2>3, <2>5, <2>11, GoodIs
  <2>16. w \in Good
    BY <2>1, <2>12, CommitStreamingMade DEF Made
  <2>17. \A i \in 1..n : t[i].kind = u.transcript[i].kind /\ t[i].status = u.transcript[i].status
    BY <2>6, <2>10, <2>15
  <2>18. Commits(u, w)
    BY <2>3, <2>5, <2>14, <2>15, <2>17 DEF Commits
  <2>19. Peeked(u) /\ Sewn(on, Reach(u)) /\ Shows(u, on) /\ Tooled(u)
    BY <2>1, <2>2 DEF Scrolled
  <2>20. Continues(u, on, n - 1)
    BY <2>3, <2>5, <2>19, SewnPieces
  <2>21. PICK a \in Seq(PieceType) : a = on \o Pieces(u, u.committed, n - 1)
    BY <2>20 DEF Continues
  <2>22. PICK r \in [1..n -> Nat] : r = ReachTo(u, n - 1)
    BY <2>3, ReachIs
  <2>23. /\ r[n] = x.offset /\ Sewn(a, r) /\ Shows(u, a)
         /\ \A i \in 1..(n - 1) : r[i] = u.transcript[i].size
    <3>1. \A i \in 1..n : r[i] = IF i <= n - 1 THEN u.transcript[i].size ELSE u.transcript[i].offset
      BY <2>3, <2>22, ReachIs
    <3>2. r[n] = x.offset /\ \A i \in 1..(n - 1) : r[i] = u.transcript[i].size
      BY <2>5, <2>6, <3>1
    <3>3. Sewn(a, r) /\ Shows(u, a)
      BY <2>20, <2>21, <2>22 DEF Continues
    <3>. QED  BY <3>2, <3>3
  <2>24. Reach(w) = [r EXCEPT ![n] = o]
    <3>a. Reach(w) = ReachTo(w, n - 1) /\ Len(w.transcript) = n
      BY <2>14, <2>15, <2>16, ReachIs
    <3>1. PICK z \in [1..n -> Nat] : z = Reach(w)
      BY <2>16, <3>a, ReachIs
    <3>2. \A i \in 1..n : z[i] = IF i <= n - 1 THEN t[i].size ELSE t[i].offset
      <4>1. \A i \in 1..n : ReachTo(w, n - 1)[i] = IF i <= n - 1 THEN w.transcript[i].size
                                                    ELSE w.transcript[i].offset
        BY <2>16, <3>a, ReachIs
      <4>. QED  BY <2>14, <3>a, <3>1, <4>1
    <3>3. \A i \in 1..n : z[i] = IF i = n THEN o ELSE r[i]
      <4>. TAKE i \in 1..n
      <4>1. CASE i = n
        <5>1. ~ (n <= n - 1) /\ n \in 1..n
          BY <2>3, <2>5
        <5>2. z[n] = t[n].offset
          BY <3>2, <5>1
        <5>. QED  BY <2>10, <2>15, <4>1, <5>2
      <4>2. CASE i # n
        <5>1. i \in 1..(n - 1)
          BY <2>3, <4>2
        <5>2. z[i] = t[i].size
          BY <3>2, <5>1
        <5>3. t[i] = u.transcript[i]
          BY <2>15, <5>1
        <5>. QED  BY <2>23, <4>2, <5>1, <5>2, <5>3
      <4>. QED  BY <4>1, <4>2
    <3>4. z = [r EXCEPT ![n] = o]
      BY <2>8, <3>3
    <3>. QED  BY <3>1, <3>4
  <2>25. \A k \in DOMAIN a : a[k].entry \in 1..n
    BY <2>22, <2>23, Zenon DEF Sewn
  <2>26. /\ CommitStreaming(s).on \in Seq(PieceType) /\ Sewn(CommitStreaming(s).on, Reach(w))
         /\ Shows(u, CommitStreaming(s).on)
         /\ \A k \in DOMAIN CommitStreaming(s).on : CommitStreaming(s).on[k].entry \in 1..n
    <3>1. CASE g > x.offset
      <4>1. PICK p : p = Piece(u, n, g)
        OBVIOUS
      <4>2. p = [entry |-> n, from |-> x.offset, to |-> g, status |-> x.status]
        BY <2>6, <4>1 DEF Piece
      <4>3. /\ p \in PieceType /\ p.entry = n /\ p.from = r[n] /\ p.to = g /\ p.to > 0
            /\ p.status = u.transcript[p.entry].status
        <5>1. x.offset \in Nat /\ x.status \in Statuses
          BY <2>6 DEF Entries
        <5>2. p \in PieceType /\ p.entry = n /\ p.from = x.offset /\ p.to = g /\ p.status = x.status
          BY <4>2, <5>1 DEF PieceType
        <5>. QED  BY <2>6, <2>7, <2>23, <3>1, <5>1, <5>2
      <4>4. Append(a, p) \in Seq(PieceType) /\ Sewn(Append(a, p), [r EXCEPT ![p.entry] = p.to])
        <5>1. \A k \in DOMAIN a : a[k].entry <= p.entry
          BY <2>25, <4>3
        <5>2. p.entry \in 1..n /\ p.from = r[p.entry]
          BY <2>5, <4>3
        <5>. QED  BY <2>23, <4>3, <5>1, <5>2, SewnOne
      <4>5. CommitStreaming(s).on = Append(a, p)
        <5>1. CommitStreaming(s).on = a \o <<p>>
          BY <2>13, <2>21, <3>1, <4>1
        <5>. QED  BY <4>3, <5>1
      <4>6. Shows(u, Append(a, p))
        BY <2>23, <4>3, ShowsOne
      <4>7. Sewn(Append(a, p), Reach(w))
        BY <2>8, <2>24, <3>1, <4>3, <4>4
      <4>8. \A k \in DOMAIN Append(a, p) : Append(a, p)[k].entry \in 1..n
        <5>1. DOMAIN Reach(w) = 1..n
          BY <2>22, <2>24
        <5>. QED  BY <4>7, <5>1, Zenon DEF Sewn
      <4>. QED  BY <4>4, <4>5, <4>6, <4>7, <4>8
    <3>2. CASE ~ (g > x.offset)
      <4>1. CommitStreaming(s).on = a
        <5>1. CommitStreaming(s).on = a \o <<>>
          BY <2>13, <2>21, <3>2
        <5>. QED  BY <5>1
      <4>2. Reach(w) = r
        BY <2>8, <2>23, <2>24, <3>2
      <4>. QED  BY <2>23, <2>25, <4>1, <4>2
    <3>. QED  BY <3>1, <3>2
  <2>27. Peeked(w)
    <3>. SUFFICES ASSUME NEW i \in DOMAIN w.transcript, i > w.committed
                  PROVE  i = w.committed + 1 /\ w.transcript[i].kind \in Texts
      BY DEF Peeked
    <3>1. i = n
      BY <2>14, <2>15
    <3>. QED  BY <2>10, <2>13, <2>14, <2>15, <3>1
  <2>28. Tooled(w) /\ Shows(w, CommitStreaming(s).on)
    BY <2>5, <2>16, <2>18, <2>19, <2>26, CommitsReached
  <2>29. Scrolled(w, CommitStreaming(s).on)
    BY <2>26, <2>27, <2>28 DEF Scrolled
  <2>30. ASSUME Growing(u) PROVE Growing(w)
    <3>1. ASSUME NEW i \in 1..n, LastText(u, i) PROVE LastText(w, i)
      <4>1. ~ (n > i)
        BY <2>5, <2>6, <2>13, <3>1 DEF LastText
      <4>2. i = n
        BY <4>1
      <4>. QED  BY <2>14, <2>15, <4>2 DEF LastText
    <3>2. u.assistant # 0 => u.assistant \in 1..n
      BY <2>3, GoodIs
    <3>3. u.thinking # 0 => u.thinking \in 1..n
      BY <2>3, GoodIs
    <3>. QED  BY <2>14, <2>30, <3>1, <3>2, <3>3 DEF Growing
  <2>31. ASSUME NEW c \in Calls, Settled(u, c) PROVE Settled(w, c)
    <3>1. Reached(w, c) = Reached(u, c)
      BY <2>16, <2>18, CommitsReached
    <3>. SUFFICES ASSUME u.tools[c] \in 1..(n - 1) PROVE Reached(u, c) >= 4
      BY <2>14, <3>1 DEF Settled
    <3>2. CASE u.tools[c] \in 1..u.committed
      BY <2>31, <3>2 DEF Settled
    <3>3. CASE u.tools[c] \notin 1..u.committed
      <4>1. u.tools[c] \in (u.committed + 1)..(n - 1) /\ u.tools[c] # 0
        BY <2>5, <3>3
      <4>. QED  BY <2>13, <2>19, <4>1, StableReached
    <3>. QED  BY <3>2, <3>3
  <2>. QED  BY <2>1, <2>12, <2>16, <2>18, <2>29, <2>30, <2>31
<1>. QED  BY <1>1, <1>2

\* What is written anew ends before everything that is not settled.
LEMMA ReplayableLow ==
    ASSUME NEW u \in Good
    PROVE  \A j \in Unsettled(u) : Replayable(u) < j
<1> DEFINE U == Unsettled(u)
           n == Len(u.transcript)
<1>1. n \in Nat /\ DOMAIN u.transcript = 1..n /\ u.assistant \in 0..n /\ u.thinking \in 0..n
  BY GoodIs
<1>2. U \in SUBSET (1..n)
  BY <1>1 DEF Unsettled
<1>. HIDE DEF U
<1>3. CASE U = {}
  BY <1>3 DEF U
<1>4. CASE U # {}
  <2>1. \E i \in U : \A j \in U : i <= j
    BY <1>2, <1>4, LeastOf
  <2>2. PICK i : i = CHOOSE k \in U : \A j \in U : k <= j
    OBVIOUS
  <2>3. i \in U /\ \A j \in U : i <= j
    BY <2>1, <2>2
  <2>4. Replayable(u) = i - 1
    BY <1>4, <2>2 DEF Replayable, U
  <2>. QED  BY <1>1, <1>2, <2>3, <2>4 DEF U
<1>. QED  BY <1>3, <1>4

\* Nothing of an entry is in the scrollback.
Hidden(t) == [i \in DOMAIN t |-> [t[i] EXCEPT !.offset = 0]]

LEMMA HiddenIs ==
    ASSUME NEW u \in Good
    PROVE  /\ Hidden(u.transcript) \in Seq(Entries)
           /\ Len(Hidden(u.transcript)) = Len(u.transcript)
           /\ \A i \in DOMAIN u.transcript :
                 /\ Hidden(u.transcript)[i].offset = 0
                 /\ Hidden(u.transcript)[i].kind = u.transcript[i].kind
                 /\ Hidden(u.transcript)[i].status = u.transcript[i].status
<1>1. PICK t \in Seq(Entries) : t = u.transcript
  BY GoodIs
<1>2. PICK n \in Nat : n = Len(t)
  OBVIOUS
<1>3. DOMAIN t = 1..n /\ \A i \in 1..n : t[i] \in Entries
  BY <1>2
<1>4. \A x \in Entries : LET y == [x EXCEPT !.offset = 0]
                         IN  y \in Entries /\ y.offset = 0 /\ y.kind = x.kind /\ y.status = x.status
  BY DEF Entries
<1>5. PICK h : h = Hidden(t)
  OBVIOUS
<1>6. h = [i \in 1..n |-> [t[i] EXCEPT !.offset = 0]]
  BY <1>3, <1>5 DEF Hidden
<1>7. \A i \in 1..n : h[i] \in Entries /\ h[i].offset = 0 /\ h[i].kind = t[i].kind /\ h[i].status = t[i].status
  BY <1>3, <1>4, <1>6
<1>8. h \in [1..n -> Entries]
  <2>1. h = [i \in 1..n |-> h[i]]
    BY <1>6
  <2>. QED  BY <1>7, <2>1
<1>9. h \in Seq(Entries) /\ Len(h) = n
  BY <1>8, AsSequence
<1>. QED  BY <1>1, <1>2, <1>3, <1>5, <1>7, <1>9

LEMMA PiecesType ==
    ASSUME NEW u \in Good, NEW a \in 0..Len(u.transcript), NEW b \in a..Len(u.transcript)
    PROVE  Pieces(u, a, b) \in Seq(PieceType)
<1>1. PICK n \in Nat : n = Len(u.transcript)
  BY ReachIs
<1>2. \A k \in 1..(b - a) : Whole(u, a + k) \in PieceType
  <2>. TAKE k \in 1..(b - a)
  <2>1. a + k \in 1..n
    BY <1>1
  <2>2. PICK y : y = u.transcript[a + k]
    OBVIOUS
  <2>3. y.offset \in Nat /\ y.size \in Nat /\ y.status \in Statuses
    BY <1>1, <2>1, <2>2, ReachIs
  <2>4. Whole(u, a + k) = [entry |-> a + k, from |-> y.offset, to |-> y.size, status |-> y.status]
    BY <2>2 DEF Whole, Piece
  <2>. QED  BY <2>1, <2>3, <2>4 DEF PieceType
<1>3. Pieces(u, a, b) \in [1..(b - a) -> PieceType]
  BY <1>2 DEF Pieces
<1>4. b - a \in Nat
  BY <1>1
<1>. QED  BY <1>3, <1>4

\* The scrollback is written anew, up to what is not settled.
LEMMA ReflowedScrolled ==
    ASSUME NEW u0 \in Good, Tooled(u0)
    PROVE  /\ Scrolled(Reflowed(u0).u, Reflowed(u0).on) /\ Commits(u0, Reflowed(u0).u)
           /\ Reflowed(u0).u \in Good
           /\ Growing(u0) => Growing(Reflowed(u0).u)
           /\ \A c \in Calls : Settled(Reflowed(u0).u, c)
<1>1. PICK n \in Nat : n = Len(u0.transcript)
  BY ReachIs
<1>2. PICK t \in Seq(Entries) : t = Hidden(u0.transcript)
  BY HiddenIs
<1>3. /\ Len(t) = n /\ DOMAIN t = 1..n /\ DOMAIN u0.transcript = 1..n
      /\ \A i \in 1..n : /\ t[i].offset = 0 /\ t[i].kind = u0.transcript[i].kind
                         /\ t[i].status = u0.transcript[i].status
                         /\ t[i] \in Entries
  BY <1>1, <1>2, HiddenIs, ReachIs
<1>4. PICK v : v = With(u0, t, 0, u0.assistant, u0.thinking, u0.tools, u0.busy)
  OBVIOUS
<1>5. v = [u0 EXCEPT !.committed = 0,
              !.transcript = [i \in DOMAIN u0.transcript |-> [u0.transcript[i] EXCEPT !.offset = 0]]]
  <2>1. PICK x : x = [u0 EXCEPT !.committed = 0]
    OBVIOUS
  <2>2. x = With(u0, u0.transcript, 0, u0.assistant, u0.thinking, u0.tools, u0.busy)
    BY <2>1, ShapeIs DEF With
  <2>3. [x EXCEPT !.transcript = t] = v
    BY <1>4, <2>2 DEF With
  <2>4. t = [i \in DOMAIN u0.transcript |-> [u0.transcript[i] EXCEPT !.offset = 0]]
    BY <1>2 DEF Hidden
  <2>. QED  BY <2>1, <2>3, <2>4
<1>6. PICK r : r = Replayable(v)
  OBVIOUS
<1>7. PICK w : w = Reflowed(u0).u
  OBVIOUS
<1>8. w = [v EXCEPT !.committed = r] /\ Reflowed(u0).on = Pieces(v, 0, r)
  BY <1>5, <1>6, <1>7 DEF Reflowed
<1>9. /\ v.transcript = t /\ v.committed = 0 /\ v.assistant = u0.assistant /\ v.thinking = u0.thinking
      /\ v.tools = u0.tools /\ v.muted = u0.muted
  BY <1>4 DEF With
<1>10. v \in Good
  <2>1. \A i \in DOMAIN t : t[i].offset <= t[i].size
    BY <1>3 DEF Entries
  <2>2. 0 \in 0..Len(t)
    BY <1>3
  <2>3. /\ u0.assistant \in 0..Len(t) /\ u0.thinking \in 0..Len(t)
        /\ u0.tools \in [Calls -> 0..Len(t)] /\ u0.busy \in BOOLEAN
    BY <1>1, <1>3, GoodIs
  <2>4. Made(u0, v)
    BY <1>4, <2>1, <2>2, <2>3, WithGood
  <2>. QED  BY <2>4 DEF Made
<1>11. r \in 0..n /\ \A j \in Unsettled(v) : r < j
  BY <1>3, <1>6, <1>9, <1>10, ReplayableIs, ReplayableLow
<1>12. w = With(v, t, r, v.assistant, v.thinking, v.tools, v.busy)
  BY <1>8, <1>9, <1>10, ShapeIs DEF With
<1>13. /\ w.transcript = t /\ w.committed = r /\ w.assistant = u0.assistant
       /\ w.thinking = u0.thinking /\ w.tools = u0.tools /\ w.muted = u0.muted
  BY <1>9, <1>12 DEF With
<1>14. w \in Good
  BY <1>7, ReflowedMade DEF Made
<1>15. Commits(u0, w)
  BY <1>1, <1>3, <1>13 DEF Commits
<1>16. Tooled(w)
  BY <1>14, <1>15, CommitsReached
<1>17. PICK on : on = Pieces(v, 0, r)
  OBVIOUS
<1>18. on \in Seq(PieceType) /\ Sewn(on, ReachTo(v, r)) /\ Shows(v, on)
  <2>1. Peeked(v)
    BY <1>3, <1>9 DEF Peeked
  <2>a. <<>> \in Seq(PieceType)
    OBVIOUS
  <2>2. PICK none \in Seq(PieceType) : none = <<>>
    BY <2>a
  <2>3. Sewn(none, Reach(v))
    <3>1. DOMAIN none = {}
      BY <2>2
    <3>2. PICK f : f = Reach(v)
      OBVIOUS
    <3>3. \A i \in DOMAIN f : f[i] = 0
      <4>1. f = ReachTo(v, 0) /\ f \in [1..n -> Nat]
        BY <1>3, <1>9, <1>10, <3>2, ReachIs
      <4>2. \A i \in 1..n : ReachTo(v, 0)[i] = IF i <= 0 THEN v.transcript[i].size
                                                ELSE v.transcript[i].offset
        <5>1. Len(v.transcript) = n
          BY <1>3, <1>9
        <5>. QED  BY <1>10, <5>1, ReachIs
      <4>3. \A i \in 1..n : f[i] = IF i <= 0 THEN t[i].size ELSE t[i].offset
        BY <1>9, <4>1, <4>2
      <4>. QED  BY <1>3, <4>1, <4>3
    <3>. QED  BY <3>1, <3>2, <3>3 DEF Sewn
  <2>4. Shows(v, none)
    <3>1. DOMAIN none = {}
      BY <2>2
    <3>. QED  BY <3>1 DEF Shows
  <2>5. r \in v.committed..Len(v.transcript)
    BY <1>3, <1>9, <1>11
  <2>6. Continues(v, none, r)
    BY <1>10, <2>1, <2>3, <2>4, <2>5, SewnPieces
  <2>7. on \in Seq(PieceType)
    <3>1. 0 \in 0..Len(v.transcript) /\ r \in 0..Len(v.transcript)
      BY <1>3, <1>9, <1>11
    <3>. QED  BY <1>10, <1>17, <3>1, PiecesType
  <2>8. none \o Pieces(v, v.committed, r) = on
    BY <1>9, <1>17, <2>2, <2>7
  <2>. QED  BY <2>6, <2>7, <2>8 DEF Continues
<1>19. Sewn(on, Reach(w)) /\ Shows(w, on)
  <2>1. Reach(w) = ReachTo(v, r)
    BY <1>9, <1>13 DEF Reach, ReachTo
  <2>. QED  BY <1>9, <1>13, <1>18, <2>1 DEF Shows
<1>20. Peeked(w)
  BY <1>3, <1>13 DEF Peeked
<1>21. Scrolled(w, on)
  BY <1>16, <1>18, <1>19, <1>20 DEF Scrolled
<1>22. ASSUME Growing(u0) PROVE Growing(w)
  <2>1. ASSUME NEW i, i # 0, i = u0.assistant \/ i = u0.thinking, LastText(u0, i) PROVE LastText(w, i)
    <3>1. i \in Unsettled(v)
      BY <1>9, <2>1 DEF Unsettled
    <3>2. r < i /\ i \in 0..n
      BY <1>1, <1>11, <2>1, <3>1, GoodIs
    <3>3. i > r
      BY <1>11, <3>2
    <3>. QED  BY <1>3, <1>13, <2>1, <3>3 DEF LastText
  <2>. QED  BY <1>13, <1>22, <2>1 DEF Growing
<1>23. ASSUME NEW c \in Calls PROVE Settled(w, c)
  <2>. SUFFICES ASSUME w.tools[c] \in 1..r PROVE Reached(w, c) >= 4
    BY <1>13 DEF Settled
  <2>1. PICK i \in 1..r : i = w.tools[c]
    OBVIOUS
  <2>2. i \in 1..n /\ i # 0 /\ ~ (r < i)
    BY <1>11
  <2>3. i \notin Unsettled(v)
    BY <1>11, <2>2
  <2>4. Stable(t[i])
    BY <1>3, <1>9, <2>2, <2>3 DEF Unsettled
  <2>. QED  BY <1>13, <1>14, <1>16, <2>1, <2>2, <2>4, StableReached
<1>. QED  BY <1>7, <1>8, <1>14, <1>15, <1>17, <1>21, <1>22, <1>23

-------------------------------------------------------------------------------
(* What the handlers of the events make of a screen that is in order.      *)

\* Entries grow or are added, and what is committed stays as it is.
Grows(u, w) ==
    /\ w.committed = u.committed /\ Len(u.transcript) <= Len(w.transcript)
    /\ \A i \in DOMAIN u.transcript :
          /\ w.transcript[i].kind = u.transcript[i].kind
          /\ w.transcript[i].offset = u.transcript[i].offset
          /\ i <= u.committed => w.transcript[i].size = u.transcript[i].size
    /\ \A i \in DOMAIN w.transcript \ DOMAIN u.transcript : w.transcript[i].offset = 0

\* And nothing is said of a tool.
Speaks(u, w) ==
    /\ Grows(u, w) /\ w.tools = u.tools /\ w.muted = u.muted
    /\ \A i \in DOMAIN u.transcript : w.transcript[i].status = u.transcript[i].status

LEMMA OnScroll ==
    ASSUME NEW u \in Good, NEW on, Scrolled(u, on), NEW k \in DOMAIN on
    PROVE  /\ on[k].entry \in DOMAIN u.transcript
           /\ on[k].entry <= u.committed \/ u.transcript[on[k].entry].kind \in Texts
<1>1. Peeked(u) /\ Sewn(on, Reach(u))
  BY DEF Scrolled
<1>2. PICK i : i = on[k].entry
  OBVIOUS
<1>3. i \in DOMAIN Reach(u) /\ Reach(u)[i] > 0
  BY <1>1, <1>2, Zenon DEF Sewn
<1>4. i \in DOMAIN u.transcript
  BY <1>3 DEF Reach, ReachTo
<1>5. ASSUME ~ (i <= u.committed) PROVE u.transcript[i].kind \in Texts
  <2>1. Reach(u)[i] = u.transcript[i].offset /\ i > u.committed
    <3>1. i \in 1..Len(u.transcript) /\ u.committed \in Nat /\ Len(u.transcript) \in Nat
      BY <1>4, ReachIs
    <3>2. ReachTo(u, u.committed)[i] = u.transcript[i].offset
      BY <1>5, <3>1, ReachIs
    <3>. QED  BY <1>5, <3>1, <3>2 DEF Reach
  <2>. QED  BY <1>1, <1>3, <1>4, <2>1 DEF Peeked
<1>. QED  BY <1>2, <1>4, <1>5

LEMMA GrowsScrolled ==
    ASSUME NEW u \in Good, NEW w \in Good, Grows(u, w), NEW on, Scrolled(u, on),
           Tooled(w), Shows(w, on)
    PROVE  Scrolled(w, on)
<1>1. PICK n, m \in Nat : n = Len(u.transcript) /\ m = Len(w.transcript)
  BY ReachIs
<1>2. PICK r \in [1..n -> Nat], s \in [1..m -> Nat] : r = Reach(u) /\ s = Reach(w)
  BY <1>1, ReachIs
<1>3. n <= m /\ w.committed = u.committed /\ u.committed \in 0..n
      /\ DOMAIN u.transcript = 1..n /\ DOMAIN w.transcript = 1..m
  BY <1>1, ReachIs DEF Grows
<1>4. \A i \in 1..n : s[i] = r[i]
  <2>. TAKE i \in 1..n
  <2>1. i \in 1..m
    BY <1>3
  <2>2. r[i] = IF i <= u.committed THEN u.transcript[i].size ELSE u.transcript[i].offset
    BY <1>1, <1>2, ReachIs
  <2>3. s[i] = IF i <= u.committed THEN w.transcript[i].size ELSE w.transcript[i].offset
    BY <1>1, <1>2, <1>3, <2>1, ReachIs
  <2>. QED  BY <1>3, <2>2, <2>3 DEF Grows
<1>5. \A i \in 1..m : i \notin 1..n => s[i] = 0
  <2>. SUFFICES ASSUME NEW i \in 1..m, i \notin 1..n PROVE s[i] = 0
    OBVIOUS
  <2>1. s[i] = IF i <= w.committed THEN w.transcript[i].size ELSE w.transcript[i].offset
    BY <1>1, <1>2, ReachIs
  <2>2. ~ (i <= w.committed)
    BY <1>3
  <2>. QED  BY <1>3, <2>1, <2>2 DEF Grows
<1>6. on \in Seq(PieceType) /\ Peeked(u) /\ Sewn(on, r)
  BY <1>2 DEF Scrolled
<1>7. DOMAIN r = 1..n /\ DOMAIN s = 1..m /\ \A i \in 1..n : i \in 1..m
  BY <1>2, <1>3
<1>8. \A k \in DOMAIN on : on[k].entry \in 1..n
  BY <1>6, <1>7, Zenon DEF Sewn
<1>9. Sewn(on, s)
  <2>1. \A j, k \in DOMAIN on : j <= k => on[j].entry <= on[k].entry
    BY <1>6, Zenon DEF Sewn
  <2>2. ASSUME NEW k \in DOMAIN on
        PROVE  /\ on[k].entry \in DOMAIN s
               /\ on[k].from = IF k > 1 /\ on[k - 1].entry = on[k].entry THEN on[k - 1].to ELSE 0
               /\ (k = Len(on) \/ on[k + 1].entry # on[k].entry) => on[k].to = s[on[k].entry]
    <3>1. /\ on[k].from = IF k > 1 /\ on[k - 1].entry = on[k].entry THEN on[k - 1].to ELSE 0
          /\ (k = Len(on) \/ on[k + 1].entry # on[k].entry) => on[k].to = r[on[k].entry]
      BY <1>6, Zenon DEF Sewn
    <3>2. s[on[k].entry] = r[on[k].entry] /\ on[k].entry \in DOMAIN s
      BY <1>4, <1>7, <1>8
    <3>. QED  BY <3>1, <3>2
  <2>3. ASSUME NEW i \in DOMAIN s PROVE s[i] > 0 <=> \E k \in DOMAIN on : on[k].entry = i
    <3>1. CASE i \in 1..n
      <4>1. r[i] > 0 <=> \E k \in DOMAIN on : on[k].entry = i
        BY <1>6, <1>7, <3>1, Zenon DEF Sewn
      <4>. QED  BY <1>4, <3>1, <4>1
    <3>2. CASE i \notin 1..n
      <4>1. s[i] = 0
        BY <1>5, <1>7, <3>2
      <4>. QED  BY <1>8, <3>2, <4>1
    <3>. QED  BY <3>1, <3>2
  <2>. QED  BY <2>1, <2>2, <2>3 DEF Sewn
<1>10. Peeked(w)
  <2>. SUFFICES ASSUME NEW i \in DOMAIN w.transcript, i > w.committed, w.transcript[i].offset > 0
                PROVE  i = w.committed + 1 /\ w.transcript[i].kind \in Texts
    BY DEF Peeked
  <2>1. i \in DOMAIN u.transcript
    <3>1. 0 > 0 => FALSE
      OBVIOUS
    <3>. QED  BY <3>1 DEF Grows
  <2>2. u.transcript[i].offset > 0 /\ u.transcript[i].kind = w.transcript[i].kind
    BY <2>1 DEF Grows
  <2>. QED  BY <1>3, <1>6, <2>1, <2>2 DEF Peeked
<1>. QED  BY <1>2, <1>6, <1>9, <1>10 DEF Scrolled

LEMMA SpeaksScrolled ==
    ASSUME NEW u \in Good, NEW w \in Good, Speaks(u, w)
    PROVE  /\ \A c \in Calls : Reached(w, c) = Reached(u, c)
           /\ \A on : Scrolled(u, on) => Scrolled(w, on)
<1>1. Grows(u, w) /\ w.tools = u.tools /\ w.muted = u.muted
  BY DEF Speaks
<1>2. \A c \in Calls : u.tools[c] # 0 => u.tools[c] \in DOMAIN u.transcript
  BY GoodIs
<1>3. \A c \in Calls : Reached(w, c) = Reached(u, c)
  BY <1>1, <1>2 DEF Speaks, Reached
<1>4. ASSUME NEW on, Scrolled(u, on) PROVE Scrolled(w, on)
  <2>1. Shows(u, on) /\ Tooled(u)
    BY <1>4 DEF Scrolled
  <2>2. Shows(w, on)
    <3>. SUFFICES ASSUME NEW k \in DOMAIN on
                  PROVE  Agrees(on[k].status, w.transcript[on[k].entry].status)
      BY DEF Shows
    <3>1. on[k].entry \in DOMAIN u.transcript
      BY <1>4, OnScroll
    <3>. QED  BY <2>1, <3>1 DEF Shows, Speaks
  <2>3. Tooled(w)
    <3>. SUFFICES ASSUME NEW c \in Calls
                  PROVE  /\ w.tools[c] # 0 => w.transcript[w.tools[c]].kind = "tool"
                         /\ \A d \in Calls : w.tools[c] = w.tools[d] /\ w.tools[c] # 0 => c = d
                         /\ c \in w.muted =>
                               /\ w.tools[c] # 0
                               /\ w.transcript[w.tools[c]].status \in {"success", "error"}
      BY DEF Tooled
    <3>1. u.tools[c] # 0 => /\ w.transcript[u.tools[c]].kind = u.transcript[u.tools[c]].kind
                            /\ w.transcript[u.tools[c]].status = u.transcript[u.tools[c]].status
      BY <1>2 DEF Speaks, Grows
    <3>. QED  BY <1>1, <2>1, <3>1 DEF Tooled
  <2>. QED  BY <1>1, <1>4, <2>2, <2>3, GrowsScrolled
<1>. QED  BY <1>3, <1>4

\* What an entry more makes of the interface.
Pushed(u, e, w) ==
    /\ w \in Good /\ Speaks(u, w) /\ w.assistant = u.assistant /\ w.thinking = u.thinking
    /\ Len(w.transcript) = Len(u.transcript) + 1 /\ w.transcript[Len(u.transcript) + 1] = e
    /\ w.busy = u.busy

LEMMA PushIs ==
    ASSUME NEW u \in Good, NEW e \in Entries, e.offset = 0
    PROVE  Pushed(u, e, Push(u, e))
<1>1. PICK t \in Seq(Entries) : t = u.transcript
  BY GoodIs
<1>2. PICK n \in Nat : n = Len(t)
  OBVIOUS
<1>3. PICK w : w = Push(u, e)
  OBVIOUS
<1>4. w = With(u, Append(t, e), u.committed, u.assistant, u.thinking, u.tools, u.busy)
  <2>1. PICK x : x = Append(t, e)
    OBVIOUS
  <2>2. w = [u EXCEPT !.transcript = x]
    BY <1>1, <1>3, <2>1 DEF Push
  <2>3. [u EXCEPT !.transcript = x] =
            With(u, x, u.committed, u.assistant, u.thinking, u.tools, u.busy)
    BY ShapeIs DEF With
  <2>. QED  BY <2>1, <2>2, <2>3
<1>5. /\ w.transcript = Append(t, e) /\ w.committed = u.committed /\ w.assistant = u.assistant
      /\ w.thinking = u.thinking /\ w.tools = u.tools /\ w.muted = u.muted /\ w.busy = u.busy
  BY <1>4 DEF With
<1>6. w \in Good
  <2>1. e.offset <= e.size
    BY DEF Entries
  <2>. QED  BY <1>3, <2>1, PushMade DEF Made
<1>7. /\ Len(w.transcript) = n + 1 /\ w.transcript[n + 1] = e
      /\ DOMAIN w.transcript = 1..(n + 1) /\ DOMAIN t = 1..n
      /\ \A i \in 1..n : w.transcript[i] = t[i]
  BY <1>2, <1>5
<1>8. Grows(u, w)
  BY <1>1, <1>2, <1>5, <1>7 DEF Grows
<1>9. Speaks(u, w)
  BY <1>1, <1>5, <1>7, <1>8 DEF Speaks
<1>. QED  BY <1>1, <1>2, <1>3, <1>5, <1>6, <1>7, <1>9 DEF Pushed

\* The note or the line that is added is no text that grows.
LEMMA PushGrowing ==
    ASSUME NEW u \in Good, NEW w, NEW e \in Entries, Pushed(u, e, w), e.kind \notin Texts, Growing(u)
    PROVE  Growing(w)
<1>1. PICK n \in Nat : n = Len(u.transcript)
  BY ReachIs
<1>2. /\ DOMAIN u.transcript = 1..n /\ DOMAIN w.transcript = 1..(n + 1) /\ w.transcript[n + 1] = e
      /\ \A i \in 1..n : w.transcript[i].kind = u.transcript[i].kind
      /\ w.committed = u.committed
  BY <1>1, ReachIs DEF Pushed, Speaks, Grows
<1>3. ASSUME NEW i, LastText(u, i) PROVE LastText(w, i)
  <2>. SUFFICES ASSUME NEW j \in 1..(n + 1), j > i PROVE w.transcript[j].kind \notin Texts
    BY <1>2, <1>3 DEF LastText
  <2>1. CASE j \in 1..n
    BY <1>2, <1>3, <2>1 DEF LastText
  <2>2. CASE j \notin 1..n
    <3>1. j = n + 1
      BY <2>2
    <3>. QED  BY <1>2, <3>1
  <2>. QED  BY <2>1, <2>2
<1>. QED  BY <1>3 DEF Growing, Pushed

\* What a paragraph more makes of the interface.
Grown(u, kind, w) ==
    /\ w \in Good /\ Speaks(u, w)
    /\ u[kind] # 0 => /\ w.assistant = u.assistant /\ w.thinking = u.thinking
                      /\ Len(w.transcript) = Len(u.transcript)
    /\ u[kind] = 0 => /\ Len(w.transcript) = Len(u.transcript) + 1
                      /\ kind = "assistant" => /\ w.assistant = Len(u.transcript) + 1
                                               /\ w.thinking = u.thinking
                      /\ kind = "thinking" => /\ w.thinking = Len(u.transcript) + 1
                                              /\ w.assistant = u.assistant

LEMMA GrowIs ==
    ASSUME NEW u \in Good, NEW kind \in Texts, u[kind] # 0 => u[kind] > u.committed
    PROVE  Grown(u, kind, Grow(u, kind))
<1>1. u[kind] \in 0..Len(u.transcript) /\ kind \in EntryKinds /\ kind \in {"assistant", "thinking"}
  BY GoodIs DEF EntryKinds, Texts
<1>2. PICK w : w = Grow(u, kind)
  OBVIOUS
<1>3. w \in Good
  BY <1>1, <1>2, GrowMade DEF Made
<1>4. PICK t \in Seq(Entries) : t = u.transcript
  BY GoodIs
<1>5. PICK n \in Nat : n = Len(t)
  OBVIOUS
<1>6. CASE u[kind] # 0
  <2>1. PICK i \in 1..n : i = u[kind]
    BY <1>1, <1>4, <1>5, <1>6
  <2>2. PICK x \in Entries : x = t[i]
    BY <1>5
  <2>3. PICK y : y = [x EXCEPT !.size = @ + 1]
    OBVIOUS
  <2>4. y \in Entries /\ y.kind = x.kind /\ y.status = x.status /\ y.offset = x.offset
    <3>1. PICK g \in Nat \ {0} : g = x.size + 1
      BY DEF Entries
    <3>2. y = [x EXCEPT !.size = g]
      BY <2>3, <3>1
    <3>. QED  BY <3>2 DEF Entries
  <2>5. PICK s : s = [t EXCEPT ![i] = y]
    OBVIOUS
  <2>6. w = [u EXCEPT !.transcript = s]
    BY <1>2, <1>4, <1>6, <2>1, <2>2, <2>3, <2>5 DEF Grow
  <2>7. w = With(u, s, u.committed, u.assistant, u.thinking, u.tools, u.busy)
    <3>1. [u EXCEPT !.transcript = s] = With(u, s, u.committed, u.assistant, u.thinking, u.tools, u.busy)
      BY ShapeIs DEF With
    <3>. QED  BY <2>6, <3>1
  <2>8. /\ w.transcript = s /\ w.committed = u.committed /\ w.assistant = u.assistant
        /\ w.thinking = u.thinking /\ w.tools = u.tools /\ w.muted = u.muted
    BY <2>7 DEF With
  <2>9. /\ Len(s) = n /\ DOMAIN s = 1..n /\ DOMAIN t = 1..n /\ s[i] = y
        /\ \A j \in 1..n : j # i => s[j] = t[j]
    BY <1>5, <2>5
  <2>10. ~ (i <= u.committed)
    BY <1>1, <2>1, GoodIs
  <2>11. \A j \in 1..n : /\ s[j].kind = t[j].kind /\ s[j].status = t[j].status
                         /\ s[j].offset = t[j].offset
                         /\ j <= u.committed => s[j].size = t[j].size
    BY <2>2, <2>4, <2>9, <2>10
  <2>12. Grows(u, w)
    BY <1>4, <1>5, <2>8, <2>9, <2>11 DEF Grows
  <2>13. Speaks(u, w)
    BY <1>4, <2>8, <2>9, <2>11, <2>12 DEF Speaks
  <2>. QED  BY <1>2, <1>3, <1>4, <1>5, <1>6, <2>8, <2>9, <2>13 DEF Grown
<1>7. CASE u[kind] = 0
  <2>1. PICK e : e = Entry(kind, "success", 1)
    OBVIOUS
  <2>2. e \in Entries /\ e.offset = 0
    BY <1>1, <2>1 DEF Entry, Entries, Statuses
  <2>3. PICK v : v = Push(u, e)
    OBVIOUS
  <2>4. Pushed(u, e, v)
    BY <2>2, <2>3, PushIs
  <2>5. v \in Good /\ Len(v.transcript) = n + 1
    BY <1>4, <1>5, <2>4 DEF Pushed
  <2>6. w = [v EXCEPT ![kind] = n + 1]
    BY <1>2, <1>4, <1>5, <1>7, <2>1, <2>3 DEF Grow
  <2>7. PICK m : m = n + 1
    OBVIOUS
  <2>8. ASSUME NEW a, NEW k, w = With(v, v.transcript, v.committed, a, k, v.tools, v.busy)
        PROVE  Speaks(u, w) /\ Len(w.transcript) = n + 1 /\ w.assistant = a /\ w.thinking = k
    <3>1. /\ w.transcript = v.transcript /\ w.committed = v.committed /\ w.tools = v.tools
          /\ w.muted = v.muted /\ w.assistant = a /\ w.thinking = k
      BY <2>8 DEF With
    <3>. QED  BY <2>4, <2>5, <3>1 DEF Pushed, Speaks, Grows
  <2>9. CASE kind = "assistant"
    <3>1. [v EXCEPT !.assistant = m] = With(v, v.transcript, v.committed, m, v.thinking, v.tools, v.busy)
      BY <2>5, ShapeIs DEF With
    <3>2. w = With(v, v.transcript, v.committed, m, v.thinking, v.tools, v.busy)
      BY <2>6, <2>7, <2>9, <3>1
    <3>3. Speaks(u, w) /\ Len(w.transcript) = n + 1 /\ w.assistant = m /\ w.thinking = v.thinking
      BY <2>8, <3>2
    <3>. QED  BY <1>2, <1>3, <1>4, <1>5, <1>7, <2>4, <2>7, <2>9, <3>3 DEF Grown, Pushed
  <2>10. CASE kind = "thinking"
    <3>1. [v EXCEPT !.thinking = m] = With(v, v.transcript, v.committed, v.assistant, m, v.tools, v.busy)
      BY <2>5, ShapeIs DEF With
    <3>2. w = With(v, v.transcript, v.committed, v.assistant, m, v.tools, v.busy)
      BY <2>6, <2>7, <2>10, <3>1
    <3>3. Speaks(u, w) /\ Len(w.transcript) = n + 1 /\ w.assistant = v.assistant /\ w.thinking = m
      BY <2>8, <3>2
    <3>. QED  BY <1>2, <1>3, <1>4, <1>5, <1>7, <2>4, <2>7, <2>10, <3>3 DEF Grown, Pushed
  <2>. QED  BY <1>1, <2>9, <2>10
<1>. QED  BY <1>6, <1>7

LEMMA GrownGrowing ==
    ASSUME NEW u \in Good, NEW kind \in Texts, NEW w, Grown(u, kind, w), Growing(u),
           kind = "thinking" => u.assistant = 0
    PROVE  Growing(w)
<1>1. PICK n \in Nat : n = Len(u.transcript)
  BY ReachIs
<1>2. PICK m \in Nat : m = Len(w.transcript)
  BY ReachIs DEF Grown
<1>3. /\ DOMAIN u.transcript = 1..n /\ DOMAIN w.transcript = 1..m
      /\ \A i \in 1..n : w.transcript[i].kind = u.transcript[i].kind
      /\ w.committed = u.committed /\ u.committed \in 0..n /\ w \in Good
  BY <1>1, <1>2, ReachIs DEF Grown, Speaks, Grows
<1>4. CASE u[kind] # 0
  <2>1. m = n /\ w.assistant = u.assistant /\ w.thinking = u.thinking
    BY <1>1, <1>2, <1>4 DEF Grown
  <2>2. \A i : LastText(u, i) => LastText(w, i)
    BY <1>3, <2>1 DEF LastText
  <2>. QED  BY <2>1, <2>2 DEF Growing
<1>5. CASE u[kind] = 0
  <2>1. m = n + 1 /\ LastText(w, m)
    <3>1. m = n + 1
      BY <1>1, <1>2, <1>5 DEF Grown
    <3>2. m > w.committed /\ \A j \in 1..m : ~ (j > m)
      BY <1>3, <3>1
    <3>. QED  BY <1>3, <3>1, <3>2 DEF LastText
  <2>2. CASE kind = "assistant"
    <3>1. w.assistant = m /\ m # 0
      BY <1>1, <1>5, <2>1, <2>2 DEF Grown
    <3>. QED  BY <2>1, <3>1 DEF Growing
  <2>3. CASE kind = "thinking"
    <3>1. w.thinking = m /\ w.assistant = 0
      BY <1>1, <1>5, <2>1, <2>3 DEF Grown
    <3>. QED  BY <2>1, <3>1 DEF Growing
  <2>. QED  BY <2>2, <2>3 DEF Texts
<1>. QED  BY <1>4, <1>5

\* What a tool's step makes of the interface, apart from the prompt and from who
\* is muted.
Stepped(u, c, status, w) ==
    /\ Grows(u, w) /\ w.assistant = u.assistant /\ w.thinking = u.thinking
    /\ \A d \in Calls : d # c => w.tools[d] = u.tools[d]
    /\ w.tools[c] \in DOMAIN w.transcript
    /\ u.tools[c] # 0 => w.tools[c] = u.tools[c]
    /\ u.tools[c] = 0 => w.tools[c] = Len(u.transcript) + 1
    /\ w.transcript[w.tools[c]].status = status /\ w.transcript[w.tools[c]].kind = "tool"
    /\ \A i \in DOMAIN u.transcript : i # w.tools[c] => w.transcript[i].status = u.transcript[i].status
    /\ \A i \in DOMAIN w.transcript : i \in DOMAIN u.transcript \/ i = w.tools[c]

LEMMA StepIs ==
    ASSUME NEW u \in Good, Tooled(u), NEW c \in Calls, NEW status \in Statuses
    PROVE  Stepped(u, c, status, Step(u, c, status)) /\ Step(u, c, status).muted = u.muted
<1>1. PICK w : w = Step(u, c, status)
  OBVIOUS
<1>2. PICK t \in Seq(Entries) : t = u.transcript
  BY GoodIs
<1>3. PICK n \in Nat : n = Len(t)
  OBVIOUS
<1>4. u.tools \in [Calls -> 0..n] /\ DOMAIN t = 1..n
  BY <1>2, <1>3, GoodIs
<1>5. CASE u.tools[c] # 0
  <2>1. PICK i \in 1..n : i = u.tools[c]
    BY <1>4, <1>5
  <2>2. PICK x \in Entries : x = t[i]
    BY <1>3
  <2>3. PICK y : y = [x EXCEPT !.status = status]
    OBVIOUS
  <2>4. y.status = status /\ y.kind = x.kind /\ y.size = x.size /\ y.offset = x.offset
    BY <2>3 DEF Entries
  <2>5. PICK s : s = [t EXCEPT ![i] = y]
    OBVIOUS
  <2>6. w = [u EXCEPT !.transcript = s]
    BY <1>1, <1>2, <1>4, <2>1, <2>2, <2>3, <2>5 DEF Step
  <2>7. w = With(u, s, u.committed, u.assistant, u.thinking, u.tools, u.busy)
    <3>1. [u EXCEPT !.transcript = s] = With(u, s, u.committed, u.assistant, u.thinking, u.tools, u.busy)
      BY ShapeIs DEF With
    <3>. QED  BY <2>6, <3>1
  <2>8. /\ w.transcript = s /\ w.committed = u.committed /\ w.assistant = u.assistant
        /\ w.thinking = u.thinking /\ w.tools = u.tools /\ w.muted = u.muted
    BY <2>7 DEF With
  <2>9. /\ Len(s) = n /\ DOMAIN s = 1..n /\ s[i] = y /\ \A j \in 1..n : j # i => s[j] = t[j]
    BY <1>3, <2>5
  <2>10. \A j \in 1..n : s[j].kind = t[j].kind /\ s[j].size = t[j].size /\ s[j].offset = t[j].offset
    BY <2>2, <2>4, <2>9
  <2>11. Grows(u, w)
    BY <1>2, <1>3, <1>4, <2>8, <2>9, <2>10 DEF Grows
  <2>12. x.kind = "tool"
    BY <1>2, <1>5, <2>1, <2>2 DEF Tooled
  <2>. QED  BY <1>1, <1>2, <1>4, <1>5, <2>1, <2>4, <2>8, <2>9, <2>11, <2>12 DEF Stepped
<1>6. CASE u.tools[c] = 0
  <2>1. PICK e : e = Entry("tool", status, 1)
    OBVIOUS
  <2>2. e \in Entries /\ e.offset = 0 /\ e.kind = "tool" /\ e.status = status
    BY <2>1 DEF Entry, Entries, EntryKinds
  <2>3. PICK v : v = Push(u, e)
    OBVIOUS
  <2>4. Pushed(u, e, v)
    BY <2>2, <2>3, PushIs
  <2>5. v \in Good /\ Len(v.transcript) = n + 1 /\ v.transcript[n + 1] = e /\ v.tools = u.tools
    BY <1>2, <1>3, <2>4 DEF Pushed, Speaks
  <2>6. PICK tools : tools = [u.tools EXCEPT ![c] = n + 1]
    OBVIOUS
  <2>7. w = [v EXCEPT !.tools = tools]
    <3>1. u.tools[c] \notin DOMAIN u.transcript
      BY <1>2, <1>4, <1>6
    <3>2. w = [v EXCEPT !.tools[c] = n + 1]
      BY <1>1, <1>2, <1>3, <2>1, <2>3, <3>1 DEF Step
    <3>. QED  BY <2>5, <2>6, <3>2
  <2>8. w = With(v, v.transcript, v.committed, v.assistant, v.thinking, tools, v.busy)
    <3>1. [v EXCEPT !.tools = tools] = With(v, v.transcript, v.committed, v.assistant, v.thinking, tools, v.busy)
      BY <2>5, ShapeIs DEF With
    <3>. QED  BY <2>7, <3>1
  <2>9. /\ w.transcript = v.transcript /\ w.committed = v.committed /\ w.assistant = v.assistant
        /\ w.thinking = v.thinking /\ w.tools = tools /\ w.muted = v.muted
    BY <2>8 DEF With
  <2>10. tools[c] = n + 1 /\ \A d \in Calls : d # c => tools[d] = u.tools[d]
    BY <1>4, <2>6
  <2>11. DOMAIN w.transcript = 1..(n + 1) /\ \A i \in 1..(n + 1) : i \in 1..n \/ i = n + 1
    BY <2>5, <2>9, ReachIs
  <2>12. Grows(u, w)
    BY <2>4, <2>9 DEF Pushed, Speaks, Grows
  <2>. QED  BY <1>1, <1>2, <1>3, <1>4, <1>6, <2>2, <2>4, <2>5, <2>9, <2>10, <2>11, <2>12
            DEF Stepped, Pushed, Speaks
<1>. QED  BY <1>5, <1>6

\* The status a call's event gives its entry.
StatusOf(what) ==
    CASE what = "call" -> "queued" [] what = "request" -> "approval" [] what = "running" -> "running"
      [] what = "cancelled" -> "cancelled" [] what \in {"done", "success"} -> "success" [] OTHER -> "error"

\* Nothing is different but the prompt, who is muted, and whether a turn runs.
Same(u, w) ==
    /\ w.transcript = u.transcript /\ w.committed = u.committed /\ w.tools = u.tools
    /\ w.assistant = u.assistant /\ w.thinking = u.thinking

LEMMA FieldsSame ==
    ASSUME NEW u \in Good
    PROVE  /\ \A a : Same(u, [u EXCEPT !.approval = a]) /\ [u EXCEPT !.approval = a].muted = u.muted
           /\ \A b : Same(u, [u EXCEPT !.busy = b]) /\ [u EXCEPT !.busy = b].muted = u.muted
           /\ \A m : Same(u, [u EXCEPT !.muted = m]) /\ [u EXCEPT !.muted = m].muted = m
<1>1. u \in UiStates
  BY DEF Good
<1>2. ASSUME NEW a PROVE Same(u, [u EXCEPT !.approval = a]) /\ [u EXCEPT !.approval = a].muted = u.muted
  BY <1>1 DEF UiStates, Same
<1>3. ASSUME NEW b PROVE Same(u, [u EXCEPT !.busy = b]) /\ [u EXCEPT !.busy = b].muted = u.muted
  BY <1>1 DEF UiStates, Same
<1>4. ASSUME NEW m PROVE Same(u, [u EXCEPT !.muted = m]) /\ [u EXCEPT !.muted = m].muted = m
  BY <1>1 DEF UiStates, Same
<1>. QED  BY <1>2, <1>3, <1>4

LEMMA SameStepped ==
    ASSUME NEW u, NEW u2, NEW w, NEW w2, Same(u, u2), Same(w, w2), NEW c, NEW status
    PROVE  Stepped(u, c, status, w) <=> Stepped(u2, c, status, w2)
BY DEF Same, Stepped, Grows

LEMMA SameScrolled ==
    ASSUME NEW u, NEW w, Same(u, w), w.muted = u.muted
    PROVE  /\ \A on : Scrolled(u, on) => Scrolled(w, on)
           /\ Growing(u) => Growing(w)
           /\ Tooled(u) => Tooled(w)
           /\ \A q : Coming(u, q) => Coming(w, q)
           /\ \A q, st, t : Responding(u, q, st, t) => Responding(w, q, st, t)
<1>1. Tooled(u) => Tooled(w)
  BY DEF Same, Tooled
<1>2. Reach(w) = Reach(u) /\ (Peeked(u) => Peeked(w)) /\ \A on : Shows(u, on) => Shows(w, on)
  BY DEF Same, Reach, ReachTo, Peeked, Shows
<1>3. \A on : Scrolled(u, on) => Scrolled(w, on)
  BY <1>1, <1>2 DEF Scrolled
<1>4. Growing(u) => Growing(w)
  BY DEF Same, Growing, LastText
<1>5. \A c : Reached(w, c) = Reached(u, c) /\ (Settled(u, c) <=> Settled(w, c))
  BY DEF Same, Reached, Settled
<1>6. \A q : /\ Ahead(u, q) => Ahead(w, q)
             /\ \A c : Earned(u, q, c) <=> Earned(w, q, c)
             /\ \A c : Announced(u, q, c) <=> Announced(w, q, c)
             /\ \A k : Quiet(u, q, k) <=> Quiet(w, q, k)
  BY <1>5 DEF Ahead, Announced, Earned, Quiet, Same
<1>7. \A q : Coming(u, q) => Coming(w, q)
  BY <1>5, <1>6 DEF Coming
<1>8. \A q, st, t : Responding(u, q, st, t) => Responding(w, q, st, t)
  <2>1. \A q, st, t, p : CallRuns(u, q, st, t, p) => CallRuns(w, q, st, t, p)
    BY <1>5, <1>6 DEF CallRuns, Told
  <2>. QED  BY <1>6, <2>1 DEF Responding
<1>. QED  BY <1>1, <1>3, <1>4, <1>7, <1>8

\* An event of a call is a step of its tool, or the result of one that had its end.
LEMMA CallIs ==
    ASSUME NEW u \in Good, Tooled(u), NEW e \in CallEvents
    PROVE  \/ /\ e.what \in {"success", "error"} /\ e.call \in u.muted
              /\ Same(u, Handled(u, e)) /\ Handled(u, e).muted = u.muted \ {e.call}
           \/ /\ e.what \in {"success", "error"} => e.call \notin u.muted
              /\ Stepped(u, e.call, StatusOf(e.what), Handled(u, e))
              /\ Handled(u, e).muted =
                    u.muted \cup (IF e.what \in {"done", "failed"} THEN {e.call} ELSE {})
<1>a. PICK c \in Calls : c = e.call
  BY DEF CallEvents
<1>b. PICK what : what = e.what
  OBVIOUS
<1>1. c = e.call /\ what = e.what
  BY <1>a, <1>b
<1>2. what \in {"call", "request", "running", "cancelled", "done", "failed", "success", "error"}
  BY <1>1 DEF CallEvents
<1>3. PICK w : w = Handled(u, e)
  OBVIOUS
<1>4. \A status \in {"queued", "approval", "running", "success", "error", "cancelled"} : status \in Statuses
  BY DEF Statuses
<1>5. ASSUME NEW x, Same(u, x), x.muted = u.muted, x \in Good, NEW status \in Statuses, NEW v, v = Step(x, c, status)
      PROVE  Stepped(u, c, status, v) /\ v.muted = u.muted /\ v \in Good
  <2>1. Tooled(x)
    BY <1>5, SameScrolled
  <2>2. Stepped(x, c, status, v) /\ v.muted = u.muted
    BY <1>5, <2>1, StepIs
  <2>3. Same(v, v)
    BY DEF Same
  <2>4. Stepped(u, c, status, v)
    BY <1>5, <2>2, <2>3, SameStepped
  <2>5. v \in Good
    BY <1>5, StepMade DEF Made
  <2>. QED  BY <2>2, <2>4, <2>5
<1>6. Same(u, u)
  BY DEF Same
<1>7. CASE what = "call"
  <2>1. w = Step(u, c, "queued")
    BY <1>1, <1>3, <1>7 DEF Handled
  <2>2. Stepped(u, c, "queued", w) /\ w.muted = u.muted
    BY <1>4, <1>5, <1>6, <2>1
  <2>. QED  BY <1>1, <1>3, <1>7, <2>2 DEF StatusOf
<1>8. CASE what = "request"
  <2>1. PICK v : v = Step(u, c, "approval")
    OBVIOUS
  <2>2. w = [v EXCEPT !.approval = c]
    BY <1>1, <1>3, <1>8, <2>1 DEF Handled, Prompted
  <2>3. Stepped(u, c, "approval", v) /\ v.muted = u.muted /\ v \in Good
    BY <1>4, <1>5, <1>6, <2>1
  <2>4. Same(v, w) /\ w.muted = u.muted
    BY <2>2, <2>3, FieldsSame
  <2>5. Stepped(u, c, "approval", w)
    BY <1>6, <2>3, <2>4, SameStepped
  <2>. QED  BY <1>1, <1>3, <1>8, <2>4, <2>5 DEF StatusOf
<1>9. CASE what \in {"running", "cancelled"}
  <2>1. PICK x : x = Unasked(u, c)
    OBVIOUS
  <2>2. x \in Good /\ Same(u, x) /\ x.muted = u.muted
    <3>1. PICK a : a = IF u.approval = c THEN NoCall ELSE u.approval
      OBVIOUS
    <3>2. x = [u EXCEPT !.approval = a] /\ a \in Calls \cup {NoCall}
      BY <2>1, <3>1, GoodIs DEF Unasked
    <3>. QED  BY <3>2, FieldsSame, FieldsGood
  <2>3. w = Step(x, c, what)
    BY <1>1, <1>3, <1>9, <2>1 DEF Handled
  <2>4. Stepped(u, c, what, w) /\ w.muted = u.muted
    BY <1>4, <1>5, <1>9, <2>2, <2>3
  <2>. QED  BY <1>1, <1>3, <1>9, <2>4 DEF StatusOf
<1>10. CASE what \in {"done", "failed"}
  <2>1. PICK status \in Statuses : status = IF what = "done" THEN "success" ELSE "error"
    BY <1>4
  <2>2. PICK v : v = Step(u, c, status)
    OBVIOUS
  <2>3. Stepped(u, c, status, v) /\ v.muted = u.muted /\ v \in Good
    BY <1>5, <1>6, <2>2
  <2>4. w = [v EXCEPT !.muted = v.muted \cup {c}]
    BY <1>1, <1>3, <1>10, <2>1, <2>2 DEF Handled
  <2>5. Same(v, w) /\ w.muted = u.muted \cup {c}
    BY <2>3, <2>4, FieldsSame
  <2>6. Stepped(u, c, status, w)
    BY <1>6, <2>3, <2>5, SameStepped
  <2>. QED  BY <1>1, <1>3, <1>10, <2>1, <2>5, <2>6 DEF StatusOf
<1>11. CASE what \in {"success", "error"}
  <2>1. w = ToolResult(u, c, what)
    BY <1>1, <1>3, <1>11 DEF Handled
  <2>2. CASE c \in u.muted
    <3>1. w = [u EXCEPT !.muted = u.muted \ {c}]
      BY <2>1, <2>2 DEF ToolResult
    <3>2. Same(u, w) /\ w.muted = u.muted \ {c}
      BY <3>1, FieldsSame
    <3>. QED  BY <1>1, <1>3, <1>11, <2>2, <3>2
  <2>3. CASE c \notin u.muted
    <3>1. w = Step(u, c, what)
      BY <2>1, <2>3 DEF ToolResult
    <3>2. Stepped(u, c, what, w) /\ w.muted = u.muted
      BY <1>4, <1>5, <1>6, <1>11, <3>1
    <3>. QED  BY <1>1, <1>3, <1>11, <2>3, <3>2 DEF StatusOf
  <2>. QED  BY <2>2, <2>3
<1>. QED  BY <1>2, <1>7, <1>8, <1>9, <1>10, <1>11

\* What the next event may be.
Fits(u, e) ==
    /\ e.call \in Calls => LevelOf(e.what) > Reached(u, e.call) /\ Settled(u, e.call)
    /\ e.what = "success" => e.call \in u.muted
    /\ e.what = "thinking" => u.assistant = 0

\* What an event changes of what the ones to come depend on.
Heard(u, e, w) ==
    /\ w.committed = u.committed
    /\ \A c \in Calls : Reached(w, c) = IF c = e.call THEN LevelOf(e.what) ELSE Reached(u, c)
    /\ \A c \in Calls : w.tools[c] = u.tools[c] \/ w.tools[c] > u.committed
    /\ \A c \in Calls : c \in u.muted /\ ~ (c = e.call /\ LevelOf(e.what) = 5) => c \in w.muted
    /\ e.what = "done" => e.call \in w.muted
    /\ w.assistant # 0 => e.what = "assistant" \/ (e.what # "start" /\ u.assistant # 0)

\* The pieces of a tool whose step this is show what it may still become.
LEMMA SteppedShows ==
    ASSUME NEW u \in Good, NEW w \in Good, NEW on, Scrolled(u, on), NEW c \in Calls,
           NEW what \in {"call", "request", "running", "cancelled", "done", "failed", "success", "error"},
           Stepped(u, c, StatusOf(what), w), Fits(u, Ev(what, c)),
           what \in {"success", "error"} => c \notin u.muted
    PROVE  Shows(w, on)
<1>. SUFFICES ASSUME NEW k \in DOMAIN on PROVE Agrees(on[k].status, w.transcript[on[k].entry].status)
  BY DEF Shows
<1>1. PICK i \in DOMAIN u.transcript : i = on[k].entry
  BY OnScroll
<1>2. PICK st : st = on[k].status
  OBVIOUS
<1>3. Agrees(st, u.transcript[i].status)
  BY <1>1, <1>2 DEF Scrolled, Shows
<1>4. CASE i # w.tools[c]
  BY <1>1, <1>2, <1>3, <1>4 DEF Stepped
<1>5. CASE i = w.tools[c]
  <2>1. DOMAIN u.transcript = 1..Len(u.transcript) /\ Len(u.transcript) \in Nat
    BY ReachIs
  <2>2. u.tools[c] # 0
    <3>1. i # Len(u.transcript) + 1
      BY <2>1
    <3>. QED  BY <1>5, <3>1 DEF Stepped
  <2>3. u.tools[c] = i /\ u.transcript[i].kind = "tool"
    BY <1>5, <2>2 DEF Stepped, Scrolled, Tooled
  <2>4. i <= u.committed
    BY <1>1, <2>3, OnScroll DEF Texts
  <2>5. Reached(u, c) >= 4 /\ LevelOf(what) > Reached(u, c) /\ (what = "success" => c \in u.muted)
    <3>1. u.tools[c] \in 1..u.committed
      BY <2>1, <2>3, <2>4, ReachIs
    <3>2. Ev(what, c).what = what /\ Ev(what, c).call = c
      BY DEF Ev
    <3>. QED  BY <3>1, <3>2 DEF Fits, Settled
  <2>6. PICK old : old = u.transcript[i].status
    OBVIOUS
  <2>7. Reached(u, c) = IF c \in u.muted THEN 4 ELSE StatusLevel(old)
    BY <2>2, <2>3, <2>6 DEF Reached
  <2>8. LevelOf(what) \in 1..5 /\ (LevelOf(what) = 5 => what \notin {"call", "request", "running", "cancelled", "done", "failed"})
    BY DEF LevelOf
  <2>9. StatusLevel(old) \in 1..5 /\ (StatusLevel(old) = 4 => old = "cancelled")
    BY DEF StatusLevel
  <2>10. LevelOf(what) = 5 /\ Reached(u, c) = 4
    BY <2>5, <2>7, <2>8, <2>9
  <2>11. what \notin {"call", "request", "running", "cancelled", "done", "failed"}
    BY <2>8, <2>10
  <2>12. what \in {"success", "error"} /\ c \notin u.muted /\ what = "error"
    BY <2>5, <2>11 
  <2>13. old = "cancelled"
    BY <2>7, <2>9, <2>10, <2>12
  <2>14. w.transcript[i].status = "error"
    BY <1>5, <2>12 DEF Stepped, StatusOf
  <2>15. st \in {"cancelled", "error"}
    <3>1. st = old \/ {st, old} = {"cancelled", "error"}
      BY <1>3, <2>6 DEF Agrees
    <3>. QED  BY <2>13, <3>1
  <2>. QED  BY <1>1, <1>2, <2>14, <2>15 DEF Agrees
<1>. QED  BY <1>1, <1>2, <1>4, <1>5

\* A call's step, and what it leaves to be heard of.
LEMMA SteppedHeard ==
    ASSUME NEW u \in Good, NEW w \in Good, Tooled(u), NEW c \in Calls,
           NEW what \in {"call", "request", "running", "cancelled", "done", "failed", "success", "error"},
           Stepped(u, c, StatusOf(what), w), Fits(u, Ev(what, c)),
           what \in {"success", "error"} => c \notin u.muted,
           w.muted = u.muted \cup (IF what \in {"done", "failed"} THEN {c} ELSE {})
    PROVE  Tooled(w) /\ Heard(u, Ev(what, c), w)
<1>1. /\ DOMAIN u.transcript = 1..Len(u.transcript) /\ Len(u.transcript) \in Nat
      /\ u.committed \in 0..Len(u.transcript) /\ \A d \in Calls : u.tools[d] \in 0..Len(u.transcript)
  BY GoodIs
<1>2. Ev(what, c).what = what /\ Ev(what, c).call = c
  BY DEF Ev
<1>3. LevelOf(what) > Reached(u, c)
  BY <1>2 DEF Fits
<1>4. ASSUME c \in u.muted PROVE what \notin {"call", "request", "running", "cancelled", "success", "error"}
  <2>1. Reached(u, c) = 4
    BY <1>4 DEF Reached, Tooled
  <2>. QED  BY <1>3, <1>4, <2>1 DEF LevelOf
<1>5. PICK i \in DOMAIN w.transcript : i = w.tools[c]
  BY DEF Stepped
<1>6. i # 0 /\ w.transcript[i].status = StatusOf(what) /\ w.transcript[i].kind = "tool"
  <2>1. DOMAIN w.transcript = 1..Len(w.transcript) /\ Len(w.transcript) \in Nat
    BY ReachIs
  <2>. QED  BY <1>5, <2>1 DEF Stepped
<1>7. ASSUME NEW d \in Calls, d # c
      PROVE  /\ w.tools[d] = u.tools[d] /\ (w.tools[d] # 0 => w.tools[d] # i)
             /\ w.tools[d] # 0 => /\ w.transcript[w.tools[d]].status = u.transcript[u.tools[d]].status
                                  /\ w.transcript[w.tools[d]].kind = u.transcript[u.tools[d]].kind
             /\ d \in w.muted <=> d \in u.muted
  <2>1. w.tools[d] = u.tools[d]
    BY <1>7 DEF Stepped
  <2>2. d \in w.muted <=> d \in u.muted
    BY <1>7
  <2>3. ASSUME u.tools[d] # 0 PROVE u.tools[d] # i
    <3>1. CASE u.tools[c] # 0
      BY <1>5, <1>7, <2>3, <3>1 DEF Stepped, Tooled
    <3>2. CASE u.tools[c] = 0
      <4>1. i = Len(u.transcript) + 1
        BY <1>5, <3>2 DEF Stepped
      <4>. QED  BY <1>1, <4>1
    <3>. QED  BY <3>1, <3>2
  <2>4. u.tools[d] # 0 => u.tools[d] \in DOMAIN u.transcript
    BY <1>1
  <2>5. u.tools[d] # 0 => /\ w.transcript[u.tools[d]].status = u.transcript[u.tools[d]].status
                          /\ w.transcript[u.tools[d]].kind = u.transcript[u.tools[d]].kind
    BY <1>5, <2>3, <2>4 DEF Stepped, Grows
  <2>. QED  BY <2>1, <2>2, <2>3, <2>5
<1>8. Tooled(w)
  <2>. SUFFICES ASSUME NEW d \in Calls
                PROVE  /\ w.tools[d] # 0 => w.transcript[w.tools[d]].kind = "tool"
                       /\ \A b \in Calls : w.tools[d] = w.tools[b] /\ w.tools[d] # 0 => d = b
                       /\ d \in w.muted => /\ w.tools[d] # 0
                                           /\ w.transcript[w.tools[d]].status \in {"success", "error"}
    BY DEF Tooled
  <2>1. CASE d = c
    <3>1. \A b \in Calls : w.tools[d] = w.tools[b] /\ w.tools[d] # 0 => d = b
      BY <1>5, <1>7, <2>1
    <3>2. c \in w.muted => StatusOf(what) \in {"success", "error"}
      BY <1>4 DEF StatusOf
    <3>. QED  BY <1>5, <1>6, <2>1, <3>1, <3>2
  <2>2. CASE d # c
    <3>1. w.tools[d] = u.tools[d] /\ (d \in w.muted <=> d \in u.muted)
      BY <1>7, <2>2 DEF Stepped
    <3>2. \A b \in Calls : w.tools[d] = w.tools[b] /\ w.tools[d] # 0 => d = b
      <4>. SUFFICES ASSUME NEW b \in Calls, w.tools[d] = w.tools[b], w.tools[d] # 0 PROVE d = b
        OBVIOUS
      <4>1. CASE b = c
        BY <1>5, <1>7, <2>2, <4>1
      <4>2. CASE b # c
        <5>1. w.tools[b] = u.tools[b]
          BY <4>2 DEF Stepped
        <5>2. u.tools[d] = u.tools[b] /\ u.tools[d] # 0
          BY <3>1, <5>1
        <5>. QED  BY <5>2, Zenon DEF Tooled
      <4>. QED  BY <4>1, <4>2
    <3>. QED  BY <1>7, <2>2, <3>1, <3>2 DEF Tooled
  <2>. QED  BY <2>1, <2>2
<1>9. Reached(w, c) = LevelOf(what)
  <2>1. Reached(w, c) = IF c \in w.muted THEN 4 ELSE StatusLevel(StatusOf(what))
    BY <1>5, <1>6 DEF Reached
  <2>2. CASE what \in {"done", "failed"}
    BY <2>1, <2>2 DEF LevelOf
  <2>3. CASE what \notin {"done", "failed"}
    <3>1. c \notin w.muted
      BY <1>4, <2>3
    <3>. QED  BY <2>1, <2>3, <3>1 DEF LevelOf, StatusLevel, StatusOf
  <2>. QED  BY <2>2, <2>3
<1>10. ASSUME NEW d \in Calls, d # c PROVE Reached(w, d) = Reached(u, d)
  <2>1. w.tools[d] = u.tools[d]
    BY <1>10 DEF Stepped
  <2>. QED  BY <1>7, <1>10, <2>1 DEF Reached
<1>11. \A d \in Calls : w.tools[d] = u.tools[d] \/ w.tools[d] > u.committed
  <2>1. ASSUME u.tools[c] = 0 PROVE w.tools[c] > u.committed
    <3>1. w.tools[c] = Len(u.transcript) + 1
      BY <2>1 DEF Stepped
    <3>. QED  BY <1>1, <3>1
  <2>. QED  BY <2>1 DEF Stepped
<1>12. /\ w.committed = u.committed /\ w.assistant = u.assistant
       /\ \A d \in u.muted : d \in w.muted
       /\ what = "done" => c \in w.muted
  BY DEF Stepped, Grows
<1>13. Heard(u, Ev(what, c), w)
  BY <1>2, <1>9, <1>10, <1>11, <1>12 DEF Heard
<1>. QED  BY <1>8, <1>13

LEMMA SteppedGrowing ==
    ASSUME NEW u \in Good, NEW w \in Good, NEW c, NEW status, Stepped(u, c, status, w), Growing(u)
    PROVE  Growing(w)
<1>1. ASSUME NEW i, LastText(u, i) PROVE LastText(w, i)
  <2>. SUFFICES ASSUME NEW j \in DOMAIN w.transcript, j > i PROVE w.transcript[j].kind \notin Texts
    BY <1>1 DEF LastText, Stepped, Grows
  <2>1. CASE j \in DOMAIN u.transcript
    BY <1>1, <2>1 DEF LastText, Stepped, Grows
  <2>2. CASE j \notin DOMAIN u.transcript
    <3>1. w.transcript[j].kind = "tool"
      BY <2>2 DEF Stepped
    <3>. QED  BY <3>1 DEF Texts
  <2>. QED  BY <2>1, <2>2
<1>2. w.assistant = u.assistant /\ w.thinking = u.thinking
  BY DEF Stepped
<1>. QED  BY <1>1, <1>2 DEF Growing

LEMMA SpeaksHeard ==
    ASSUME NEW u \in Good, NEW w \in Good, NEW e \in PlainEvents, Speaks(u, w),
           w.assistant # 0 => e.what = "assistant" \/ (e.what # "start" /\ u.assistant # 0)
    PROVE  Heard(u, e, w)
<1>1. e.what # "done" /\ e.call \notin Calls
  BY NoCallAssumption DEF PlainEvents
<1>2. \A c \in Calls : Reached(w, c) = Reached(u, c) /\ c # e.call
  BY <1>1, SpeaksScrolled
<1>3. w.committed = u.committed /\ w.tools = u.tools /\ w.muted = u.muted
  BY DEF Speaks, Grows
<1>. QED  BY <1>1, <1>2, <1>3 DEF Heard

\* An event that fits leaves the scrollback in order.
LEMMA HandledHeard ==
    ASSUME NEW u \in Good, NEW on, Scrolled(u, on), Growing(u), NEW e \in Events, Fits(u, e)
    PROVE  /\ Scrolled(Handled(u, e), on) /\ Growing(Handled(u, e)) /\ Heard(u, e, Handled(u, e))
           /\ Handled(u, e) \in Good
<1>1. PICK w \in Good : w = Handled(u, e)
  BY HandledIs
<1>2. CASE e \in PlainEvents
  <2>1. PICK what \in {"start", "assistant", "thinking", "info"} : what = e.what
    BY <1>2 DEF PlainEvents
  <2>2. CASE what = "start"
    <3>1. w = [u EXCEPT !.assistant = 0, !.thinking = 0]
      BY <1>1, <2>1, <2>2 DEF Handled
    <3>2. [u EXCEPT !.assistant = 0, !.thinking = 0]
              = With(u, u.transcript, u.committed, 0, 0, u.tools, u.busy)
      <4>1. PICK v : v = [u EXCEPT !.assistant = 0]
        OBVIOUS
      <4>2. v = With(u, u.transcript, u.committed, 0, u.thinking, u.tools, u.busy)
        BY <4>1, ShapeIs DEF With
      <4>3. [v EXCEPT !.thinking = 0] = With(u, u.transcript, u.committed, 0, 0, u.tools, u.busy)
        BY <4>2 DEF With
      <4>. QED  BY <4>1, <4>3
    <3>3. /\ w.transcript = u.transcript /\ w.committed = u.committed /\ w.tools = u.tools
          /\ w.muted = u.muted /\ w.assistant = 0 /\ w.thinking = 0
      BY <3>1, <3>2 DEF With
    <3>4. Grows(u, w)
      BY <3>3, ReachIs DEF Grows
    <3>5. Speaks(u, w)
      BY <3>3, <3>4 DEF Speaks
    <3>6. Growing(w)
      BY <3>3 DEF Growing
    <3>7. Heard(u, e, w)
      BY <1>2, <3>3, <3>5, SpeaksHeard
    <3>. QED  BY <1>1, <3>5, <3>6, <3>7, SpeaksScrolled
  <2>3. CASE what \in {"assistant", "thinking"}
    <3>1. what \in Texts /\ w = Grow(u, what)
      BY <1>1, <2>1, <2>3 DEF Handled, Texts
    <3>2. what = "thinking" => u.assistant = 0
      BY <2>1 DEF Fits
    <3>3. u[what] # 0 => u[what] > u.committed
      BY <2>3, <3>2 DEF Growing, LastText
    <3>4. Grown(u, what, w)
      BY <3>1, <3>3, GrowIs
    <3>5. Growing(w)
      BY <3>1, <3>2, <3>4, GrownGrowing
    <3>6. w.assistant # 0 => what = "assistant" \/ u.assistant # 0
      BY <2>3, <3>4 DEF Grown
    <3>7. Speaks(u, w)
      BY <3>4 DEF Grown
    <3>8. Heard(u, e, w)
      BY <1>2, <2>1, <2>3, <3>6, <3>7, SpeaksHeard
    <3>. QED  BY <1>1, <3>5, <3>7, <3>8, SpeaksScrolled
  <2>4. CASE what = "info"
    <3>a. PICK x : x = Entry("info", "success", 1)
      OBVIOUS
    <3>1. x = Entry("info", "success", 1) /\ x \in Entries /\ x.offset = 0 /\ x.kind = "info"
      BY <3>a DEF Entry, Entries, EntryKinds, Statuses
    <3>2. w = Push(u, x)
      BY <1>1, <2>1, <2>4, <3>1 DEF Handled
    <3>3. Pushed(u, x, w)
      BY <3>1, <3>2, PushIs
    <3>4. Growing(w)
      BY <3>1, <3>3, PushGrowing DEF Texts
    <3>5. Speaks(u, w) /\ w.assistant = u.assistant
      BY <3>3 DEF Pushed
    <3>6. Heard(u, e, w)
      BY <1>2, <2>1, <2>4, <3>5, SpeaksHeard
    <3>. QED  BY <1>1, <3>4, <3>5, <3>6, SpeaksScrolled
  <2>. QED  BY <2>2, <2>3, <2>4
<1>3. CASE e \in CallEvents
  <2>a. PICK c \in Calls : c = e.call
    BY <1>3 DEF CallEvents
  <2>b. PICK what \in {"call", "request", "running", "cancelled", "done", "failed", "success", "error"} :
            what = e.what
    BY <1>3 DEF CallEvents
  <2>1. Tooled(u)
    BY DEF Scrolled
  <2>2. CASE /\ what \in {"success", "error"} /\ c \in u.muted
             /\ Same(u, w) /\ w.muted = u.muted \ {c}
    <3>1. u.tools[c] # 0 /\ u.transcript[u.tools[c]].status \in {"success", "error"}
      BY <2>1, <2>2 DEF Tooled
    <3>2. Tooled(w)
      BY <2>1, <2>2 DEF Tooled, Same
    <3>3. /\ Reach(w) = Reach(u) /\ (Peeked(u) => Peeked(w)) /\ (Shows(u, on) => Shows(w, on))
      BY <2>2 DEF Same, Reach, ReachTo, Peeked, Shows
    <3>4. Scrolled(w, on)
      BY <3>2, <3>3 DEF Scrolled
    <3>5. Growing(w)
      BY <2>2 DEF Same, Growing, LastText
    <3>6. Reached(w, c) = 5 /\ LevelOf(what) = 5
      <4>1. c \notin w.muted /\ w.tools[c] # 0 /\ w.transcript[w.tools[c]].status \in {"success", "error"}
        BY <2>2, <3>1 DEF Same
      <4>2. Reached(w, c) = StatusLevel(w.transcript[w.tools[c]].status)
        BY <4>1, Zenon DEF Reached
      <4>. QED  BY <2>2, <4>1, <4>2 DEF StatusLevel, LevelOf
    <3>7. \A d \in Calls : d # c => Reached(w, d) = Reached(u, d)
      BY <2>2 DEF Reached, Same
    <3>8. /\ w.committed = u.committed /\ w.tools = u.tools /\ w.assistant = u.assistant
          /\ \A d \in Calls : d \in u.muted /\ d # c => d \in w.muted
      BY <2>2 DEF Same
    <3>9. Heard(u, e, w)
      BY <2>a, <2>b, <2>2, <3>6, <3>7, <3>8 DEF Heard
    <3>. QED  BY <1>1, <3>4, <3>5, <3>9
  <2>3. CASE /\ what \in {"success", "error"} => c \notin u.muted
             /\ Stepped(u, c, StatusOf(what), w)
             /\ w.muted = u.muted \cup (IF what \in {"done", "failed"} THEN {c} ELSE {})
    <3>1. e = Ev(what, c)
      BY <1>3, <2>a, <2>b DEF CallEvents, Ev
    <3>2. Fits(u, Ev(what, c))
      BY <3>1
    <3>3. Tooled(w) /\ Heard(u, e, w)
      BY <2>1, <2>3, <3>1, <3>2, SteppedHeard
    <3>4. Shows(w, on)
      BY <2>3, <3>2, SteppedShows
    <3>5. Grows(u, w)
      BY <2>3 DEF Stepped
    <3>6. Scrolled(w, on)
      BY <3>3, <3>4, <3>5, GrowsScrolled
    <3>7. Growing(w)
      BY <2>3, SteppedGrowing
    <3>. QED  BY <1>1, <3>3, <3>6, <3>7
  <2>. QED  BY <1>1, <1>3, <2>a, <2>b, <2>1, <2>2, <2>3, CallIs
<1>. QED  BY <1>2, <1>3 DEF Events

\* The first event that is to come fits.
LEMMA HeadFits ==
    ASSUME NEW u, NEW q \in Seq(Events), q # <<>>, Coming(u, q)
    PROVE  Fits(u, Head(q))
<1>1. 1 \in DOMAIN q /\ Head(q) = q[1] /\ DOMAIN q = 1..Len(q) /\ Len(q) \in Nat
  <2>1. PICK n \in Nat : n = Len(q)
    OBVIOUS
  <2>2. n # 0
    BY <2>1
  <2>. QED  BY <2>1, <2>2
<1>2. PICK e : e = q[1]
  OBVIOUS
<1>3. e.call \in Calls => LevelOf(e.what) > Reached(u, e.call) /\ Settled(u, e.call)
  BY <1>1, <1>2 DEF Coming, Ahead
<1>4. ASSUME e.what = "success" PROVE e.call \in u.muted
  <2>0. e.call \in Calls
    <3>1. e \in Events
      BY <1>1, <1>2
    <3>. QED  BY <1>4, <3>1 DEF Events, PlainEvents, CallEvents
  <2>1. Earned(u, q, e.call)
    BY <1>1, <1>2, <1>4 DEF Coming
  <2>2. ASSUME NEW j \in DOMAIN q, q[j] = Ev("done", e.call) PROVE FALSE
    <3>1. q[j].what = "done" /\ q[j].call = e.call
      BY <2>2 DEF Ev
    <3>2. j # 1
      BY <1>2, <1>4, <3>1
    <3>3. 1 \in 1..(j - 1)
      BY <1>1, <3>2
    <3>4. LevelOf(q[1].what) < LevelOf(q[j].what)
      BY <1>2, <2>0, <3>1, <3>3 DEF Coming, Ahead
    <3>5. LevelOf("success") = 5 /\ LevelOf("done") = 4
      BY DEF LevelOf
    <3>. QED  BY <1>2, <1>4, <3>1, <3>4, <3>5
  <2>. QED  BY <2>1, <2>2 DEF Earned
<1>5. ASSUME e.what = "thinking" PROVE u.assistant = 0
  <2>1. Quiet(u, q, 1)
    BY <1>1, <1>2, <1>5 DEF Coming
  <2>2. 1..(1 - 1) = {}
    OBVIOUS
  <2>. QED  BY <2>1, <2>2 DEF Quiet
<1>. QED  BY <1>1, <1>2, <1>3, <1>4, <1>5 DEF Fits

-------------------------------------------------------------------------------
(* The events in the channel, one or all of them.                          *)

\* What is to come after an event that was heard.
LEMMA TailComing ==
    ASSUME NEW u \in Good, NEW w \in Good, NEW q \in Seq(Events), q # <<>>,
           Coming(u, q), Heard(u, Head(q), w)
    PROVE  /\ Coming(w, Tail(q))
           /\ \A st : \A t \in Turns : Responding(u, q, st, t) => Responding(w, Tail(q), st, t)
<1>1. PICK n \in Nat : n = Len(q)
  OBVIOUS
<1>a. Tail(q) \in Seq(Events)
  OBVIOUS
<1>2. PICK r \in Seq(Events) : r = Tail(q)
  BY <1>a
<1>3. PICK e \in Events : e = q[1]
  OBVIOUS
<1>4. /\ n > 0 /\ Head(q) = e /\ DOMAIN q = 1..n /\ Len(r) = n - 1 /\ DOMAIN r = 1..(n - 1)
      /\ \A k \in 1..(n - 1) : r[k] = q[k + 1] /\ k + 1 \in 1..n
  BY <1>1, <1>2, <1>3
<1>5. \A j \in 1..n : j = 1 \/ (j - 1 \in 1..(n - 1) /\ r[j - 1] = q[j])
  BY <1>4
<1>6. \A c \in Calls : Reached(w, c) = IF c = e.call THEN LevelOf(e.what) ELSE Reached(u, c)
  BY <1>4 DEF Heard
\* the event is one step of its call, and the next ones of the call are later ones
<1>7. ASSUME NEW k \in 1..(n - 1), r[k].call \in Calls
      PROVE  LevelOf(r[k].what) > Reached(w, r[k].call)
  <2>1. k + 1 \in DOMAIN q /\ r[k] = q[k + 1] /\ 1 \in 1..((k + 1) - 1)
    BY <1>4
  <2>2. LevelOf(q[k + 1].what) > Reached(u, q[k + 1].call)
    BY <1>7, <2>1 DEF Coming, Ahead
  <2>3. q[1].call = q[k + 1].call => LevelOf(q[1].what) < LevelOf(q[k + 1].what)
    BY <1>7, <2>1 DEF Coming, Ahead
  <2>4. LevelOf(q[1].what) \in 1..5 /\ LevelOf(q[k + 1].what) \in 1..5
    BY DEF LevelOf
  <2>. QED  BY <1>3, <1>6, <1>7, <2>1, <2>2, <2>3, <2>4
<1>8. Ahead(w, r)
  <2>. SUFFICES ASSUME NEW k \in DOMAIN r, r[k].call \in Calls, NEW j \in 1..(k - 1), r[j].call = r[k].call
                PROVE  LevelOf(r[j].what) < LevelOf(r[k].what)
    BY <1>4, <1>7 DEF Ahead
  <2>1. k + 1 \in DOMAIN q /\ r[k] = q[k + 1] /\ j + 1 \in 1..((k + 1) - 1) /\ r[j] = q[j + 1]
    BY <1>4
  <2>. QED  BY <2>1 DEF Coming, Ahead
<1>9. \A c \in Calls : Settled(u, c) /\ (c = e.call => LevelOf(e.what) > Reached(u, c)) => Settled(w, c)
  <2>. SUFFICES ASSUME NEW c \in Calls, Settled(u, c), c = e.call => LevelOf(e.what) > Reached(u, c),
                       w.tools[c] \in 1..w.committed
                PROVE  Reached(w, c) >= 4
    BY DEF Settled
  <2>1. w.committed = u.committed /\ (w.tools[c] = u.tools[c] \/ w.tools[c] > u.committed)
    BY DEF Heard
  <2>2. w.tools[c] = u.tools[c]
    BY <2>1, ReachIs
  <2>3. Reached(u, c) >= 4
    BY <2>1, <2>2 DEF Settled
  <2>4. LevelOf(e.what) \in 1..5 /\ Reached(u, c) \in 0..5
    BY DEF LevelOf, Reached, StatusLevel
  <2>. QED  BY <1>6, <2>3, <2>4
<1>10. e.call \in Calls => LevelOf(e.what) > Reached(u, e.call)
  BY <1>3, <1>4 DEF Coming, Ahead
<1>11. \A c \in Calls : Settled(u, c) => Settled(w, c)
  BY <1>9, <1>10
\* what was earned stays so, up to the result itself
<1>12. ASSUME NEW c \in Calls, Earned(u, q, c), c = e.call => LevelOf(e.what) # 5
       PROVE  Earned(w, r, c)
  <2>1. CASE c \in u.muted
    BY <1>4, <1>12, <2>1 DEF Earned, Heard
  <2>2. CASE \E j \in DOMAIN q : q[j] = Ev("done", c)
    <3>1. PICK j \in 1..n : q[j] = Ev("done", c)
      BY <1>4, <2>2
    <3>2. CASE j = 1
      <4>1. e.what = "done" /\ e.call = c
        BY <1>3, <3>1, <3>2 DEF Ev
      <4>. QED  BY <1>4, <4>1 DEF Heard, Earned
    <3>3. CASE j # 1
      <4>1. j - 1 \in DOMAIN r /\ r[j - 1] = Ev("done", c)
        BY <1>4, <1>5, <3>1, <3>3
      <4>. QED  BY <4>1 DEF Earned
    <3>. QED  BY <3>2, <3>3
  <2>. QED  BY <1>12, <2>1, <2>2 DEF Earned
<1>b. ASSUME NEW c \in Calls, Announced(u, q, c)
      PROVE  Announced(w, r, c)
  <2>1. \A v : Reached(v, c) # 0 <=> v.tools[c] # 0
    BY DEF Reached, StatusLevel
  <2>2. CASE u.tools[c] # 0 \/ e.call = c
    <3>1. LevelOf(e.what) \in 1..5
      BY DEF LevelOf
    <3>2. Reached(w, c) # 0
      BY <1>6, <2>1, <2>2, <3>1
    <3>. QED  BY <2>1, <3>2 DEF Announced
  <2>3. CASE e.call # c /\ \E j \in DOMAIN q : q[j] = Ev("call", c)
    <3>1. PICK j \in 1..n : q[j] = Ev("call", c)
      BY <1>4, <2>3
    <3>2. j # 1
      BY <1>3, <2>3, <3>1 DEF Ev
    <3>3. j - 1 \in DOMAIN r /\ r[j - 1] = Ev("call", c)
      BY <1>4, <1>5, <3>1, <3>2
    <3>. QED  BY <3>3 DEF Announced
  <2>. QED  BY <1>b, <2>2, <2>3 DEF Announced
<1>13. ASSUME NEW k \in 1..n, Quiet(u, q, k + 1)
       PROVE  Quiet(w, r, k)
  <2>1. ASSUME NEW i \in Nat, i > 0, \E m \in (i + 1)..k : q[m].what = "start"
        PROVE  \E m \in i..(k - 1) : r[m].what = "start"
    <3>1. PICK m \in (i + 1)..k : q[m].what = "start"
      BY <2>1
    <3>2. m \in 1..n /\ m # 1 /\ m - 1 \in i..(k - 1)
      BY <2>1
    <3>3. r[m - 1] = q[m]
      BY <1>5, <3>2
    <3>. QED  BY <3>1, <3>2, <3>3
  <2>2. ASSUME w.assistant # 0 PROVE \E m \in 1..(k - 1) : r[m].what = "start"
    <3>1. CASE e.what = "assistant"
      <4>1. 1 \in 1..((k + 1) - 1) /\ q[1].what = "assistant" /\ (k + 1) - 1 = k
        BY <1>3, <3>1
      <4>2. PICK i \in Nat : i = 1
        OBVIOUS
      <4>3. \E m \in (i + 1)..k : q[m].what = "start"
        BY <1>13, <4>1, <4>2 DEF Quiet
      <4>4. i > 0
        BY <4>2
      <4>5. \E m \in i..(k - 1) : r[m].what = "start"
        BY <2>1, <4>3, <4>4
      <4>. QED  BY <4>2, <4>5
    <3>2. CASE e.what # "start" /\ u.assistant # 0
      <4>1. PICK m \in 1..k : q[m].what = "start"
        <5>1. (k + 1) - 1 = k
          OBVIOUS
        <5>. QED  BY <1>13, <3>2, <5>1 DEF Quiet
      <4>2. m # 1
        BY <1>3, <3>2, <4>1
      <4>3. PICK i \in Nat : i = 1
        OBVIOUS
      <4>4. i > 0 /\ m \in (i + 1)..k
        BY <4>1, <4>2, <4>3
      <4>5. \E x \in i..(k - 1) : r[x].what = "start"
        BY <2>1, <4>1, <4>4
      <4>. QED  BY <4>3, <4>5
    <3>. QED  BY <1>4, <2>2, <3>1, <3>2 DEF Heard
  <2>3. ASSUME NEW j \in 1..(k - 1), r[j].what = "assistant"
        PROVE  \E m \in (j + 1)..(k - 1) : r[m].what = "start"
    <3>1. j + 1 \in 1..((k + 1) - 1) /\ (k + 1) - 1 = k /\ r[j] = q[j + 1]
      BY <1>4
    <3>2. PICK i \in Nat : i = j + 1 /\ i > 0
      OBVIOUS
    <3>3. \E m \in (i + 1)..k : q[m].what = "start"
      BY <1>13, <2>3, <3>1, <3>2 DEF Quiet
    <3>4. \E m \in i..(k - 1) : r[m].what = "start"
      BY <2>1, <3>2, <3>3
    <3>. QED  BY <3>2, <3>4
  <2>. QED  BY <2>2, <2>3 DEF Quiet
<1>14. Coming(w, r)
  <2>. SUFFICES ASSUME NEW k \in DOMAIN r
                PROVE  /\ r[k].call \in Calls => Announced(w, r, r[k].call) /\ Settled(w, r[k].call)
                       /\ r[k].what = "success" => Earned(w, r, r[k].call)
                       /\ r[k].what = "thinking" => Quiet(w, r, k)
    BY <1>8 DEF Coming
  <2>1. k \in 1..(n - 1) /\ k + 1 \in DOMAIN q /\ r[k] = q[k + 1] /\ k \in 1..n
    BY <1>4
  <2>2. r[k].call \in Calls => Announced(w, r, r[k].call) /\ Settled(w, r[k].call)
    BY <1>b, <1>11, <2>1 DEF Coming
  <2>3. ASSUME r[k].what = "success" PROVE Earned(w, r, r[k].call)
    <3>1. PICK c \in Calls : c = r[k].call
      <4>1. r[k] \in Events
        BY <2>1
      <4>. QED  BY <2>3, <4>1 DEF Events, PlainEvents, CallEvents
    <3>2. Earned(u, q, c)
      BY <2>1, <2>3, <3>1 DEF Coming
    <3>3. ASSUME c = e.call, LevelOf(e.what) = 5 PROVE FALSE
      <4>1. LevelOf(r[k].what) > 5
        BY <1>6, <1>7, <2>1, <3>1, <3>3
      <4>. QED  BY <4>1 DEF LevelOf
    <3>. QED  BY <1>12, <3>1, <3>2, <3>3
  <2>4. r[k].what = "thinking" => Quiet(w, r, k)
    BY <1>13, <2>1 DEF Coming
  <2>. QED  BY <2>2, <2>3, <2>4
<1>15. ASSUME NEW st, NEW t \in Turns, Responding(u, q, st, t)
       PROVE  Responding(w, r, st, t)
  <2>1. ASSUME NEW p \in DOMAIN t.calls PROVE CallRuns(w, r, st, t, p)
    <3>1. PICK c \in Calls : c = t.calls[p]
      BY TurnShape
    <3>2. PICK due \in 1..4 : due = Due(st, t, p)
      BY DEF Due
    <3>3. /\ Reached(u, c) <= due /\ Settled(u, c) /\ Announced(u, q, c)
          /\ \A k \in 1..n : q[k].call = c => LevelOf(q[k].what) <= due
          /\ c \in t.ran => Earned(u, q, c)
      BY <1>4, <1>15, <3>1, <3>2 DEF Responding, CallRuns, Told
    <3>4. c = e.call => LevelOf(e.what) <= due
      BY <1>3, <1>4, <3>3
    <3>5. Reached(w, c) <= due
      BY <1>6, <3>3, <3>4
    <3>6. \A k \in 1..(n - 1) : r[k].call = c => LevelOf(r[k].what) <= due
      BY <1>4, <3>3
    <3>7. c \in t.ran => Earned(w, r, c)
      BY <1>12, <3>2, <3>3, <3>4
    <3>. QED  BY <1>4, <1>b, <1>11, <3>1, <3>2, <3>3, <3>5, <3>6, <3>7 DEF CallRuns, Told
  <2>2. st = "stream" /\ ~ t.texts => Quiet(w, r, Len(r) + 1)
    <3>1. Len(r) + 1 = n /\ n \in 1..n /\ n + 1 = Len(q) + 1
      BY <1>1, <1>4
    <3>. QED  BY <1>13, <1>15, <3>1 DEF Responding
  <2>. QED  BY <1>15, <2>1, <2>2 DEF Responding
<1>. QED  BY <1>2, <1>14, <1>15

\* All is in order, and stays so with every event that is handled.
Live(u, on, q) == u \in Good /\ Scrolled(u, on) /\ Growing(u) /\ Coming(u, q)

LEMMA LiveStep ==
    ASSUME NEW u, NEW on, NEW q \in Seq(Events), q # <<>>, Live(u, on, q)
    PROVE  /\ Live(Handled(u, Head(q)), on, Tail(q))
           /\ \A st : \A t \in Turns : Responding(u, q, st, t)
                                    => Responding(Handled(u, Head(q)), Tail(q), st, t)
<1>1. PICK e \in Events : e = Head(q)
  OBVIOUS
<1>2. Fits(u, e) /\ u \in Good
  BY <1>1, HeadFits DEF Live
<1>3. PICK w : w = Handled(u, e)
  OBVIOUS
<1>4. w \in Good /\ Scrolled(w, on) /\ Growing(w) /\ Heard(u, e, w)
  BY <1>2, <1>3, HandledHeard DEF Live
<1>5. /\ Coming(w, Tail(q))
      /\ \A st : \A t \in Turns : Responding(u, q, st, t) => Responding(w, Tail(q), st, t)
  BY <1>1, <1>2, <1>4, TailComing DEF Live
<1>. QED  BY <1>1, <1>3, <1>4, <1>5 DEF Live

LEMMA DrainedLive ==
    ASSUME NEW u \in Good, NEW on, NEW q \in Seq(Events), Live(u, on, q)
    PROVE  Drained(u, q) \in Good /\ Scrolled(Drained(u, q), on)
<1>1. PICK n \in Nat : n = Len(q)
  OBVIOUS
<1>2. PICK c : Steps(c, n, Good, u, Drains(q)) /\ Drained(u, q) = c[n]
  BY <1>1, DrainedSteps
<1> DEFINE rest(k) == SubSeq(q, k + 1, n)
           P == {x \in (0..n) \X Good : Live(x[2], on, rest(x[1]))}
<1>3. \A k \in 0..n : rest(k) \in Seq(Events) /\ Len(rest(k)) = n - k
                     /\ \A i \in 1..(n - k) : rest(k)[i] = q[k + i]
  BY <1>1, RestOf
<1> HIDE DEF rest
<1>4. ASSUME NEW k \in 1..n
      PROVE  rest(k - 1) # <<>> /\ Head(rest(k - 1)) = q[k] /\ Tail(rest(k - 1)) = rest(k)
  <2>1. PICK a \in Seq(Events) : a = rest(k - 1) /\ Len(a) = n - (k - 1)
                               /\ \A i \in 1..(n - (k - 1)) : a[i] = q[(k - 1) + i]
    <3>1. k - 1 \in 0..n
      OBVIOUS
    <3>. QED  BY <1>3, <3>1
  <2>2. PICK b \in Seq(Events) : b = rest(k) /\ Len(b) = n - k /\ \A i \in 1..(n - k) : b[i] = q[k + i]
    <3>1. k \in 0..n
      OBVIOUS
    <3>. QED  BY <1>3, <3>1
  <2>3. Len(a) # 0 /\ a # <<>> /\ Head(a) = a[1] /\ a[1] = q[k]
    <3>1. (k - 1) + 1 = k /\ 1 \in 1..(n - (k - 1))
      OBVIOUS
    <3>2. Len(a) # 0
      BY <2>1
    <3>3. a # <<>> /\ Head(a) = a[1]
      BY <3>2
    <3>. QED  BY <2>1, <3>1, <3>2, <3>3
  <2>4. Tail(a) = b
    <3>1. PICK d \in Seq(Events) : d = Tail(a)
      <4>1. Tail(a) \in Seq(Events)
        BY <2>3
      <4>. QED  BY <4>1
    <3>2. Len(d) = n - k /\ \A i \in 1..(n - k) : d[i] = a[i + 1]
      BY <2>1, <2>3, <3>1
    <3>3. \A i \in 1..(n - k) : d[i] = b[i]
      <4>. TAKE i \in 1..(n - k)
      <4>1. i + 1 \in 1..(n - (k - 1)) /\ (k - 1) + (i + 1) = k + i
        OBVIOUS
      <4>. QED  BY <2>1, <2>2, <3>2, <4>1
    <3>. QED  BY <2>2, <3>1, <3>2, <3>3
  <2>. QED  BY <2>1, <2>2, <2>3, <2>4
<1>5. <<0, u>> \in P
  <2>1. rest(0) = q
    <3>1. PICK a \in Seq(Events) : a = rest(0) /\ Len(a) = n /\ \A i \in 1..n : a[i] = q[i]
      <4>1. 0 \in 0..n /\ n - 0 = n /\ \A i \in 1..n : 0 + i = i
        OBVIOUS
      <4>. QED  BY <1>3, <4>1
    <3>. QED  BY <1>1, <3>1
  <2>. QED  BY <2>1
<1>6. ASSUME NEW k \in 1..n, NEW v \in Good, <<k - 1, v>> \in P
      PROVE  <<k, Drains(q)[<<k, v>>]>> \in P
  <2>1. Live(v, on, rest(k - 1))
    BY <1>6
  <2>2. PICK w : w = Handled(v, q[k])
    OBVIOUS
  <2>3. Live(w, on, rest(k))
    <3>1. rest(k - 1) \in Seq(Events)
      <4>1. k - 1 \in 0..n
        OBVIOUS
      <4>. QED  BY <1>3, <4>1
    <3>. QED  BY <1>4, <2>1, <2>2, <3>1, LiveStep
  <2>4. Drains(q)[<<k, v>>] = w /\ w \in Good
    BY <1>1, <2>2, DrainedSteps
  <2>. QED  BY <2>3, <2>4
<1> HIDE DEF P
<1>7. Kept(P, n, Good, u, Drains(q))
  BY <1>5, <1>6 DEF Kept
<1>8. <<n, c[n]>> \in P
  <2>1. n \in 0..n
    OBVIOUS
  <2>. QED  BY <1>2, <1>7, <2>1, StepsKeep
<1>9. Live(c[n], on, rest(n))
  BY <1>8 DEF P
<1>. QED  BY <1>2, <1>9 DEF Live

-------------------------------------------------------------------------------
(* What the engine adds to the channel.                                    *)

\* What the engine adds to the channel.
Longer(q, e, r) ==
    /\ r \in Seq(Events) /\ Len(r) = Len(q) + 1 /\ DOMAIN r = 1..(Len(q) + 1)
    /\ \A k \in 1..Len(q) : r[k] = q[k]
    /\ r[Len(q) + 1] = e

LEMMA LongerIs ==
    ASSUME NEW q \in Seq(Events), NEW e \in Events
    PROVE  Longer(q, e, q \o <<e>>)
BY DEF Longer

\* The event is the next one of its call.
Follows(u, q, e) ==
    /\ e.call \in Calls =>
          /\ LevelOf(e.what) > Reached(u, e.call) /\ Settled(u, e.call)
          /\ e.what = "call" \/ Announced(u, q, e.call)
          /\ \A j \in DOMAIN q : q[j].call = e.call => LevelOf(q[j].what) < LevelOf(e.what)
    /\ e.what = "success" => Earned(u, q, e.call)
    /\ e.what = "thinking" => Quiet(u, q, Len(q) + 1)

LEMMA LongerKnown ==
    ASSUME NEW u, NEW q \in Seq(Events), NEW e \in Events, NEW r, Longer(q, e, r)
    PROVE  /\ \A c : Announced(u, q, c) => Announced(u, r, c)
           /\ \A c : Earned(u, q, c) => Earned(u, r, c)
           /\ e = Ev("call", e.call) => Announced(u, r, e.call)
           /\ e = Ev("done", e.call) => Earned(u, r, e.call)
<1>1. PICK n \in Nat : n = Len(q) /\ DOMAIN q = 1..n
  OBVIOUS
<1>2. DOMAIN r = 1..(n + 1) /\ (\A k \in 1..n : r[k] = q[k]) /\ r[n + 1] = e
  BY <1>1 DEF Longer
<1>3. \A x : (\E j \in DOMAIN q : q[j] = x) => \E j \in DOMAIN r : r[j] = x
  BY <1>1, <1>2
<1>4. \A x : e = x => \E j \in DOMAIN r : r[j] = x
  BY <1>1, <1>2
<1>. QED  BY <1>3, <1>4 DEF Announced, Earned

LEMMA LongerQuiet ==
    ASSUME NEW u, NEW q \in Seq(Events), NEW e \in Events, NEW r, Longer(q, e, r), NEW n \in Nat, n = Len(q)
    PROVE  /\ \A k \in 1..(n + 1) : Quiet(u, q, k) => Quiet(u, r, k)
           /\ e.what = "start" => Quiet(u, r, n + 2)
           /\ Quiet(u, q, n + 1) /\ e.what # "assistant" => Quiet(u, r, n + 2)
<1>2. (\A k \in 1..n : r[k] = q[k]) /\ r[n + 1] = e
  BY DEF Longer
<1>3. ASSUME NEW k \in 1..(n + 1), Quiet(u, q, k) PROVE Quiet(u, r, k)
  <2>1. \A j \in 1..(k - 1) : r[j] = q[j]
    BY <1>2
  <2>2. ASSUME NEW j \in 1..(k - 1), \E m \in (j + 1)..(k - 1) : q[m].what = "start"
        PROVE  \E m \in (j + 1)..(k - 1) : r[m].what = "start"
    BY <2>1, <2>2
  <2>. QED  BY <1>3, <2>1, <2>2 DEF Quiet
<1>4. ASSUME e.what = "start" PROVE Quiet(u, r, n + 2)
  <2>1. (n + 2) - 1 = n + 1 /\ n + 1 \in 1..(n + 1) /\ r[n + 1].what = "start"
    BY <1>2, <1>4
  <2>2. ASSUME NEW j \in 1..(n + 1), r[j].what = "assistant"
        PROVE  \E m \in (j + 1)..(n + 1) : r[m].what = "start"
    <3>1. j # n + 1
      BY <2>1, <2>2
    <3>2. n + 1 \in (j + 1)..(n + 1)
      BY <3>1
    <3>. QED  BY <2>1, <3>2
  <2>. QED  BY <2>1, <2>2 DEF Quiet
<1>5. ASSUME Quiet(u, q, n + 1), e.what # "assistant" PROVE Quiet(u, r, n + 2)
  <2>1. (n + 2) - 1 = n + 1 /\ (n + 1) - 1 = n
    OBVIOUS
  <2>2. ASSUME u.assistant # 0 PROVE \E m \in 1..(n + 1) : r[m].what = "start"
    <3>1. PICK m \in 1..n : q[m].what = "start"
      BY <1>5, <2>1, <2>2 DEF Quiet
    <3>. QED  BY <1>2, <3>1
  <2>3. ASSUME NEW j \in 1..(n + 1), r[j].what = "assistant"
        PROVE  \E m \in (j + 1)..(n + 1) : r[m].what = "start"
    <3>1. j \in 1..n /\ q[j].what = "assistant"
      BY <1>2, <1>5, <2>3
    <3>2. PICK m \in (j + 1)..n : q[m].what = "start"
      BY <1>5, <2>1, <3>1 DEF Quiet
    <3>3. m \in 1..n /\ m \in (j + 1)..(n + 1)
      BY <3>1
    <3>. QED  BY <1>2, <3>2, <3>3
  <2>. QED  BY <2>1, <2>2, <2>3 DEF Quiet
<1>. QED  BY <1>3, <1>4, <1>5

LEMMA LongerComing ==
    ASSUME NEW u, NEW q \in Seq(Events), NEW e \in Events, NEW r, Longer(q, e, r),
           Coming(u, q), Follows(u, q, e)
    PROVE  Coming(u, r)
<1>1. PICK n \in Nat : n = Len(q) /\ DOMAIN q = 1..n
  OBVIOUS
<1>2. DOMAIN r = 1..(n + 1) /\ (\A k \in 1..n : r[k] = q[k]) /\ r[n + 1] = e
  BY <1>1 DEF Longer
<1>3. /\ \A c : Announced(u, q, c) => Announced(u, r, c)
      /\ \A c : Earned(u, q, c) => Earned(u, r, c)
      /\ e = Ev("call", e.call) => Announced(u, r, e.call)
  BY LongerKnown
<1>4. \A k \in 1..(n + 1) : Quiet(u, q, k) => Quiet(u, r, k)
  BY <1>1, LongerQuiet
<1>5. e = Ev(e.what, e.call)
  BY DEF Events, PlainEvents, CallEvents, Ev
<1>6. Ahead(u, r)
  <2>. SUFFICES ASSUME NEW k \in 1..(n + 1), r[k].call \in Calls
                PROVE  /\ LevelOf(r[k].what) > Reached(u, r[k].call)
                       /\ \A j \in 1..(k - 1) : r[j].call = r[k].call => LevelOf(r[j].what) < LevelOf(r[k].what)
    BY <1>2 DEF Ahead
  <2>1. CASE k \in 1..n
    <3>1. r[k] = q[k] /\ \A j \in 1..(k - 1) : r[j] = q[j]
      BY <1>2, <2>1
    <3>. QED  BY <1>1, <2>1, <3>1 DEF Coming, Ahead
  <2>2. CASE k = n + 1
    <3>1. r[k] = e /\ \A j \in 1..(k - 1) : j \in DOMAIN q /\ r[j] = q[j]
      BY <1>1, <1>2, <2>2
    <3>. QED  BY <3>1 DEF Follows
  <2>. QED  BY <2>1, <2>2
<1>7. ASSUME NEW k \in 1..(n + 1)
      PROVE  /\ r[k].call \in Calls => Announced(u, r, r[k].call) /\ Settled(u, r[k].call)
             /\ r[k].what = "success" => Earned(u, r, r[k].call)
             /\ r[k].what = "thinking" => Quiet(u, r, k)
  <2>1. CASE k \in 1..n
    <3>1. r[k] = q[k] /\ k \in DOMAIN q
      BY <1>1, <1>2, <2>1
    <3>. QED  BY <1>3, <1>4, <3>1 DEF Coming
  <2>2. CASE k = n + 1
    <3>1. r[k] = e
      BY <1>2, <2>2
    <3>. QED  BY <1>1, <1>3, <1>4, <1>5, <2>2, <3>1 DEF Follows
  <2>. QED  BY <2>1, <2>2
<1>. QED  BY <1>2, <1>6, <1>7 DEF Coming

LEMMA LongerTold ==
    ASSUME NEW u \in Good, NEW q \in Seq(Events), NEW e \in Events, NEW r, Longer(q, e, r),
           NEW c \in Calls, NEW d \in Nat, NEW d2 \in Nat, Told(u, q, c, d), d <= d2,
           e.call = c => LevelOf(e.what) <= d2
    PROVE  Told(u, r, c, d2)
<1>1. PICK n \in Nat : n = Len(q) /\ DOMAIN q = 1..n
  OBVIOUS
<1>2. DOMAIN r = 1..(n + 1) /\ (\A k \in 1..n : r[k] = q[k]) /\ r[n + 1] = e
  BY <1>1 DEF Longer
<1>3. Announced(u, r, c) /\ Settled(u, c)
  BY LongerKnown DEF Told
<1>4. Reached(u, c) \in 0..5 /\ \A what : LevelOf(what) \in 1..5
  BY DEF Reached, StatusLevel, LevelOf
<1>5. Reached(u, c) <= d2
  BY <1>4 DEF Told
<1>6. ASSUME NEW k \in 1..(n + 1), r[k].call = c PROVE LevelOf(r[k].what) <= d2
  <2>1. CASE k \in 1..n
    <3>1. r[k] = q[k] /\ k \in DOMAIN q
      BY <1>1, <1>2, <2>1
    <3>2. LevelOf(q[k].what) <= d
      BY <1>6, <3>1 DEF Told
    <3>. QED  BY <1>4, <3>1, <3>2
  <2>2. CASE k = n + 1
    BY <1>2, <1>6, <2>2
  <2>. QED  BY <2>1, <2>2
<1>. QED  BY <1>2, <1>3, <1>5, <1>6 DEF Told

\* A call of which no more was told than d goes on with what is beyond.
LEMMA ToldFollows ==
    ASSUME NEW u, NEW q, NEW c \in Calls, NEW d \in Nat, Told(u, q, c, d),
           NEW what \in {"call", "request", "running", "cancelled", "done", "failed", "success", "error"},
           LevelOf(what) > d, what = "success" => Earned(u, q, c)
    PROVE  Follows(u, q, Ev(what, c))
<1>a. PICK e : e = Ev(what, c)
  OBVIOUS
<1>1. e = Ev(what, c) /\ e.what = what /\ e.call = c
  BY <1>a DEF Ev
<1>2. Reached(u, c) \in 0..5 /\ \A x : LevelOf(x) \in 1..5
  BY DEF Reached, StatusLevel, LevelOf
<1>3. Reached(u, c) <= d /\ (\A k \in DOMAIN q : q[k].call = c => LevelOf(q[k].what) <= d)
      /\ Announced(u, q, c) /\ Settled(u, c)
  BY DEF Told
<1>4. LevelOf(what) > Reached(u, c)
  BY <1>2, <1>3
<1>5. \A j \in DOMAIN q : q[j].call = c => LevelOf(q[j].what) < LevelOf(what)
  BY <1>2, <1>3
<1>6. what # "thinking"
  OBVIOUS
<1>. QED  BY <1>1, <1>3, <1>4, <1>5, <1>6 DEF Follows

LEMMA DueIs ==
    ASSUME NEW st, NEW t \in Turns, NEW p
    PROVE  Due(st, t, p) \in 1..4
BY DEF Due

\* The engine takes its current call a step further.
LEMMA TurnGoes ==
    ASSUME NEW u \in Good, NEW q \in Seq(Events), Coming(u, q),
           NEW st \in {"tools", "waiting", "running"}, NEW st2 \in {"tools", "waiting", "running"},
           NEW t \in Turns, NEW t2 \in Turns, Responding(u, q, st, t), t2.calls = t.calls,
           NEW what \in {"request", "running", "cancelled", "done", "failed"},
           NEW a \in DOMAIN t.calls, NEW c \in Calls, c = t.calls[a],
           \A x \in t2.ran : x \in t.ran \/ (what = "done" /\ x = c),
           Due(st, t, a) < LevelOf(what), LevelOf(what) <= Due(st2, t2, a),
           \A p \in DOMAIN t.calls : Due(st, t, p) <= Due(st2, t2, p),
           NEW r, Longer(q, Ev(what, c), r)
    PROVE  Coming(u, r) /\ Responding(u, r, st2, t2)
<1>a. PICK e : e = Ev(what, c)
  OBVIOUS
<1>1. e = Ev(what, c) /\ e.what = what /\ e.call = c /\ Longer(q, e, r)
  BY <1>a DEF Ev
<1>2. e \in Events
  BY <1>1, EventIs
<1>3. /\ t.calls \in Seq(Calls)
      /\ \A p \in DOMAIN t.calls : t.calls[p] \in Calls
      /\ \A p : Due(st, t, p) \in 1..4 /\ Due(st2, t2, p) \in 1..4
  BY DueIs DEF Turns
<1>4. /\ \A p \in DOMAIN t.calls : Told(u, q, t.calls[p], Due(st, t, p))
      /\ \A p \in DOMAIN t.calls : t.calls[p] \in t.ran => Earned(u, q, t.calls[p])
      /\ \A p, o \in DOMAIN t.calls : t.calls[p] = t.calls[o] => p = o
  BY DEF Responding, CallRuns
<1>5. Coming(u, r)
  <2>1. PICK d \in Nat : d = Due(st, t, a)
    BY <1>3
  <2>2. Told(u, q, c, d) /\ LevelOf(what) > d
    <3>1. LevelOf(what) \in 1..5
      BY DEF LevelOf
    <3>. QED  BY <1>4, <2>1, <3>1
  <2>3. Follows(u, q, e)
    BY <1>1, <2>2, ToldFollows
  <2>. QED  BY <1>1, <1>2, <2>3, LongerComing
<1>6. ASSUME NEW p \in DOMAIN t.calls PROVE Told(u, r, t.calls[p], Due(st2, t2, p))
  <2>1. PICK d, d2 \in Nat : d = Due(st, t, p) /\ d2 = Due(st2, t2, p)
    BY <1>3
  <2>2. PICK x \in Calls : x = t.calls[p]
    BY <1>3
  <2>3. Told(u, q, x, d) /\ d <= d2
    BY <1>4, <2>1, <2>2
  <2>4. e.call = x => LevelOf(e.what) <= d2
    <3>. SUFFICES ASSUME c = x PROVE LevelOf(what) <= d2
      BY <1>1
    <3>1. p = a
      BY <1>4, <2>2
    <3>. QED  BY <2>1, <3>1
  <2>5. Told(u, r, x, d2)
    BY <1>1, <1>2, <2>3, <2>4, LongerTold
  <2>. QED  BY <2>1, <2>2, <2>5
<1>7. ASSUME NEW p \in DOMAIN t.calls, t.calls[p] \in t2.ran PROVE Earned(u, r, t.calls[p])
  <2>1. CASE t.calls[p] \in t.ran
    BY <1>1, <1>2, <1>4, <2>1, LongerKnown
  <2>2. CASE what = "done" /\ t.calls[p] = c
    BY <1>1, <1>2, <2>2, LongerKnown
  <2>. QED  BY <1>7, <2>1, <2>2
<1>. QED  BY <1>4, <1>5, <1>6, <1>7 DEF Responding, CallRuns

\* The results of a round follow what was told of its calls.
Result(c, ran) == Ev(IF c \in ran THEN "success" ELSE "error", c)

LEMMA ResultIs ==
    ASSUME NEW c, NEW ran
    PROVE  /\ Result(c, ran).call = c /\ LevelOf(Result(c, ran).what) = 5
           /\ Result(c, ran).what = "success" <=> c \in ran
           /\ Result(c, ran).what # "thinking"
<1>1. CASE c \in ran
  BY <1>1 DEF Result, Ev, LevelOf
<1>2. CASE c \notin ran
  BY <1>2 DEF Result, Ev, LevelOf
<1>. QED  BY <1>1, <1>2

LEMMA ResultsComing ==
    ASSUME NEW u, NEW q \in Seq(Events), Coming(u, q), NEW calls \in Seq(Calls), NEW ran,
           NEW a \in Seq(Events), Len(a) = Len(calls),
           \A i \in DOMAIN calls : a[i] = Result(calls[i], ran),
           \A i, j \in DOMAIN calls : calls[i] = calls[j] => i = j,
           \A i \in DOMAIN calls : Told(u, q, calls[i], 4) /\ (calls[i] \in ran => Earned(u, q, calls[i]))
    PROVE  Coming(u, q \o a)
<1>1. PICK n \in Nat : n = Len(q) /\ DOMAIN q = 1..n
  OBVIOUS
<1>2. PICK m \in Nat : m = Len(calls) /\ DOMAIN calls = 1..m
  OBVIOUS
<1>3. PICK r : r = q \o a
  OBVIOUS
<1>4. /\ DOMAIN r = 1..(n + m) /\ (\A k \in 1..n : r[k] = q[k])
      /\ \A k \in (n + 1)..(n + m) : k - n \in 1..m /\ r[k] = a[k - n]
  <2>1. Len(a) = m
    BY <1>2
  <2>2. r \in Seq(Events) /\ Len(r) = n + m
    BY <1>1, <1>3, <2>1
  <2>3. DOMAIN r = 1..(n + m)
    BY <2>2
  <2>4. \A k \in 1..(n + m) : r[k] = IF k <= n THEN q[k] ELSE a[k - n]
    BY <1>1, <1>3, <2>1
  <2>. QED  BY <2>3, <2>4
<1>5. /\ \A c : Announced(u, q, c) => Announced(u, r, c)
      /\ \A c : Earned(u, q, c) => Earned(u, r, c)
  <2>1. \A x : (\E j \in DOMAIN q : q[j] = x) => \E j \in DOMAIN r : r[j] = x
    BY <1>1, <1>4
  <2>. QED  BY <2>1 DEF Announced, Earned
<1>6. \A k \in 1..n : Quiet(u, q, k) => Quiet(u, r, k)
  <2>. SUFFICES ASSUME NEW k \in 1..n, Quiet(u, q, k) PROVE Quiet(u, r, k)
    OBVIOUS
  <2>1. \A j \in 1..(k - 1) : r[j] = q[j]
    BY <1>4
  <2>2. ASSUME NEW j \in 1..(k - 1), \E i \in (j + 1)..(k - 1) : q[i].what = "start"
        PROVE  \E i \in (j + 1)..(k - 1) : r[i].what = "start"
    BY <2>1, <2>2
  <2>. QED  BY <2>1, <2>2 DEF Quiet
<1>7. ASSUME NEW k \in (n + 1)..(n + m)
      PROVE  /\ k - n \in 1..m /\ r[k].call = calls[k - n] /\ LevelOf(r[k].what) = 5
             /\ r[k].what = "success" <=> calls[k - n] \in ran
             /\ r[k].what # "thinking"
  <2>1. k - n \in 1..m /\ r[k] = Result(calls[k - n], ran)
    BY <1>2, <1>4
  <2>. QED  BY <2>1, ResultIs
<1>8. \A c : Reached(u, c) \in 0..5
  BY DEF Reached, StatusLevel
<1>9. \A i \in 1..m : /\ Reached(u, calls[i]) <= 4 /\ Announced(u, q, calls[i]) /\ Settled(u, calls[i])
                      /\ \A k \in 1..n : q[k].call = calls[i] => LevelOf(q[k].what) <= 4
  BY <1>1, <1>2 DEF Told
<1>b. \A what : LevelOf(what) \in 1..5
  BY DEF LevelOf
<1>10. Ahead(u, r)
  <2>. SUFFICES ASSUME NEW k \in 1..(n + m), r[k].call \in Calls
                PROVE  /\ LevelOf(r[k].what) > Reached(u, r[k].call)
                       /\ \A j \in 1..(k - 1) : r[j].call = r[k].call => LevelOf(r[j].what) < LevelOf(r[k].what)
    BY <1>4 DEF Ahead
  <2>1. CASE k \in 1..n
    <3>1. r[k] = q[k] /\ \A j \in 1..(k - 1) : r[j] = q[j]
      BY <1>4, <2>1
    <3>. QED  BY <1>1, <2>1, <3>1 DEF Coming, Ahead
  <2>2. CASE k \in (n + 1)..(n + m)
    <3>1. PICK i \in 1..m : i = k - n
      BY <1>7, <2>2
    <3>2. r[k].call = calls[i] /\ LevelOf(r[k].what) = 5
      BY <1>7, <2>2, <3>1
    <3>3. LevelOf(r[k].what) > Reached(u, r[k].call)
      BY <1>8, <1>9, <3>2
    <3>4. ASSUME NEW j \in 1..(k - 1), r[j].call = calls[i] PROVE LevelOf(r[j].what) < 5
      <4>1. CASE j \in 1..n
        <5>1. r[j] = q[j] /\ q[j].call = calls[i]
          BY <1>4, <3>4, <4>1
        <5>2. LevelOf(q[j].what) <= 4
          BY <1>9, <4>1, <5>1
        <5>3. PICK l \in 1..5 : l = LevelOf(q[j].what)
          BY <1>b
        <5>. QED  BY <5>1, <5>2, <5>3
      <4>2. CASE j \in (n + 1)..(n + m)
        <5>1. PICK o \in 1..m : o = j - n
          BY <1>7, <4>2
        <5>2. calls[o] = calls[i]
          BY <1>7, <3>4, <4>2, <5>1
        <5>3. o = i
          BY <1>2, <5>2
        <5>. QED  BY <3>1, <5>1, <5>3
      <4>. QED  BY <4>1, <4>2
    <3>. QED  BY <3>2, <3>3, <3>4
  <2>. QED  BY <2>1, <2>2
<1>11. ASSUME NEW k \in 1..(n + m)
       PROVE  /\ r[k].call \in Calls => Announced(u, r, r[k].call) /\ Settled(u, r[k].call)
              /\ r[k].what = "success" => Earned(u, r, r[k].call)
              /\ r[k].what = "thinking" => Quiet(u, r, k)
  <2>1. CASE k \in 1..n
    <3>1. r[k] = q[k] /\ k \in DOMAIN q
      BY <1>1, <1>4, <2>1
    <3>. QED  BY <1>5, <1>6, <2>1, <3>1 DEF Coming
  <2>2. CASE k \in (n + 1)..(n + m)
    <3>1. PICK i \in 1..m : i = k - n
      BY <1>7, <2>2
    <3>2. /\ r[k].call = calls[i] /\ r[k].what # "thinking"
          /\ r[k].what = "success" => calls[i] \in ran
      BY <1>7, <2>2, <3>1
    <3>3. calls[i] \in ran => Earned(u, q, calls[i])
      BY <1>2
    <3>. QED  BY <1>5, <1>9, <3>2, <3>3
  <2>. QED  BY <2>1, <2>2
<1>. QED  BY <1>3, <1>4, <1>10, <1>11 DEF Coming

\* What the interface says by itself leaves the calls alone.
LEMMA SpeaksComing ==
    ASSUME NEW u \in Good, NEW w \in Good, Speaks(u, w), w.assistant # 0 => u.assistant # 0,
           NEW q \in Seq(Events)
    PROVE  Coming(u, q) => Coming(w, q)
<1>1. \A c \in Calls : Reached(w, c) = Reached(u, c)
  BY SpeaksScrolled
<1>2. w.tools = u.tools /\ w.muted = u.muted /\ w.committed = u.committed
  BY DEF Speaks, Grows
<1>3. /\ \A c : Announced(u, q, c) => Announced(w, q, c)
      /\ \A c : Earned(u, q, c) => Earned(w, q, c)
      /\ \A c \in Calls : Settled(u, c) => Settled(w, c)
  BY <1>1, <1>2 DEF Announced, Earned, Settled
<1>4. \A k : Quiet(u, q, k) => Quiet(w, q, k)
  BY DEF Quiet
<1>5. Ahead(u, q) => Ahead(w, q)
  BY <1>1 DEF Ahead
<1>. QED  BY <1>3, <1>4, <1>5 DEF Coming

\* Nothing is growing any more.
Ended(u, w) ==
    /\ w \in Good /\ w.transcript = u.transcript /\ w.committed = u.committed
    /\ w.tools = u.tools /\ w.muted = u.muted /\ w.assistant = 0 /\ w.thinking = 0

LEMMA EndedSpeaks ==
    ASSUME NEW u \in Good, NEW w, Ended(u, w)
    PROVE  Speaks(u, w) /\ Growing(w)
<1>1. Len(u.transcript) \in Nat
  BY GoodIs
<1>. QED  BY <1>1 DEF Ended, Speaks, Grows, Growing

LEMMA FieldsEnded ==
    ASSUME NEW u \in Good
    PROVE  \A b \in BOOLEAN : Ended(u, [u EXCEPT !.busy = b, !.assistant = 0, !.thinking = 0])
<1>. SUFFICES ASSUME NEW b \in BOOLEAN
              PROVE  Ended(u, [u EXCEPT !.busy = b, !.assistant = 0, !.thinking = 0])
  OBVIOUS
<1>1. PICK w : w = [u EXCEPT !.busy = b, !.assistant = 0, !.thinking = 0]
  OBVIOUS
<1>2. w \in Good
  BY <1>1, FieldsGood DEF Made
<1>3. u \in UiStates
  BY DEF Good
<1>4. /\ w.transcript = u.transcript /\ w.committed = u.committed /\ w.tools = u.tools
      /\ w.muted = u.muted /\ w.assistant = 0 /\ w.thinking = 0
  BY <1>1, <1>3 DEF UiStates
<1>. QED  BY <1>1, <1>2, <1>4 DEF Ended

NoteEntry == Entry("info", "success", 1)
UserEntry == Entry("user", "success", 1)

LEMMA NotesAre ==
    /\ NoteEntry \in Entries /\ NoteEntry.offset = 0 /\ NoteEntry.kind \notin Texts
    /\ UserEntry \in Entries /\ UserEntry.offset = 0 /\ UserEntry.kind \notin Texts
<1>1. {"info", "user"} \subseteq EntryKinds /\ "success" \in Statuses /\ 1 \in Nat \ {0}
  BY DEF EntryKinds, Statuses
<1>2. NoteEntry \in Entries /\ UserEntry \in Entries
  BY <1>1, EntryIs DEF NoteEntry, UserEntry
<1>. QED  BY <1>2 DEF NoteEntry, UserEntry, Entry, Texts

\* A note of the interface's own.
Noting(u, w) ==
    /\ w \in Good /\ Speaks(u, w) /\ w.assistant = u.assistant /\ w.thinking = u.thinking
    /\ Growing(u) => Growing(w)

LEMMA NoteIs ==
    ASSUME NEW u \in Good
    PROVE  Noting(u, Push(u, NoteEntry)) /\ Noting(u, Push(u, UserEntry))
<1>1. \A e \in Entries : e.offset = 0 /\ e.kind \notin Texts => Noting(u, Push(u, e))
  <2>. SUFFICES ASSUME NEW e \in Entries, e.offset = 0, e.kind \notin Texts PROVE Noting(u, Push(u, e))
    OBVIOUS
  <2>1. PICK w : w = Push(u, e)
    OBVIOUS
  <2>2. Pushed(u, e, w)
    BY <2>1, PushIs
  <2>3. Growing(u) => Growing(w)
    BY <2>2, PushGrowing
  <2>. QED  BY <2>1, <2>2, <2>3 DEF Pushed, Noting
<1>. QED  BY <1>1, NotesAre

LEMMA FreshScrolled ==
    ASSUME NEW h \in Seq(Entries), \A i \in DOMAIN h : h[i].offset = 0
    PROVE  Fresh(h) \in Good /\ Scrolled(Fresh(h), <<>>)
<1>1. PICK u : u = Fresh(h)
  OBVIOUS
<1>2. u \in Good
  BY <1>1, FreshGood
<1>3. /\ u.transcript = h /\ u.committed = 0 /\ u.muted = {} /\ \A c \in Calls : u.tools[c] = 0
  BY <1>1 DEF Fresh
<1>4. Peeked(u) /\ Tooled(u)
  BY <1>3 DEF Peeked, Tooled
<1>5. \A i \in 1..Len(h) : Reach(u)[i] = 0
  <2>. SUFFICES ASSUME NEW i \in 1..Len(h) PROVE Reach(u)[i] = 0
    OBVIOUS
  <2>1. i \in 1..Len(u.transcript) /\ i \in DOMAIN h /\ ~ (i <= u.committed)
    BY <1>3
  <2>. QED  BY <1>2, <1>3, <2>1, ReachIs
<1>6. DOMAIN Reach(u) = 1..Len(h)
  BY <1>3 DEF Reach, ReachTo
<1>7. Sewn(<<>>, Reach(u))
  <2>1. DOMAIN <<>> = {}
    OBVIOUS
  <2>2. \A i \in DOMAIN Reach(u) : ~ (Reach(u)[i] > 0)
    BY <1>5, <1>6
  <2>. QED  BY <2>1, <2>2 DEF Sewn
<1>8. Shows(u, <<>>) /\ <<>> \in Seq(PieceType)
  BY DEF Shows
<1>. QED  BY <1>1, <1>2, <1>4, <1>7, <1>8 DEF Scrolled

\* What is shown of a state that is in order.
LEMMA ShownScrolled ==
    ASSUME NEW x \in Good, Scrolled(x, scroll)
    PROVE  /\ Show(CommitAll([Now EXCEPT !.u = x])) =>
                 ui' \in Good /\ Scrolled(ui', scroll') /\ Commits(x, ui')
           /\ Show(CommitStreaming([Now EXCEPT !.u = x])) =>
                 /\ ui' \in Good /\ Scrolled(ui', scroll') /\ Commits(x, ui')
                 /\ Growing(x) => Growing(ui')
                 /\ \A q \in Seq(Events) :
                       /\ Coming(x, q) => Coming(ui', q)
                       /\ \A st : \A t \in Turns : Responding(x, q, st, t) => Responding(ui', q, st, t)
           /\ Show([Now EXCEPT !.u = x]) => ui' = x /\ scroll' = scroll
<1>1. PICK s : s = [Now EXCEPT !.u = x]
  OBVIOUS
<1>2. s.u = x /\ s.on = scroll
  BY <1>1 DEF Now
<1>3. ASSUME Show(CommitAll(s)) PROVE ui' \in Good /\ Scrolled(ui', scroll') /\ Commits(x, ui')
  <2>1. PICK v : v = CommitAll(s)
    OBVIOUS
  <2>2. ui' = v.u /\ scroll' = v.on
    BY <1>3, <2>1 DEF Show
  <2>3. Scrolled(v.u, v.on) /\ Commits(s.u, v.u) /\ v.u \in Good
    BY <1>2, <2>1, CommitAllScrolled
  <2>. QED  BY <1>2, <2>2, <2>3
<1>4. ASSUME Show(CommitStreaming(s))
      PROVE  /\ ui' \in Good /\ Scrolled(ui', scroll') /\ Commits(x, ui')
             /\ Growing(x) => Growing(ui')
             /\ \A q \in Seq(Events) :
                   /\ Coming(x, q) => Coming(ui', q)
                   /\ \A st : \A t \in Turns : Responding(x, q, st, t) => Responding(ui', q, st, t)
  <2>1. PICK v : v = CommitStreaming(s)
    OBVIOUS
  <2>2. ui' = v.u /\ scroll' = v.on
    BY <1>4, <2>1 DEF Show
  <2>3. PICK w : w = v.u
    OBVIOUS
  <2>4. /\ Scrolled(w, v.on) /\ Commits(x, w) /\ w \in Good /\ (Growing(x) => Growing(w))
        /\ \A c \in Calls : Settled(x, c) => Settled(w, c)
    BY <1>2, <2>1, <2>3, CommitStreamingScrolled
  <2>5. \A q \in Seq(Events) :
           /\ Coming(x, q) => Coming(w, q)
           /\ \A st : \A t \in Turns : Responding(x, q, st, t) => Responding(w, q, st, t)
    BY <2>4, CommitsComing
  <2>6. ui' = w
    BY <2>2, <2>3
  <2>. QED  BY <2>2, <2>4, <2>5, <2>6
<1>5. Show(s) => ui' = x /\ scroll' = scroll
  BY <1>2 DEF Show
<1>. QED  BY <1>1, <1>3, <1>4, <1>5

LEMMA DueGrows ==
    ASSUME NEW t \in Turns, NEW t2 \in Turns
    PROVE  /\ Due("tools", t, t.at) = 1 /\ Due("waiting", t, t.at) = 2 /\ Due("running", t, t.at) = 3
           /\ \A p \in Nat : /\ Due("tools", t, p) <= Due("waiting", t, p)
                             /\ Due("tools", t, p) <= Due("running", t, p)
                             /\ Due("waiting", t, p) <= Due("running", t, p)
           /\ t2.at = t.at + 1 =>
                 /\ Due("tools", t2, t.at) = 4
                 /\ \A p \in Nat : /\ Due("waiting", t, p) <= Due("tools", t2, p)
                                   /\ Due("running", t, p) <= Due("tools", t2, p)
<1>1. t.at \in Nat /\ t2.at \in Nat
  BY DEF Turns
<1>. QED  BY <1>1 DEF Due

LEMMA RespondingNew ==
    ASSUME NEW u, NEW q, NEW st, st = "stream" => Quiet(u, q, Len(q) + 1)
    PROVE  Responding(u, q, st, NewTurn)
<1>1. NewTurn.calls = <<>> /\ NewTurn.ran = {} /\ DOMAIN <<>> = {}
  BY DEF NewTurn
<1>. QED  BY <1>1 DEF Responding

LEMMA PlainGoes ==
    ASSUME NEW u \in Good, NEW q \in Seq(Events), Coming(u, q), NEW t \in Turns, NEW t2 \in Turns,
           Responding(u, q, "stream", t), t2.calls = t.calls, t2.ran = t.ran,
           NEW e \in PlainEvents, e.what = "thinking" => Quiet(u, q, Len(q) + 1),
           ~ t2.texts => ~ t.texts /\ e.what # "assistant",
           NEW r, Longer(q, e, r)
    PROVE  Coming(u, r) /\ Responding(u, r, "stream", t2)
<1>1. e \in Events /\ e.call = NoCall /\ e.what # "success" /\ e.call \notin Calls
  BY NoCallAssumption DEF PlainEvents, Events
<1>2. Coming(u, r)
  <2>1. Follows(u, q, e)
    BY <1>1 DEF Follows
  <2>. QED  BY <1>1, <2>1, LongerComing
<1>3. /\ \A p \in DOMAIN t.calls : Told(u, q, t.calls[p], 1) /\ t.calls[p] \in Calls
      /\ t.ran = {}
  <2>1. \A p : Due("stream", t, p) = 1
    BY DEF Due
  <2>2. \A p \in DOMAIN t.calls : Told(u, q, t.calls[p], 1)
    BY <2>1 DEF Responding, CallRuns
  <2>. QED  BY <2>2 DEF Responding, Turns
<1>4. ASSUME NEW p \in DOMAIN t.calls PROVE Told(u, r, t.calls[p], Due("stream", t2, p))
  <2>1. PICK x \in Calls, d \in Nat : x = t.calls[p] /\ d = 1
    BY <1>3
  <2>2. Told(u, q, x, d) /\ d <= d /\ e.call # x
    BY <1>1, <1>3, <2>1
  <2>3. Told(u, r, x, d)
    BY <1>1, <2>2, LongerTold
  <2>4. Due("stream", t2, p) = d
    BY <2>1 DEF Due
  <2>. QED  BY <2>1, <2>3, <2>4
<1>5. ASSUME ~ t2.texts PROVE Quiet(u, r, Len(r) + 1)
  <2>1. PICK n \in Nat : n = Len(q)
    OBVIOUS
  <2>2. Quiet(u, q, n + 1)
    BY <1>5, <2>1 DEF Responding
  <2>3. Quiet(u, r, n + 2)
    BY <1>1, <1>5, <2>1, <2>2, LongerQuiet
  <2>4. Len(r) + 1 = n + 2
    BY <2>1 DEF Longer
  <2>. QED  BY <2>3, <2>4
<1>6. \A p, o \in DOMAIN t.calls : t.calls[p] = t.calls[o] => p = o
  BY DEF Responding
<1>. QED  BY <1>2, <1>3, <1>4, <1>5, <1>6 DEF Responding, CallRuns

\* A response begins.
LEMMA StartGoes ==
    ASSUME NEW u \in Good, NEW q \in Seq(Events), Coming(u, q),
           NEW r, Longer(q, Ev("start", NoCall), r)
    PROVE  Coming(u, r) /\ Responding(u, r, "stream", NewTurn)
<1>a. PICK e : e = Ev("start", NoCall)
  OBVIOUS
<1>1. e \in Events /\ e.call \notin Calls /\ e.what = "start" /\ Longer(q, e, r)
  BY <1>a, NoCallAssumption DEF Ev, PlainEvents, Events
<1>2. Follows(u, q, e)
  BY <1>1 DEF Follows
<1>3. Coming(u, r)
  BY <1>1, <1>2, LongerComing
<1>4. PICK n \in Nat : n = Len(q)
  OBVIOUS
<1>5. Quiet(u, r, n + 2)
  BY <1>1, <1>4, LongerQuiet
<1>6. Len(r) + 1 = n + 2
  BY <1>1, <1>4 DEF Longer
<1>7. Quiet(u, r, Len(r) + 1)
  BY <1>5, <1>6
<1>. QED  BY <1>3, <1>7, RespondingNew

\* It announces a call that is new to the interface and the channel.
LEMMA CallGoes ==
    ASSUME NEW u \in Good, NEW q \in Seq(Events), Coming(u, q), NEW t \in Turns, NEW t2 \in Turns,
           Responding(u, q, "stream", t), NEW c \in Calls, t2.calls = Append(t.calls, c),
           t2.ran = t.ran, t2.texts = t.texts, u.tools[c] = 0, c \notin ToSet(t.calls),
           Ev("call", c) \notin ToSet(q), NEW r, Longer(q, Ev("call", c), r)
    PROVE  Coming(u, r) /\ Responding(u, r, "stream", t2)
<1>a. PICK e : e = Ev("call", c)
  OBVIOUS
<1>1. e = Ev("call", c) /\ e.what = "call" /\ e.call = c /\ LevelOf("call") = 1 /\ Longer(q, e, r)
  BY <1>a DEF Ev, LevelOf
<1>2. e \in Events
  BY <1>1, EventIs
<1>3. Reached(u, c) = 0 /\ Settled(u, c)
  BY DEF Reached, Settled
<1>4. PICK n \in Nat : n = Len(q) /\ DOMAIN q = 1..n
  OBVIOUS
<1>5. \A k \in DOMAIN q : q[k].call # c
  <2>1. ~ Announced(u, q, c)
    BY DEF Announced, ToSet
  <2>. QED  BY <2>1 DEF Coming
<1>6. Follows(u, q, e)
  BY <1>1, <1>3, <1>5 DEF Follows
<1>7. Coming(u, r)
  BY <1>1, <1>2, <1>6, LongerComing
<1>8. PICK m \in Nat : m = Len(t.calls) /\ DOMAIN t.calls = 1..m
  BY DEF Turns
<1>9. /\ t.calls \in Seq(Calls) /\ DOMAIN t2.calls = 1..(m + 1)
      /\ \A p \in 1..m : t2.calls[p] = t.calls[p] /\ t.calls[p] \in Calls /\ t.calls[p] # c
      /\ t2.calls[m + 1] = c
  <2>1. t.calls \in Seq(Calls)
    BY DEF Turns
  <2>2. \A p \in 1..m : t.calls[p] # c
    BY <1>8 DEF ToSet
  <2>. QED  BY <1>8, <2>1, <2>2
<1>10. t.ran = {} /\ \A p, o \in 1..m : t.calls[p] = t.calls[o] => p = o
  BY <1>8 DEF Responding
<1>11. \A p : Due("stream", t, p) = 1 /\ Due("stream", t2, p) = 1
  BY DEF Due
<1>12. PICK one \in Nat : one = 1
  OBVIOUS
<1>13. ASSUME NEW p \in 1..m PROVE Told(u, r, t2.calls[p], one)
  <2>1. PICK x \in Calls : x = t.calls[p] /\ x = t2.calls[p] /\ x # c
    BY <1>9
  <2>2. Told(u, q, x, one)
    BY <1>8, <1>11, <1>12, <2>1 DEF Responding, CallRuns
  <2>3. one <= one /\ e.call # x /\ Longer(q, e, r)
    <3>1. one <= one
      OBVIOUS
    <3>2. e.call # x
      BY <1>1, <2>1
    <3>3. Longer(q, e, r)
      BY <1>1
    <3>. QED  BY <3>1, <3>2, <3>3
  <2>4. Told(u, r, x, one)
    BY <1>2, <2>2, <2>3, LongerTold
  <2>. QED  BY <2>1, <2>4
<1>14. Told(u, r, c, one)
  <2>1. Announced(u, r, c)
    <3>1. e = Ev("call", e.call) /\ Longer(q, e, r)
      BY <1>1
    <3>2. Announced(u, r, e.call)
      BY <1>2, <3>1, LongerKnown
    <3>. QED  BY <1>1, <3>2
  <2>2. DOMAIN r = 1..(n + 1) /\ (\A k \in 1..n : r[k] = q[k]) /\ r[n + 1] = e
    BY <1>1, <1>4 DEF Longer
  <2>3. \A k \in DOMAIN r : r[k].call = c => LevelOf(r[k].what) <= one
    <3>. SUFFICES ASSUME NEW k \in 1..(n + 1), r[k].call = c PROVE LevelOf(r[k].what) <= one
      BY <2>2
    <3>1. ~ (k \in 1..n)
      BY <1>4, <1>5, <2>2
    <3>2. k = n + 1
      BY <3>1
    <3>. QED  BY <1>1, <1>12, <2>2, <3>2
  <2>. QED  BY <1>3, <1>12, <2>1, <2>3 DEF Told
<1>15. \A p \in 1..(m + 1) : Told(u, r, t2.calls[p], one)
  <2>. TAKE p \in 1..(m + 1)
  <2>1. p \in 1..m \/ p = m + 1
    OBVIOUS
  <2>. QED  BY <1>9, <1>13, <1>14, <2>1
<1>16. \A p, o \in DOMAIN t2.calls : t2.calls[p] = t2.calls[o] => p = o
  <2>. SUFFICES ASSUME NEW p \in 1..(m + 1), NEW o \in 1..(m + 1), t2.calls[p] = t2.calls[o] PROVE p = o
    BY <1>9
  <2>1. (p \in 1..m \/ p = m + 1) /\ (o \in 1..m \/ o = m + 1)
    OBVIOUS
  <2>. QED  BY <1>9, <1>10, <2>1
<1>17. ASSUME ~ t2.texts PROVE Quiet(u, r, Len(r) + 1)
  <2>1. Quiet(u, q, n + 1)
    BY <1>4, <1>17 DEF Responding
  <2>2. e.what # "assistant"
    BY <1>1
  <2>3. Quiet(u, r, n + 2)
    BY <1>1, <1>2, <1>4, <2>1, <2>2, LongerQuiet
  <2>4. Len(r) + 1 = n + 2
    BY <1>1, <1>4 DEF Longer
  <2>. QED  BY <2>3, <2>4
<1>. QED  BY <1>7, <1>9, <1>10, <1>11, <1>12, <1>15, <1>16, <1>17 DEF Responding, CallRuns

-------------------------------------------------------------------------------
(* The steps of the engine and of the terminal's loop.                     *)

\* The engine tells the interface, which has not heard of it yet.
LEMMA EngineScreen ==
    ASSUME ScreenInv, ui' = ui, scroll' = scroll, InTurn, stage' # "idle",
           Coming(ui, queue'), Responding(ui, queue', stage', turn')
    PROVE  ScreenInv'
<1>1. Scrolled(ui', scroll') /\ Growing(ui')
  BY DEF ScreenInv
<1>2. Coming(ui', queue') /\ Responding(ui', queue', stage', turn')
  OBVIOUS
<1>. QED  BY <1>1, <1>2 DEF ScreenInv

LEMMA InTurnIs ==
    ASSUME UiInv, ScreenInv, InTurn
    PROVE  /\ ui \in Good /\ queue \in Seq(Events) /\ turn \in Turns
           /\ Scrolled(ui, scroll) /\ Growing(ui) /\ Coming(ui, queue)
           /\ Responding(ui, queue, stage, turn) /\ Live(ui, scroll, queue)
BY DEF UiInv, UiTypes, ScreenInv, Live

LEMMA StreamScreen ==
    ASSUME UiInv, UiInv', ScreenInv, ~ Interleaved,
           \/ StreamStart \/ (\E kind \in {"assistant", "thinking"} : Delta(kind))
           \/ (\E c \in Calls : ToolUse(c)) \/ ResponseEnds
    PROVE  ScreenInv'
<1>1. /\ ui' = ui /\ scroll' = scroll /\ stage' # "idle" /\ InTurn
  BY DEF StreamStart, Delta, ToolUse, ResponseEnds, InTurn
<1>2. PICK u, q, t, st : u = ui /\ q = queue /\ t = turn /\ st = stage
  OBVIOUS
<1>3. u \in Good /\ q \in Seq(Events) /\ t \in Turns /\ Coming(u, q) /\ Responding(u, q, st, t)
  BY <1>1, <1>2, InTurnIs
<1>4. PICK r, t2, st2 : r = queue' /\ t2 = turn' /\ st2 = stage'
  OBVIOUS
<1>5. t2 \in Turns
  BY <1>4 DEF UiInv, UiTypes
<1>6. CASE StreamStart
  <2>1. r = q \o <<Ev("start", NoCall)>> /\ t2 = NewTurn /\ st2 = "stream"
    BY <1>2, <1>4, <1>6 DEF StreamStart, Emit
  <2>2. Ev("start", NoCall) \in Events
    BY DEF Ev, Events, PlainEvents
  <2>3. Longer(q, Ev("start", NoCall), r)
    BY <1>3, <2>1, <2>2, LongerIs
  <2>4. Coming(u, r) /\ Responding(u, r, st2, t2)
    BY <1>3, <2>1, <2>3, StartGoes
  <2>. QED  BY <1>1, <1>2, <1>4, <2>4, EngineScreen
<1>7. ASSUME NEW kind \in {"assistant", "thinking"}, Delta(kind) PROVE ScreenInv'
  <2>1. /\ r = q \o <<Ev(kind, NoCall)>> /\ st = "stream" /\ st2 = "stream"
        /\ t2 = [t EXCEPT !.texts = @ \/ kind = "assistant"]
        /\ kind = "thinking" => ~ t.texts
    BY <1>2, <1>4, <1>7 DEF Delta, Emit
  <2>2. /\ t2.calls = t.calls /\ t2.ran = t.ran
        /\ ~ t2.texts => ~ t.texts /\ kind # "assistant"
    BY <1>3, <2>1 DEF Turns
  <2>a. PICK e : e = Ev(kind, NoCall)
    OBVIOUS
  <2>3. e \in PlainEvents /\ e \in Events /\ e.what = kind
    BY <2>a DEF Ev, Events, PlainEvents
  <2>4. Longer(q, e, r)
    BY <1>3, <2>1, <2>a, <2>3, LongerIs
  <2>5. kind = "thinking" => Quiet(u, q, Len(q) + 1)
    BY <1>3, <2>1 DEF Responding
  <2>6. Responding(u, q, "stream", t)
    BY <1>3, <2>1
  <2>7. Coming(u, r) /\ Responding(u, r, "stream", t2)
    BY <1>3, <1>5, <2>2, <2>3, <2>4, <2>5, <2>6, PlainGoes
  <2>8. Coming(u, r) /\ Responding(u, r, st2, t2)
    BY <2>1, <2>7
  <2>. QED  BY <1>1, <1>2, <1>4, <2>8, EngineScreen
<1>8. ASSUME NEW c \in Calls, ToolUse(c) PROVE ScreenInv'
  <2>1. /\ r = q \o <<Ev("call", c)>> /\ st = "stream" /\ st2 = "stream"
        /\ t2 = [t EXCEPT !.calls = Append(@, c)]
        /\ c \notin ToSet(t.calls) /\ u.tools[c] = 0 /\ Ev("call", c) \notin ToSet(q)
    BY <1>2, <1>4, <1>8 DEF ToolUse, Emit
  <2>2. t2.calls = Append(t.calls, c) /\ t2.ran = t.ran /\ t2.texts = t.texts
    <3>1. PICK calls : calls = Append(t.calls, c)
      OBVIOUS
    <3>2. t2 = [t EXCEPT !.calls = calls]
      BY <2>1, <3>1
    <3>. QED  BY <1>3, <3>1, <3>2 DEF Turns
  <2>3. Ev("call", c) \in Events
    BY EventIs
  <2>4. Longer(q, Ev("call", c), r)
    BY <1>3, <2>1, <2>3, LongerIs
  <2>5. Responding(u, q, "stream", t)
    BY <1>3, <2>1
  <2>6. Coming(u, r) /\ Responding(u, r, "stream", t2)
    BY <1>3, <1>5, <2>1, <2>2, <2>4, <2>5, CallGoes
  <2>7. Coming(u, r) /\ Responding(u, r, st2, t2)
    BY <2>1, <2>6
  <2>. QED  BY <1>1, <1>2, <1>4, <2>7, EngineScreen
<1>9. CASE ResponseEnds
  <2>1. r = q /\ st = "stream"
    BY <1>2, <1>4, <1>9 DEF ResponseEnds
  <2>2. CASE st2 = "over" /\ t2 = NewTurn
    <3>1. Responding(u, r, st2, t2)
      BY <2>2, RespondingNew
    <3>. QED  BY <1>1, <1>2, <1>3, <1>4, <2>1, <3>1, EngineScreen
  <2>3. CASE st2 = "tools" /\ t2 = [t EXCEPT !.at = 1, !.texts = FALSE]
    <3>1. t2.calls = t.calls /\ t2.ran = t.ran /\ t2.at = 1
      BY <1>3, <2>3 DEF Turns
    <3>2. \A p \in DOMAIN t.calls : Due(st2, t2, p) = 1 /\ Due(st, t, p) = 1
      <4>1. \A p \in DOMAIN t.calls : p \in Nat \ {0}
        BY <1>3 DEF Turns
      <4>2. \A p \in Nat \ {0} : p = 1 \/ p > 1
        OBVIOUS
      <4>. QED  BY <2>1, <2>3, <3>1, <4>1, <4>2 DEF Due
    <3>3. Responding(u, r, st2, t2)
      <4>1. \A p \in DOMAIN t2.calls : CallRuns(u, r, st2, t2, p)
        BY <1>3, <2>1, <3>1, <3>2 DEF Responding, CallRuns
      <4>. QED  BY <1>3, <2>1, <2>3, <3>1, <4>1 DEF Responding
    <3>. QED  BY <1>1, <1>2, <1>3, <1>4, <2>1, <3>3, EngineScreen
  <2>. QED  BY <1>2, <1>4, <1>9, <2>2, <2>3 DEF ResponseEnds
<1>. QED  BY <1>6, <1>7, <1>8, <1>9

LEMMA ResultsOf ==
    ASSUME UiTypes, NEW ran
    PROVE  /\ Results(ran) \in Seq(Events) /\ Len(Results(ran)) = Len(turn.calls)
           /\ \A i \in DOMAIN turn.calls : Results(ran)[i] = Result(turn.calls[i], ran)
<1>1. turn.calls \in Seq(Calls) /\ Len(turn.calls) \in Nat /\ DOMAIN turn.calls = 1..Len(turn.calls)
  BY TurnIs
<1>2. PICK a : a = Results(ran)
  OBVIOUS
<1>3. a \in Seq(Events)
  BY <1>2, ResultsAre
<1>4. DOMAIN a = 1..Len(turn.calls) /\ \A i \in 1..Len(turn.calls) : a[i] = Result(turn.calls[i], ran)
  BY <1>1, <1>2 DEF Results, Result
<1>5. Len(a) = Len(turn.calls)
  BY <1>1, <1>3, <1>4
<1>. QED  BY <1>1, <1>2, <1>3, <1>4, <1>5

\* The current call is one of the response's.
LEMMA CurrentIs ==
    ASSUME UiTypes, stage \in {"tools", "waiting", "running"}, turn.at <= Len(turn.calls)
    PROVE  turn.at \in DOMAIN turn.calls /\ Current \in Calls /\ Current = turn.calls[turn.at]
<1>1. turn.calls \in Seq(Calls) /\ turn.at \in Nat /\ turn.at > 0
  BY TurnIs DEF UiTypes
<1>2. turn.at \in DOMAIN turn.calls
  BY <1>1
<1>. QED  BY <1>1, <1>2 DEF Current

LEMMA ToolScreen ==
    ASSUME UiInv, UiInv', ScreenInv, \/ Request \/ RunGranted \/ RoundEnds
                  \/ (\E outcome \in {"done", "failed"} : Execute(outcome))
    PROVE  ScreenInv'
<1>1. /\ ui' = ui /\ scroll' = scroll /\ stage' # "idle" /\ InTurn /\ UiTypes
  BY DEF Request, RunGranted, RoundEnds, Execute, InTurn, UiInv
<1>2. PICK u, q, t, st : u = ui /\ q = queue /\ t = turn /\ st = stage
  OBVIOUS
<1>3. u \in Good /\ q \in Seq(Events) /\ t \in Turns /\ Coming(u, q) /\ Responding(u, q, st, t)
  BY <1>1, <1>2, InTurnIs
<1>4. PICK r, t2, st2 : r = queue' /\ t2 = turn' /\ st2 = stage'
  OBVIOUS
<1>5. t2 \in Turns
  BY <1>4 DEF UiInv, UiTypes
<1>6. \A p \in DOMAIN t.calls : p \in Nat
  BY <1>3 DEF Turns
<1>7. ASSUME st \in {"tools", "waiting", "running"}, turn.at <= Len(turn.calls)
      PROVE  Current \in Calls /\ t.at \in DOMAIN t.calls /\ Current = t.calls[t.at]
  BY <1>1, <1>2, <1>7, CurrentIs
<1>8. LevelOf("request") = 2 /\ LevelOf("running") = 3 /\ LevelOf("done") = 4 /\ LevelOf("failed") = 4
  BY DEF LevelOf
<1>9. CASE Request
  <2>1. /\ r = q \o <<Ev("request", Current)>> /\ t2 = t /\ st = "tools" /\ st2 = "waiting"
        /\ turn.at <= Len(turn.calls)
    BY <1>2, <1>4, <1>9 DEF Request, Emit
  <2>2. PICK c \in Calls, a \in DOMAIN t.calls : c = Current /\ a = t.at /\ c = t.calls[a]
    BY <1>7, <2>1
  <2>3. Longer(q, Ev("request", c), r)
    BY <1>3, <2>1, <2>2, EventIs, LongerIs
  <2>4. /\ Due(st, t, a) = 1 /\ Due(st2, t2, a) = 2
        /\ \A p \in DOMAIN t.calls : Due(st, t, p) <= Due(st2, t2, p)
    BY <1>3, <1>6, <2>1, <2>2, DueGrows
  <2>5. Coming(u, r) /\ Responding(u, r, st2, t2)
    BY <1>3, <1>8, <2>1, <2>2, <2>3, <2>4, TurnGoes
  <2>. QED  BY <1>1, <1>2, <1>4, <2>5, EngineScreen
<1>10. CASE RunGranted
  <2>1. /\ r = q \o <<Ev("running", Current)>> /\ t2 = t /\ st = "tools" /\ st2 = "running"
        /\ turn.at <= Len(turn.calls)
    BY <1>2, <1>4, <1>10 DEF RunGranted, Emit
  <2>2. PICK c \in Calls, a \in DOMAIN t.calls : c = Current /\ a = t.at /\ c = t.calls[a]
    BY <1>7, <2>1
  <2>3. Longer(q, Ev("running", c), r)
    BY <1>3, <2>1, <2>2, EventIs, LongerIs
  <2>4. /\ Due(st, t, a) = 1 /\ Due(st2, t2, a) = 3
        /\ \A p \in DOMAIN t.calls : Due(st, t, p) <= Due(st2, t2, p)
    BY <1>3, <1>6, <2>1, <2>2, DueGrows
  <2>5. Coming(u, r) /\ Responding(u, r, st2, t2)
    BY <1>3, <1>8, <2>1, <2>2, <2>3, <2>4, TurnGoes
  <2>. QED  BY <1>1, <1>2, <1>4, <2>5, EngineScreen
<1>11. ASSUME NEW outcome \in {"done", "failed"}, Execute(outcome) PROVE ScreenInv'
  <2>1. /\ r = q \o <<Ev(outcome, Current)>> /\ st = "running" /\ st2 = "tools"
        /\ t2 = [t EXCEPT !.at = @ + 1,
                          !.ran = IF outcome = "done" THEN @ \cup {Current} ELSE @]
        /\ turn.at <= Len(turn.calls)
    BY <1>1, <1>2, <1>4, <1>11 DEF Execute, Emit, UiTypes
  <2>2. PICK c \in Calls, a \in DOMAIN t.calls : c = Current /\ a = t.at /\ c = t.calls[a]
    BY <1>7, <2>1
  <2>3. Longer(q, Ev(outcome, c), r)
    BY <1>3, <2>1, <2>2, EventIs, LongerIs
  <2>4. /\ t2.calls = t.calls /\ t2.at = t.at + 1
        /\ \A x \in t2.ran : x \in t.ran \/ (outcome = "done" /\ x = c)
    <3>1. PICK ran : ran = IF outcome = "done" THEN t.ran \cup {c} ELSE t.ran
      OBVIOUS
    <3>2. PICK at : at = t.at + 1
      OBVIOUS
    <3>3. PICK v : v = [t EXCEPT !.at = at]
      OBVIOUS
    <3>4. v.calls = t.calls /\ v.ran = t.ran /\ v.at = at /\ v \in [calls : Seq(Calls), at : {at}, ran : SUBSET Calls, texts : BOOLEAN]
      BY <1>3, <3>3 DEF Turns
    <3>5. t2 = [v EXCEPT !.ran = ran]
      BY <2>1, <2>2, <3>1, <3>2, <3>3, <3>4
    <3>6. t2.calls = v.calls /\ t2.at = v.at /\ t2.ran = ran
      BY <3>4, <3>5
    <3>. QED  BY <3>1, <3>2, <3>4, <3>6
  <2>5. /\ Due(st, t, a) = 3 /\ Due(st2, t2, a) = 4
        /\ \A p \in DOMAIN t.calls : Due(st, t, p) <= Due(st2, t2, p)
    BY <1>3, <1>5, <1>6, <2>1, <2>2, <2>4, DueGrows
  <2>a. /\ Due(st, t, a) < LevelOf(outcome) /\ LevelOf(outcome) <= Due(st2, t2, a)
        /\ outcome \in {"request", "running", "cancelled", "done", "failed"}
    BY <1>8, <2>5
  <2>b. st \in {"tools", "waiting", "running"} /\ st2 \in {"tools", "waiting", "running"}
    BY <2>1
  <2>6. Coming(u, r) /\ Responding(u, r, st2, t2)
    BY <1>3, <1>5, <2>2, <2>3, <2>4, <2>5, <2>a, <2>b, TurnGoes
  <2>. QED  BY <1>1, <1>2, <1>4, <2>6, EngineScreen
<1>12. CASE RoundEnds
  <2>1. /\ r = q \o Results(t.ran) /\ t2 = NewTurn /\ st = "tools" /\ st2 \in {"run", "over"}
        /\ t.at > Len(t.calls)
    BY <1>2, <1>4, <1>12 DEF RoundEnds, Emit
  <2>2. PICK a : a = Results(t.ran)
    OBVIOUS
  <2>3. /\ a \in Seq(Events) /\ Len(a) = Len(t.calls)
        /\ \A i \in DOMAIN t.calls : a[i] = Result(t.calls[i], t.ran)
    BY <1>1, <1>2, <2>2, ResultsOf
  <2>4. t.calls \in Seq(Calls) /\ t.at \in Nat
    BY <1>3 DEF Turns
  <2>5. \A p \in DOMAIN t.calls : Due(st, t, p) = 4
    <3>1. \A p \in DOMAIN t.calls : p \in Nat /\ p < t.at
      BY <2>1, <2>4
    <3>. QED  BY <2>1, <2>4, <3>1 DEF Due
  <2>6. /\ \A i, j \in DOMAIN t.calls : t.calls[i] = t.calls[j] => i = j
        /\ \A i \in DOMAIN t.calls : /\ Told(u, q, t.calls[i], 4)
                                     /\ t.calls[i] \in t.ran => Earned(u, q, t.calls[i])
    BY <1>3, <2>5 DEF Responding, CallRuns
  <2>7. Coming(u, r)
    BY <1>3, <2>1, <2>2, <2>3, <2>4, <2>6, ResultsComing
  <2>8. Responding(u, r, st2, t2)
    BY <2>1, RespondingNew
  <2>. QED  BY <1>1, <1>2, <1>4, <2>7, <2>8, EngineScreen
<1>. QED  BY <1>9, <1>10, <1>11, <1>12

\* The loop handles an event, and commits what it can.
LEMMA ReceiveScreen ==
    ASSUME UiInv, ScreenInv, Receive
    PROVE  ScreenInv'
<1>1. /\ stage \notin {"idle", "exit"} /\ InTurn /\ queue' = Tail(queue) /\ queue # <<>>
      /\ stage' = stage /\ turn' = turn
  BY DEF Receive, ScreenInv, InTurn, engineVars
<1>2. PICK u, q, t, st, on : u = ui /\ q = queue /\ t = turn /\ st = stage /\ on = scroll
  OBVIOUS
<1>3. u \in Good /\ q \in Seq(Events) /\ t \in Turns /\ Live(u, on, q) /\ Responding(u, q, st, t)
  BY <1>1, <1>2, InTurnIs
<1>4. PICK x : x = Handled(u, Head(q))
  OBVIOUS
<1>5. PICK r : r = Tail(q)
  OBVIOUS
<1>6. Live(x, on, r) /\ Responding(x, r, st, t) /\ r \in Seq(Events)
  <2>1. q # <<>>
    BY <1>1, <1>2
  <2>2. Tail(q) \in Seq(Events)
    BY <1>3, <2>1
  <2>3. /\ Live(Handled(u, Head(q)), on, Tail(q))
        /\ Responding(Handled(u, Head(q)), Tail(q), st, t)
    BY <1>3, <2>1, LiveStep
  <2>. QED  BY <1>4, <1>5, <2>2, <2>3
<1>7. x \in Good /\ Scrolled(x, scroll) /\ Growing(x) /\ Coming(x, r)
  BY <1>2, <1>6 DEF Live
<1>8. Show(CommitStreaming([Now EXCEPT !.u = x]))
  BY <1>1, <1>2, <1>4 DEF Receive
<1>9. Scrolled(ui', scroll') /\ Growing(ui') /\ Coming(ui', r) /\ Responding(ui', r, st, t)
  <2>1. /\ Scrolled(ui', scroll') /\ (Growing(x) => Growing(ui'))
        /\ \A y \in Seq(Events) :
              /\ Coming(x, y) => Coming(ui', y)
              /\ \A st1 : \A t1 \in Turns : Responding(x, y, st1, t1) => Responding(ui', y, st1, t1)
    BY <1>7, <1>8, ShownScrolled
  <2>. QED  BY <1>3, <1>6, <1>7, <2>1
<1>10. queue' = r /\ stage' = st /\ turn' = t /\ stage' # "idle"
  BY <1>1, <1>2, <1>5
<1>11. Coming(ui', queue') /\ Responding(ui', queue', stage', turn')
  BY <1>9, <1>10
<1>. QED  BY <1>9, <1>10, <1>11 DEF ScreenInv

\* Between turns only what stands in the scrollback has to be right.
LEMMA RestScreen ==
    ASSUME Scrolled(ui', scroll'), stage' \in {"idle", "exit"}, stage' = "idle" => queue' = <<>>
    PROVE  ScreenInv'
BY DEF ScreenInv, InTurn

LEMMA NothingComing ==
    ASSUME NEW u, NEW q, q = <<>> \/ q = <<Ev("info", NoCall)>>, NEW st, st # "stream",
           u.assistant = 0, u.thinking = 0
    PROVE  Growing(u) /\ Coming(u, q) /\ Responding(u, q, st, NewTurn)
<1>1. Growing(u)
  BY DEF Growing
<1>2. \A k \in DOMAIN q : q[k].call \notin Calls /\ q[k].what \notin {"success", "thinking"}
  <2>1. CASE q = <<>>
    BY <2>1
  <2>2. CASE q = <<Ev("info", NoCall)>>
    <3>1. DOMAIN q = {1} /\ q[1] = Ev("info", NoCall)
      BY <2>2
    <3>. QED  BY <3>1, NoCallAssumption DEF Ev
  <2>. QED  BY <2>1, <2>2
<1>3. Coming(u, q)
  BY <1>2 DEF Coming, Ahead
<1>. QED  BY <1>1, <1>3, RespondingNew

LEMMA SubmitScreen ==
    ASSUME UiInv, ScreenInv, NEW recognized \in BOOLEAN, Submit(recognized)
    PROVE  ScreenInv'
<1>1. /\ ui \in Good /\ Scrolled(ui, scroll) /\ queue = <<>>
  BY DEF UiInv, UiTypes, ScreenInv, Submit
<1>2. PICK u : u = ui
  OBVIOUS
<1>3. PICK x : x = BeginTurn(u, recognized)
  OBVIOUS
<1>4. PICK yes \in BOOLEAN : yes = TRUE
  OBVIOUS
<1>5. PICK v : v = [u EXCEPT !.busy = yes, !.assistant = 0, !.thinking = 0]
  OBVIOUS
<1>6. Ended(u, v)
  BY <1>1, <1>2, <1>5, FieldsEnded
<1>7. v \in Good /\ Speaks(u, v) /\ v.assistant = 0 /\ v.thinking = 0
  BY <1>1, <1>2, <1>6, EndedSpeaks DEF Ended
<1>8. Scrolled(v, scroll)
  BY <1>1, <1>2, <1>7, SpeaksScrolled
<1>9. x \in Good /\ Scrolled(x, scroll) /\ x.assistant = 0 /\ x.thinking = 0
  <2>1. CASE recognized
    <3>1. x = v
      BY <1>3, <1>4, <1>5, <2>1 DEF BeginTurn
    <3>. QED  BY <1>7, <1>8, <3>1
  <2>2. CASE ~ recognized
    <3>1. x = Push(v, UserEntry)
      BY <1>3, <1>4, <1>5, <2>2 DEF BeginTurn, UserEntry
    <3>2. Noting(v, x)
      BY <1>7, <3>1, NoteIs
    <3>. QED  BY <1>7, <1>8, <3>2, SpeaksScrolled DEF Noting
  <2>. QED  BY <2>1, <2>2
<1>10. Show(CommitAll([Now EXCEPT !.u = x]))
  BY <1>2, <1>3 DEF Submit
<1>11. Scrolled(ui', scroll') /\ Commits(x, ui')
  BY <1>9, <1>10, ShownScrolled
<1>12. /\ queue' = <<>> \/ queue' = <<Ev("info", NoCall)>>
       /\ stage' \in {"over", "run"} /\ turn' = NewTurn
  <2>1. queue' = queue \/ queue' = queue \o <<Ev("info", NoCall)>>
    BY DEF Submit, Emit
  <2>2. <<>> \o <<Ev("info", NoCall)>> = <<Ev("info", NoCall)>>
    OBVIOUS
  <2>. QED  BY <1>1, <2>1, <2>2 DEF Submit
<1>13. ui'.assistant = 0 /\ ui'.thinking = 0
  BY <1>9, <1>11 DEF Commits
<1>14. Growing(ui') /\ Coming(ui', queue') /\ Responding(ui', queue', stage', NewTurn)
  <2>1. stage' # "stream"
    BY <1>12
  <2>2. PICK w, q, st : w = ui' /\ q = queue' /\ st = stage'
    OBVIOUS
  <2>3. Growing(w) /\ Coming(w, q) /\ Responding(w, q, st, NewTurn)
    BY <1>12, <1>13, <2>1, <2>2, NothingComing
  <2>. QED  BY <2>2, <2>3
<1>. QED  BY <1>11, <1>12, <1>14 DEF ScreenInv

\* A note, and then everything goes to the scrollback.
LEMMA NotedShown ==
    ASSUME NEW x \in Good, Scrolled(x, scroll)
    PROVE  /\ Show(CommitAll([Now EXCEPT !.u = Push(x, NoteEntry)])) => Scrolled(ui', scroll')
           /\ Show([Now EXCEPT !.u = Push(x, NoteEntry)]) => Scrolled(ui', scroll')
<1>1. PICK y : y = Push(x, NoteEntry)
  OBVIOUS
<1>2. Noting(x, y)
  BY <1>1, NoteIs
<1>3. y \in Good /\ Scrolled(y, scroll)
  BY <1>2, SpeaksScrolled DEF Noting
<1>4. Show(CommitAll([Now EXCEPT !.u = y])) => Scrolled(ui', scroll')
  BY <1>3, ShownScrolled
<1>5. Show([Now EXCEPT !.u = y]) => Scrolled(ui', scroll')
  <2>1. Show([Now EXCEPT !.u = y]) => ui' = y /\ scroll' = scroll
    BY <1>3, ShownScrolled
  <2>. QED  BY <1>3, <2>1
<1>. QED  BY <1>1, <1>4, <1>5

LEMMA FinishScreen ==
    ASSUME UiInv, ScreenInv, NEW outcome \in {"ok", "error", "abort"}, Finish(outcome)
    PROVE  ScreenInv'
<1>1. InTurn /\ queue' = <<>> /\ stage' \in {"exit", "idle"}
  BY DEF Finish, InTurn
<1>2. PICK u, q, on : u = ui /\ q = queue /\ on = scroll
  OBVIOUS
<1>3. u \in Good /\ q \in Seq(Events) /\ Live(u, on, q)
  BY <1>1, <1>2, InTurnIs
<1>4. PICK x : x = Drained(u, q)
  OBVIOUS
<1>5. x \in Good /\ Scrolled(x, scroll)
  BY <1>2, <1>3, <1>4, DrainedLive
<1>6. PICK no \in BOOLEAN : no = FALSE
  OBVIOUS
<1>7. CASE outcome = "ok"
  <2>1. PICK v : v = EndTurn(x)
    OBVIOUS
  <2>2. v = [x EXCEPT !.busy = no, !.assistant = 0, !.thinking = 0]
    BY <1>6, <2>1 DEF EndTurn
  <2>3. Ended(x, v)
    BY <1>5, <2>2, FieldsEnded
  <2>4. v \in Good /\ Scrolled(v, scroll)
    BY <1>5, <2>3, EndedSpeaks, SpeaksScrolled DEF Ended
  <2>5. Show(CommitAll([Now EXCEPT !.u = v]))
    BY <1>2, <1>4, <1>7, <2>1 DEF Finish
  <2>6. Scrolled(ui', scroll')
    BY <2>4, <2>5, ShownScrolled
  <2>. QED  BY <1>1, <2>6, RestScreen
<1>8. PICK still : still = [x EXCEPT !.busy = no]
  OBVIOUS
<1>9. still \in Good /\ Scrolled(still, scroll)
  <2>1. still \in Good
    BY <1>5, <1>6, <1>8, FieldsGood DEF Made
  <2>2. Same(x, still) /\ still.muted = x.muted
    BY <1>5, <1>8, FieldsSame
  <2>. QED  BY <1>5, <2>1, <2>2, SameScrolled
<1>10. CASE outcome = "error"
  <2>1. Show(CommitAll([Now EXCEPT !.u = Push(still, NoteEntry)]))
    BY <1>2, <1>4, <1>6, <1>8, <1>10 DEF Finish, NoteEntry
  <2>2. Scrolled(ui', scroll')
    BY <1>9, <2>1, NotedShown
  <2>. QED  BY <1>1, <2>2, RestScreen
<1>11. CASE outcome = "abort"
  <2>1. Show([Now EXCEPT !.u = still])
    BY <1>2, <1>4, <1>6, <1>8, <1>11 DEF Finish
  <2>2. ui' = still /\ scroll' = scroll
    BY <1>9, <2>1, ShownScrolled
  <2>3. Scrolled(ui', scroll')
    BY <1>9, <2>2
  <2>. QED  BY <1>1, <2>3, RestScreen
<1>. QED  BY <1>7, <1>10, <1>11

LEMMA IdleScreen ==
    ASSUME UiInv, ScreenInv, \/ SessionFails \/ (\E yolo \in BOOLEAN : Command(yolo))
                             \/ (\E earlier \in Histories : Switch(earlier))
    PROVE  ScreenInv'
<1>1. ui \in Good /\ Scrolled(ui, scroll) /\ stage = "idle" /\ queue = <<>>
  BY DEF UiInv, UiTypes, ScreenInv, SessionFails, Command, Switch
<1>2. PICK u : u = ui
  OBVIOUS
<1>3. CASE SessionFails
  <2>1. ui' = ui /\ scroll' = scroll /\ stage' = "exit"
    BY <1>3 DEF SessionFails
  <2>2. Scrolled(ui', scroll')
    BY <1>1, <2>1
  <2>. QED  BY <2>1, <2>2, RestScreen
<1>4. CASE \E yolo \in BOOLEAN : Command(yolo)
  <2>1. /\ Show(CommitAll([Now EXCEPT !.u = Push(u, NoteEntry)]))
        /\ stage' = stage /\ queue' = queue
    BY <1>2, <1>4 DEF Command, NoteEntry
  <2>2. Scrolled(ui', scroll')
    BY <1>1, <1>2, <2>1, NotedShown
  <2>. QED  BY <1>1, <2>1, <2>2, RestScreen
<1>5. CASE \E earlier \in Histories : Switch(earlier)
  <2>1. PICK earlier \in Histories : Switch(earlier)
    BY <1>5
  <2>2. stage' = "idle" /\ queue' = <<>>
    BY <1>1, <2>1 DEF Switch
  <2>3. CASE Show(CommitAll([u |-> Fresh(earlier), on |-> <<>>]))
    <3>1. PICK s : s = [u |-> Fresh(earlier), on |-> <<>>]
      OBVIOUS
    <3>2. s.u \in Good /\ Scrolled(s.u, s.on)
      <4>1. Fresh(earlier) \in Good /\ Scrolled(Fresh(earlier), <<>>)
        BY FreshScrolled, HistoriesAssumption
      <4>2. s.u = Fresh(earlier) /\ s.on = <<>>
        BY <3>1
      <4>. QED  BY <4>1, <4>2
    <3>3. PICK v : v = CommitAll(s)
      OBVIOUS
    <3>4. Scrolled(v.u, v.on)
      BY <3>2, <3>3, CommitAllScrolled
    <3>5. ui' = v.u /\ scroll' = v.on
      BY <2>3, <3>1, <3>3 DEF Show
    <3>6. Scrolled(ui', scroll')
      BY <3>4, <3>5
    <3>. QED  BY <2>2, <3>6, RestScreen
  <2>4. CASE Show([Now EXCEPT !.u = Push(u, NoteEntry)])
    <3>1. Scrolled(ui', scroll')
      BY <1>1, <1>2, <2>4, NotedShown
    <3>. QED  BY <2>2, <3>1, RestScreen
  <2>. QED  BY <1>2, <2>1, <2>3, <2>4 DEF Switch, NoteEntry
<1>. QED  BY <1>3, <1>4, <1>5

\* A key at a prompt.
LEMMA AnswerScreen ==
    ASSUME UiInv, UiInv', ScreenInv, NEW choice \in {"once", "always", "deny"}, Answer(choice)
    PROVE  ScreenInv'
<1> DEFINE waited == stage = "waiting" /\ ui.approval = Current /\ ui.approval \in asked
<1>1. InTurn /\ stage # "idle" /\ UiTypes
  BY DEF Answer, InTurn, UiInv
<1>2. PICK u, q, t, st : u = ui /\ q = queue /\ t = turn /\ st = stage
  OBVIOUS
<1>3. /\ u \in Good /\ q \in Seq(Events) /\ t \in Turns /\ Scrolled(u, scroll) /\ Growing(u)
      /\ Coming(u, q) /\ Responding(u, q, st, t)
  BY <1>1, <1>2, InTurnIs
<1>4. PICK x : x = [u EXCEPT !.approval = NoCall]
  OBVIOUS
<1>5. Same(u, x) /\ x.muted = u.muted /\ x \in Good
  BY <1>3, <1>4, FieldsSame, FieldsGood
<1>6. Scrolled(x, scroll) /\ Growing(x) /\ Coming(x, q) /\ Responding(x, q, st, t)
  BY <1>3, <1>5, SameScrolled
<1>7. PICK w : w = ui'
  OBVIOUS
<1>8. PICK r, t2, st2 : r = queue' /\ t2 = turn' /\ st2 = stage'
  OBVIOUS
<1>9. /\ Show(CommitStreaming([Now EXCEPT !.u = x]))
      /\ ~ waited => st2 = st /\ t2 = t /\ r = q
      /\ waited /\ choice = "deny" =>
            /\ st2 = "tools" /\ t2 = [t EXCEPT !.at = @ + 1] /\ r = q \o <<Ev("cancelled", Current)>>
      /\ waited /\ choice # "deny" =>
            st2 = "running" /\ t2 = t /\ r = q \o <<Ev("running", Current)>>
  <2>1. [Now EXCEPT !.u.approval = NoCall] = [Now EXCEPT !.u = x]
    BY <1>2, <1>4 DEF Now
  <2>. QED  BY <1>2, <1>8, <2>1 DEF Answer, Emit
<1>. HIDE DEF waited
<1>10. /\ w \in Good /\ Scrolled(ui', scroll') /\ Growing(w) /\ Coming(w, q) /\ Responding(w, q, st, t)
  <2>1. /\ ui' \in Good /\ Scrolled(ui', scroll') /\ (Growing(x) => Growing(ui'))
        /\ \A y \in Seq(Events) :
              /\ Coming(x, y) => Coming(ui', y)
              /\ \A st1 : \A t1 \in Turns : Responding(x, y, st1, t1) => Responding(ui', y, st1, t1)
    BY <1>5, <1>6, <1>9, ShownScrolled
  <2>. QED  BY <1>3, <1>6, <1>7, <2>1
<1>11. ASSUME waited
       PROVE  /\ st = "waiting" /\ t2 \in Turns /\ \A p \in DOMAIN t.calls : p \in Nat
              /\ Current \in Calls /\ t.at \in DOMAIN t.calls /\ Current = t.calls[t.at]
  <2>1. stage = "waiting" /\ turn.at <= Len(turn.calls)
    BY <1>1, <1>11 DEF waited, UiTypes
  <2>2. t2 \in Turns
    BY <1>8 DEF UiInv, UiTypes
  <2>3. \A p \in DOMAIN t.calls : p \in Nat
    BY <1>3 DEF Turns
  <2>. QED  BY <1>1, <1>2, <2>1, <2>2, <2>3, CurrentIs
<1>12. LevelOf("cancelled") = 4 /\ LevelOf("running") = 3
  BY DEF LevelOf
<1>13. Coming(w, r) /\ Responding(w, r, st2, t2) /\ st2 # "idle"
  <2>1. CASE ~ waited
    BY <1>1, <1>2, <1>9, <1>10, <2>1
  <2>2. CASE waited /\ choice = "deny"
    <3>1. /\ st = "waiting" /\ st2 = "tools" /\ t2 = [t EXCEPT !.at = @ + 1]
          /\ r = q \o <<Ev("cancelled", Current)>>
      BY <1>9, <1>11, <2>2
    <3>2. PICK c \in Calls, a \in DOMAIN t.calls : c = Current /\ a = t.at /\ c = t.calls[a]
      BY <1>11, <2>2
    <3>3. Longer(q, Ev("cancelled", c), r)
      BY <1>3, <3>1, <3>2, EventIs, LongerIs
    <3>4. t2.calls = t.calls /\ t2.at = t.at + 1 /\ t2.ran = t.ran
      BY <1>3, <3>1 DEF Turns
    <3>5. /\ Due(st, t, a) = 2 /\ Due(st2, t2, a) = 4
          /\ \A p \in DOMAIN t.calls : Due(st, t, p) <= Due(st2, t2, p)
      BY <1>3, <1>11, <2>2, <3>1, <3>2, <3>4, DueGrows
    <3>6. /\ Due(st, t, a) < LevelOf("cancelled") /\ LevelOf("cancelled") <= Due(st2, t2, a)
          /\ \A y \in t2.ran : y \in t.ran \/ ("cancelled" = "done" /\ y = c)
      BY <1>12, <3>4, <3>5
    <3>7. st \in {"tools", "waiting", "running"} /\ st2 \in {"tools", "waiting", "running"} /\ t2 \in Turns
      BY <1>11, <2>2, <3>1
    <3>8. Coming(w, r) /\ Responding(w, r, st2, t2)
      BY <1>3, <1>10, <3>2, <3>3, <3>4, <3>5, <3>6, <3>7, TurnGoes
    <3>. QED  BY <3>1, <3>8
  <2>3. CASE waited /\ choice # "deny"
    <3>1. /\ st = "waiting" /\ st2 = "running" /\ t2 = t /\ r = q \o <<Ev("running", Current)>>
      BY <1>9, <1>11, <2>3
    <3>2. PICK c \in Calls, a \in DOMAIN t.calls : c = Current /\ a = t.at /\ c = t.calls[a]
      BY <1>11, <2>3
    <3>3. Longer(q, Ev("running", c), r)
      BY <1>3, <3>1, <3>2, EventIs, LongerIs
    <3>4. /\ Due(st, t, a) = 2 /\ Due(st2, t2, a) = 3
          /\ \A p \in DOMAIN t.calls : Due(st, t, p) <= Due(st2, t2, p)
      BY <1>3, <1>11, <2>3, <3>1, <3>2, DueGrows
    <3>5. Coming(w, r) /\ Responding(w, r, st2, t2)
      BY <1>3, <1>10, <1>12, <3>1, <3>2, <3>3, <3>4, TurnGoes
    <3>. QED  BY <3>1, <3>5
  <2>. QED  BY <2>1, <2>2, <2>3
<1>14. Coming(ui', queue') /\ Responding(ui', queue', stage', turn') /\ Growing(ui') /\ stage' # "idle"
  BY <1>7, <1>8, <1>10, <1>13
<1>. QED  BY <1>10, <1>14 DEF ScreenInv

\* What a cancelled turn left is handled before the commit.
LEMMA CancelScreen ==
    ASSUME UiInv, ScreenInv, Cancel
    PROVE  ScreenInv'
<1>1. InTurn /\ UiTypes /\ queue' = <<>> /\ stage' = "idle"
  BY DEF Cancel, UiInv
<1>2. PICK u, q, t, st, on : u = ui /\ q = queue /\ t = turn /\ st = stage /\ on = scroll
  OBVIOUS
<1>3. /\ u \in Good /\ q \in Seq(Events) /\ t \in Turns /\ Scrolled(u, on) /\ Growing(u)
      /\ Coming(u, q) /\ Responding(u, q, st, t)
  BY <1>1, <1>2, InTurnIs
<1>4. PICK all : all = q \o (IF st \in {"tools", "waiting", "running"} THEN Results({}) ELSE <<>>)
  OBVIOUS
<1>5. all \in Seq(Events) /\ Coming(u, all)
  <2>1. CASE st \in {"tools", "waiting", "running"}
    <3>1. PICK a : a = Results({})
      OBVIOUS
    <3>2. /\ a \in Seq(Events) /\ Len(a) = Len(t.calls)
          /\ \A i \in DOMAIN t.calls : a[i] = Result(t.calls[i], {})
      BY <1>1, <1>2, <3>1, ResultsOf
    <3>3. t.calls \in Seq(Calls) /\ \A i \in DOMAIN t.calls : t.calls[i] \in Calls
      BY <1>3 DEF Turns
    <3>4. \A i \in DOMAIN t.calls : Told(u, q, t.calls[i], 4)
      <4>. SUFFICES ASSUME NEW i \in DOMAIN t.calls PROVE Told(u, q, t.calls[i], 4)
        OBVIOUS
      <4>1. PICK d \in 1..4 : d = Due(st, t, i)
        BY <1>3, DueIs
      <4>2. Told(u, q, t.calls[i], d)
        BY <1>3, <4>1 DEF Responding, CallRuns
      <4>3. /\ \A what : LevelOf(what) \in 1..5
            /\ Reached(u, t.calls[i]) \in 0..5
        BY DEF LevelOf, Reached, StatusLevel
      <4>4. Reached(u, t.calls[i]) <= 4
        BY <4>2, <4>3 DEF Told
      <4>5. ASSUME NEW k \in DOMAIN q, q[k].call = t.calls[i] PROVE LevelOf(q[k].what) <= 4
        <5>1. LevelOf(q[k].what) <= d
          BY <4>2, <4>5 DEF Told
        <5>. QED  BY <4>3, <5>1
      <4>. QED  BY <4>2, <4>4, <4>5 DEF Told
    <3>5. \A i, j \in DOMAIN t.calls : t.calls[i] = t.calls[j] => i = j
      BY <1>3 DEF Responding
    <3>6. PICK none : none = {}
      OBVIOUS
    <3>7. \A i \in DOMAIN t.calls : a[i] = Result(t.calls[i], none) /\ t.calls[i] \notin none
      BY <3>2, <3>6
    <3>8. Coming(u, q \o a)
      BY <1>3, <3>2, <3>3, <3>4, <3>5, <3>7, ResultsComing
    <3>9. all = q \o a
      BY <1>4, <2>1, <3>1
    <3>. QED  BY <1>3, <3>2, <3>8, <3>9
  <2>2. CASE st \notin {"tools", "waiting", "running"}
    <3>1. all = q
      BY <1>3, <1>4, <2>2
    <3>. QED  BY <1>3, <3>1
  <2>. QED  BY <2>1, <2>2
<1>6. PICK denied : denied = [u EXCEPT !.approval = NoCall]
  OBVIOUS
<1>7. denied \in Good /\ Scrolled(denied, on) /\ Coming(denied, all)
  <2>1. Same(u, denied) /\ denied.muted = u.muted /\ denied \in Good
    BY <1>3, <1>6, FieldsSame, FieldsGood
  <2>. QED  BY <1>3, <1>5, <2>1, SameScrolled
<1>8. PICK no \in BOOLEAN : no = FALSE
  OBVIOUS
<1>9. PICK v : v = EndTurn(denied)
  OBVIOUS
<1>10. Ended(denied, v)
  <2>1. v = [denied EXCEPT !.busy = no, !.assistant = 0, !.thinking = 0]
    BY <1>8, <1>9 DEF EndTurn
  <2>. QED  BY <1>7, <2>1, FieldsEnded
<1>11. v \in Good /\ Scrolled(v, on) /\ Growing(v) /\ Coming(v, all)
  <2>1. v \in Good /\ Speaks(denied, v) /\ Growing(v) /\ v.assistant = 0
    BY <1>7, <1>10, EndedSpeaks DEF Ended
  <2>2. Scrolled(v, on)
    BY <1>7, <2>1, SpeaksScrolled
  <2>3. Coming(v, all)
    BY <1>5, <1>7, <2>1, SpeaksComing
  <2>. QED  BY <2>1, <2>2, <2>3
<1>12. PICK y : y = CancelTurn(denied)
  OBVIOUS
<1>13. Live(y, on, all)
  <2>1. y = Push(v, NoteEntry)
    BY <1>9, <1>12 DEF CancelTurn, NoteEntry
  <2>2. Noting(v, y)
    BY <1>11, <2>1, NoteIs
  <2>3. Scrolled(y, on)
    BY <1>11, <2>2, SpeaksScrolled DEF Noting
  <2>4. Coming(y, all)
    BY <1>5, <1>11, <2>2, SpeaksComing DEF Noting
  <2>. QED  BY <1>11, <2>2, <2>3, <2>4 DEF Noting, Live
<1>14. PICK x : x = Drained(y, all)
  OBVIOUS
<1>15. x \in Good /\ Scrolled(x, scroll)
  <2>1. y \in Good
    BY <1>13 DEF Live
  <2>. QED  BY <1>2, <1>5, <1>13, <1>14, <2>1, DrainedLive
<1>16. Show(CommitAll([Now EXCEPT !.u = x]))
  BY <1>2, <1>4, <1>6, <1>12, <1>14 DEF Cancel
<1>17. Scrolled(ui', scroll')
  BY <1>15, <1>16, ShownScrolled
<1>. QED  BY <1>1, <1>17, RestScreen

\* A resize writes the scrollback again; in a turn what may go there follows.
LEMMA ResizeScreen ==
    ASSUME UiInv, ScreenInv, Resize
    PROVE  ScreenInv'
<1>1. /\ ui \in Good /\ Tooled(ui) /\ queue' = queue /\ stage' = stage /\ turn' = turn
  BY DEF UiInv, UiTypes, ScreenInv, Scrolled, Resize
<1>2. PICK u \in Good : u = ui
  BY <1>1
<1>3. PICK s : s = Reflowed(u)
  OBVIOUS
<1>4. /\ Scrolled(s.u, s.on) /\ Commits(u, s.u) /\ s.u \in Good
      /\ Growing(u) => Growing(s.u)
      /\ \A c \in Calls : Settled(s.u, c)
  BY <1>1, <1>2, <1>3, ReflowedScrolled
<1>5. CASE ~ InTurn
  <2>1. Show(s) /\ stage' \in {"idle", "exit"} /\ (stage' = "idle" => queue' = <<>>)
    BY <1>1, <1>2, <1>3, <1>5 DEF Resize, InTurn, ScreenInv
  <2>2. Scrolled(ui', scroll')
    BY <1>4, <2>1 DEF Show
  <2>. QED  BY <2>1, <2>2, RestScreen
<1>6. CASE InTurn
  <2>1. PICK q, t, st : q = queue /\ t = turn /\ st = stage
    OBVIOUS
  <2>2. q \in Seq(Events) /\ t \in Turns /\ Growing(u) /\ Coming(u, q) /\ Responding(u, q, st, t)
    BY <1>2, <1>6, <2>1, InTurnIs
  <2>3. PICK x \in Good : x = s.u
    BY <1>4
  <2>4. Growing(x) /\ Coming(x, q) /\ Responding(x, q, st, t)
    <3>1. Commits(u, x) /\ \A c \in Calls : Settled(u, c) => Settled(x, c)
      BY <1>4, <2>3
    <3>2. /\ Coming(u, q) => Coming(x, q)
          /\ \A st1 : \A t1 \in Turns : Responding(u, q, st1, t1) => Responding(x, q, st1, t1)
      BY <2>2, <3>1, CommitsComing
    <3>. QED  BY <1>4, <2>2, <2>3, <3>2
  <2>5. PICK v : v = CommitStreaming(s)
    OBVIOUS
  <2>6. PICK w : w = v.u
    OBVIOUS
  <2>7. /\ Scrolled(w, v.on) /\ w \in Good /\ Commits(x, w) /\ (Growing(x) => Growing(w))
        /\ \A c \in Calls : Settled(x, c) => Settled(w, c)
    BY <1>4, <2>3, <2>5, <2>6, CommitStreamingScrolled
  <2>8. /\ Coming(x, q) => Coming(w, q)
        /\ \A st1 : \A t1 \in Turns : Responding(x, q, st1, t1) => Responding(w, q, st1, t1)
    BY <2>2, <2>7, CommitsComing
  <2>9. Growing(w) /\ Coming(w, q) /\ Responding(w, q, st, t)
    BY <2>2, <2>4, <2>7, <2>8
  <2>10. ui' = w /\ scroll' = v.on
    BY <1>2, <1>3, <1>6, <2>5, <2>6 DEF Resize, Show
  <2>11. Growing(ui') /\ Coming(ui', queue') /\ Responding(ui', queue', stage', turn')
    BY <1>1, <2>1, <2>9, <2>10
  <2>12. Scrolled(ui', scroll') /\ stage' # "idle"
    BY <1>1, <1>6, <2>7, <2>10 DEF InTurn
  <2>. QED  BY <2>11, <2>12 DEF ScreenInv
<1>. QED  BY <1>5, <1>6

LEMMA ScreenStarts ==
    ASSUME UiInit
    PROVE  ScreenInv
<1>1. <<>> \in Seq(Entries) /\ DOMAIN <<>> = {}
  OBVIOUS
<1>2. Scrolled(Fresh(<<>>), <<>>)
  BY <1>1, FreshScrolled
<1>3. ui = Fresh(<<>>) /\ scroll = <<>> /\ queue = <<>> /\ stage = "idle"
  BY DEF UiInit
<1>. QED  BY <1>2, <1>3 DEF ScreenInv, InTurn

LEMMA ScreenStep ==
    ASSUME UiInv, ScreenInv, ~ Interleaved, [UiNext]_uiVars
    PROVE  ScreenInv'
<1>1. UiInv'
  BY UiStep
<1>2. CASE UNCHANGED uiVars
  <2>1. ui' = ui /\ scroll' = scroll /\ queue' = queue /\ stage' = stage /\ turn' = turn
    BY <1>2 DEF uiVars
  <2>. QED  BY <2>1 DEF ScreenInv, InTurn
<1>3. CASE \/ StreamStart \/ (\E kind \in {"assistant", "thinking"} : Delta(kind))
           \/ (\E c \in Calls : ToolUse(c)) \/ ResponseEnds
  BY <1>1, <1>3, StreamScreen
<1>4. CASE \/ Request \/ RunGranted \/ RoundEnds \/ (\E outcome \in {"done", "failed"} : Execute(outcome))
  BY <1>1, <1>4, ToolScreen
<1>5. CASE \E recognized \in BOOLEAN : Submit(recognized)
  BY <1>5, SubmitScreen
<1>6. CASE \/ SessionFails \/ (\E yolo \in BOOLEAN : Command(yolo))
           \/ (\E earlier \in Histories : Switch(earlier))
  BY <1>6, IdleScreen
<1>7. CASE Receive
  BY <1>7, ReceiveScreen
<1>8. CASE Cancel
  BY <1>8, CancelScreen
<1>9. CASE Resize
  BY <1>9, ResizeScreen
<1>10. CASE \E outcome \in {"ok", "error", "abort"} : Finish(outcome)
  BY <1>10, FinishScreen
<1>11. CASE \E choice \in {"once", "always", "deny"} : Answer(choice)
  BY <1>1, <1>11, AnswerScreen
<1>. QED  BY <1>2, <1>3, <1>4, <1>5, <1>6, <1>7, <1>8, <1>9, <1>10, <1>11 DEF UiNext

\* The pieces of an entry stand together, one where the other ends.
At(on, i)    == {k \in DOMAIN on : on[k].entry = i}
Shown(u, i)  == IF i <= u.committed THEN u.transcript[i].size ELSE u.transcript[i].offset
Stretch(on, at, reached) ==
    /\ at = {} <=> reached = 0
    /\ \A j, k \in at : j..k \subseteq at
    /\ \A k \in at :
          /\ on[k].from = IF k - 1 \in at THEN on[k - 1].to ELSE 0
          /\ k + 1 \notin at => on[k].to = reached

LEMMA ScreenPieces ==
    ASSUME NEW u \in Good, NEW on \in Seq(PieceType), Sewn(on, Reach(u)), NEW i \in DOMAIN u.transcript
    PROVE  Stretch(on, At(on, i), Shown(u, i))
<1>a. PICK reached, at : reached = Shown(u, i) /\ at = At(on, i)
  OBVIOUS
<1>1. PICK r : r = Reach(u)
  OBVIOUS
<1>2. i \in DOMAIN r /\ r[i] = reached /\ reached \in Nat
  <2>1. /\ i \in 1..Len(u.transcript) /\ r \in [1..Len(u.transcript) -> Nat]
        /\ r = ReachTo(u, u.committed)
    BY <1>1, ReachIs
  <2>2. ReachTo(u, u.committed)[i] = reached
    BY <1>a, <2>1, ReachIs DEF Shown
  <2>. QED  BY <2>1, <2>2
<1>3. PICK l \in Nat : l = Len(on) /\ DOMAIN on = 1..l
  OBVIOUS
<1>4. /\ \A j, k \in 1..l : j <= k => on[j].entry <= on[k].entry
      /\ \A k \in 1..l :
            /\ on[k].entry \in DOMAIN r
            /\ on[k].from = IF k > 1 /\ on[k - 1].entry = on[k].entry THEN on[k - 1].to ELSE 0
            /\ (k = l \/ on[k + 1].entry # on[k].entry) => on[k].to = r[on[k].entry]
      /\ r[i] > 0 <=> \E k \in 1..l : on[k].entry = i
  BY <1>1, <1>2, <1>3, Zenon DEF Sewn
<1>5. \A k \in 1..l : on[k].entry \in Nat
  <2>. TAKE k \in 1..l
  <2>1. on[k] \in PieceType
    BY <1>3
  <2>. QED  BY <2>1 DEF PieceType
<1>6. i \in Nat /\ \A k : k \in at <=> k \in 1..l /\ on[k].entry = i
  BY <1>3, <1>a, ReachIs DEF At
<1>7. at = {} <=> reached = 0
  <2>1. reached > 0 <=> \E k \in 1..l : on[k].entry = i
    BY <1>2, <1>4
  <2>2. at = {} <=> ~ \E k \in 1..l : on[k].entry = i
    <3>1. at = {} <=> \A k : k \notin at
      BY Zenon
    <3>. QED  BY <1>6, <3>1, Zenon
  <2>. QED  BY <1>2, <2>1, <2>2
<1>8. ASSUME NEW j \in at, NEW k \in at, NEW m \in j..k PROVE m \in at
  <2>1. j \in 1..l /\ k \in 1..l /\ m \in 1..l /\ j <= m /\ m <= k
    BY <1>3, <1>6
  <2>2. on[j].entry <= on[m].entry /\ on[m].entry <= on[k].entry
    BY <1>4, <2>1
  <2>. QED  BY <1>5, <1>6, <2>1, <2>2
<1>9. ASSUME NEW k \in at
      PROVE  /\ on[k].from = IF k - 1 \in at THEN on[k - 1].to ELSE 0
             /\ k + 1 \notin at => on[k].to = reached
  <2>1. k \in 1..l /\ on[k].entry = i
    BY <1>6
  <2>2. k - 1 \in at <=> k > 1 /\ on[k - 1].entry = i
    <3>1. k - 1 \in 1..l <=> k > 1
      BY <2>1
    <3>. QED  BY <1>6, <3>1
  <2>3. k + 1 \notin at => k = l \/ on[k + 1].entry # i
    <3>1. k # l => k + 1 \in 1..l
      BY <2>1
    <3>. QED  BY <1>6, <3>1
  <2>. QED  BY <1>2, <1>4, <2>1, <2>2, <2>3
<1>. QED  BY <1>a, <1>6, <1>7, <1>8, <1>9 DEF Stretch

LEMMA ScreenImplies ==
    ASSUME UiInv, ScreenInv
    PROVE  EachPieceOnce /\ ScrolledIsFinal
<1>1. /\ ui \in Good /\ scroll \in Seq(PieceType) /\ Sewn(scroll, Reach(ui)) /\ Shows(ui, scroll)
  BY DEF UiInv, UiTypes, ScreenInv, Scrolled
<1>2. EachPieceOnce
  <2>1. \A i \in DOMAIN ui.transcript : Stretch(scroll, At(scroll, i), Shown(ui, i))
    BY <1>1, ScreenPieces
  <2>. QED  BY <2>1, Zenon DEF EachPieceOnce, Stretch, At, Shown
<1>3. \A k \in DOMAIN scroll :
         \/ scroll[k].status = ui.transcript[scroll[k].entry].status
         \/ {scroll[k].status, ui.transcript[scroll[k].entry].status} = {"cancelled", "error"}
  BY <1>1, Zenon DEF Shows, Agrees
<1>4. \A k \in 1..(Len(scroll) - 1) : scroll[k].entry <= scroll[k + 1].entry
  <2>1. \A j, k \in DOMAIN scroll : j <= k => scroll[j].entry <= scroll[k].entry
    BY <1>1, Zenon DEF Sewn
  <2>2. \A k \in 1..(Len(scroll) - 1) : k \in DOMAIN scroll /\ k + 1 \in DOMAIN scroll /\ k <= k + 1
    BY <1>1
  <2>. QED  BY <2>1, <2>2
<1>. QED  BY <1>2, <1>3, <1>4, Zenon DEF ScrolledIsFinal

ScreensInv == UisInv /\ (which = "ui" => ScreenInv)

\* The text and the tool lines of a session are on the screen once, as the scrollback
\* or as the live part, in the transcript's order, and what is in the scrollback
\* is final: whatever is streamed, handled late, resized, answered, cancelled or
\* switched meanwhile, where no thinking follows a text of its response
\* (app.rs 582-635, tui state.rs 144-189, ui.rs 127-181).
THEOREM ScrollbackAlways ==
    ASSUME ~ Interleaved
    PROVE  WatchedSpec => []ScrollbackTrue
<1>1. WatchedInit => ScreensInv
  BY UiStarts, ScreenStarts DEF WatchedInit, UisInv, ScreensInv
<1>2. ScreensInv /\ [WatchedNext]_<<which, vars, uiVars>> => ScreensInv'
  <2>. SUFFICES ASSUME ScreensInv, [WatchedNext]_<<which, vars, uiVars>>, which' = "ui"
                PROVE  UiInv' /\ ScreenInv'
    BY DEF ScreensInv, UisInv
  <2>1. which = "ui" /\ [UiNext]_uiVars
    BY DEF WatchedNext
  <2>2. UiInv /\ ScreenInv
    BY <2>1 DEF ScreensInv, UisInv
  <2>. QED  BY <2>1, <2>2, UiStep, ScreenStep
<1>3. ScreensInv => ScrollbackTrue
  BY ScreenImplies DEF ScreensInv, UisInv, ScrollbackTrue
<1>. QED  BY <1>1, <1>2, <1>3, PTL DEF WatchedSpec
===============================================================================
