----------------------------- MODULE RoundProofs -----------------------------
(***************************************************************************)
(* Proofs about the components of MCRound, for every value of their        *)
(* constants: that a command leaves nothing behind and a tool runs only    *)
(* past its hooks (CommandRun), what a round of tool calls may run, tells  *)
(* and returns (ToolRound), what children may (SubAgents), that the        *)
(* estimate of a conversation's size holds (ContextWindow), that the       *)
(* skills follow the disk (SkillSet) and that the configuration has each   *)
(* setting from where it should (Configuration).                           *)
(***************************************************************************)
EXTENDS MCRound, FoldTheorems

-------------------------------------------------------------------------------
(* Rounds of tool calls.  What holds between any two steps: from it the    *)
(* properties follow.                                                      *)

\* The calls that can be run, in their order.
FitCalls == Ascending({p \in DOMAIN calls : Executable(p)}, Len(calls))

\* The calls the results r are of.
CallsOf(r) == {r[k].call : k \in 1..Len(r)}

\* fits is divided among the results r, the cleared c, the batch b and the left l: those
\* past a decision are before those of the batch, and these before those left.
Divided(fits, l, b, c, r) ==
    /\ Len(fits) = Len(r) + Len(c) + Len(b) + Len(l)
    /\ \A k \in 1..Len(b) : b[k] = fits[Len(r) + Len(c) + k]
    /\ \A k \in 1..Len(l) : l[k] = fits[Len(r) + Len(c) + Len(b) + k]
    /\ ToSet(c) \cup CallsOf(r) = {fits[i] : i \in 1..(Len(r) + Len(c))}

\* They are in the order of the calls themselves.
InTurn(fits, c, r) ==
    /\ \A k \in 1..Len(r) : r[k].call = fits[k]
    /\ \A k \in 1..Len(c) : c[k] = fits[Len(r) + k]

\* A batch is one call, or safe ones, and those for the terminal.
Together(b, c) ==
    Len(b) + Len(c) > 1 =>
        front = "terminal" /\ \A p \in ToSet(b) \cup ToSet(c) : calls[p].name \in Safe

Decided == ToSet(cleared) \cup CallsOf(results)

PhaseInv ==
    /\ front \in {"terminal", "host"} /\ phase \in {"model", "batch", "confirm", "run"}
    /\ calls \in Seq(Call) /\ {left, batch, cleared} \subseteq Seq(Nat)
    /\ results \in Seq([call : Nat, how : How])
    /\ running \subseteq ToSet(cleared) /\ (phase # "run" => running = {})
    /\ phase = "run" => batch = <<>> /\ outcome \in [ToSet(cleared) -> How]
    /\ phase \in {"model", "batch"} => batch = <<>> /\ cleared = <<>>
    /\ phase = "model" => left = <<>> /\ (calls # <<>> => final = MergedResults)

ShareInv ==
    /\ Divided(FitCalls, left, batch, cleared, results)
    /\ front = "host" \/ denied = {} => InTurn(FitCalls, cleared, results)
    /\ Together(batch, cleared)

LetInv ==
    /\ denied \cup ran \subseteq Decided
    /\ denied \cap (ran \cup ToSet(cleared)) = {}
    /\ \A p \in ran \cup ToSet(cleared) : p \in yes \/ calls[p].name \in Config \cup granted
    /\ \A p \in ran : calls[p].name # "Unknown"

ListsInv ==
    /\ {confirmed, allowList, saved, granted, outside} \subseteq SUBSET Names
    /\ plan \in BOOLEAN
    /\ confirmed \cup allowList \cup saved \subseteq Config \cup granted
    /\ saved \subseteq Config \cup outside
    /\ ~plan => allowList \subseteq Config \cup outside

ToldInv ==
    /\ told \in [plan : BOOLEAN, loaded : SUBSET Names]
    /\ told.plan = plan /\ told.loaded \subseteq loaded
    /\ Obedient /\ plan /\ phase # "model" =>
          \A p \in DOMAIN calls : calls[p].name \in Info \cup {"Unknown", "", "Blocked"}
-------------------------------------------------------------------------------
(* The calls that can be run, in their order.                              *)

\* The number of the members of S up to p.
Upto(S, p) == Cardinality({q \in 1..p : q \in S})

LEMMA UptoIs ==
    ASSUME NEW S, NEW n \in Nat
    PROVE  /\ Upto(S, 0) = 0
           /\ Upto(S, n) \in Nat /\ Upto(S, n) <= n
           /\ Upto(S, n + 1) = IF n + 1 \in S THEN Upto(S, n) + 1 ELSE Upto(S, n)
<1> DEFINE A == {q \in 1..n : q \in S}
           B == {q \in 1..(n + 1) : q \in S}
<1>1. IsFiniteSet(1..n) /\ Cardinality(1..n) = n
  BY FS_Interval
<1>2. IsFiniteSet(A) /\ Cardinality(A) <= Cardinality(1..n)
  <2>1. A \subseteq 1..n
    OBVIOUS
  <2> HIDE DEF A
  <2> QED
    BY <1>1, <2>1, FS_Subset
<1>3. Cardinality(A) \in Nat /\ n + 1 \notin A
  BY <1>2, CardinalityIs
<1>4. {q \in 1..0 : q \in S} = {}
  OBVIOUS
<1>5. Cardinality({}) = 0
  BY FS_EmptySet
<1>6. CASE n + 1 \in S
  <2>1. B = A \cup {n + 1}
    BY <1>6
  <2>2. Cardinality(B) = Cardinality(A) + 1
    <3> HIDE DEF A, B
    <3> QED
      BY <1>2, <1>3, <2>1, FS_AddElement
  <2> QED
    BY <1>1, <1>2, <1>3, <1>4, <1>5, <1>6, <2>2 DEF Upto
<1>7. CASE n + 1 \notin S
  <2>1. B = A
    BY <1>7
  <2> QED
    BY <1>1, <1>2, <1>3, <1>4, <1>5, <1>7, <2>1 DEF Upto
<1> QED
  BY <1>6, <1>7

\* s has the members of S up to k, each at the place its rank gives it.
Ranked(S, k, s) ==
    /\ Len(s) = Upto(S, k)
    /\ \A i \in 1..Len(s) : s[i] \in S /\ s[i] \in 1..k /\ Upto(S, s[i]) = i
    /\ \A p \in 1..k : p \in S => Upto(S, p) \in 1..Len(s) /\ s[Upto(S, p)] = p

LEMMA RankedNext ==
    ASSUME NEW S, NEW n \in Nat, NEW k \in 1..n, NEW s \in Seq(1..n), Ranked(S, k - 1, s)
    PROVE  Ranked(S, k, IF k \in S THEN Append(s, k) ELSE s)
<1>1. k - 1 \in Nat /\ (k - 1) + 1 = k /\ k \in Nat
  OBVIOUS
<1>2. /\ Upto(S, k - 1) \in Nat
      /\ Upto(S, k) = IF k \in S THEN Upto(S, k - 1) + 1 ELSE Upto(S, k - 1)
  BY <1>1, UptoIs
<1>3. CASE k \in S
  <2> DEFINE t == Append(s, k)
  <2>1. Len(t) = Len(s) + 1 /\ t[Len(s) + 1] = k /\ \A i \in 1..Len(s) : t[i] = s[i]
    OBVIOUS
  <2>2. Len(s) \in Nat /\ Len(s) = Upto(S, k - 1)
    BY DEF Ranked
  <2> HIDE DEF t
  <2>3. Len(t) = Upto(S, k)
    BY <1>2, <1>3, <2>1, <2>2
  <2>4. ASSUME NEW i \in 1..Len(t)
        PROVE  t[i] \in S /\ t[i] \in 1..k /\ Upto(S, t[i]) = i
    <3>1. CASE i = Len(s) + 1
      BY <1>2, <1>3, <2>1, <2>2, <3>1
    <3>2. CASE i # Len(s) + 1
      <4>1. i \in 1..Len(s)
        BY <2>1, <2>2, <3>2
      <4>2. s[i] \in S /\ s[i] \in 1..(k - 1) /\ Upto(S, s[i]) = i
        BY <4>1 DEF Ranked
      <4> QED
        BY <2>1, <4>1, <4>2
    <3> QED
      BY <3>1, <3>2
  <2>5. ASSUME NEW p \in 1..k, p \in S
        PROVE  Upto(S, p) \in 1..Len(t) /\ t[Upto(S, p)] = p
    <3>1. CASE p = k
      BY <1>2, <1>3, <2>1, <2>2, <3>1
    <3>2. CASE p # k
      <4>1. p \in 1..(k - 1)
        BY <3>2
      <4>2. Upto(S, p) \in 1..Len(s) /\ s[Upto(S, p)] = p
        BY <2>5, <4>1 DEF Ranked
      <4> QED
        BY <2>1, <2>2, <4>2
    <3> QED
      BY <3>1, <3>2
  <2>6. Ranked(S, k, t)
    BY <2>3, <2>4, <2>5 DEF Ranked
  <2> QED
    BY <1>3, <2>6 DEF t
<1>4. CASE k \notin S
  BY <1>2, <1>4 DEF Ranked
<1> QED
  BY <1>3, <1>4

LEMMA AscendingIs ==
    ASSUME NEW S, NEW n \in Nat
    PROVE  Ascending(S, n) \in Seq(1..n) /\ Ranked(S, n, Ascending(S, n))
<1> DEFINE T == Seq(1..n)
           G == [x \in (1..n) \X T |-> IF x[1] \in S THEN Append(x[2], x[1]) ELSE x[2]]
           line == [p \in 1..n |-> p]
           D == DOMAIN line
<1>1. D = 1..n /\ \A i \in 1..n : line[i] = i
  OBVIOUS
<1>2. <<>> \in T /\ \A i \in 1..n, v \in T : Append(v, i) \in T
  OBVIOUS
<1>3. \A i \in 1..n, v \in T :
          G[<<i, v>>] = (IF i \in S THEN Append(v, i) ELSE v) /\ G[<<i, v>>] \in T
  BY <1>2
<1> HIDE DEF T, G, line
<1>4. Closed(G, 1..n, T)
  BY <1>3 DEF Closed
<1>5. PICK it \in [SUBSET (1..n) -> T] : IsLeftFold(it, n, <<>>, G)
  BY <1>2, <1>4, FoldLeftExists
<1>6. \A d \in SUBSET D : d # {} =>
            /\ Max(d) \in 1..n
            /\ G[<<Max(d), it[d \ {Max(d)}]>>] =
                  IF line[Max(d)] \in S THEN Append(it[d \ {Max(d)}], line[Max(d)])
                  ELSE it[d \ {Max(d)}]
  <2> SUFFICES ASSUME NEW d \in SUBSET (1..n), d # {}
               PROVE  /\ Max(d) \in 1..n
                      /\ G[<<Max(d), it[d \ {Max(d)}]>>] =
                            IF line[Max(d)] \in S THEN Append(it[d \ {Max(d)}], line[Max(d)])
                            ELSE it[d \ {Max(d)}]
    BY <1>1
  <2>1. d \in SUBSET (0..n)
    OBVIOUS
  <2>2. Max(d) \in 1..n /\ d \ {Max(d)} \in SUBSET (1..n)
    BY <2>1, MaxOf
  <2> QED
    BY <1>1, <1>3, <2>2
<1>7. it = [d \in SUBSET D |->
               IF d = {} THEN <<>>
               ELSE IF line[Max(d)] \in S THEN Append(it[d \ {Max(d)}], line[Max(d)])
                    ELSE it[d \ {Max(d)}]]
  <2>1. \A d \in SUBSET D :
            (IF d = {} THEN <<>> ELSE G[<<Max(d), it[d \ {Max(d)}]>>])
            = (IF d = {} THEN <<>>
               ELSE IF line[Max(d)] \in S THEN Append(it[d \ {Max(d)}], line[Max(d)])
                    ELSE it[d \ {Max(d)}])
    BY <1>6
  <2>2. it = [d \in SUBSET D |-> IF d = {} THEN <<>> ELSE G[<<Max(d), it[d \ {Max(d)}]>>]]
    BY <1>1, <1>5 DEF IsLeftFold
  <2> HIDE DEF D
  <2> QED
    BY <2>1, <2>2
<1>8. PICK f : /\ f = [d \in SUBSET D |->
                          IF d = {} THEN <<>>
                          ELSE IF line[Max(d)] \in S
                               THEN Append(f[d \ {Max(d)}], line[Max(d)])
                               ELSE f[d \ {Max(d)}]]
               /\ Ascending(S, n) = f[D]
  <2>1. \E f : /\ f = [d \in SUBSET D |->
                          IF d = {} THEN <<>>
                          ELSE IF line[Max(d)] \in S
                               THEN Append(f[d \ {Max(d)}], line[Max(d)])
                               ELSE f[d \ {Max(d)}]]
               /\ Ascending(S, n) = f[D]
    BY <1>7 DEF Ascending, FoldLeft, MapThenFoldSet, line
  <2> QED
    BY <2>1
<1> HIDE DEF D
<1>9. Recurses(f, n, T, <<>>, G)
  <2>1. f[{}] = <<>>
    <3>1. {} \in SUBSET D
      OBVIOUS
    <3> QED
      BY <1>8, <3>1, Zenon
  <2>2. ASSUME NEW k \in 1..n, f[1..(k - 1)] \in T
        PROVE  f[1..k] = G[<<k, f[1..(k - 1)]>>]
    <3>1. /\ 1..k \in SUBSET (1..n) /\ 1..k # {}
          /\ Max(1..k) = k /\ (1..k) \ {k} = 1..(k - 1)
      BY Segments
    <3> DEFINE q == 1..k
    <3>2. q \in SUBSET D /\ q # {} /\ Max(q) = k /\ q \ {k} = 1..(k - 1)
      BY <1>1, <3>1
    <3> HIDE DEF q
    <3>3. f[q] = IF line[Max(q)] \in S THEN Append(f[q \ {Max(q)}], line[Max(q)])
                 ELSE f[q \ {Max(q)}]
      BY <1>8, <3>2
    <3>4. f[q] = IF k \in S THEN Append(f[1..(k - 1)], k) ELSE f[1..(k - 1)]
      BY <1>1, <3>2, <3>3
    <3> QED
      BY <1>3, <2>2, <3>4 DEF q
  <2> QED
    BY <2>1, <2>2 DEF Recurses
<1>a. HasSteps(f, n, T, <<>>, G)
  BY <1>2, <1>4, <1>9, FoldSteps
<1>10. PICK c : Steps(c, n, T, <<>>, G) /\ f[1..n] = c[n]
  BY <1>a DEF HasSteps
<1> DEFINE P == {x \in (0..n) \X T : Ranked(S, x[1], x[2])}
<1>11. Kept(P, n, T, <<>>, G)
  <2>1. Ranked(S, 0, <<>>)
    BY UptoIs DEF Ranked
  <2>2. ASSUME NEW k \in 1..n, NEW v \in T, <<k - 1, v>> \in P
        PROVE  <<k, G[<<k, v>>]>> \in P
    <3>1. Ranked(S, k - 1, v) /\ k \in 0..n
      BY <2>2
    <3>2. Ranked(S, k, IF k \in S THEN Append(v, k) ELSE v)
      BY <3>1, RankedNext DEF T
    <3>3. Ranked(S, k, G[<<k, v>>]) /\ G[<<k, v>>] \in T
      BY <1>3, <3>2
    <3> QED
      BY <3>1, <3>3
  <2>3. <<0, <<>>>> \in P
    BY <1>2, <2>1
  <2> HIDE DEF P
  <2> QED
    BY <2>2, <2>3 DEF Kept
<1> HIDE DEF P
<1>12. <<n, c[n]>> \in P
  <2>1. \A k \in 0..n : <<k, c[k]>> \in P
    BY <1>10, <1>11, StepsKeep
  <2> QED
    BY <2>1
<1>13. c[n] \in T /\ Ranked(S, n, c[n])
  BY <1>12 DEF P
<1> QED
  BY <1>1, <1>8, <1>10, <1>13 DEF T
-------------------------------------------------------------------------------
Result == [call : Nat, how : How]
Denial(p) == [call |-> p, how |-> "denied"]

LEMMA TakesBatch ==
    ASSUME NEW a \in Seq(Nat), NEW l \in Seq(Nat), NEW r \in Seq(Result),
           Divided(a, l, <<>>, <<>>, r), NEW n \in 1..Len(l)
    PROVE  /\ Divided(a, SubSeq(l, n + 1, Len(l)), SubSeq(l, 1, n), <<>>, r)
           /\ SubSeq(l, n + 1, Len(l)) \in Seq(Nat) /\ SubSeq(l, 1, n) \in Seq(Nat)
           /\ Len(SubSeq(l, 1, n)) = n
           /\ \A k \in 1..n : SubSeq(l, 1, n)[k] = l[k]
<1> DEFINE b == SubSeq(l, 1, n)
           m == SubSeq(l, n + 1, Len(l))
<1>1. /\ b \in Seq(Nat) /\ Len(b) = n /\ \A k \in 1..n : b[k] = l[k]
      /\ m \in Seq(Nat) /\ Len(m) = Len(l) - n /\ \A k \in 1..(Len(l) - n) : m[k] = l[n + k]
  <2>1. /\ b \in Seq(Nat) /\ Len(b) = n /\ \A k \in 1..n : b[k] = l[k]
    OBVIOUS
  <2>2. m \in Seq(Nat) /\ Len(m) = Len(l) - n /\ \A k \in 1..(Len(l) - n) : m[k] = l[n + k]
    <3>1. Len(l) \in Nat /\ n + 1 \in Int /\ Len(l) \in Int /\ \A i \in (n + 1)..Len(l) : l[i] \in Nat
      OBVIOUS
    <3>2. /\ m \in Seq(Nat)
          /\ Len(m) = IF n + 1 <= Len(l) THEN Len(l) - (n + 1) + 1 ELSE 0
          /\ \A k \in 1..(Len(l) - (n + 1) + 1) : m[k] = l[(n + 1) + k - 1]
      BY <3>1, SubSeqProperties
    <3> HIDE DEF m
    <3>3. /\ Len(l) - (n + 1) + 1 = Len(l) - n
          /\ (IF n + 1 <= Len(l) THEN Len(l) - (n + 1) + 1 ELSE 0) = Len(l) - n
      BY <3>1
    <3>4. \A k \in 1..(Len(l) - n) : m[k] = l[n + k]
      <4> SUFFICES ASSUME NEW k \in 1..(Len(l) - n)
                   PROVE  m[k] = l[n + k]
        OBVIOUS
      <4>1. (n + 1) + k - 1 = n + k
        OBVIOUS
      <4>2. m[k] = l[(n + 1) + k - 1]
        BY <3>2, <3>3
      <4> QED
        BY <4>1, <4>2
    <3>5. m \in Seq(Nat) /\ Len(m) = Len(l) - n
      BY <3>2, <3>3
    <3> QED
      BY <3>4, <3>5
  <2> HIDE DEF b, m
  <2> QED
    BY <2>1, <2>2
<1> HIDE DEF b, m
<1>2. Divided(a, m, b, <<>>, r)
  <2>1. Len(<<>>) = 0 /\ Len(a) \in Nat /\ Len(r) \in Nat /\ Len(l) \in Nat
    OBVIOUS
  <2>2. /\ Len(a) = Len(r) + Len(l)
        /\ \A k \in 1..Len(l) : l[k] = a[Len(r) + k]
    <3>1. /\ Len(a) = Len(r) + Len(<<>>) + Len(<<>>) + Len(l)
          /\ \A k \in 1..Len(l) : l[k] = a[Len(r) + Len(<<>>) + Len(<<>>) + k]
      BY Zenon DEF Divided
    <3>2. Len(r) + Len(<<>>) + Len(<<>>) = Len(r)
      BY <2>1
    <3> QED
      BY <3>1, <3>2
  <2>3. \A k \in 1..Len(b) : b[k] = a[Len(r) + k]
    <3> SUFFICES ASSUME NEW k \in 1..Len(b)
                 PROVE  b[k] = a[Len(r) + k]
      OBVIOUS
    <3>1. k \in 1..n /\ k \in 1..Len(l)
      BY <1>1, <2>1
    <3> QED
      BY <1>1, <2>2, <3>1
  <2>4. \A k \in 1..Len(m) : m[k] = a[Len(r) + n + k]
    <3> SUFFICES ASSUME NEW k \in 1..Len(m)
                 PROVE  m[k] = a[Len(r) + n + k]
      OBVIOUS
    <3>1. n + k \in 1..Len(l) /\ m[k] = l[n + k] /\ Len(r) + (n + k) = Len(r) + n + k
      BY <1>1, <2>1
    <3> QED
      BY <2>2, <3>1
  <2>5. ToSet(<<>>) \cup CallsOf(r) = {a[i] : i \in 1..(Len(r) + Len(<<>>))}
    BY Zenon DEF Divided
  <2>6. Len(r) + Len(<<>>) = Len(r)
    BY <2>1
  <2>7. /\ Len(a) = Len(r) + Len(<<>>) + Len(b) + Len(m)
        /\ \A k \in 1..Len(b) : b[k] = a[Len(r) + Len(<<>>) + k]
        /\ \A k \in 1..Len(m) : m[k] = a[Len(r) + Len(<<>>) + Len(b) + k]
    <3>1. Len(b) = n /\ Len(r) + n + Len(m) = Len(r) + Len(l)
      BY <1>1, <2>1
    <3> QED
      BY <2>2, <2>3, <2>4, <2>6, <3>1
  <2> QED
    BY <2>5, <2>7, Zenon DEF Divided
<1> QED
  BY <1>1, <1>2 DEF b, m

LEMMA HeadOf ==
    ASSUME NEW b \in Seq(Nat), b # <<>>
    PROVE  /\ Head(b) = b[1] /\ Head(b) \in Nat /\ Tail(b) \in Seq(Nat)
           /\ Len(b) \in Nat /\ Len(b) >= 1 /\ Len(Tail(b)) = Len(b) - 1
           /\ \A k \in 1..(Len(b) - 1) : Tail(b)[k] = b[k + 1]
OBVIOUS

LEMMA AppendedTo ==
    ASSUME NEW T, NEW s \in Seq(T), NEW x \in T
    PROVE  /\ Append(s, x) \in Seq(T) /\ Len(s) \in Nat
           /\ Len(Append(s, x)) = Len(s) + 1
           /\ Append(s, x)[Len(s) + 1] = x
           /\ \A k \in 1..Len(s) : Append(s, x)[k] = s[k]
           /\ ToSet(Append(s, x)) = ToSet(s) \cup {x}
<1>1. /\ Append(s, x) \in Seq(T) /\ Len(s) \in Nat
      /\ Len(Append(s, x)) = Len(s) + 1
      /\ Append(s, x)[Len(s) + 1] = x
      /\ \A k \in 1..Len(s) : Append(s, x)[k] = s[k]
  OBVIOUS
<1> DEFINE t == Append(s, x)
<1>2. DOMAIN t = 1..(Len(s) + 1) /\ DOMAIN s = 1..Len(s)
  BY <1>1
<1> HIDE DEF t
<1>3. 1..(Len(s) + 1) = (1..Len(s)) \cup {Len(s) + 1}
  BY <1>1
<1>4. t[Len(s) + 1] = x /\ \A k \in 1..Len(s) : t[k] = s[k]
  BY <1>1 DEF t
<1>5. ToSet(t) = ToSet(s) \cup {x}
  BY <1>2, <1>3, <1>4 DEF ToSet
<1> QED
  BY <1>1, <1>5 DEF t

\* What the results say of, after one more.
LEMMA CallsOfAppended ==
    ASSUME NEW r \in Seq(Result), NEW x \in Result
    PROVE  CallsOf(Append(r, x)) = CallsOf(r) \cup {x.call}
<1> DEFINE t == Append(r, x)
<1>1. Len(r) \in Nat /\ Len(t) = Len(r) + 1 /\ t[Len(r) + 1] = x
      /\ \A k \in 1..Len(r) : t[k] = r[k]
  OBVIOUS
<1> HIDE DEF t
<1>2. 1..Len(t) = (1..Len(r)) \cup {Len(r) + 1}
  BY <1>1
<1>3. CallsOf(t) = CallsOf(r) \cup {x.call}
  BY <1>1, <1>2 DEF CallsOf
<1> QED
  BY <1>3 DEF t

LEMMA OneMore ==
    ASSUME NEW n \in Nat, NEW a
    PROVE  {a[i] : i \in 1..(n + 1)} = {a[i] : i \in 1..n} \cup {a[n + 1]}
<1>1. 1..(n + 1) = (1..n) \cup {n + 1}
  OBVIOUS
<1> QED
  BY <1>1

LEMMA Clears ==
    ASSUME NEW a \in Seq(Nat), NEW l \in Seq(Nat), NEW b \in Seq(Nat), b # <<>>,
           NEW c \in Seq(Nat), NEW r \in Seq(Result), Divided(a, l, b, c, r)
    PROVE  /\ Divided(a, l, Tail(b), Append(c, Head(b)), r)
           /\ Head(b) = a[Len(r) + Len(c) + 1]
           /\ InTurn(a, c, r) => InTurn(a, Append(c, Head(b)), r)
<1> DEFINE d == Append(c, Head(b))
           t == Tail(b)
           x == Head(b)
<1>1. /\ x = b[1] /\ x \in Nat /\ Len(b) >= 1 /\ Len(t) = Len(b) - 1 /\ Len(b) \in Nat
      /\ \A k \in 1..(Len(b) - 1) : t[k] = b[k + 1]
  BY HeadOf
<1>2. /\ Len(c) \in Nat /\ Len(d) = Len(c) + 1 /\ d[Len(c) + 1] = x
      /\ \A k \in 1..Len(c) : d[k] = c[k]
      /\ ToSet(d) = ToSet(c) \cup {x}
  BY <1>1, AppendedTo
<1>3. Len(r) \in Nat /\ Len(l) \in Nat /\ Len(a) \in Nat
  OBVIOUS
<1> HIDE DEF d, t, x
<1> DEFINE m == Len(r) + Len(c)
<1>4. /\ Len(a) = m + Len(b) + Len(l) /\ m \in Nat
      /\ \A k \in 1..Len(b) : b[k] = a[m + k]
      /\ \A k \in 1..Len(l) : l[k] = a[m + Len(b) + k]
      /\ ToSet(c) \cup CallsOf(r) = {a[i] : i \in 1..m}
  <2>1. m \in Nat
    BY <1>2, <1>3
  <2> QED
    BY <2>1, Zenon DEF Divided
<1>5. m + 1 = Len(r) + Len(d) /\ m + Len(b) = m + 1 + Len(t)
  BY <1>1, <1>2, <1>3
<1> HIDE DEF m
<1>6. x = a[m + 1]
  BY <1>1, <1>4
<1>7. ToSet(d) \cup CallsOf(r) = {a[i] : i \in 1..(m + 1)}
  <2>1. {a[i] : i \in 1..(m + 1)} = {a[i] : i \in 1..m} \cup {x}
    BY <1>4, <1>6, OneMore
  <2> QED
    BY <1>2, <1>4, <2>1, Zenon
<1>8. \A k \in 1..Len(t) : t[k] = a[m + 1 + k]
  <2> SUFFICES ASSUME NEW k \in 1..Len(t)
               PROVE  t[k] = a[m + 1 + k]
    OBVIOUS
  <2>1. Len(b) \in Nat /\ Len(t) = Len(b) - 1 /\ m \in Nat
    BY <1>1, <1>4
  <2>2. k + 1 \in 1..Len(b) /\ k \in 1..(Len(b) - 1) /\ m + (k + 1) = m + 1 + k
    BY <2>1
  <2>3. t[k] = b[k + 1]
    BY <1>1, <2>2
  <2> QED
    BY <1>4, <2>2, <2>3
<1>9. \A k \in 1..Len(l) : l[k] = a[m + 1 + Len(t) + k]
  BY <1>4, <1>5
<1>10. Len(a) = m + 1 + Len(t) + Len(l)
  BY <1>1, <1>4
<1>11. Divided(a, l, t, d, r)
  BY <1>5, <1>7, <1>8, <1>9, <1>10 DEF Divided
<1>12. ASSUME InTurn(a, c, r)
       PROVE  InTurn(a, d, r)
  <2>1. \A k \in 1..Len(d) : d[k] = a[Len(r) + k]
    <3> SUFFICES ASSUME NEW k \in 1..Len(d)
                 PROVE  d[k] = a[Len(r) + k]
      OBVIOUS
    <3>1. CASE k = Len(c) + 1
      BY <1>2, <1>3, <1>6, <3>1 DEF m
    <3>2. CASE k # Len(c) + 1
      <4>1. Len(c) \in Nat /\ Len(d) = Len(c) + 1
        BY <1>2
      <4>2. k \in 1..Len(c)
        BY <3>2, <4>1
      <4> QED
        BY <1>2, <1>12, <4>2, Zenon DEF InTurn
    <3> QED
      BY <3>1, <3>2
  <2> QED
    BY <1>12, <2>1 DEF InTurn
<1> QED
  BY <1>6, <1>11, <1>12 DEF d, t, x, m

LEMMA Denies ==
    ASSUME NEW a \in Seq(Nat), NEW l \in Seq(Nat), NEW b \in Seq(Nat), b # <<>>,
           NEW c \in Seq(Nat), NEW r \in Seq(Result), Divided(a, l, b, c, r)
    PROVE  /\ Divided(a, l, Tail(b), c, Append(r, Denial(Head(b))))
           /\ InTurn(a, c, r) /\ c = <<>> => InTurn(a, c, Append(r, Denial(Head(b))))
<1> DEFINE x == Head(b)
           t == Tail(b)
           y == Denial(x)
           s == Append(r, y)
<1>1. /\ x = b[1] /\ x \in Nat /\ Len(b) >= 1 /\ Len(t) = Len(b) - 1 /\ Len(b) \in Nat
      /\ \A k \in 1..(Len(b) - 1) : t[k] = b[k + 1]
  BY HeadOf
<1>2. y \in Result /\ y.call = x
  BY <1>1 DEF Denial, Result, How
<1> HIDE DEF x, t, y
<1>3. /\ Len(r) \in Nat /\ Len(s) = Len(r) + 1 /\ s[Len(r) + 1] = y
      /\ \A k \in 1..Len(r) : s[k] = r[k]
  BY <1>2, AppendedTo
<1>4. CallsOf(s) = CallsOf(r) \cup {x}
  BY <1>2, CallsOfAppended
<1>5. Len(c) \in Nat /\ Len(l) \in Nat /\ Len(a) \in Nat
  OBVIOUS
<1> HIDE DEF s
<1> DEFINE m == Len(r) + Len(c)
<1>6. /\ Len(a) = m + Len(b) + Len(l) /\ m \in Nat
      /\ \A k \in 1..Len(b) : b[k] = a[m + k]
      /\ \A k \in 1..Len(l) : l[k] = a[m + Len(b) + k]
      /\ ToSet(c) \cup CallsOf(r) = {a[i] : i \in 1..m}
  <2>1. m \in Nat
    BY <1>3, <1>5
  <2> QED
    BY <2>1, Zenon DEF Divided
<1>7. m + 1 = Len(s) + Len(c) /\ m + Len(b) = m + 1 + Len(t)
  BY <1>1, <1>3, <1>5
<1> HIDE DEF m
<1>8. x = a[m + 1]
  BY <1>1, <1>6
<1>9. ToSet(c) \cup CallsOf(s) = {a[i] : i \in 1..(m + 1)}
  <2>1. {a[i] : i \in 1..(m + 1)} = {a[i] : i \in 1..m} \cup {x}
    BY <1>6, <1>8, OneMore
  <2> QED
    BY <1>4, <1>6, <2>1, Zenon
<1>10. \A k \in 1..Len(t) : t[k] = a[m + 1 + k]
  <2> SUFFICES ASSUME NEW k \in 1..Len(t)
               PROVE  t[k] = a[m + 1 + k]
    OBVIOUS
  <2>1. Len(b) \in Nat /\ Len(t) = Len(b) - 1 /\ m \in Nat
    BY <1>1, <1>6
  <2>2. k + 1 \in 1..Len(b) /\ k \in 1..(Len(b) - 1) /\ m + (k + 1) = m + 1 + k
    BY <2>1
  <2>3. t[k] = b[k + 1]
    BY <1>1, <2>2
  <2> QED
    BY <1>6, <2>2, <2>3
<1>11. \A k \in 1..Len(l) : l[k] = a[m + 1 + Len(t) + k]
  BY <1>6, <1>7
<1>12. Len(a) = m + 1 + Len(t) + Len(l)
  BY <1>1, <1>6
<1>13. Divided(a, l, t, c, s)
  BY <1>7, <1>9, <1>10, <1>11, <1>12 DEF Divided
<1>14. ASSUME InTurn(a, c, r), c = <<>>
       PROVE  InTurn(a, c, s)
  <2>1. m = Len(r)
    BY <1>3, <1>14 DEF m
  <2>2. \A k \in 1..Len(s) : s[k].call = a[k]
    <3> SUFFICES ASSUME NEW k \in 1..Len(s)
                 PROVE  s[k].call = a[k]
      OBVIOUS
    <3>1. CASE k = Len(r) + 1
      BY <1>2, <1>3, <1>8, <2>1, <3>1
    <3>2. CASE k # Len(r) + 1
      <4>1. k \in 1..Len(r)
        BY <1>3, <3>2
      <4> QED
        BY <1>3, <1>14, <4>1, Zenon DEF InTurn
    <3> QED
      BY <3>1, <3>2
  <2>3. \A k \in 1..Len(c) : c[k] = a[Len(s) + k]
    BY <1>14
  <2> QED
    BY <2>2, <2>3 DEF InTurn
<1> QED
  BY <1>13, <1>14 DEF x, t, y, s

\* w has one result for each of c.
ResultsOf(w, c) == w \in Seq(Result) /\ Len(w) = Len(c) /\ \A k \in 1..Len(c) : w[k].call = c[k]

LEMMA EndsTogether ==
    ASSUME NEW a \in Seq(Nat), NEW l \in Seq(Nat), NEW c \in Seq(Nat), NEW r \in Seq(Result),
           Divided(a, l, <<>>, c, r), NEW w, ResultsOf(w, c)
    PROVE  /\ Divided(a, l, <<>>, <<>>, r \o w) /\ r \o w \in Seq(Result)
           /\ InTurn(a, c, r) => InTurn(a, <<>>, r \o w)
           /\ CallsOf(r \o w) = ToSet(c) \cup CallsOf(r)
<1> DEFINE s == r \o w
<1>a. w \in Seq(Result) /\ Len(w) = Len(c) /\ \A k \in 1..Len(c) : w[k].call = c[k]
  BY DEF ResultsOf
<1>1. /\ Len(r) \in Nat /\ Len(c) \in Nat /\ Len(l) \in Nat /\ Len(a) \in Nat
      /\ s \in Seq(Result) /\ Len(s) = Len(r) + Len(c)
      /\ \A k \in 1..(Len(r) + Len(c)) : s[k] = IF k <= Len(r) THEN r[k] ELSE w[k - Len(r)]
  <2>1. /\ s \in Seq(Result) /\ Len(s) = Len(r) + Len(w)
        /\ \A k \in 1..(Len(r) + Len(w)) : s[k] = IF k <= Len(r) THEN r[k] ELSE w[k - Len(r)]
    BY <1>a, ConcatProperties
  <2>2. Len(r) \in Nat /\ Len(c) \in Nat /\ Len(l) \in Nat /\ Len(a) \in Nat
    OBVIOUS
  <2> HIDE DEF s
  <2> QED
    BY <1>a, <2>1, <2>2
<1> HIDE DEF s
<1>2. \A k \in 1..Len(r) : k \in 1..Len(s) /\ s[k] = r[k]
  <2> SUFFICES ASSUME NEW k \in 1..Len(r)
               PROVE  k \in 1..Len(s) /\ s[k] = r[k]
    OBVIOUS
  <2>1. k \in 1..(Len(r) + Len(c)) /\ k <= Len(r)
    BY <1>1
  <2> QED
    BY <1>1, <2>1
<1>3. \A k \in 1..Len(c) : Len(r) + k \in 1..Len(s) /\ s[Len(r) + k].call = c[k]
  <2> SUFFICES ASSUME NEW k \in 1..Len(c)
               PROVE  Len(r) + k \in 1..Len(s) /\ s[Len(r) + k].call = c[k]
    OBVIOUS
  <2>1. Len(r) + k \in 1..(Len(r) + Len(c)) /\ ~ (Len(r) + k <= Len(r)) /\ (Len(r) + k) - Len(r) = k
    BY <1>1
  <2> QED
    BY <1>a, <1>1, <2>1
<1>4. \A j \in 1..Len(s) : j \in 1..Len(r) \/ \E k \in 1..Len(c) : j = Len(r) + k
  <2> SUFFICES ASSUME NEW j \in 1..Len(s), j \notin 1..Len(r)
               PROVE  \E k \in 1..Len(c) : j = Len(r) + k
    OBVIOUS
  <2>1. j - Len(r) \in 1..Len(c) /\ j = Len(r) + (j - Len(r))
    BY <1>1
  <2> QED
    BY <2>1
<1>5. DOMAIN c = 1..Len(c)
  OBVIOUS
<1>6. CallsOf(s) = ToSet(c) \cup CallsOf(r)
  <2> DEFINE A == {s[k].call : k \in 1..Len(s)}
             B == {r[k].call : k \in 1..Len(r)}
  <2>1. ToSet(c) = {c[k] : k \in 1..Len(c)}
    BY <1>5 DEF ToSet
  <2>2. ASSUME NEW x \in A PROVE x \in ToSet(c) \cup B
    <3>1. PICK j \in 1..Len(s) : x = s[j].call
      OBVIOUS
    <3>2. CASE j \in 1..Len(r)
      BY <1>2, <3>1, <3>2
    <3>3. CASE \E k \in 1..Len(c) : j = Len(r) + k
      BY <1>3, <2>1, <3>1, <3>3
    <3> QED
      BY <1>4, <3>1, <3>2, <3>3
  <2>3. ASSUME NEW x \in ToSet(c) PROVE x \in A
    BY <1>3, <2>1
  <2>4. ASSUME NEW x \in B PROVE x \in A
    BY <1>2
  <2> HIDE DEF A, B
  <2>5. A = ToSet(c) \cup B
    BY <2>2, <2>3, <2>4
  <2> QED
    BY <2>5 DEF A, B, CallsOf
<1>7. Divided(a, l, <<>>, <<>>, s)
  <2>1. Len(<<>>) = 0 /\ ToSet(<<>>) = {} /\ 1..0 = {}
    BY DEF ToSet
  <2>2. /\ Len(a) = Len(r) + Len(c) + Len(<<>>) + Len(l)
        /\ \A k \in 1..Len(l) : l[k] = a[Len(r) + Len(c) + Len(<<>>) + k]
        /\ ToSet(c) \cup CallsOf(r) = {a[i] : i \in 1..(Len(r) + Len(c))}
    BY Zenon DEF Divided
  <2>3. Len(s) + Len(<<>>) = Len(r) + Len(c)
    BY <1>1, <2>1
  <2>4. ToSet(<<>>) \cup CallsOf(s) = {a[i] : i \in 1..(Len(s) + Len(<<>>))}
    BY <1>6, <2>1, <2>2, <2>3, Zenon
  <2>5. /\ Len(a) = Len(s) + Len(<<>>) + Len(<<>>) + Len(l)
        /\ \A k \in 1..Len(l) : l[k] = a[Len(s) + Len(<<>>) + Len(<<>>) + k]
        /\ \A k \in 1..Len(<<>>) : <<>>[k] = a[Len(s) + Len(<<>>) + k]
    BY <2>1, <2>2, <2>3
  <2> QED
    BY <2>4, <2>5, Zenon DEF Divided
<1>8. ASSUME InTurn(a, c, r)
      PROVE  InTurn(a, <<>>, s)
  <2>1. /\ \A k \in 1..Len(r) : r[k].call = a[k]
        /\ \A k \in 1..Len(c) : c[k] = a[Len(r) + k]
    BY <1>8 DEF InTurn
  <2>2. \A j \in 1..Len(s) : s[j].call = a[j]
    <3> SUFFICES ASSUME NEW j \in 1..Len(s)
                 PROVE  s[j].call = a[j]
      OBVIOUS
    <3>1. CASE j \in 1..Len(r)
      BY <1>2, <2>1, <3>1
    <3>2. CASE \E k \in 1..Len(c) : j = Len(r) + k
      BY <1>3, <2>1, <3>2
    <3> QED
      BY <1>4, <3>1, <3>2
  <2>3. \A k \in 1..Len(<<>>) : <<>>[k] = a[Len(s) + k]
    OBVIOUS
  <2> QED
    BY <2>2, <2>3 DEF InTurn
<1> QED
  BY <1>1, <1>6, <1>7, <1>8 DEF s
-------------------------------------------------------------------------------
\* The place of a call among those that can be run.
TurnOf(p) == Cardinality({q \in 1..p : Executable(q)})

LEMMA FitCallsAre ==
    ASSUME calls \in Seq(Call)
    PROVE  /\ FitCalls \in Seq(Nat)
           /\ \A i \in 1..Len(FitCalls) : /\ FitCalls[i] \in DOMAIN calls
                                          /\ Executable(FitCalls[i]) /\ TurnOf(FitCalls[i]) = i
           /\ \A p \in DOMAIN calls : Executable(p) =>
                 TurnOf(p) \in 1..Len(FitCalls) /\ FitCalls[TurnOf(p)] = p
           /\ calls = <<>> => FitCalls = <<>>
<1> DEFINE n == Len(calls)
           S == {p \in DOMAIN calls : Executable(p)}
           a == Ascending(S, n)
<1>1. n \in Nat /\ DOMAIN calls = 1..n
  OBVIOUS
<1>2. a \in Seq(1..n) /\ Ranked(S, n, a)
  BY <1>1, AscendingIs
<1>3. \A p \in 1..n : Upto(S, p) = TurnOf(p)
  <2> SUFFICES ASSUME NEW p \in 1..n
               PROVE  Upto(S, p) = TurnOf(p)
    OBVIOUS
  <2>1. \A q \in 1..p : q \in DOMAIN calls
    BY <1>1
  <2>2. {q \in 1..p : q \in S} = {q \in 1..p : Executable(q)}
    BY <2>1
  <2> QED
    BY <2>2 DEF Upto, TurnOf
<1>4. \A p : p \in S <=> p \in 1..n /\ Executable(p)
  BY <1>1
<1>5. a = FitCalls
  BY DEF FitCalls
<1>6. n = 0 => Len(a) = 0
  <2>1. Upto(S, 0) = 0
    BY UptoIs
  <2> HIDE DEF a, S
  <2> QED
    BY <1>2, <2>1 DEF Ranked
<1> HIDE DEF a, S
<1>7. a \in Seq(Nat) /\ Len(a) \in Nat
  <2> DEFINE U == 1..n
  <2>1. U \subseteq Nat /\ a \in Seq(U)
    BY <1>1, <1>2
  <2> HIDE DEF n, U
  <2>2. a \in Seq(Nat)
    BY <2>1, SeqMonotonic
  <2> QED
    BY <2>2
<1>8. \A i \in 1..Len(a) : a[i] \in 1..n /\ Executable(a[i]) /\ TurnOf(a[i]) = i
  BY <1>2, <1>3, <1>4 DEF Ranked
<1>9. \A p \in 1..n : Executable(p) => TurnOf(p) \in 1..Len(a) /\ a[TurnOf(p)] = p
  BY <1>2, <1>3, <1>4 DEF Ranked
<1>10. calls = <<>> => a = <<>>
  BY <1>6, <1>7
<1> QED
  BY <1>1, <1>5, <1>7, <1>8, <1>9, <1>10

\* Calls and results when every call that can be run has been decided.
AllDecided == Divided(FitCalls, <<>>, <<>>, <<>>, results)

LEMMA MergedAre ==
    ASSUME calls \in Seq(Call), results \in Seq(Result), AllDecided
    PROVE  /\ MergedResults \in Seq(Result) /\ Len(MergedResults) = Len(calls)
           /\ \A p \in DOMAIN calls :
                 /\ Executable(p) => TurnOf(p) \in 1..Len(results) /\ MergedResults[p] = results[TurnOf(p)]
                 /\ ~ Executable(p) => MergedResults[p].call = p /\ MergedResults[p].how # "ok"
           /\ {MergedResults[p].call : p \in DOMAIN calls} = DOMAIN calls
<1>1. /\ FitCalls \in Seq(Nat)
      /\ \A i \in 1..Len(FitCalls) : /\ FitCalls[i] \in DOMAIN calls
                                     /\ Executable(FitCalls[i]) /\ TurnOf(FitCalls[i]) = i
      /\ \A p \in DOMAIN calls : Executable(p) =>
            TurnOf(p) \in 1..Len(FitCalls) /\ FitCalls[TurnOf(p)] = p
  BY FitCallsAre
<1>2. /\ Len(FitCalls) = Len(results)
      /\ CallsOf(results) = {FitCalls[i] : i \in 1..Len(results)}
  <2>1. /\ Len(FitCalls) = Len(results) + Len(<<>>) + Len(<<>>) + Len(<<>>)
        /\ ToSet(<<>>) \cup CallsOf(results)
              = {FitCalls[i] : i \in 1..(Len(results) + Len(<<>>))}
    BY Zenon DEF Divided, AllDecided
  <2>2. Len(<<>>) = 0 /\ ToSet(<<>>) = {} /\ Len(results) \in Nat
    BY DEF ToSet
  <2>3. /\ Len(results) + Len(<<>>) = Len(results)
        /\ Len(results) + Len(<<>>) + Len(<<>>) + Len(<<>>) = Len(results)
    BY <2>2
  <2>4. Len(FitCalls) = Len(results)
    BY <2>1, <2>3
  <2> QED
    BY <2>1, <2>2, <2>3, <2>4, Zenon
<1>3. \A p \in DOMAIN calls :
          MergedResults[p] = IF ~ Executable(p) THEN Synthetic(p) ELSE results[TurnOf(p)]
  BY DEF MergedResults, TurnOf
<1>4. \A p : Synthetic(p).call = p /\ Synthetic(p).how \in {"malformed", "refused"}
  BY DEF Synthetic
<1>5. \A p \in DOMAIN calls :
         /\ Executable(p) => TurnOf(p) \in 1..Len(results) /\ MergedResults[p] = results[TurnOf(p)]
         /\ ~ Executable(p) => MergedResults[p].call = p /\ MergedResults[p].how # "ok"
  BY <1>1, <1>2, <1>3, <1>4
<1>6. DOMAIN calls = 1..Len(calls) /\ Len(calls) \in Nat
  OBVIOUS
<1>7. \A p \in DOMAIN calls : MergedResults[p] \in Result
  <2> SUFFICES ASSUME NEW p \in DOMAIN calls
               PROVE  MergedResults[p] \in Result
    OBVIOUS
  <2>1. CASE Executable(p)
    BY <1>5, <2>1
  <2>2. CASE ~ Executable(p)
    <3>1. MergedResults[p] = Synthetic(p) /\ p \in Nat
      BY <1>3, <1>6, <2>2
    <3>2. \A h \in How : [call |-> p, how |-> h] \in Result
      BY <3>1 DEF Result
    <3>3. (IF calls[p].name = "" THEN "malformed" ELSE "refused") \in How
      BY DEF How
    <3>4. Synthetic(p) \in Result
      BY <3>2, <3>3, Zenon DEF Synthetic
    <3> QED
      BY <3>1, <3>4
  <2> QED
    BY <2>1, <2>2
<1>8. MergedResults \in [1..Len(calls) -> Result]
  BY <1>6, <1>7 DEF MergedResults
<1>9. MergedResults \in Seq(Result) /\ Len(MergedResults) = Len(calls)
  BY <1>6, <1>8
<1>10. ASSUME NEW x \in DOMAIN calls
       PROVE  \E p \in DOMAIN calls : MergedResults[p].call = x
  <2>1. CASE ~ Executable(x)
    BY <1>5, <2>1
  <2>2. CASE Executable(x)
    <3>1. TurnOf(x) \in 1..Len(results) /\ FitCalls[TurnOf(x)] = x
      BY <1>1, <1>2, <2>2
    <3>2. x \in {FitCalls[i] : i \in 1..Len(results)}
      BY <3>1
    <3>3. PICK k \in 1..Len(results) : results[k].call = x
      BY <1>2, <3>2 DEF CallsOf
    <3>4. FitCalls[k] \in DOMAIN calls /\ Executable(FitCalls[k]) /\ TurnOf(FitCalls[k]) = k
      BY <1>1, <1>2
    <3> QED
      BY <1>5, <3>3, <3>4
  <2> QED
    BY <2>1, <2>2
<1>11. ASSUME NEW p \in DOMAIN calls
       PROVE  MergedResults[p].call \in DOMAIN calls
  <2>1. CASE ~ Executable(p)
    BY <1>5, <2>1
  <2>2. CASE Executable(p)
    <3>1. TurnOf(p) \in 1..Len(results) /\ MergedResults[p] = results[TurnOf(p)]
      BY <1>5, <2>2
    <3>2. results[TurnOf(p)].call \in CallsOf(results)
      BY <3>1 DEF CallsOf
    <3>3. PICK i \in 1..Len(results) : results[TurnOf(p)].call = FitCalls[i]
      BY <1>2, <3>2
    <3> QED
      BY <1>1, <1>2, <3>1, <3>3
  <2> QED
    BY <2>1, <2>2
<1>12. {MergedResults[p].call : p \in DOMAIN calls} = DOMAIN calls
  BY <1>10, <1>11
<1> QED
  BY <1>5, <1>9, <1>12
-------------------------------------------------------------------------------
(* The calls of a round, from one place to the next.                       *)

CallsInv == PhaseInv /\ ShareInv

LEMMA NothingShared ==
    ASSUME NEW a \in Seq(Nat)
    PROVE  Divided(a, a, <<>>, <<>>, <<>>) /\ InTurn(a, <<>>, <<>>) /\ Together(<<>>, <<>>)
<1>1. Len(<<>>) = 0 /\ ToSet(<<>>) = {} /\ 1..0 = {} /\ Len(a) \in Nat
  BY DEF ToSet
<1>2. /\ Len(a) = Len(<<>>) + Len(<<>>) + Len(<<>>) + Len(a)
      /\ \A k \in 1..Len(a) : a[k] = a[Len(<<>>) + Len(<<>>) + Len(<<>>) + k]
      /\ Len(<<>>) + Len(<<>>) = 0
  BY <1>1
<1>3. ToSet(<<>>) \cup CallsOf(<<>>) = {a[i] : i \in 1..(Len(<<>>) + Len(<<>>))}
  BY <1>1, <1>2 DEF CallsOf
<1>4. Divided(a, a, <<>>, <<>>, <<>>)
  BY <1>1, <1>2, <1>3 DEF Divided
<1> QED
  BY <1>1, <1>4 DEF InTurn, Together

LEMMA EmptyFits == ASSUME calls = <<>> PROVE FitCalls = <<>>
<1>1. calls \in Seq(Call)
  OBVIOUS
<1> QED
  BY <1>1, FitCallsAre

LEMMA CallsStart == Init => CallsInv
<1> SUFFICES ASSUME Init
             PROVE  CallsInv
  OBVIOUS
<1>1. <<>> \in Seq(Nat) /\ <<>> \in Seq(Call) /\ <<>> \in Seq([call : Nat, how : How])
  OBVIOUS
<1>2. FitCalls = <<>>
  BY EmptyFits DEF Init
<1>3. ShareInv
  BY <1>1, <1>2, NothingShared DEF Init, ShareInv
<1>4. PhaseInv
  BY <1>1 DEF Init, PhaseInv
<1> QED
  BY <1>3, <1>4 DEF CallsInv

LEMMA CallsCallTools ==
    ASSUME CallsInv, CallTools
    PROVE  CallsInv'
<1>a. PICK n \in 1..MaxCalls :
            \E cs \in [1..n -> {c \in Call : c.name \in Callable}] :
               calls' = cs /\ left' = Ascending({p \in 1..n : Fit(cs[p])}, n)
  BY Zenon DEF CallTools
<1>1. PICK cs \in [1..n -> {c \in Call : c.name \in Callable}] :
            calls' = cs /\ left' = Ascending({p \in 1..n : Fit(cs[p])}, n)
  BY <1>a, Zenon
<1>2. n \in Nat
  BY ConstantsAssumption
<1>3. cs \in Seq(Call) /\ Len(cs) = n /\ DOMAIN cs = 1..n
  BY <1>2
<1>4. left' = FitCalls'
  <2>1. {p \in DOMAIN calls' : Executable(p)'} = {p \in 1..n : Fit(cs[p])}
    BY <1>1, <1>3 DEF Executable
  <2>2. Len(calls') = n
    BY <1>1, <1>3
  <2> QED
    BY <1>1, <2>1, <2>2 DEF FitCalls
<1>5. left' \in Seq(Nat)
  <2> DEFINE S == {p \in 1..n : Fit(cs[p])}
             U == 1..n
             a == Ascending(S, n)
  <2>1. a \in Seq(U) /\ U \subseteq Nat
    BY <1>2, AscendingIs
  <2>2. a = left'
    BY <1>1
  <2> HIDE DEF a, U, S
  <2> QED
    BY <2>1, <2>2, SeqMonotonic
<1>6. /\ batch' = <<>> /\ cleared' = <<>> /\ results' = <<>> /\ running' = {}
      /\ phase' = "batch" /\ UNCHANGED front
  BY DEF CallTools, CallsInv, PhaseInv
<1>7. <<>> \in Seq(Nat) /\ <<>> \in Seq([call : Nat, how : How])
  OBVIOUS
<1>8. ShareInv'
  <2>1. Divided(FitCalls', FitCalls', <<>>, <<>>, <<>>) /\ InTurn(FitCalls', <<>>, <<>>)
    BY <1>4, <1>5, NothingShared
  <2>2. Together(<<>>, <<>>)'
    BY DEF Together
  <2> QED
    BY <1>4, <1>6, <2>1, <2>2 DEF ShareInv
<1>9. PhaseInv'
  BY <1>1, <1>3, <1>5, <1>6, <1>7 DEF PhaseInv, CallsInv
<1> QED
  BY <1>8, <1>9 DEF CallsInv


LEMMA BatchSize ==
    ASSUME left \in Seq(Nat), left # <<>>
    PROVE  \E n \in DOMAIN left :
              /\ \A k \in 2..n : InBatch(left[k - 1], left[k])
              /\ n < Len(left) => ~ InBatch(left[n], left[n + 1])
<1> DEFINE m == Len(left)
           S == {n \in 1..m : \A k \in 2..n : InBatch(left[k - 1], left[k])}
<1>1. m \in Nat /\ m >= 1 /\ DOMAIN left = 1..m
  OBVIOUS
<1> HIDE DEF m
<1>2. 1 \in S
  BY <1>1
<1>3. S \in SUBSET (0..m) /\ S # {}
  <2>1. S \subseteq 1..m /\ 1..m \subseteq 0..m
    BY <1>1
  <2> HIDE DEF S
  <2> QED
    BY <1>2, <2>1
<1>4. Max(S) \in S /\ \A x \in S : x <= Max(S)
  BY <1>1, <1>3, MaxOf
<1>5. PICK n \in S : \A x \in S : x <= n
  BY <1>4
<1>6. ASSUME n < m, InBatch(left[n], left[n + 1])
      PROVE  FALSE
  <2>1. n \in 1..m /\ n + 1 \in 1..m
    BY <1>1, <1>6
  <2>2. ASSUME NEW k \in 2..(n + 1)
        PROVE  InBatch(left[k - 1], left[k])
    <3>1. CASE k = n + 1
      <4>1. k - 1 = n
        BY <2>1, <3>1
      <4> QED
        BY <1>6, <3>1, <4>1
    <3>2. CASE k # n + 1
      <4>1. k \in 2..n
        BY <2>1, <3>2
      <4> QED
        BY <4>1
    <3> QED
      BY <3>1, <3>2
  <2>3. n + 1 \in S
    BY <2>1, <2>2
  <2>4. n + 1 <= n
    BY <1>5, <2>3
  <2> QED
    BY <2>1, <2>4
<1> QED
  BY <1>1, <1>5, <1>6 DEF m

LEMMA FitsStay == calls' = calls => FitCalls' = FitCalls
BY DEF FitCalls, Executable

LEMMA CallsNextBatch ==
    ASSUME CallsInv, NextBatch
    PROVE  CallsInv'
<1>1. left \in Seq(Nat) /\ left # <<>> /\ batch = <<>> /\ cleared = <<>> /\ calls \in Seq(Call)
      /\ results \in Seq(Result) /\ Divided(FitCalls, left, <<>>, <<>>, results)
  BY DEF CallsInv, PhaseInv, ShareInv, NextBatch, Result
<1> DEFINE n == CHOOSE n \in DOMAIN left :
                   /\ \A k \in 2..n : InBatch(left[k - 1], left[k])
                   /\ n < Len(left) => ~InBatch(left[n], left[n + 1])
           b == SubSeq(left, 1, n)
           m == SubSeq(left, n + 1, Len(left))
<1>2. n \in DOMAIN left /\ \A k \in 2..n : InBatch(left[k - 1], left[k])
  BY <1>1, BatchSize, Zenon
<1>3. batch' = b /\ left' = m
  BY DEF NextBatch
<1> HIDE DEF n
<1>4. n \in 1..Len(left) /\ FitCalls \in Seq(Nat)
  BY <1>1, <1>2, FitCallsAre
<1>5. /\ Divided(FitCalls, m, b, <<>>, results)
      /\ m \in Seq(Nat) /\ b \in Seq(Nat) /\ Len(b) = n
      /\ \A k \in 1..n : b[k] = left[k]
  BY <1>1, <1>4, TakesBatch
<1> HIDE DEF b, m
<1>6. /\ cleared' = <<>> /\ phase' = "confirm"
      /\ UNCHANGED <<front, calls, running, outcome, results, final, denied>>
  BY DEF NextBatch, seen
<1>7. FitCalls' = FitCalls
  BY <1>6, FitsStay
<1>8. Together(batch, cleared)'
  <2> SUFFICES ASSUME Len(b) + Len(<<>>) > 1
               PROVE  front = "terminal" /\ \A p \in ToSet(b) \cup ToSet(<<>>) : calls[p].name \in Safe
    BY <1>3, <1>6 DEF Together
  <2>1. n > 1 /\ DOMAIN b = 1..n /\ n \in Nat
    BY <1>4, <1>5
  <2>2. InBatch(left[2 - 1], left[2])
    BY <1>2, <2>1
  <2>3. ASSUME NEW k \in 1..n
        PROVE  calls[left[k]].name \in Safe
    <3>1. CASE k = 1
      BY <2>2, <3>1 DEF InBatch
    <3>2. CASE k # 1
      <4>1. k \in 2..n
        BY <2>1, <3>2
      <4>2. InBatch(left[k - 1], left[k])
        BY <1>2, <4>1
      <4> QED
        BY <4>2 DEF InBatch
    <3> QED
      BY <3>1, <3>2
  <2>4. \A p \in ToSet(b) : calls[p].name \in Safe
    BY <1>5, <2>1, <2>3 DEF ToSet
  <2>5. ToSet(<<>>) = {}
    BY DEF ToSet
  <2> QED
    BY <2>2, <2>4, <2>5 DEF InBatch
<1>9. front = "host" \/ denied = {} => InTurn(FitCalls, <<>>, results)
  BY <1>1 DEF CallsInv, ShareInv
<1>10. ShareInv'
  BY <1>3, <1>5, <1>6, <1>7, <1>8, <1>9 DEF ShareInv
<1>11. PhaseInv'
  BY <1>1, <1>3, <1>5, <1>6 DEF CallsInv, PhaseInv, NextBatch
<1> QED
  BY <1>10, <1>11 DEF CallsInv

\* What is about to be decided is the next of the calls that can be run.
LEMMA ThisIs ==
    ASSUME CallsInv, Confirming
    PROVE  /\ calls \in Seq(Call) /\ FitCalls \in Seq(Nat) /\ left \in Seq(Nat) /\ batch \in Seq(Nat)
           /\ batch # <<>> /\ cleared \in Seq(Nat) /\ results \in Seq(Result)
           /\ Divided(FitCalls, left, batch, cleared, results)
           /\ This \in Nat /\ This \in DOMAIN calls /\ Executable(This) /\ This \notin Decided
<1>1. /\ calls \in Seq(Call) /\ left \in Seq(Nat) /\ batch \in Seq(Nat)
      /\ batch # <<>> /\ cleared \in Seq(Nat) /\ results \in Seq(Result)
      /\ Divided(FitCalls, left, batch, cleared, results)
  BY DEF CallsInv, PhaseInv, ShareInv, Confirming, Result
<1>2. FitCalls \in Seq(Nat)
  BY <1>1, FitCallsAre
<1>3. \A i \in 1..Len(FitCalls) : /\ FitCalls[i] \in DOMAIN calls /\ Executable(FitCalls[i])
                                  /\ TurnOf(FitCalls[i]) = i
  BY <1>1, FitCallsAre
<1> DEFINE n == Len(results) + Len(cleared)
<1>4. This = FitCalls[n + 1]
  BY <1>1, <1>2, Clears DEF This
<1>5. n \in Nat /\ n + 1 \in 1..Len(FitCalls)
  <2>1. Len(results) \in Nat /\ Len(cleared) \in Nat /\ Len(left) \in Nat /\ Len(batch) \in Nat /\ Len(batch) >= 1
    BY <1>1
  <2>2. Len(FitCalls) = Len(results) + Len(cleared) + Len(batch) + Len(left)
    BY <1>1 DEF Divided
  <2> QED
    BY <2>1, <2>2
<1>6. Decided = {FitCalls[i] : i \in 1..n}
  BY <1>1, Zenon DEF Divided, Decided
<1> HIDE DEF n
<1>7. ASSUME This \in Decided
      PROVE  FALSE
  <2>1. PICK i \in 1..n : FitCalls[i] = FitCalls[n + 1]
    BY <1>4, <1>6, <1>7
  <2>2. i \in 1..Len(FitCalls) /\ i # n + 1
    BY <1>5
  <2> QED
    BY <1>3, <1>5, <2>1, <2>2
<1>8. This \in DOMAIN calls /\ Executable(This)
  BY <1>3, <1>4, <1>5
<1>9. This \in Nat
  BY <1>2, <1>4, <1>5
<1> QED
  BY <1>1, <1>2, <1>7, <1>8, <1>9

LEMMA TogetherStays ==
    ASSUME NEW b \in Seq(Nat), b # <<>>, NEW c \in Seq(Nat), Together(b, c)
    PROVE  Together(Tail(b), c) /\ Together(Tail(b), Append(c, Head(b)))
           /\ (front = "host" => c = <<>>)
<1> DEFINE t == Tail(b)
           x == Head(b)
           d == Append(c, x)
<1>1. /\ x = b[1] /\ x \in Nat /\ Len(b) \in Nat /\ Len(b) >= 1 /\ Len(t) = Len(b) - 1
      /\ \A k \in 1..(Len(b) - 1) : t[k] = b[k + 1] /\ t \in Seq(Nat)
  BY HeadOf
<1>2. Len(c) \in Nat /\ Len(d) = Len(c) + 1 /\ ToSet(d) = ToSet(c) \cup {x}
  BY <1>1, AppendedTo
<1>3. ToSet(t) \subseteq ToSet(b) /\ x \in ToSet(b)
  <2>1. t \in Seq(Nat) /\ DOMAIN t = 1..(Len(b) - 1) /\ DOMAIN b = 1..Len(b)
    BY <1>1, HeadOf
  <2>2. \A k \in DOMAIN t : k + 1 \in DOMAIN b /\ t[k] = b[k + 1]
    BY <1>1, <2>1
  <2>3. 1 \in DOMAIN b
    BY <1>1, <2>1
  <2> HIDE DEF t, x
  <2> QED
    BY <1>1, <2>2, <2>3 DEF ToSet
<1> HIDE DEF t, x, d
<1>4. Together(t, c) /\ Together(t, d)
  <2>1. CASE Len(b) + Len(c) > 1
    BY <1>1, <1>2, <1>3, <2>1 DEF Together
  <2>2. CASE ~ (Len(b) + Len(c) > 1)
    <3>1. ~ (Len(t) + Len(c) > 1) /\ ~ (Len(t) + Len(d) > 1)
      BY <1>1, <1>2, <2>2
    <3> QED
      BY <3>1 DEF Together
  <2> QED
    BY <2>1, <2>2
<1>5. ASSUME front = "host"
      PROVE  c = <<>>
  <2>1. ~ (Len(b) + Len(c) > 1)
    BY <1>5 DEF Together
  <2>2. Len(c) = 0
    BY <1>1, <1>2, <2>1
  <2> QED
    BY <2>2
<1> QED
  BY <1>4, <1>5 DEF t, x, d

LEMMA CallsConfirm ==
    ASSUME CallsInv, Confirm
    PROVE  CallsInv'
<1>1. Confirming
  BY DEF Confirm
<1>2. /\ calls \in Seq(Call) /\ FitCalls \in Seq(Nat) /\ left \in Seq(Nat) /\ batch \in Seq(Nat)
      /\ batch # <<>> /\ cleared \in Seq(Nat) /\ results \in Seq(Result)
      /\ Divided(FitCalls, left, batch, cleared, results)
      /\ This \in Nat
  BY <1>1, ThisIs
<1>3. /\ UNCHANGED <<front, phase, calls, left, running, outcome, final>>
      /\ phase = "confirm" /\ running = {}
  BY <1>1 DEF Confirm, Confirming, CallsInv, PhaseInv
<1>4. FitCalls' = FitCalls
  BY <1>3, FitsStay
<1>5. Together(Tail(batch), cleared) /\ Together(Tail(batch), Append(cleared, This))
      /\ (front = "host" => cleared = <<>>)
  BY <1>2, TogetherStays DEF CallsInv, ShareInv, This
<1>6. \A b, c : Together(b, c) => (front' = front /\ calls' = calls =>
         (Len(b) + Len(c) > 1 => front' = "terminal" /\ \A p \in ToSet(b) \cup ToSet(c) : calls'[p].name \in Safe))
  BY DEF Together
<1>7. Tail(batch) \in Seq(Nat) /\ Append(cleared, This) \in Seq(Nat)
  BY <1>2
<1>8. CASE Clear
  <2>1. cleared' = Append(cleared, This) /\ batch' = Tail(batch) /\ UNCHANGED <<results, denied>>
    BY <1>8 DEF Clear
  <2>2. /\ Divided(FitCalls, left, Tail(batch), Append(cleared, This), results)
        /\ InTurn(FitCalls, cleared, results) => InTurn(FitCalls, Append(cleared, This), results)
    BY <1>2, Clears DEF This
  <2>3. Together(batch, cleared)'
    BY <1>3, <1>5, <2>1 DEF Together
  <2>4. ShareInv'
    BY <1>3, <1>4, <2>1, <2>2, <2>3 DEF CallsInv, ShareInv
  <2>5. PhaseInv'
    BY <1>2, <1>3, <1>7, <2>1 DEF CallsInv, PhaseInv
  <2> QED
    BY <2>4, <2>5 DEF CallsInv
<1>9. CASE DenyCall
  <2>1. /\ results' = Append(results, Denial(This)) /\ batch' = Tail(batch)
        /\ denied' = denied \cup {This} /\ UNCHANGED cleared
    BY <1>9 DEF DenyCall, Denial
  <2>2. /\ Divided(FitCalls, left, Tail(batch), cleared, Append(results, Denial(This)))
        /\ InTurn(FitCalls, cleared, results) /\ cleared = <<>> =>
              InTurn(FitCalls, cleared, Append(results, Denial(This)))
    BY <1>2, Denies DEF This
  <2>3. Together(batch, cleared)'
    BY <1>3, <1>5, <2>1 DEF Together
  <2>4. Append(results, Denial(This)) \in Seq(Result)
    <3>1. Denial(This) \in Result
      BY <1>2 DEF Denial, Result, How
    <3> QED
      BY <1>2, <3>1
  <2>5. denied' # {}
    BY <2>1
  <2>6. ShareInv'
    BY <1>3, <1>4, <1>5, <2>1, <2>2, <2>3, <2>5 DEF CallsInv, ShareInv
  <2>7. PhaseInv'
    BY <1>2, <1>3, <1>7, <2>1, <2>4 DEF CallsInv, PhaseInv, Result
  <2> QED
    BY <2>6, <2>7 DEF CallsInv
<1> QED
  BY <1>8, <1>9 DEF Confirm

LEMMA CallsDropped ==
    ASSUME CallsInv, Dropped
    PROVE  CallsInv'
<1>1. /\ phase' = "model" /\ running' = {} /\ batch' = <<>> /\ cleared' = <<>> /\ left' = <<>>
      /\ results' = <<>> /\ calls' = <<>> /\ UNCHANGED front
  BY DEF Dropped
<1>2. <<>> \in Seq(Nat) /\ <<>> \in Seq(Call) /\ <<>> \in Seq([call : Nat, how : How])
  OBVIOUS
<1>3. FitCalls' = <<>>
  <2>1. \A p \in DOMAIN <<>> : FALSE
    OBVIOUS
  <2>2. {p \in DOMAIN calls' : Executable(p)'} = {} /\ Len(calls') = 0
    BY <1>1
  <2>3. FitCalls' = Ascending({}, 0)
    BY <2>2 DEF FitCalls
  <2>4. Ascending({}, 0) \in Seq(1..0) /\ Len(Ascending({}, 0)) = Upto({}, 0) /\ Upto({}, 0) = 0
    BY AscendingIs, UptoIs DEF Ranked
  <2> QED
    BY <2>3, <2>4
<1>4. Together(<<>>, <<>>)'
  BY DEF Together
<1>5. ShareInv'
  BY <1>1, <1>2, <1>3, <1>4, NothingShared DEF ShareInv
<1>6. PhaseInv'
  BY <1>1, <1>2 DEF CallsInv, PhaseInv
<1> QED
  BY <1>5, <1>6 DEF CallsInv

LEMMA CallsStartRun ==
    ASSUME CallsInv, Start
    PROVE  CallsInv'
<1>1. /\ UNCHANGED <<front, calls, left, batch, cleared, results, denied>> /\ batch = <<>>
      /\ running' = ToSet(cleared) /\ phase' = "run" /\ outcome' = [p \in ToSet(cleared) |-> "ok"]
  BY DEF Start, seen
<1>2. FitCalls' = FitCalls
  BY <1>1, FitsStay
<1>3. ShareInv'
  BY <1>1, <1>2 DEF CallsInv, ShareInv, Together
<1>4. outcome' \in [ToSet(cleared) -> How]
  BY <1>1 DEF How
<1>5. PhaseInv'
  BY <1>1, <1>4 DEF CallsInv, PhaseInv
<1> QED
  BY <1>3, <1>5 DEF CallsInv

LEMMA CallsEnds ==
    ASSUME CallsInv, NEW p \in running, NEW how \in How, Ends(p, how)
    PROVE  CallsInv'
<1>1. /\ UNCHANGED <<front, phase, calls, left, batch, cleared, results, denied>>
      /\ running' = running \ {p} /\ outcome' = [outcome EXCEPT ![p] = how]
  BY DEF Ends, rights
<1>2. phase = "run" /\ outcome \in [ToSet(cleared) -> How]
  BY DEF CallsInv, PhaseInv
<1>3. FitCalls' = FitCalls
  BY <1>1, FitsStay
<1>4. ShareInv'
  BY <1>1, <1>3 DEF CallsInv, ShareInv, Together
<1>5. outcome' \in [ToSet(cleared) -> How]
  BY <1>1, <1>2
<1>6. PhaseInv'
  BY <1>1, <1>2, <1>5 DEF CallsInv, PhaseInv
<1> QED
  BY <1>4, <1>6 DEF CallsInv

\* The results of a batch are those of its calls.
LEMMA BatchResults ==
    ASSUME CallsInv, EndBatch
    PROVE  /\ Divided(FitCalls, left, <<>>, <<>>, results') /\ results' \in Seq(Result)
           /\ InTurn(FitCalls, cleared, results) => InTurn(FitCalls, <<>>, results')
           /\ CallsOf(results') = Decided
<1> DEFINE w == [k \in DOMAIN cleared |-> [call |-> cleared[k], how |-> outcome[cleared[k]]]]
<1>1. results' = results \o w /\ phase = "run"
  BY DEF EndBatch
<1>2. /\ calls \in Seq(Call) /\ left \in Seq(Nat) /\ cleared \in Seq(Nat) /\ results \in Seq(Result)
      /\ outcome \in [ToSet(cleared) -> How] /\ Divided(FitCalls, left, <<>>, cleared, results)
  BY <1>1 DEF CallsInv, PhaseInv, ShareInv, Result
<1>3. FitCalls \in Seq(Nat)
  BY <1>2, FitCallsAre
<1>4. Len(cleared) \in Nat /\ DOMAIN cleared = 1..Len(cleared)
  BY <1>2
<1>5. \A k \in 1..Len(cleared) : w[k] = [call |-> cleared[k], how |-> outcome[cleared[k]]]
                                 /\ w[k] \in Result /\ w[k].call = cleared[k]
  <2> SUFFICES ASSUME NEW k \in 1..Len(cleared)
               PROVE  w[k] = [call |-> cleared[k], how |-> outcome[cleared[k]]]
                      /\ w[k] \in Result /\ w[k].call = cleared[k]
    OBVIOUS
  <2>1. w[k] = [call |-> cleared[k], how |-> outcome[cleared[k]]] /\ cleared[k] \in Nat
    BY <1>2, <1>4
  <2>2. outcome[cleared[k]] \in How
    BY <1>2, <1>4 DEF ToSet
  <2> HIDE DEF w
  <2>3. w[k] \in Result /\ w[k].call = cleared[k]
    BY <2>1, <2>2 DEF Result
  <2> QED
    BY <2>1, <2>3
<1>6. w \in [1..Len(cleared) -> Result]
  BY <1>4, <1>5
<1> HIDE DEF w
<1>7. w \in Seq(Result) /\ Len(w) = Len(cleared)
  BY <1>4, <1>6
<1>8. ResultsOf(w, cleared)
  BY <1>5, <1>7 DEF ResultsOf
<1>9. /\ Divided(FitCalls, left, <<>>, <<>>, results \o w) /\ results \o w \in Seq(Result)
      /\ InTurn(FitCalls, cleared, results) => InTurn(FitCalls, <<>>, results \o w)
      /\ CallsOf(results \o w) = ToSet(cleared) \cup CallsOf(results)
  BY <1>2, <1>3, <1>8, EndsTogether
<1> QED
  BY <1>1, <1>9, Zenon DEF Decided

LEMMA CallsEndBatch ==
    ASSUME CallsInv, EndBatch
    PROVE  CallsInv'
<1>1. /\ phase = "run" /\ running = {} /\ batch = <<>> /\ phase' = "batch" /\ cleared' = <<>>
      /\ UNCHANGED <<front, calls, left, batch, running, denied>>
  BY DEF EndBatch, seen, CallsInv, PhaseInv
<1>2. FitCalls' = FitCalls
  BY <1>1, FitsStay
<1>3. /\ Divided(FitCalls, left, <<>>, <<>>, results') /\ results' \in Seq(Result)
      /\ InTurn(FitCalls, cleared, results) => InTurn(FitCalls, <<>>, results')
  BY BatchResults
<1>4. Together(<<>>, <<>>)'
  BY DEF Together
<1>5. ShareInv'
  BY <1>1, <1>2, <1>3, <1>4 DEF CallsInv, ShareInv
<1>6. PhaseInv'
  BY <1>1, <1>3 DEF CallsInv, PhaseInv, Result
<1> QED
  BY <1>5, <1>6 DEF CallsInv

LEMMA CallsEndRound ==
    ASSUME CallsInv, EndRound
    PROVE  CallsInv' /\ AllDecided
<1>1. /\ phase = "batch" /\ left = <<>> /\ final' = MergedResults /\ phase' = "model"
      /\ batch = <<>> /\ cleared = <<>>
      /\ UNCHANGED <<front, calls, left, batch, cleared, running, outcome, results, denied>>
  BY DEF EndRound, round, seen, CallsInv, PhaseInv
<1>2. FitCalls' = FitCalls
  BY <1>1, FitsStay
<1>3. ShareInv'
  BY <1>1, <1>2 DEF CallsInv, ShareInv, Together
<1>4. MergedResults' = MergedResults
  BY <1>1 DEF MergedResults, Executable, Synthetic
<1>5. PhaseInv'
  BY <1>1, <1>4 DEF CallsInv, PhaseInv
<1>6. AllDecided
  BY <1>1 DEF CallsInv, ShareInv, AllDecided
<1> QED
  BY <1>3, <1>5, <1>6 DEF CallsInv

LEMMA CallsStep ==
    ASSUME CallsInv, [Next]_vars
    PROVE  CallsInv'
<1>1. CASE UNCHANGED vars
  <2>1. /\ UNCHANGED <<front, phase, calls, left, batch, cleared, running, outcome, results>>
        /\ UNCHANGED <<final, denied>>
    BY <1>1 DEF vars, round, seen
  <2>2. FitCalls' = FitCalls /\ MergedResults' = MergedResults
    BY <2>1, FitsStay DEF MergedResults, Executable, Synthetic
  <2> QED
    BY <2>1, <2>2 DEF CallsInv, PhaseInv, ShareInv, Together
<1>2. CASE CallTools
  BY <1>2, CallsCallTools
<1>3. CASE NextBatch
  BY <1>3, CallsNextBatch
<1>4. CASE Confirm
  BY <1>4, CallsConfirm
<1>5. CASE Quit
  BY <1>5, CallsDropped DEF Quit
<1>6. CASE Cancel
  BY <1>6, CallsDropped DEF Cancel
<1>7. CASE Start
  BY <1>7, CallsStartRun
<1>8. ASSUME NEW p \in running, Vetoed(p) \/ Fails(p) \/ Works(p)
      PROVE  CallsInv'
  <2>1. PICK how \in How : Ends(p, how)
    BY <1>8 DEF Vetoed, Fails, Works, How
  <2> QED
    BY <2>1, CallsEnds
<1>9. CASE EndBatch
  BY <1>9, CallsEndBatch
<1>10. CASE EndRound
  BY <1>10, CallsEndRound
<1> QED
  BY <1>1, <1>2, <1>3, <1>4, <1>5, <1>6, <1>7, <1>8, <1>9, <1>10 DEF Next
-------------------------------------------------------------------------------
(* What runs is let.                                                       *)

LetsInv == CallsInv /\ LetInv

LEMMA LetStart == Init => LetsInv
BY CallsStart DEF Init, LetsInv, LetInv, Decided, ToSet, CallsOf

\* What the rounds have granted may grow.
LEMMA LetKept ==
    ASSUME LetInv, UNCHANGED <<denied, yes, calls, ran, cleared>>, Decided' = Decided, granted \subseteq granted'
    PROVE  LetInv'
BY DEF LetInv

LEMMA LetConfirm ==
    ASSUME LetsInv, ListsInv, Confirm
    PROVE  LetInv'
<1>1. Confirming /\ CallsInv /\ LetInv
  BY DEF Confirm, LetsInv
<1>2. /\ cleared \in Seq(Nat) /\ results \in Seq(Result) /\ This \in Nat /\ This \notin Decided
  BY <1>1, ThisIs
<1>3. UNCHANGED <<front, calls, ran>>
  BY DEF Confirm
<1>4. This \notin ran /\ This \notin ToSet(cleared) /\ This \notin denied
  BY <1>1, <1>2 DEF LetInv, Decided
<1>5. ToSet(Append(cleared, This)) = ToSet(cleared) \cup {This}
  BY <1>2, AppendedTo
<1>6. CASE Clear
  <2>1. cleared' = Append(cleared, This) /\ UNCHANGED <<results, denied>>
    BY <1>6 DEF Clear
  <2>2. ToSet(cleared') = ToSet(cleared) \cup {This} /\ Decided' = Decided \cup {This}
    BY <1>5, <2>1 DEF Decided
  <2>3. /\ yes \subseteq yes' /\ granted \subseteq granted'
        /\ This \in yes' \/ calls[This].name \in Config \cup granted'
    <3>1. CASE Unasked(calls[This].name) /\ UNCHANGED <<yes, confirmed, granted, outside>>
      BY <3>1 DEF Unasked, ListsInv
    <3>2. CASE yes' = yes \cup {This} /\ UNCHANGED <<confirmed, granted, outside>>
      BY <3>2
    <3>3. CASE yes' = yes \cup {This} /\ granted' = granted \cup {calls[This].name}
      BY <3>3
    <3>4. CASE DenyCall
      <4>1. cleared' = cleared
        BY <3>4 DEF DenyCall
      <4> QED
        BY <1>4, <2>2, <4>1
    <3> QED
      BY <3>1, <3>2, <3>3, <3>4 DEF Confirm
  <2> QED
    BY <1>1, <1>3, <1>4, <2>1, <2>2, <2>3 DEF LetInv
<1>7. CASE DenyCall
  <2>1. /\ results' = Append(results, Denial(This)) /\ denied' = denied \cup {This}
        /\ UNCHANGED cleared
    BY <1>7 DEF DenyCall, Denial
  <2>2. Denial(This) \in Result /\ Denial(This).call = This
    BY <1>2 DEF Denial, Result, How
  <2>3. CallsOf(results') = CallsOf(results) \cup {This}
    BY <1>2, <2>1, <2>2, CallsOfAppended
  <2>4. Decided' = Decided \cup {This}
    BY <2>1, <2>3 DEF Decided
  <2>5. UNCHANGED <<yes, granted>>
    <3>1. CASE Clear
      <4>1. cleared' = Append(cleared, This)
        BY <3>1 DEF Clear
      <4> QED
        BY <1>4, <1>5, <2>1, <4>1
    <3>2. CASE DenyCall /\ UNCHANGED <<yes, confirmed, granted, outside>>
      BY <3>2
    <3> QED
      BY <3>1, <3>2 DEF Confirm
  <2> QED
    BY <1>1, <1>3, <1>4, <2>1, <2>4, <2>5 DEF LetInv
<1> QED
  BY <1>6, <1>7 DEF Confirm

LEMMA LetStep ==
    ASSUME LetsInv, ListsInv, [Next]_vars
    PROVE  LetsInv'
<1>1. CallsInv' /\ CallsInv /\ LetInv
  BY CallsStep DEF LetsInv
<1>2. CASE UNCHANGED vars
  BY <1>1, <1>2, LetKept DEF vars, round, seen, Decided, CallsOf, LetsInv
<1>3. CASE CallTools
  <2>1. ran' = {} /\ denied' = {} /\ cleared' = <<>>
    BY <1>1, <1>3 DEF CallTools, CallsInv, PhaseInv
  <2> QED
    BY <1>1, <2>1 DEF LetsInv, LetInv, ToSet
<1>4. CASE NextBatch
  <2>1. UNCHANGED <<denied, yes, calls, ran, granted, results>> /\ cleared' = cleared
    BY <1>1, <1>4 DEF NextBatch, seen, CallsInv, PhaseInv
  <2> QED
    BY <1>1, <2>1, LetKept DEF Decided, CallsOf, LetsInv
<1>5. CASE Confirm
  BY <1>1, <1>5, LetConfirm DEF LetsInv
<1>6. CASE Quit \/ Cancel
  <2>1. ran' = {} /\ denied' = {} /\ cleared' = <<>>
    BY <1>6 DEF Quit, Cancel, Dropped
  <2> QED
    BY <1>1, <2>1 DEF LetsInv, LetInv, ToSet
<1>7. CASE Start
  <2>1. UNCHANGED <<denied, yes, calls, ran, cleared, granted, results>>
    BY <1>7 DEF Start, seen
  <2> QED
    BY <1>1, <2>1, LetKept DEF Decided, CallsOf, LetsInv
<1>8. ASSUME NEW p \in running, Vetoed(p) \/ Fails(p) \/ Works(p)
      PROVE  LetsInv'
  <2>1. UNCHANGED <<denied, yes, calls, cleared, granted, results>>
    BY <1>8 DEF Vetoed, Fails, Works, Ends
  <2>2. ran' = ran \/ (ran' = ran \cup {p} /\ calls[p].name # "Unknown")
    BY <1>8 DEF Vetoed, Fails, Works, MayWork
  <2>3. p \in ToSet(cleared) /\ p \in Decided /\ Decided' = Decided
    BY <1>1, <2>1 DEF CallsInv, PhaseInv, Decided, CallsOf
  <2>4. LetInv'
    BY <1>1, <2>1, <2>2, <2>3 DEF LetInv
  <2> QED
    BY <1>1, <2>4 DEF LetsInv
<1>9. CASE EndBatch
  <2>1. UNCHANGED <<denied, yes, calls, ran, granted>> /\ cleared' = <<>>
    BY <1>9 DEF EndBatch, seen
  <2>2. CallsOf(results') = Decided
    BY <1>1, <1>9, BatchResults
  <2>3. Decided' = Decided /\ ToSet(cleared') = {}
    BY <2>1, <2>2 DEF Decided, ToSet
  <2>4. LetInv'
    BY <1>1, <2>1, <2>3 DEF LetInv
  <2> QED
    BY <1>1, <2>4 DEF LetsInv
<1>10. CASE EndRound
  <2>1. UNCHANGED <<denied, yes, calls, ran, cleared, results>> /\ granted \subseteq granted'
    BY <1>10 DEF EndRound, seen, round
  <2> QED
    BY <1>1, <2>1, LetKept DEF Decided, CallsOf, LetsInv
<1> QED
  BY <1>2, <1>3, <1>4, <1>5, <1>6, <1>7, <1>8, <1>9, <1>10 DEF Next
-------------------------------------------------------------------------------
(* What results change, one after the other.                               *)

Lists == [allow : SUBSET Names, confirmed : SUBSET Names, plan : BOOLEAN,
          saved : SUBSET Names, outside : SUBSET Names]

NameOf(r) == calls[r.call].name

\* w is v after a skill, after entering plan mode, after leaving it.
Granted(v, w) ==
    /\ w.allow = v.allow \cup Grants /\ w.confirmed = v.confirmed \cup Grants
    /\ w.outside = IF v.plan THEN v.outside ELSE v.outside \cup Grants
    /\ w.plan = v.plan /\ w.saved = v.saved
Entered(v, w) ==
    /\ w.saved = v.allow /\ w.plan = TRUE /\ w.allow = v.allow /\ w.confirmed = v.confirmed
    /\ w.outside = IF v.plan THEN v.outside \cup v.allow ELSE v.outside
Exited(v, w) ==
    /\ w.plan = FALSE /\ w.allow = v.saved /\ w.saved = v.saved /\ w.confirmed = v.confirmed
    /\ w.outside = v.outside

LEMMA ModifyIs ==
    ASSUME NEW v \in Lists, NEW r
    PROVE  /\ Modify(v, r) \in Lists
           /\ \/ r.how = "ok" /\ NameOf(r) = "Skill" /\ Granted(v, Modify(v, r))
              \/ r.how = "ok" /\ NameOf(r) = "EnterPlanMode" /\ Entered(v, Modify(v, r))
              \/ r.how = "ok" /\ NameOf(r) = "ExitPlanMode" /\ Exited(v, Modify(v, r))
              \/ /\ r.how # "ok" \/ NameOf(r) \notin {"Skill", "EnterPlanMode", "ExitPlanMode"}
                 /\ Modify(v, r) = v
<1>1. /\ v.allow \in SUBSET Names /\ v.confirmed \in SUBSET Names /\ v.plan \in BOOLEAN
      /\ v.saved \in SUBSET Names /\ v.outside \in SUBSET Names
      /\ v = [allow |-> v.allow, confirmed |-> v.confirmed, plan |-> v.plan,
              saved |-> v.saved, outside |-> v.outside]
  BY DEF Lists
<1>2. Grants \in SUBSET Names
  BY ConstantsAssumption
<1> DEFINE w == Modify(v, r)
<1>3. CASE r.how # "ok"
  BY <1>3 DEF Modify
<1>4. CASE r.how = "ok" /\ NameOf(r) = "Skill"
  <2>1. w = [v EXCEPT !.allow = @ \cup Grants, !.confirmed = @ \cup Grants,
                      !.outside = IF v.plan THEN @ ELSE @ \cup Grants]
    BY <1>4 DEF Modify, Granting, NameOf
  <2> HIDE DEF w
  <2>2. w = [allow |-> v.allow \cup Grants, confirmed |-> v.confirmed \cup Grants, plan |-> v.plan,
             saved |-> v.saved, outside |-> IF v.plan THEN v.outside ELSE v.outside \cup Grants]
    BY <1>1, <2>1
  <2>3. (IF v.plan THEN v.outside ELSE v.outside \cup Grants) \in SUBSET Names
        /\ v.allow \cup Grants \in SUBSET Names /\ v.confirmed \cup Grants \in SUBSET Names
    BY <1>1, <1>2
  <2>4. w \in Lists
    BY <1>1, <2>2, <2>3 DEF Lists
  <2>5. Granted(v, w)
    BY <2>2 DEF Granted
  <2> QED
    BY <1>4, <2>4, <2>5 DEF w
<1>5. CASE r.how = "ok" /\ NameOf(r) = "EnterPlanMode"
  <2>1. w = [v EXCEPT !.saved = v.allow, !.plan = TRUE,
                      !.outside = IF v.plan THEN @ \cup v.allow ELSE @]
    BY <1>5 DEF Modify, Granting, NameOf
  <2> HIDE DEF w
  <2>2. w = [allow |-> v.allow, confirmed |-> v.confirmed, plan |-> TRUE, saved |-> v.allow,
             outside |-> IF v.plan THEN v.outside \cup v.allow ELSE v.outside]
    BY <1>1, <2>1
  <2>3. (IF v.plan THEN v.outside \cup v.allow ELSE v.outside) \in SUBSET Names
    BY <1>1
  <2>4. w \in Lists
    BY <1>1, <2>2, <2>3 DEF Lists
  <2>5. Entered(v, w)
    BY <2>2 DEF Entered
  <2> QED
    BY <1>5, <2>4, <2>5 DEF w
<1>6. CASE r.how = "ok" /\ NameOf(r) = "ExitPlanMode"
  <2>1. w = [v EXCEPT !.plan = FALSE, !.allow = v.saved]
    BY <1>6 DEF Modify, Granting, NameOf
  <2> HIDE DEF w
  <2>2. w = [allow |-> v.saved, confirmed |-> v.confirmed, plan |-> FALSE, saved |-> v.saved,
             outside |-> v.outside]
    BY <1>1, <2>1
  <2>3. w \in Lists
    BY <1>1, <2>2 DEF Lists
  <2>4. Exited(v, w)
    BY <2>2 DEF Exited
  <2> QED
    BY <1>6, <2>3, <2>4 DEF w
<1>7. CASE r.how = "ok" /\ NameOf(r) \notin {"Skill", "EnterPlanMode", "ExitPlanMode"}
  BY <1>7 DEF Modify, Granting, NameOf
<1> QED
  BY <1>3, <1>4, <1>5, <1>6, <1>7

\* c is what each of the results rs leaves of base.
Modified(c, base, rs) ==
    /\ c \in [0..Len(rs) -> Lists] /\ c[0] = base
    /\ \A k \in 1..Len(rs) : c[k] = Modify(c[k - 1], rs[k])

LEMMA FoldModify ==
    ASSUME NEW rs \in Seq(Result), NEW base \in Lists
    PROVE  \E c : Modified(c, base, rs) /\ FoldLeft(Modify, base, rs) = c[Len(rs)]
<1> DEFINE n == Len(rs)
           D == DOMAIN rs
           G == [x \in (1..n) \X Lists |-> Modify(x[2], rs[x[1]])]
<1>1. n \in Nat /\ D = 1..n
  OBVIOUS
<1>2. \A i \in 1..n, v \in Lists : G[<<i, v>>] = Modify(v, rs[i]) /\ G[<<i, v>>] \in Lists
  BY ModifyIs
<1> HIDE DEF G, n, D
<1>3. Closed(G, 1..n, Lists)
  BY <1>2 DEF Closed
<1>4. PICK it \in [SUBSET (1..n) -> Lists] : IsLeftFold(it, n, base, G)
  BY <1>1, <1>3, FoldLeftExists
<1>5. \A d \in SUBSET D : d # {} =>
            G[<<Max(d), it[d \ {Max(d)}]>>] = Modify(it[d \ {Max(d)}], rs[Max(d)])
  <2> SUFFICES ASSUME NEW d \in SUBSET (1..n), d # {}
               PROVE  G[<<Max(d), it[d \ {Max(d)}]>>] = Modify(it[d \ {Max(d)}], rs[Max(d)])
    BY <1>1
  <2>1. d \in SUBSET (0..n)
    BY <1>1
  <2>2. Max(d) \in 1..n /\ d \ {Max(d)} \in SUBSET (1..n)
    BY <1>1, <2>1, MaxOf
  <2> QED
    BY <1>2, <2>2
<1>6. it = [d \in SUBSET D |-> IF d = {} THEN base ELSE Modify(it[d \ {Max(d)}], rs[Max(d)])]
  <2>1. \A d \in SUBSET D :
            (IF d = {} THEN base ELSE G[<<Max(d), it[d \ {Max(d)}]>>])
            = (IF d = {} THEN base ELSE Modify(it[d \ {Max(d)}], rs[Max(d)]))
    BY <1>5
  <2>2. it = [d \in SUBSET D |-> IF d = {} THEN base ELSE G[<<Max(d), it[d \ {Max(d)}]>>]]
    BY <1>1, <1>4 DEF IsLeftFold
  <2> QED
    BY <2>1, <2>2
<1>7. PICK f : /\ f = [d \in SUBSET D |-> IF d = {} THEN base
                                          ELSE Modify(f[d \ {Max(d)}], rs[Max(d)])]
               /\ FoldLeft(Modify, base, rs) = f[D]
  <2>1. \E f : /\ f = [d \in SUBSET D |-> IF d = {} THEN base
                                          ELSE Modify(f[d \ {Max(d)}], rs[Max(d)])]
               /\ FoldLeft(Modify, base, rs) = f[D]
    BY <1>6 DEF FoldLeft, MapThenFoldSet, D
  <2> QED
    BY <2>1
<1>8. Recurses(f, n, Lists, base, G)
  <2>1. f[{}] = base
    <3>1. {} \in SUBSET D
      OBVIOUS
    <3> QED
      BY <1>7, <3>1, Zenon
  <2>2. ASSUME NEW k \in 1..n, f[1..(k - 1)] \in Lists
        PROVE  f[1..k] = G[<<k, f[1..(k - 1)]>>]
    <3>1. /\ 1..k \in SUBSET (1..n) /\ 1..k # {}
          /\ Max(1..k) = k /\ (1..k) \ {k} = 1..(k - 1)
      BY <1>1, Segments
    <3> DEFINE q == 1..k
    <3>2. q \in SUBSET D /\ q # {} /\ Max(q) = k /\ q \ {k} = 1..(k - 1)
      BY <1>1, <3>1
    <3> HIDE DEF q
    <3>3. f[q] = Modify(f[q \ {Max(q)}], rs[Max(q)])
      BY <1>7, <3>2
    <3>4. f[q] = Modify(f[1..(k - 1)], rs[k])
      BY <3>2, <3>3
    <3> QED
      BY <1>2, <2>2, <3>4 DEF q
  <2> QED
    BY <2>1, <2>2 DEF Recurses
<1>9. HasSteps(f, n, Lists, base, G)
  BY <1>1, <1>3, <1>8, FoldSteps
<1>10. PICK c : Steps(c, n, Lists, base, G) /\ f[1..n] = c[n]
  BY <1>9 DEF HasSteps
<1>11. c \in [0..n -> Lists] /\ c[0] = base /\ \A k \in 1..n : c[k] = Modify(c[k - 1], rs[k])
  <2>1. \A k \in 1..n : k - 1 \in 0..n
    BY <1>1
  <2> QED
    BY <1>2, <1>10, <2>1 DEF Steps
<1>12. Modified(c, base, rs) /\ FoldLeft(Modify, base, rs) = c[n]
  BY <1>1, <1>7, <1>10, <1>11 DEF Modified, n
<1> QED
  BY <1>12 DEF n

\* What an event list may have: X has what the configuration, the user and skills granted.
WithinLists(v, X) ==
    /\ v.allow \cup v.confirmed \cup v.saved \subseteq X
    /\ v.saved \subseteq Config \cup v.outside
    /\ ~ v.plan => v.allow \subseteq Config \cup v.outside

LEMMA ModifyWithin ==
    ASSUME NEW v \in Lists, NEW r, NEW X, WithinLists(v, X),
           r.how = "ok" /\ NameOf(r) = "Skill" => Grants \subseteq X
    PROVE  WithinLists(Modify(v, r), X)
<1> DEFINE w == Modify(v, r)
<1>1. v.plan \in BOOLEAN
  BY DEF Lists
<1>2. \/ r.how = "ok" /\ NameOf(r) = "Skill" /\ Granted(v, w)
      \/ Entered(v, w) \/ Exited(v, w) \/ w = v
  BY ModifyIs
<1> SUFFICES WithinLists(w, X)
  OBVIOUS
<1> HIDE DEF w
<1>3. CASE r.how = "ok" /\ NameOf(r) = "Skill" /\ Granted(v, w)
  BY <1>1, <1>3 DEF Granted, WithinLists
<1>4. CASE Entered(v, w)
  BY <1>1, <1>4 DEF Entered, WithinLists
<1>5. CASE Exited(v, w)
  BY <1>1, <1>5 DEF Exited, WithinLists
<1>6. CASE w = v
  BY <1>6
<1> QED
  BY <1>2, <1>3, <1>4, <1>5, <1>6

LEMMA ModifiedWithin ==
    ASSUME NEW rs \in Seq(Result), NEW base \in Lists, NEW c, Modified(c, base, rs), NEW X,
           WithinLists(base, X),
           \A k \in 1..Len(rs) : rs[k].how = "ok" /\ NameOf(rs[k]) = "Skill" => Grants \subseteq X
    PROVE  c[Len(rs)] \in Lists /\ WithinLists(c[Len(rs)], X)
<1> DEFINE n == Len(rs)
           S == {k \in Nat : k <= n => WithinLists(c[k], X)}
<1>1. n \in Nat
  OBVIOUS
<1> HIDE DEF n
<1>2. c \in [0..n -> Lists] /\ c[0] = base /\ \A k \in 1..n : c[k] = Modify(c[k - 1], rs[k])
  BY DEF Modified, n
<1>3. 0 \in S
  BY <1>2
<1>4. ASSUME NEW k \in S
      PROVE  k + 1 \in S
  <2>1. CASE k + 1 <= n
    <3>1. k + 1 \in 1..n /\ (k + 1) - 1 = k /\ k <= n /\ k \in 0..n
      BY <1>1, <2>1
    <3>2. c[k] \in Lists /\ WithinLists(c[k], X) /\ c[k + 1] = Modify(c[k], rs[k + 1])
      BY <1>2, <3>1
    <3>3. rs[k + 1].how = "ok" /\ NameOf(rs[k + 1]) = "Skill" => Grants \subseteq X
      BY <3>1 DEF n
    <3>4. WithinLists(Modify(c[k], rs[k + 1]), X)
      BY <3>2, <3>3, ModifyWithin
    <3> QED
      BY <3>2, <3>4
  <2>2. CASE ~ (k + 1 <= n)
    BY <2>2
  <2> QED
    BY <2>1, <2>2
<1> HIDE DEF S
<1>5. S = Nat
  <2>1. S \in SUBSET Nat
    BY DEF S
  <2> QED
    BY <1>3, <1>4, <2>1, SetInduction
<1>6. n \in S
  BY <1>1, <1>5
<1>7. WithinLists(c[n], X) /\ c[n] \in Lists
  BY <1>1, <1>2, <1>6 DEF S
<1> QED
  BY <1>7 DEF n

\* The mode after the first k results: what the last of them that changes it makes it.
MovesTo(k) == {p \in Moves : p <= k}
PlanAt(k)  == IF MovesTo(k) = {} THEN plan ELSE MovedBy(Max(MovesTo(k))) = "EnterPlanMode"

LEMMA ModifiedPlan ==
    ASSUME calls \in Seq(Call), MergedResults \in Seq(Result), Len(MergedResults) = Len(calls),
           NEW base \in Lists, base.plan = plan, NEW c, Modified(c, base, MergedResults)
    PROVE  c[Len(MergedResults)].plan =
              IF Moves = {} THEN plan ELSE MovedBy(Max(Moves)) = "EnterPlanMode"
<1> DEFINE n == Len(calls)
           S == {k \in Nat : k <= n => c[k].plan = PlanAt(k)}
<1>1. n \in Nat /\ DOMAIN calls = 1..n
  OBVIOUS
<1> HIDE DEF n
<1>2. c \in [0..n -> Lists] /\ c[0] = base
      /\ \A k \in 1..n : c[k] = Modify(c[k - 1], MergedResults[k])
  BY DEF Modified, n
<1>3. Moves \subseteq 1..n /\ \A p \in Moves : p \in Nat /\ p >= 1 /\ p <= n
  BY <1>1 DEF Moves
<1>4. 0 \in S
  <2>1. MovesTo(0) = {}
    <3> SUFFICES ASSUME NEW p \in MovesTo(0)
                 PROVE  FALSE
      OBVIOUS
    <3>1. p \in Moves /\ p <= 0
      BY DEF MovesTo
    <3> QED
      BY <1>3, <3>1
  <2> QED
    BY <1>2, <2>1 DEF PlanAt
<1>5. ASSUME NEW k \in S
      PROVE  k + 1 \in S
  <2>1. CASE k + 1 <= n
    <3>1. k + 1 \in 1..n /\ (k + 1) - 1 = k /\ k <= n /\ k \in 0..n /\ k \in Nat
      BY <1>1, <2>1
    <3> DEFINE r == MergedResults[k + 1]
               v == c[k]
               w == Modify(v, r)
    <3>2. v \in Lists /\ v.plan = PlanAt(k) /\ c[k + 1] = w
      BY <1>2, <3>1
    <3>3. /\ \/ r.how = "ok" /\ NameOf(r) = "Skill" /\ Granted(v, w)
             \/ r.how = "ok" /\ NameOf(r) = "EnterPlanMode" /\ Entered(v, w)
             \/ r.how = "ok" /\ NameOf(r) = "ExitPlanMode" /\ Exited(v, w)
             \/ r.how # "ok" \/ NameOf(r) \notin {"Skill", "EnterPlanMode", "ExitPlanMode"}
          /\ \/ Granted(v, w) \/ Entered(v, w) \/ Exited(v, w) \/ w = v
      BY <3>2, ModifyIs
    <3>4. k + 1 \in Moves <=> r.how = "ok" /\ NameOf(r) \in {"EnterPlanMode", "ExitPlanMode"}
      BY <1>1, <3>1 DEF Moves, MovedBy, Transitions, NameOf
    <3>5. CASE k + 1 \in Moves
      <4>b. k + 1 \in MovesTo(k + 1)
        BY <3>1, <3>5 DEF MovesTo
      <4>c. ASSUME NEW p \in MovesTo(k + 1)
            PROVE  p \in 0..(k + 1)
        <5>1. p \in Moves /\ p <= k + 1
          BY DEF MovesTo
        <5> QED
          BY <1>3, <3>1, <5>1
      <4>1. MovesTo(k + 1) # {} /\ MovesTo(k + 1) \in SUBSET (0..(k + 1)) /\ k + 1 \in MovesTo(k + 1)
        BY <4>b, <4>c
      <4>2. Max(MovesTo(k + 1)) \in MovesTo(k + 1) /\ \A x \in MovesTo(k + 1) : x <= Max(MovesTo(k + 1))
        <5> DEFINE N == k + 1
                   M == MovesTo(N)
        <5>1. N \in Nat /\ M \in SUBSET (0..N) /\ M # {}
          BY <3>1, <4>1
        <5> HIDE DEF N, M
        <5>2. Max(M) \in M /\ \A x \in M : x <= Max(M)
          BY <5>1, MaxOf
        <5> QED
          BY <5>2 DEF N, M
      <4>3. Max(MovesTo(k + 1)) = k + 1
        BY <3>1, <4>1, <4>2
      <4>4. PlanAt(k + 1) = (MovedBy(k + 1) = "EnterPlanMode") /\ MovedBy(k + 1) = NameOf(r)
        BY <4>1, <4>3 DEF PlanAt, MovedBy, NameOf
      <4>a. c[k + 1].plan = w.plan /\ (k + 1 <= n => c[k + 1].plan = PlanAt(k + 1)) => k + 1 \in S
        BY <3>1
      <4>5. CASE r.how = "ok" /\ NameOf(r) = "EnterPlanMode" /\ Entered(v, w)
        BY <4>a, <3>2, <4>4, <4>5 DEF Entered
      <4>6. CASE r.how = "ok" /\ NameOf(r) = "ExitPlanMode" /\ Exited(v, w)
        BY <4>a, <3>2, <4>4, <4>6 DEF Exited
      <4> QED
        BY <3>3, <3>4, <3>5, <4>5, <4>6
    <3>6. CASE k + 1 \notin Moves
      <4>1. MovesTo(k + 1) = MovesTo(k)
        <5>1. \A p \in Moves : p <= k + 1 <=> p <= k
          <6> SUFFICES ASSUME NEW p \in Moves
                       PROVE  p <= k + 1 <=> p <= k
            OBVIOUS
          <6>1. p \in Nat /\ p # k + 1
            BY <1>3, <3>6
          <6> QED
            BY <3>1, <6>1
        <5> QED
          BY <5>1 DEF MovesTo
      <4>2. PlanAt(k + 1) = PlanAt(k)
        BY <4>1 DEF PlanAt
      <4>3. w.plan = v.plan
        <5>1. Granted(v, w) \/ w = v
          <6>1. ~ (r.how = "ok" /\ NameOf(r) \in {"EnterPlanMode", "ExitPlanMode"})
            BY <3>4, <3>6
          <6> QED
            BY <3>2, <6>1, ModifyIs
        <5> QED
          BY <5>1 DEF Granted
      <4> QED
        BY <3>2, <4>2, <4>3
    <3> QED
      BY <3>5, <3>6
  <2>2. CASE ~ (k + 1 <= n)
    BY <2>2
  <2> QED
    BY <2>1, <2>2
<1> HIDE DEF S
<1>6. S = Nat
  <2>1. S \in SUBSET Nat
    BY DEF S
  <2> QED
    BY <1>4, <1>5, <2>1, SetInduction
<1>7. c[n].plan = PlanAt(n)
  <2>1. n \in S
    BY <1>1, <1>6
  <2> QED
    BY <1>1, <2>1 DEF S
<1>8. MovesTo(n) = Moves
  BY <1>1, <1>3 DEF MovesTo
<1> QED
  BY <1>7, <1>8 DEF PlanAt, n
-------------------------------------------------------------------------------
(* What the lists hold, and what the model is told.                        *)

\* Whatever is past its decision is one of the calls that can be run.
LEMMA DecidedFit ==
    ASSUME CallsInv, NEW p \in Decided
    PROVE  p \in DOMAIN calls /\ Executable(p) /\ calls[p] \in Call /\ calls[p].name \in Names
<1>1. /\ calls \in Seq(Call) /\ left \in Seq(Nat) /\ batch \in Seq(Nat) /\ cleared \in Seq(Nat)
      /\ results \in Seq(Result) /\ Divided(FitCalls, left, batch, cleared, results)
  BY DEF CallsInv, PhaseInv, ShareInv, Result
<1>2. \A i \in 1..Len(FitCalls) : FitCalls[i] \in DOMAIN calls /\ Executable(FitCalls[i])
  BY <1>1, FitCallsAre
<1>3. /\ Len(results) \in Nat /\ Len(cleared) \in Nat /\ Len(left) \in Nat /\ Len(batch) \in Nat
  BY <1>1
<1>4. Len(FitCalls) = Len(results) + Len(cleared) + Len(batch) + Len(left)
  BY <1>1 DEF Divided
<1> DEFINE n == Len(results) + Len(cleared)
<1>5. n \in Nat /\ n <= Len(FitCalls) /\ Len(FitCalls) \in Nat
  BY <1>3, <1>4
<1>6. Decided = {FitCalls[i] : i \in 1..n}
  BY <1>1, Zenon DEF Divided, Decided
<1> HIDE DEF n
<1>7. PICK i \in 1..n : p = FitCalls[i]
  BY <1>6
<1>8. i \in 1..Len(FitCalls)
  BY <1>5
<1>9. p \in DOMAIN calls /\ Executable(p)
  BY <1>2, <1>7, <1>8
<1>10. calls[p] \in Call
  BY <1>1, <1>9
<1>11. calls[p].name \in Names
  BY <1>10 DEF Call, Names
<1> QED
  BY <1>9, <1>10, <1>11

\* What a round that ends makes of the lists and the mode.
LEMMA ListsEndRound ==
    ASSUME CallsInv, ListsInv, EndRound
    PROVE  /\ ListsInv'
           /\ plan' = (IF Moves = {} THEN plan ELSE MovedBy(Max(Moves)) = "EnterPlanMode")
           /\ plan' \in BOOLEAN
<1> DEFINE base == [allow |-> allowList, confirmed |-> confirmed, plan |-> plan,
                    saved |-> saved, outside |-> outside]
           s == FoldLeft(Modify, base, MergedResults)
           X == Config \cup granted'
<1>1. calls \in Seq(Call) /\ results \in Seq(Result) /\ AllDecided
  BY CallsEndRound DEF CallsInv, PhaseInv, Result
<1>2. MergedResults \in Seq(Result) /\ Len(MergedResults) = Len(calls)
  BY <1>1, MergedAre
<1>3. base \in Lists /\ base.plan = plan
  BY DEF ListsInv, Lists
<1>4. /\ allowList' = s.allow /\ confirmed' = s.confirmed /\ plan' = s.plan
      /\ saved' = s.saved /\ outside' = s.outside
  BY DEF EndRound
<1>5. granted' = IF \E r \in ToSet(MergedResults) : r.how = "ok" /\ calls[r.call].name \in Granting
                 THEN granted \cup Grants ELSE granted
  BY DEF EndRound
<1>6. granted \subseteq granted' /\ granted' \subseteq Names
  BY <1>5, ConstantsAssumption DEF ListsInv
<1>7. \A k \in 1..Len(MergedResults) :
         MergedResults[k].how = "ok" /\ NameOf(MergedResults[k]) = "Skill" => Grants \subseteq X
  <2> SUFFICES ASSUME NEW k \in 1..Len(MergedResults), MergedResults[k].how = "ok",
                      NameOf(MergedResults[k]) = "Skill"
               PROVE  Grants \subseteq X
    OBVIOUS
  <2>1. k \in DOMAIN MergedResults
    BY <1>2
  <2>2. MergedResults[k] \in ToSet(MergedResults)
    BY <2>1 DEF ToSet
  <2> QED
    BY <1>5, <2>2 DEF NameOf, Granting
<1>8. WithinLists(base, X)
  BY <1>6 DEF ListsInv, WithinLists
<1>9. PICK c : Modified(c, base, MergedResults) /\ s = c[Len(MergedResults)]
  BY <1>2, <1>3, FoldModify
<1> HIDE DEF base, s, X
<1>10. s \in Lists /\ WithinLists(s, X)
  BY <1>2, <1>3, <1>7, <1>8, <1>9, ModifiedWithin
<1>11. s.plan = (IF Moves = {} THEN plan ELSE MovedBy(Max(Moves)) = "EnterPlanMode")
  BY <1>1, <1>2, <1>3, <1>9, ModifiedPlan
<1>12. ListsInv'
  <2>1. /\ s.allow \in SUBSET Names /\ s.confirmed \in SUBSET Names /\ s.plan \in BOOLEAN
        /\ s.saved \in SUBSET Names /\ s.outside \in SUBSET Names
    BY <1>10 DEF Lists
  <2>2. /\ s.allow \cup s.confirmed \cup s.saved \subseteq Config \cup granted'
        /\ s.saved \subseteq Config \cup s.outside
        /\ ~ s.plan => s.allow \subseteq Config \cup s.outside
    BY <1>10 DEF WithinLists, X
  <2> QED
    BY <1>4, <1>6, <2>1, <2>2 DEF ListsInv
<1> QED
  BY <1>4, <1>11, <1>12 DEF ListsInv

LEMMA ListsKept ==
    ASSUME ListsInv, UNCHANGED <<confirmed, allowList, plan, saved, granted, outside>>
    PROVE  ListsInv'
BY DEF ListsInv

LEMMA ListsStep ==
    ASSUME CallsInv, ListsInv, [Next]_vars
    PROVE  ListsInv'
<1>1. CASE UNCHANGED vars
  BY <1>1, ListsKept DEF vars, rights
<1>2. CASE CallTools
  BY <1>2, ListsKept DEF CallTools, rights
<1>3. CASE NextBatch
  BY <1>3, ListsKept DEF NextBatch, rights
<1>4. CASE Confirm
  <2>1. Confirming /\ UNCHANGED <<allowList, plan, saved>>
    BY <1>4 DEF Confirm
  <2>2. calls[This].name \in Names
    <3>1. This \in DOMAIN calls /\ calls \in Seq(Call)
      BY <2>1, ThisIs
    <3>2. calls[This] \in Call
      BY <3>1
    <3> QED
      BY <3>2 DEF Call, Names
  <2>3. CASE UNCHANGED <<confirmed, granted, outside>>
    BY <2>1, <2>3, ListsKept
  <2>4. CASE /\ confirmed' = confirmed \cup {calls[This].name}
             /\ granted' = granted \cup {calls[This].name}
             /\ outside' = IF plan THEN outside ELSE outside \cup {calls[This].name}
    BY <2>1, <2>2, <2>4 DEF ListsInv
  <2> QED
    BY <1>4, <2>3, <2>4 DEF Confirm
<1>5. CASE Quit \/ Cancel
  BY <1>5, ListsKept DEF Quit, Cancel, Dropped, rights
<1>6. CASE Start
  BY <1>6, ListsKept DEF Start, rights
<1>7. ASSUME NEW p \in running, Vetoed(p) \/ Fails(p) \/ Works(p)
      PROVE  ListsInv'
  BY <1>7, ListsKept DEF Vetoed, Fails, Works, Ends, rights
<1>8. CASE EndBatch
  BY <1>8, ListsKept DEF EndBatch, rights
<1>9. CASE EndRound
  BY <1>9, ListsEndRound
<1> QED
  BY <1>1, <1>2, <1>3, <1>4, <1>5, <1>6, <1>7, <1>8, <1>9 DEF Next

\* What the model may call in plan mode.
LEMMA ToldKept ==
    ASSUME ToldInv, UNCHANGED <<plan, told, loaded>>,
           phase' # "model" => phase # "model" /\ calls' = calls
    PROVE  ToldInv'
BY DEF ToldInv

LEMMA ToldCallTools ==
    ASSUME ToldInv, CallTools
    PROVE  ToldInv'
<1>1. UNCHANGED <<plan, told, loaded>>
  BY DEF CallTools, rights
<1>2. PICK n \in 1..MaxCalls : calls' \in [1..n -> {c \in Call : c.name \in Callable}]
  BY DEF CallTools
<1>3. ASSUME Obedient, plan, NEW p \in DOMAIN calls'
      PROVE  calls'[p].name \in Info \cup {"Unknown", "", "Blocked"}
  <2>1. p \in 1..n /\ calls'[p].name \in Callable
    BY <1>2
  <2> QED
    BY <1>3, <2>1 DEF Callable, Declared
<1> QED
  BY <1>1, <1>3 DEF ToldInv

LEMMA ToldWith ==
    ASSUME ToldInv, NEW found \in SUBSET Names, loaded' = loaded \cup found,
           told' = [told EXCEPT !.loaded = @ \cup found], UNCHANGED <<plan, phase, calls>>
    PROVE  ToldInv'
<1>1. told.plan = plan /\ told.plan \in BOOLEAN /\ told.loaded \in SUBSET Names
      /\ told = [plan |-> told.plan, loaded |-> told.loaded] /\ told.loaded \subseteq loaded
  BY DEF ToldInv
<1>2. told' = [plan |-> told.plan, loaded |-> told.loaded \cup found]
  BY <1>1
<1>3. told' \in [plan : BOOLEAN, loaded : SUBSET Names]
  BY <1>1, <1>2
<1>4. told'.plan = plan' /\ told'.loaded \subseteq loaded'
  BY <1>1, <1>2
<1> QED
  BY <1>3, <1>4 DEF ToldInv

LEMMA ToldStep ==
    ASSUME CallsInv, ListsInv, ToldInv, [Next]_vars
    PROVE  ToldInv'
<1>1. CASE UNCHANGED vars
  BY <1>1, ToldKept DEF vars, rights, round
<1>2. CASE CallTools
  BY <1>2, ToldCallTools
<1>3. CASE NextBatch
  BY <1>3, ToldKept DEF NextBatch, rights
<1>4. CASE Confirm
  BY <1>4, ToldKept DEF Confirm, Confirming
<1>5. CASE Quit \/ Cancel
  BY <1>5, ToldKept DEF Quit, Cancel, Dropped, rights
<1>6. CASE Start
  BY <1>6, ToldKept DEF Start, rights
<1>7. ASSUME NEW p \in running, Vetoed(p) \/ Fails(p) \/ Works(p)
      PROVE  ToldInv'
  <2>1. UNCHANGED <<plan, phase, calls>>
    BY <1>7 DEF Vetoed, Fails, Works, Ends, rights
  <2>2. p \in Decided
    BY DEF CallsInv, PhaseInv, Decided
  <2>3. calls[p].name \in Names
    BY <2>2, DecidedFit
  <2>4. \/ UNCHANGED <<loaded, told>>
        \/ \E found \in SUBSET Names : /\ loaded' = loaded \cup found
                                       /\ told' = [told EXCEPT !.loaded = @ \cup found]
    <3>1. CASE Vetoed(p)
      BY <3>1 DEF Vetoed
    <3>2. CASE Fails(p)
      BY <2>3, <3>2 DEF Fails
    <3>3. CASE Works(p)
      <4>1. SUBSET Deferred \subseteq SUBSET Names
        BY DEF Deferred, Names, Info, Safe
      <4> QED
        BY <3>3, <4>1 DEF Works
    <3> QED
      BY <1>7, <3>1, <3>2, <3>3
  <2> QED
    BY <2>1, <2>4, ToldKept, ToldWith
<1>8. CASE EndBatch
  BY <1>8, ToldKept DEF EndBatch, rights
<1>9. CASE EndRound
  <2>1. phase' = "model" /\ UNCHANGED loaded
    BY <1>9 DEF EndRound
  <2>2. plan' = (IF Moves = {} THEN plan ELSE MovedBy(Max(Moves)) = "EnterPlanMode")
        /\ plan' \in BOOLEAN
    BY <1>9, ListsEndRound
  <2>3. told' = IF Moves = {} THEN told
                ELSE [told EXCEPT !.plan = MovedBy(Max(Moves)) = "EnterPlanMode"]
    BY <1>9 DEF EndRound
  <2>4. told.plan = plan /\ told.loaded \in SUBSET Names /\ told.loaded \subseteq loaded
        /\ told \in [plan : BOOLEAN, loaded : SUBSET Names]
    BY DEF ToldInv
  <2>5. told' \in [plan : BOOLEAN, loaded : SUBSET Names] /\ told'.plan = plan'
        /\ told'.loaded = told.loaded
    <3>1. CASE Moves = {}
      BY <2>2, <2>3, <2>4, <3>1
    <3>2. CASE Moves # {}
      <4>1. told' = [told EXCEPT !.plan = plan']
        BY <2>2, <2>3, <3>2
      <4> QED
        BY <2>2, <2>4, <4>1
    <3> QED
      BY <3>1, <3>2
  <2> QED
    BY <2>1, <2>4, <2>5 DEF ToldInv
<1> QED
  BY <1>1, <1>2, <1>3, <1>4, <1>5, <1>6, <1>7, <1>8, <1>9 DEF Next
-------------------------------------------------------------------------------
(* The invariant of the rounds, and what follows from it.                  *)

ToolInv == LetsInv /\ ListsInv /\ ToldInv

LEMMA ToolStarts == Init => ToolInv
<1> SUFFICES ASSUME Init
             PROVE  ListsInv /\ ToldInv
  BY LetStart DEF ToolInv
<1>1. ListsInv
  BY ConstantsAssumption DEF Init, ListsInv
<1>2. ToldInv
  BY DEF Init, ToldInv
<1> QED
  BY <1>1, <1>2

LEMMA ToolStep ==
    ASSUME ToolInv, [Next]_vars
    PROVE  ToolInv'
BY LetStep, ListsStep, ToldStep DEF ToolInv, LetsInv

\* Every state of the rounds has the invariant, for every value of the constants:
\* calls divided in their order among left, batch, cleared and results, only what is let
\* past a decision, lists with what was granted, and a model told of what is so.
THEOREM ToolCorrect == Spec => []ToolInv
<1>1. ToolInv /\ [Next]_vars => ToolInv'
  BY ToolStep
<1> QED
  BY <1>1, ToolStarts, PTL DEF Spec

LEMMA LetRuns == ASSUME ToolInv PROVE RunsAreLet
<1>1. CallsInv /\ LetInv /\ ListsInv
  BY DEF ToolInv, LetsInv
<1>2. \A p \in ran : p \in Decided
  BY <1>1 DEF LetInv
<1>3. \A p \in ran : Executable(p)
  BY <1>1, <1>2, DecidedFit
<1>4. ran \cap denied = {} /\ \A p \in ran : p \in yes \/ calls[p].name \in Config \cup granted
  BY <1>1 DEF LetInv
<1>5. allowList \cup confirmed \subseteq Config \cup granted
  BY <1>1 DEF ListsInv
<1> QED
  BY <1>3, <1>4, <1>5 DEF RunsAreLet

LEMMA SafeRuns == ASSUME ToolInv PROVE SafeTogether
<1> SUFFICES ASSUME Cardinality(running) > 1
             PROVE  \A p \in running : calls[p].name \in Safe
  BY DEF SafeTogether
<1>1. /\ batch \in Seq(Nat) /\ cleared \in Seq(Nat) /\ running \subseteq ToSet(cleared)
      /\ Together(batch, cleared)
  BY DEF ToolInv, LetsInv, CallsInv, PhaseInv, ShareInv
<1>2. CASE Len(batch) + Len(cleared) > 1
  BY <1>1, <1>2 DEF Together
<1>3. CASE Len(cleared) = 0
  <2>1. DOMAIN cleared = {}
    BY <1>1, <1>3
  <2>2. running = {}
    BY <1>1, <2>1 DEF ToSet
  <2> QED
    BY <2>2
<1>4. CASE Len(cleared) = 1
  <2>1. DOMAIN cleared = {1}
    BY <1>1, <1>4
  <2>2. running \subseteq {cleared[1]}
    BY <1>1, <2>1 DEF ToSet
  <2>3. Cardinality(running) <= Cardinality({cleared[1]}) /\ Cardinality({cleared[1]}) = 1
    BY <2>2, FS_Singleton, FS_Subset
  <2>4. Cardinality(running) \in Nat
    BY <2>2, FS_Singleton, FS_Subset, FS_CardinalityType
  <2> QED
    BY <2>3, <2>4
<1>5. Len(batch) + Len(cleared) > 1 \/ Len(cleared) = 0 \/ Len(cleared) = 1
  <2>1. Len(batch) \in Nat /\ Len(cleared) \in Nat
    BY <1>1
  <2> QED
    BY <2>1
<1> QED
  BY <1>2, <1>3, <1>4, <1>5

LEMMA PlanRuns ==
    ASSUME ToolInv, Obedient
    PROVE  PlanReadOnly
<1> SUFFICES ASSUME plan, phase # "model", NEW p \in ran
             PROVE  calls[p].name \in Info
  BY DEF PlanReadOnly
<1>1. CallsInv /\ p \in Decided /\ calls[p].name # "Unknown"
  BY DEF ToolInv, LetsInv, LetInv
<1>2. p \in DOMAIN calls /\ Executable(p)
  BY <1>1, DecidedFit
<1>3. calls[p].name \in Info \cup {"Unknown", "", "Blocked"}
  BY <1>2 DEF ToolInv, ToldInv
<1> QED
  BY <1>1, <1>2, <1>3 DEF Executable, Fit, Refused

LEMMA ResultsOfCalls == ASSUME ToolInv PROVE OneResultEach /\ InCallOrder
<1> SUFFICES ASSUME phase = "model", calls # <<>>
             PROVE  /\ Len(final) = Len(calls)
                    /\ {final[p].call : p \in DOMAIN final} = DOMAIN calls
                    /\ front = "host" \/ denied = {} => \A p \in DOMAIN final : final[p].call = p
  BY DEF OneResultEach, InCallOrder
<1>1. /\ calls \in Seq(Call) /\ results \in Seq(Result) /\ left = <<>> /\ batch = <<>>
      /\ cleared = <<>> /\ final = MergedResults
      /\ Divided(FitCalls, left, batch, cleared, results)
      /\ front = "host" \/ denied = {} => InTurn(FitCalls, cleared, results)
  BY DEF ToolInv, LetsInv, CallsInv, PhaseInv, ShareInv, Result
<1>2. AllDecided
  BY <1>1 DEF AllDecided
<1>3. /\ MergedResults \in Seq(Result) /\ Len(MergedResults) = Len(calls)
      /\ \A p \in DOMAIN calls :
            /\ Executable(p) => TurnOf(p) \in 1..Len(results) /\ MergedResults[p] = results[TurnOf(p)]
            /\ ~ Executable(p) => MergedResults[p].call = p
      /\ {MergedResults[p].call : p \in DOMAIN calls} = DOMAIN calls
  BY <1>1, <1>2, MergedAre
<1>4. DOMAIN final = DOMAIN calls /\ Len(final) = Len(calls)
  <2>1. final \in Seq(Result) /\ Len(final) = Len(calls)
    BY <1>1, <1>3
  <2> HIDE DEF Result
  <2>2. DOMAIN final = 1..Len(final) /\ DOMAIN calls = 1..Len(calls)
    BY <1>1, <2>1
  <2> QED
    BY <2>1, <2>2
<1>5. ASSUME front = "host" \/ denied = {}, NEW p \in DOMAIN calls
      PROVE  final[p].call = p
  <2>1. CASE Executable(p)
    <3>1. TurnOf(p) \in 1..Len(results) /\ final[p] = results[TurnOf(p)]
      BY <1>1, <1>3, <2>1
    <3>2. results[TurnOf(p)].call = FitCalls[TurnOf(p)]
      BY <1>1, <1>5, <3>1 DEF InTurn
    <3>3. FitCalls[TurnOf(p)] = p
      BY <1>1, <2>1, FitCallsAre
    <3> QED
      BY <3>1, <3>2, <3>3
  <2>2. CASE ~ Executable(p)
    BY <1>1, <1>3, <2>2
  <2> QED
    BY <2>1, <2>2
<1> QED
  BY <1>1, <1>3, <1>4, <1>5
-------------------------------------------------------------------------------
(* Commands: what a run leaves behind.                                     *)

LEMMA OwnedStarts == Command!ExecInit => Command!OwnedInv
BY DEF Command!ExecInit, Command!OwnedInv, Command!OutputKept, Command!Nothing

LEMMA OwnedStutters ==
    Command!OwnedInv /\ UNCHANGED Command!runVars => Command!OwnedInv'
BY DEF Command!runVars, Command!OwnedInv, Command!OutputKept

LEMMA OwnedStep == Command!OwnedInv /\ Command!ExecNext => Command!OwnedInv'
<1> SUFFICES ASSUME Command!OwnedInv, Command!ExecNext
             PROVE  Command!OwnedInv'
  OBVIOUS
<1> USE DEF Command!OwnedInv, Command!OutputKept, Command!around, Command!processes,
            Command!streams
<1>1. CASE Command!ToolCall
  BY <1>1 DEF Command!ToolCall, Command!Begins, Command!Idle
<1>2. CASE Command!Stop
  BY <1>2 DEF Command!Stop, Command!Begins, Command!Idle
<1>3. CASE \E h \in FromSkills : Command!SkillUsed(h)
  BY <1>3 DEF Command!SkillUsed, Command!Idle
<1>4. CASE Command!Spawn
  BY <1>4 DEF Command!Spawn, Command!Attached
<1>5. CASE Command!SpawnFails
  BY <1>5 DEF Command!SpawnFails, Command!Returns
<1>6. CASE Command!Exited
  BY <1>6 DEF Command!Exited, Command!Disarmed
<1>7. CASE Command!TimedOut
  BY <1>7 DEF Command!TimedOut, Command!Terminate, Command!Tree
<1>8. CASE Command!Writes
  BY <1>8 DEF Command!Writes
<1>9. CASE Command!Reads
  BY <1>9 DEF Command!Reads
<1>10. CASE Command!Return
  <2>1. confirmed = 0 /\ plan - allowList = 0
    BY <1>10 DEF Command!Return, Command!Drained
  <2>2. saved'.missed = 0
    BY <1>10, <2>1 DEF Command!Return, Command!Returns
  <2> QED
    BY <1>10, <2>2 DEF Command!Return, Command!Returns
<1>11. CASE Command!Cancel
  BY <1>11 DEF Command!Cancel, Command!Terminate, Command!Tree
<1>12. CASE \E role \in Command!Roles \ {"shell"} : Command!Starts(role)
  BY <1>12 DEF Command!Starts
<1>13. CASE \E role \in Command!Roles, ok \in BOOLEAN : Command!Ends(role, ok)
  BY <1>13 DEF Command!Ends
<1> QED
  BY <1>1, <1>2, <1>3, <1>4, <1>5, <1>6, <1>7, <1>8, <1>9, <1>10, <1>11, <1>12, <1>13
     DEF Command!ExecNext
-------------------------------------------------------------------------------
(* Commands: the hooks before a tool.                                      *)

\* The hooks of an event are among the hooks, and all of them.
LEMMA OfKeeps ==
    ASSUME NEW e, NEW H, front \in Seq(H)
    PROVE  /\ Command!Of(e) \in Seq(H)
           /\ \A i \in DOMAIN front : EventOf[front[i]] = e =>
                 \E j \in DOMAIN Command!Of(e) : Command!Of(e)[j] = front[i]
<1> DEFINE n == Len(front)
           T == Seq(H)
           G == [x \in (1..n) \X T |-> IF EventOf[front[x[1]]] = e THEN Append(x[2], front[x[1]])
                                       ELSE x[2]]
           D == DOMAIN front
<1>1. n \in Nat /\ D = 1..n /\ \A i \in 1..n : front[i] \in H
  OBVIOUS
<1>2. <<>> \in T /\ \A i \in 1..n, v \in T : Append(v, front[i]) \in T
  BY <1>1
<1>3. \A i \in 1..n, v \in T :
          /\ G[<<i, v>>] = IF EventOf[front[i]] = e THEN Append(v, front[i]) ELSE v
          /\ G[<<i, v>>] \in T
  BY <1>2
<1> HIDE DEF n, T, G
<1>4. Closed(G, 1..n, T)
  BY <1>3 DEF Closed
<1>5. PICK it \in [SUBSET (1..n) -> T] : IsLeftFold(it, n, <<>>, G)
  BY <1>1, <1>2, <1>4, FoldLeftExists
<1>6. \A d \in SUBSET D : d # {} =>
            /\ Command!Max(d) = Max(d) /\ Max(d) \in 1..n
            /\ G[<<Max(d), it[d \ {Max(d)}]>>] =
                  IF EventOf[front[Max(d)]] = e THEN Append(it[d \ {Max(d)}], front[Max(d)])
                  ELSE it[d \ {Max(d)}]
  <2> SUFFICES ASSUME NEW d \in SUBSET (1..n), d # {}
               PROVE  /\ Command!Max(d) = Max(d) /\ Max(d) \in 1..n
                      /\ G[<<Max(d), it[d \ {Max(d)}]>>] =
                            IF EventOf[front[Max(d)]] = e
                            THEN Append(it[d \ {Max(d)}], front[Max(d)])
                            ELSE it[d \ {Max(d)}]
    BY <1>1
  <2>1. d \in SUBSET (0..n)
    BY <1>1
  <2>2. Max(d) \in 1..n /\ d \ {Max(d)} \in SUBSET (1..n)
    BY <1>1, <2>1, MaxOf
  <2>3. Command!Max(d) = Max(d)
    BY Zenon DEF Command!Max, Max
  <2> QED
    BY <1>3, <2>2, <2>3
<1>7. it = [d \in SUBSET D |->
               IF d = {} THEN <<>>
               ELSE IF EventOf[front[Command!Max(d)]] = e
                    THEN Append(it[d \ {Command!Max(d)}], front[Command!Max(d)])
                    ELSE it[d \ {Command!Max(d)}]]
  <2>1. \A d \in SUBSET D :
            (IF d = {} THEN <<>> ELSE G[<<Max(d), it[d \ {Max(d)}]>>])
            = (IF d = {} THEN <<>>
               ELSE IF EventOf[front[Command!Max(d)]] = e
                    THEN Append(it[d \ {Command!Max(d)}], front[Command!Max(d)])
                    ELSE it[d \ {Command!Max(d)}])
    BY <1>6
  <2>2. it = [d \in SUBSET D |-> IF d = {} THEN <<>> ELSE G[<<Max(d), it[d \ {Max(d)}]>>]]
    BY <1>1, <1>5 DEF IsLeftFold
  <2> HIDE DEF D
  <2> QED
    BY <2>1, <2>2
<1>8. PICK f :
         /\ f = [d \in SUBSET D |->
                    IF d = {} THEN <<>>
                    ELSE IF EventOf[front[Command!Max(d)]] = e
                         THEN Append(f[d \ {Command!Max(d)}], front[Command!Max(d)])
                         ELSE f[d \ {Command!Max(d)}]]
         /\ Command!Of(e) = f[D]
  <2>1. \E f :
         /\ f = [d \in SUBSET D |->
                    IF d = {} THEN <<>>
                    ELSE IF EventOf[front[Command!Max(d)]] = e
                         THEN Append(f[d \ {Command!Max(d)}], front[Command!Max(d)])
                         ELSE f[d \ {Command!Max(d)}]]
         /\ Command!Of(e) = f[D]
    BY <1>7 DEF Command!Of, Command!FoldLeft, Command!MapThenFoldSet
  <2> QED
    BY <2>1
<1>9. Recurses(f, n, T, <<>>, G)
  <2>1. f[{}] = <<>>
    <3>1. {} \in SUBSET D
      OBVIOUS
    <3> QED
      BY <1>8, <3>1, Zenon
  <2>2. ASSUME NEW k \in 1..n, f[1..(k - 1)] \in T
        PROVE  f[1..k] = G[<<k, f[1..(k - 1)]>>]
    <3>1. /\ 1..k \in SUBSET (1..n) /\ 1..k # {}
          /\ Max(1..k) = k /\ (1..k) \ {k} = 1..(k - 1)
      BY <1>1, Segments
    <3>2. Command!Max(1..k) = k /\ 1..k \in SUBSET D
      BY <1>1, <1>6, <3>1
    <3>3. f[1..k] = IF EventOf[front[k]] = e THEN Append(f[1..(k - 1)], front[k])
                    ELSE f[1..(k - 1)]
      <4>1. f[1..k] = IF EventOf[front[Command!Max(1..k)]] = e
                      THEN Append(f[(1..k) \ {Command!Max(1..k)}], front[Command!Max(1..k)])
                      ELSE f[(1..k) \ {Command!Max(1..k)}]
        <5> DEFINE q == 1..k
        <5>1. q \in SUBSET D /\ q # {}
          BY <3>1, <3>2
        <5> HIDE DEF q, D
        <5>2. f[q] = IF EventOf[front[Command!Max(q)]] = e
                     THEN Append(f[q \ {Command!Max(q)}], front[Command!Max(q)])
                     ELSE f[q \ {Command!Max(q)}]
          BY <1>8, <5>1
        <5> QED
          BY <5>2 DEF q
      <4> QED
        BY <3>1, <3>2, <4>1
    <3> QED
      BY <1>3, <2>2, <3>3
  <2> QED
    BY <2>1, <2>2 DEF Recurses
<1>10. PICK c : Steps(c, n, T, <<>>, G) /\ Command!Of(e) = c[n]
  <2>1. HasSteps(f, n, T, <<>>, G)
    BY <1>1, <1>2, <1>4, <1>9, FoldSteps
  <2> QED
    BY <1>1, <1>8, <2>1 DEF HasSteps
<1> DEFINE Has(k, v) == \A i \in 1..k : EventOf[front[i]] = e => \E j \in DOMAIN v : v[j] = front[i]
           P == {x \in (0..n) \X T : Has(x[1], x[2])}
<1>11. ASSUME NEW k \in 1..n, NEW v \in T, Has(k - 1, v)
       PROVE  Has(k, G[<<k, v>>])
  <2> SUFFICES ASSUME NEW i \in 1..k, EventOf[front[i]] = e
               PROVE  \E j \in DOMAIN G[<<k, v>>] : G[<<k, v>>][j] = front[i]
    OBVIOUS
  <2> DEFINE w == G[<<k, v>>]
             x == front[k]
  <2>1. /\ v \in Seq(H) /\ x \in H
        /\ w = IF EventOf[x] = e THEN Append(v, x) ELSE v
    BY <1>1, <1>3 DEF T
  <2>2. \A j \in DOMAIN v : j \in DOMAIN w /\ w[j] = v[j]
    <3> HIDE DEF w, x
    <3> QED
      BY <2>1
  <2>3. CASE i = k
    <3>1. w = Append(v, x)
      BY <2>1, <2>3
    <3> HIDE DEF w, x
    <3>2. Len(v) + 1 \in DOMAIN w /\ w[Len(v) + 1] = x
      BY <2>1, <3>1
    <3> QED
      BY <2>3, <3>2 DEF w, x
  <2>4. CASE i # k
    <3>1. i \in 1..(k - 1)
      BY <1>1, <2>4
    <3>2. PICK j \in DOMAIN v : v[j] = front[i]
      BY <1>11, <3>1
    <3> QED
      BY <2>2, <3>2
  <2> QED
    BY <2>3, <2>4
<1>12. Kept(P, n, T, <<>>, G)
  <2>1. <<0, <<>>>> \in P
    BY <1>1, <1>2
  <2>2. ASSUME NEW k \in 1..n, NEW v \in T, <<k - 1, v>> \in P
        PROVE  <<k, G[<<k, v>>]>> \in P
    <3>1. Has(k - 1, v)
      BY <2>2
    <3>2. Has(k, G[<<k, v>>])
      BY <1>11, <3>1
    <3>3. k \in 0..n /\ G[<<k, v>>] \in T
      BY <1>1, <1>3
    <3> HIDE DEF Has
    <3> QED
      BY <3>2, <3>3
  <2> QED
    BY <2>1, <2>2 DEF Kept
<1> HIDE DEF P
<1>13. \A k \in 0..n : <<k, c[k]>> \in P
  BY <1>1, <1>10, <1>12, StepsKeep
<1>14. <<n, c[n]>> \in P /\ c[n] \in T
  BY <1>1, <1>10, <1>13 DEF Steps
<1> QED
  BY <1>1, <1>8, <1>10, <1>14 DEF P, T

LEMMA GateStarts == Command!ExecInit => Command!GateInv
<1> SUFFICES ASSUME Command!ExecInit
             PROVE  Command!GateInv
  OBVIOUS
<1>1. PICK n \in 0..2 : front \in [1..n -> Configured]
  BY DEF Command!ExecInit
<1>2. front \in Seq(Configured \cup FromSkills) /\ rounds = <<>> /\ batch = "none"
  BY <1>1 DEF Command!ExecInit
<1> QED
  BY <1>2 DEF Command!GateInv

\* A step that begins nothing, and takes nothing from what has passed.
LEMMA GateKept ==
    ASSUME Command!GateInv, front' = front, calls \subseteq calls', rounds' = rounds,
           batch' # "none" => rounds # <<>>
    PROVE  Command!GateInv'
BY DEF Command!GateInv

LEMMA GateBegins ==
    ASSUME Command!GateInv, Command!ToolCall \/ Command!Stop
    PROVE  Command!GateInv'
<1> DEFINE H == Configured \cup FromSkills
           pre == Command!Of("pre")
           post == Command!Of("post")
           stop == Command!Of("stop")
           a == Len(pre)
<1>1. front \in Seq(H) /\ front' = front /\ batch' = "none"
  BY DEF Command!GateInv, Command!ToolCall, Command!Stop, Command!Begins, Command!Idle
<1>2. /\ pre \in Seq(H) /\ post \in Seq(H) /\ stop \in Seq(H)
      /\ \A i \in DOMAIN front : EventOf[front[i]] = "pre" => \E j \in DOMAIN pre : pre[j] = front[i]
  BY <1>1, OfKeeps
<1>3. Command!Tool \notin H
  BY HooksAssumption
<1>4. CASE Command!ToolCall
  <2> DEFINE items == pre \o <<Command!Tool>> \o post
  <2>1. rounds' = items
    BY <1>4 DEF Command!ToolCall, Command!Begins
  <2> HIDE DEF pre, post, stop, H
  <2> USE DEF Command!Tool
  <2>2. <<Command!Tool>> \in Seq(H \cup {Command!Tool}) /\ pre \in Seq(H \cup {Command!Tool})
        /\ post \in Seq(H \cup {Command!Tool})
    BY <1>2
  <2>3. items \in Seq(H \cup {Command!Tool})
    BY <2>2
  <2>4. a \in Nat /\ \A j \in 1..a : items[j] = pre[j] /\ items[j] \in H
    BY <1>2
  <2>5. ASSUME NEW k \in DOMAIN items, items[k] = Command!Tool
        PROVE  k = a + 1
    <3>1. k \in Nat \ {0} /\ k <= a + 1 + Len(post)
      BY <1>2
    <3>2. CASE k > a + 1
      <4>1. k - (a + 1) \in 1..Len(post) /\ items[k] = post[k - (a + 1)]
        BY <1>2, <3>1, <3>2
      <4>2. post[k - (a + 1)] \in H
        BY <1>2, <4>1
      <4> QED
        BY <1>3, <2>5, <4>1, <4>2
    <3>3. CASE k <= a
      BY <1>3, <2>4, <2>5, <3>1, <3>3
    <3> QED
      BY <2>4, <3>1, <3>2, <3>3
  <2>6. ASSUME NEW k \in DOMAIN items, NEW i \in DOMAIN front,
               items[k] = Command!Tool, EventOf[front[i]] = "pre"
        PROVE  \E j \in 1..(k - 1) : items[j] = front[i]
    <3>1. k - 1 = a
      BY <2>4, <2>5, <2>6
    <3>2. PICK j \in DOMAIN pre : pre[j] = front[i]
      BY <1>2, <2>6
    <3>3. j \in 1..a
      BY <1>2
    <3> QED
      BY <2>4, <3>1, <3>2, <3>3
  <2> HIDE DEF items, Command!Tool
  <2> QED
    BY <1>1, <2>1, <2>3, <2>6 DEF Command!GateInv, H
<1>5. CASE Command!Stop
  <2>1. rounds' = stop
    BY <1>5 DEF Command!Stop, Command!Begins
  <2> HIDE DEF stop
  <2>2. stop \in Seq(H \cup {Command!Tool}) /\ \A k \in DOMAIN stop : stop[k] # Command!Tool
    BY <1>2, <1>3
  <2> QED
    BY <1>1, <2>1, <2>2 DEF Command!GateInv
<1> QED
  BY <1>4, <1>5

\* A command that returns: it has passed, or it blocks the tool, or it is none of
\* the hooks before it.
LEMMA GateReturns ==
    ASSUME Command!GateInv, NEW result, NEW missed, Command!Returns(result, missed),
           rounds # <<>>
    PROVE  Command!GateInv'
<1> DEFINE H == Configured \cup FromSkills
           item == Head(rounds)
<1>1. rounds \in Seq(H \cup {Command!Tool}) /\ front \in Seq(H) /\ front' = front
      /\ batch' = "none"
  BY DEF Command!GateInv, Command!Returns
<1>2. CASE rounds' = <<>>
  BY <1>1, <1>2 DEF Command!GateInv
<1>3. CASE rounds' = Tail(rounds)
  <2>1. /\ Tail(rounds) \in Seq(H \cup {Command!Tool})
        /\ item = rounds[1] /\ Len(Tail(rounds)) = Len(rounds) - 1
        /\ Len(rounds) \in Nat \ {0}
        /\ \A k \in 1..(Len(rounds) - 1) : Tail(rounds)[k] = rounds[k + 1]
        /\ DOMAIN Tail(rounds) = 1..(Len(rounds) - 1) /\ DOMAIN rounds = 1..Len(rounds)
    BY <1>1, HeadTailProperties
  <2>2. ASSUME NEW i \in DOMAIN front, EventOf[front[i]] = "pre",
               item = front[i], rounds' # <<>>
        PROVE  item \in calls'
    <3>1. front[i] \in H /\ front[i] # Command!Tool
      BY <1>1, HooksAssumption
    <3>2. Command!Before(item)
      BY <2>2, <3>1 DEF Command!Before
    <3>3. rounds' = IF Command!Before(item) /\ Command!Blocks(result) THEN <<>> ELSE Tail(rounds)
      BY DEF Command!Returns
    <3>4. ~ Command!Blocks(result)
      BY <2>2, <3>2, <3>3
    <3>5. result = "ok"
      BY <3>4 DEF Command!Blocks
    <3> QED
      BY <3>5 DEF Command!Returns
  <2>3. calls \subseteq calls'
    BY DEF Command!Returns
  <2> HIDE DEF item
  <2>4. ASSUME NEW k \in DOMAIN Tail(rounds), NEW i \in DOMAIN front,
               Tail(rounds)[k] = Command!Tool, EventOf[front[i]] = "pre"
        PROVE  front[i] \in calls' \/ \E j \in 1..(k - 1) : Tail(rounds)[j] = front[i]
    <3>1. k + 1 \in DOMAIN rounds /\ rounds[k + 1] = Command!Tool /\ rounds' # <<>>
          /\ k \in 1..(Len(rounds) - 1) /\ (k + 1) - 1 = k
      BY <1>3, <2>1, <2>4
    <3>2. front[i] \in calls \/ \E j \in 1..k : rounds[j] = front[i]
      BY <2>4, <3>1 DEF Command!GateInv
    <3>3. CASE front[i] \in calls
      BY <2>3, <3>3
    <3>4. ASSUME NEW j \in 1..k, rounds[j] = front[i]
          PROVE  front[i] \in calls' \/ \E m \in 1..(k - 1) : Tail(rounds)[m] = front[i]
      <4>1. CASE j = 1
        BY <2>1, <2>2, <2>4, <3>1, <3>4, <4>1
      <4>2. CASE j # 1
        <5>1. j - 1 \in 1..(k - 1) /\ j - 1 \in 1..(Len(rounds) - 1) /\ (j - 1) + 1 = j
          BY <2>1, <3>1, <4>2
        <5>2. Tail(rounds)[j - 1] = front[i]
          BY <2>1, <3>4, <5>1
        <5> QED
          BY <5>1, <5>2
      <4> QED
        BY <4>1, <4>2
    <3> QED
      BY <3>2, <3>3, <3>4
  <2> QED
    BY <1>1, <1>3, <2>1, <2>4 DEF Command!GateInv
<1> QED
  BY <1>2, <1>3 DEF Command!Returns

LEMMA GateStep == Command!GateInv /\ Command!ExecNext => Command!GateInv'
<1> SUFFICES ASSUME Command!GateInv, Command!ExecNext
             PROVE  Command!GateInv'
  OBVIOUS
<1> USE DEF Command!around, Command!processes, Command!streams
<1>1. CASE Command!ToolCall \/ Command!Stop
  BY <1>1, GateBegins
<1>2. CASE \E h \in FromSkills : Command!SkillUsed(h)
  <2>1. PICK h \in FromSkills : Command!SkillUsed(h)
    BY <1>2
  <2>2. rounds = <<>> /\ rounds' = rounds /\ front' = Append(front, h) /\ batch' = "none"
    BY <2>1 DEF Command!SkillUsed, Command!Idle
  <2>3. front' \in Seq(Configured \cup FromSkills)
    BY <2>2 DEF Command!GateInv
  <2> QED
    BY <2>2, <2>3 DEF Command!GateInv
<1>3. CASE Command!SpawnFails
  BY <1>3, GateReturns DEF Command!SpawnFails
<1>4. CASE Command!Return
  BY <1>4, GateReturns DEF Command!Return, Command!GateInv
<1>5. CASE Command!Cancel
  <2>1. rounds' = <<>> /\ front' = front /\ batch' = "none"
    BY <1>5 DEF Command!Cancel
  <2> QED
    BY <2>1 DEF Command!GateInv
<1>6. CASE \/ Command!Spawn \/ Command!Exited \/ Command!TimedOut \/ Command!Writes
           \/ Command!Reads
  BY <1>6, GateKept DEF Command!Spawn, Command!Exited, Command!TimedOut, Command!Writes,
     Command!Reads, Command!GateInv
<1>7. CASE \E role \in Command!Roles \ {"shell"} : Command!Starts(role)
  BY <1>7, GateKept DEF Command!Starts, Command!GateInv
<1>8. CASE \E role \in Command!Roles, ok \in BOOLEAN : Command!Ends(role, ok)
  BY <1>8, GateKept DEF Command!Ends, Command!GateInv
<1> QED
  BY <1>1, <1>2, <1>3, <1>4, <1>5, <1>6, <1>7, <1>8 DEF Command!ExecNext

\* What holds of a command is not about the other components.
LEMMA CommandAlways ==
    RoundSpec => [](which = "command" => Command!OwnedInv /\ Command!GateInv)
<1> DEFINE Inv == which = "command" => Command!OwnedInv /\ Command!GateInv
<1>1. RoundInit => Inv
  BY OwnedStarts, GateStarts DEF RoundInit
<1>2. Inv /\ [RoundNext]_<<which, vars, others>> => Inv'
  <2> SUFFICES ASSUME Inv, [RoundNext]_<<which, vars, others>>, which' = "command"
               PROVE  Command!OwnedInv' /\ Command!GateInv'
    OBVIOUS
  <2>1. which = "command"
    BY DEF RoundNext
  <2>2. CASE Command!ExecNext
    BY <2>1, <2>2, OwnedStep, GateStep
  <2>3. CASE UNCHANGED <<which, vars, others>>
    <3>1. UNCHANGED Command!runVars
      BY <2>3 DEF vars, round, rights, Command!runVars
    <3>2. Command!GateInv'
      BY <2>1, <3>1 DEF Command!runVars, Command!GateInv
    <3> QED
      BY <2>1, <3>1, <3>2, OwnedStutters
  <2> QED
    BY <2>1, <2>2, <2>3 DEF RoundNext
<1> QED
  BY <1>1, <1>2, PTL DEF RoundSpec

\* Nothing a command started runs on once it has timed out or was cancelled, nothing
\* else is terminated, and no output that was written before its end is lost,
\* however many runs, processes and writes there are (runner.rs 22, 104,
\* containment.rs 78).
THEOREM NothingLeftAlways == RoundSpec => []NothingLeftBehind
<1>1. (which = "command" => Command!OwnedInv /\ Command!GateInv) => NothingLeftBehind
  BY DEF Command!OwnedInv, NothingLeftBehind, Command!TreesOwned, Command!OutputKept
<1> QED
  BY <1>1, CommandAlways, PTL

\* A tool runs only when every hook before it, those that a skill brought included,
\* ended with 0, for any hooks of any event (hooks.rs 67-86).
THEOREM HooksAlways == RoundSpec => []HooksInCharge
<1>1. (which = "command" => Command!OwnedInv /\ Command!GateInv) => HooksInCharge
  <2> SUFFICES ASSUME Command!GateInv, rounds # <<>>, Head(rounds) = Command!Tool,
                      NEW i \in DOMAIN front, EventOf[front[i]] = "pre"
               PROVE  front[i] \in calls
    BY DEF HooksInCharge, Command!HooksGate
  <2>1. 1 \in DOMAIN rounds /\ rounds[1] = Command!Tool
    BY DEF Command!GateInv
  <2>2. 1..(1 - 1) = {}
    OBVIOUS
  <2> QED
    BY <2>1, <2>2 DEF Command!GateInv
<1> QED
  BY <1>1, CommandAlways, PTL
-------------------------------------------------------------------------------
(* Agents: what children may, and the wait for them.                       *)

LEMMA AgentsStart == Agents!AgentsInit => Agents!AgentsInv
BY DEF Agents!AgentsInit, Agents!AgentsInv, Agents!ChildrenKeptIn, Agents!AllWaitedFor,
       Agents!Idle

LEMMA AgentsBegin ==
    ASSUME Agents!AgentsInv, NEW what, NEW allowed \in SUBSET Agents!Tools, NEW n \in Nat,
           Agents!Begins(what, allowed, n)
    PROVE  Agents!AgentsInv'
<1> DEFINE child == Agents!Child(allowed)
<1>1. /\ phase' = [i \in 1..n |-> child] /\ rounds' = [what |-> what, allowed |-> allowed]
      /\ front' = front /\ left' = left /\ batch' = <<>>
  BY DEF Agents!Begins
<1>2. child \in Agents!ChildStates /\ (allowed # {} => child.may \subseteq allowed)
  BY DEF Agents!Child, Agents!Narrowed, Agents!ChildStates
<1> HIDE DEF child
<1>3. phase' \in Seq(Agents!ChildStates) /\ Agents!ChildStates' = Agents!ChildStates
  BY <1>1, <1>2 DEF Agents!ChildStates
<1>4. \A i \in DOMAIN phase' : phase'[i] = child
  BY <1>1
<1> QED
  BY <1>1, <1>2, <1>3, <1>4
     DEF Agents!AgentsInv, Agents!ChildrenKeptIn, Agents!AllWaitedFor

\* A child goes on as the child it is.
LEMMA AgentsGoOn ==
    ASSUME Agents!AgentsInv, NEW i \in DOMAIN phase,
           NEW at \in {"wait", "tool"} \cup Agents!Ended, NEW turns \in Nat,
           phase' = [phase EXCEPT ![i] = [at |-> at, turns |-> turns, may |-> phase[i].may]],
           front' = front, rounds' = rounds, batch' = batch,
           \/ left' = left
           \/ \E tool \in phase[i].may : left' = left \cup {<<rounds.allowed, tool>>}
    PROVE  Agents!AgentsInv'
<1> DEFINE S == Agents!ChildStates
           child == [at |-> at, turns |-> turns, may |-> phase[i].may]
<1>1. phase \in Seq(S) /\ S' = S
  BY DEF Agents!AgentsInv, Agents!ChildStates
<1>2. phase[i] \in S
  <2> HIDE DEF S
  <2> QED
    BY <1>1
<1>3. child \in S
  BY <1>2 DEF Agents!ChildStates
<1>4. phase' \in Seq(S) /\ DOMAIN phase' = DOMAIN phase
  <2> HIDE DEF S, child
  <2>1. phase' = [phase EXCEPT ![i] = child]
    BY DEF child
  <2> QED
    BY <1>1, <1>3, <2>1
<1>5. \A k \in DOMAIN phase : phase'[k].may = phase[k].may
  BY <1>1
<1>6. Agents!ChildrenKeptIn'
  <2>1. phase[i].may \subseteq front \cap ChildTools
        /\ (rounds.allowed # {} => phase[i].may \subseteq rounds.allowed)
    BY <1>2 DEF Agents!AgentsInv, Agents!ChildStates
  <2> QED
    BY <2>1 DEF Agents!AgentsInv, Agents!ChildrenKeptIn
<1> QED
  BY <1>1, <1>4, <1>5, <1>6 DEF Agents!AgentsInv, Agents!AllWaitedFor

LEMMA ChildIs ==
    ASSUME Agents!AgentsInv, NEW i \in DOMAIN phase
    PROVE  /\ phase[i] \in Agents!ChildStates /\ phase[i].turns \in Nat
           /\ phase[i].turns + 1 \in Nat
           /\ phase[i] = [at |-> phase[i].at, turns |-> phase[i].turns, may |-> phase[i].may]
<1> DEFINE S == Agents!ChildStates
<1>1. phase \in Seq(S)
  BY DEF Agents!AgentsInv
<1>2. phase[i] \in S
  <2> HIDE DEF S
  <2> QED
    BY <1>1
<1> QED
  BY <1>2 DEF Agents!ChildStates

LEMMA AgentsStep == Agents!AgentsInv /\ Agents!AgentsNext => Agents!AgentsInv'
<1> SUFFICES ASSUME Agents!AgentsInv, Agents!AgentsNext
             PROVE  Agents!AgentsInv'
  OBVIOUS
<1>1. ASSUME NEW n \in 1..MaxSubAgents, Agents!Spawn(n)
      PROVE  Agents!AgentsInv'
  BY <1>1, AgentsBegin DEF Agents!Spawn
<1>2. CASE Agents!SpawnRefused
  BY <1>2 DEF Agents!SpawnRefused, Agents!AgentsInv, Agents!ChildStates,
     Agents!ChildrenKeptIn, Agents!AllWaitedFor, Agents!Ended
<1>3. ASSUME NEW allowed \in SUBSET Agents!Tools, Agents!Fork(allowed)
      PROVE  Agents!AgentsInv'
  BY <1>3, AgentsBegin DEF Agents!Fork
<1>4. ASSUME NEW i \in DOMAIN phase, NEW at \in {"wait", "tool"} \cup Agents!Ended,
             Agents!Becomes(i, at)
      PROVE  phase' = [phase EXCEPT ![i] = [at |-> at, turns |-> phase[i].turns,
                                            may |-> phase[i].may]]
  <2>1. phase' = [phase EXCEPT ![i] = [phase[i] EXCEPT !.at = at]]
    BY <1>4 DEF Agents!Becomes
  <2>2. [phase[i] EXCEPT !.at = at] = [at |-> at, turns |-> phase[i].turns, may |-> phase[i].may]
    <3>1. phase[i] = [at |-> phase[i].at, turns |-> phase[i].turns, may |-> phase[i].may]
      BY ChildIs
    <3> QED
      BY <3>1
  <2> QED
    BY <2>1, <2>2
<1>5. ASSUME NEW i \in DOMAIN phase, Agents!ToolEnds(i)
      PROVE  Agents!AgentsInv'
  BY <1>4, <1>5, ChildIs, AgentsGoOn DEF Agents!ToolEnds
<1>6. ASSUME NEW i \in DOMAIN phase, NEW tool \in Agents!Tools, Agents!Asks(i, tool)
      PROVE  Agents!AgentsInv'
  <2> DEFINE at == IF tool \in phase[i].may THEN "tool" ELSE "wait"
  <2>1. phase' = [phase EXCEPT ![i] = [phase[i] EXCEPT !.turns = phase[i].turns + 1, !.at = at]]
    BY <1>6 DEF Agents!Asks
  <2>2. [phase[i] EXCEPT !.turns = phase[i].turns + 1, !.at = at]
        = [at |-> at, turns |-> phase[i].turns + 1, may |-> phase[i].may]
    <3> DEFINE a == phase[i].at
               t == phase[i].turns
               m == phase[i].may
               u == t + 1
               r == phase[i]
    <3>1. r = [at |-> a, turns |-> t, may |-> m]
      BY ChildIs
    <3> HIDE DEF at, a, t, m, u, r
    <3> DEFINE q == [r EXCEPT !.turns = u]
    <3>2. q = [at |-> a, turns |-> u, may |-> m]
      BY <3>1
    <3> HIDE DEF q
    <3>3. [q EXCEPT !.at = at] = [at |-> at, turns |-> u, may |-> m]
      BY <3>2
    <3>4. [r EXCEPT !.turns = u, !.at = at] = [at |-> at, turns |-> u, may |-> m]
      BY <3>3 DEF q
    <3> QED
      BY <3>4 DEF t, m, u, r
  <2>3. phase' = [phase EXCEPT ![i] = [at |-> at, turns |-> phase[i].turns + 1,
                                       may |-> phase[i].may]]
    BY <2>1, <2>2
  <2>4. at \in {"wait", "tool"} \cup Agents!Ended
    OBVIOUS
  <2> HIDE DEF at
  <2>5. /\ front' = front /\ rounds' = rounds /\ batch' = batch
        /\ \/ left' = left
           \/ \E t \in phase[i].may : left' = left \cup {<<rounds.allowed, t>>}
    BY <1>6 DEF Agents!Asks
  <2> QED
    BY <2>3, <2>4, <2>5, ChildIs, AgentsGoOn
<1>7. ASSUME NEW i \in DOMAIN phase, NEW how \in Agents!Ended, Agents!Ends(i, how)
      PROVE  Agents!AgentsInv'
  BY <1>4, <1>7, ChildIs, AgentsGoOn DEF Agents!Ends
<1>8. CASE Agents!Returns
  <2>1. \A i \in DOMAIN batch' : batch'[i] \in Agents!Ended
    BY <1>8 DEF Agents!Returns, Agents!Joined
  <2> QED
    BY <1>8, <2>1 DEF Agents!Returns, Agents!AgentsInv, Agents!ChildrenKeptIn,
       Agents!AllWaitedFor, Agents!Idle
<1>9. CASE Agents!Dropped
  BY <1>9 DEF Agents!Dropped, Agents!AgentsInv, Agents!ChildrenKeptIn,
     Agents!AllWaitedFor, Agents!Idle
<1> QED
  BY <1>1, <1>2, <1>3, <1>5, <1>6, <1>7, <1>8, <1>9 DEF Agents!AgentsNext

LEMMA AgentsAlways == RoundSpec => [](which = "agents" => Agents!AgentsInv)
<1> DEFINE Inv == which = "agents" => Agents!AgentsInv
<1>1. RoundInit => Inv
  BY AgentsStart DEF RoundInit
<1>2. Inv /\ [RoundNext]_<<which, vars, others>> => Inv'
  <2> SUFFICES ASSUME Inv, [RoundNext]_<<which, vars, others>>, which' = "agents"
               PROVE  Agents!AgentsInv'
    OBVIOUS
  <2>1. which = "agents"
    BY DEF RoundNext
  <2>2. CASE Agents!AgentsNext
    BY <2>1, <2>2, AgentsStep
  <2>3. CASE UNCHANGED <<which, vars, others>>
    BY <2>1, <2>3 DEF vars, round, Agents!AgentsInv, Agents!ChildStates,
       Agents!ChildrenKeptIn, Agents!AllWaitedFor
  <2> QED
    BY <2>1, <2>2, <2>3 DEF RoundNext
<1> QED
  BY <1>1, <1>2, PTL DEF RoundSpec
-------------------------------------------------------------------------------
(* The window: the estimate of the conversation's size.                    *)

LEMMA TotalIsSum == ASSUME NEW s PROVE Total(s) = SumOf(s)
BY DEF Total, SumOf

LEMMA TotalIs == ASSUME NEW s \in Seq(Nat) PROVE Total(s) \in Nat
<1>1. PICK r : Sums(s, r) /\ SumOf(s) = r[Len(s)]
  BY SumsExist
<1>2. Len(s) \in 0..Len(s)
  OBVIOUS
<1> QED
  BY <1>1, <1>2, TotalIsSum DEF Sums

LEMMA TotalOfNone == Total(<<>>) = 0
<1>1. <<>> \in Seq(Nat) /\ Len(<<>>) = 0
  OBVIOUS
<1>2. PICK r : Sums(<<>>, r) /\ SumOf(<<>>) = r[Len(<<>>)]
  BY <1>1, SumsExist
<1> QED
  BY <1>1, <1>2, TotalIsSum DEF Sums

LEMMA TotalOfMore ==
    ASSUME NEW s \in Seq(Nat), NEW size \in Nat
    PROVE  Total(Append(s, size)) = Total(s) + size
<1> DEFINE n == Len(s)
           t == Append(s, size)
<1>1. PICK r : Sums(s, r) /\ SumOf(s) = r[n]
  BY SumsExist
<1> DEFINE q == [k \in 0..(n + 1) |-> IF k = n + 1 THEN r[n] + size ELSE r[k]]
<1>2. /\ n \in Nat /\ t \in Seq(Nat) /\ Len(t) = n + 1 /\ t[n + 1] = size
      /\ \A k \in 1..n : t[k] = s[k]
  OBVIOUS
<1> HIDE DEF n, t
<1>3. r \in [0..n -> Nat] /\ r[0] = 0 /\ \A k \in 1..n : r[k] = r[k - 1] + s[k]
  BY <1>1 DEF Sums, n
<1>4. q \in [0..(n + 1) -> Nat]
  BY <1>2, <1>3
<1>5. q[0] = 0 /\ q[n + 1] = r[n] + size
  BY <1>2, <1>3
<1>6. ASSUME NEW k \in 1..(n + 1)
      PROVE  q[k] = q[k - 1] + t[k]
  <2>1. CASE k = n + 1
    BY <1>2, <2>1
  <2>2. CASE k # n + 1
    BY <1>2, <1>3, <2>2
  <2> QED
    BY <2>1, <2>2
<1> HIDE DEF q
<1>7. Sums(t, q)
  BY <1>2, <1>4, <1>5, <1>6 DEF Sums
<1>8. SumOf(t) = q[n + 1]
  BY <1>2, <1>7, SumsUnique
<1> QED
  BY <1>1, <1>5, <1>8, TotalIsSum DEF t

\* Messages that shrink make the whole no larger.
LEMMA TotalOfLess ==
    ASSUME NEW s \in Seq(Nat), NEW t \in Seq(Nat), Len(t) = Len(s),
           \A k \in 1..Len(s) : t[k] <= s[k]
    PROVE  Total(t) <= Total(s)
<1> DEFINE n == Len(s)
<1>1. PICK r : Sums(s, r) /\ SumOf(s) = r[n]
  BY SumsExist
<1>2. PICK q : Sums(t, q) /\ SumOf(t) = q[Len(t)]
  BY SumsExist
<1>3. /\ n \in Nat /\ Len(t) = n
      /\ \A k \in 1..n : s[k] \in Nat /\ t[k] \in Nat /\ t[k] <= s[k]
  OBVIOUS
<1>4. /\ r \in [0..n -> Nat] /\ r[0] = 0 /\ \A k \in 1..n : r[k] = r[k - 1] + s[k]
      /\ q \in [0..n -> Nat] /\ q[0] = 0 /\ \A k \in 1..n : q[k] = q[k - 1] + t[k]
  BY <1>1, <1>2, <1>3 DEF Sums
<1> HIDE DEF n
<1> DEFINE S == {k \in Nat : k <= n => q[k] <= r[k]}
<1>5. 0 \in S
  BY <1>4
<1>6. ASSUME NEW k \in S
      PROVE  k + 1 \in S
  <2>1. CASE k + 1 <= n
    <3>1. k + 1 \in 1..n /\ (k + 1) - 1 = k /\ k <= n /\ k \in 0..n /\ k + 1 \in 0..n
      BY <1>3, <2>1
    <3>2. q[k] <= r[k] /\ q[k + 1] = q[k] + t[k + 1] /\ r[k + 1] = r[k] + s[k + 1]
          /\ q[k] \in Nat /\ r[k] \in Nat
      BY <1>4, <3>1
    <3>3. q[k + 1] <= r[k + 1]
      BY <1>3, <3>1, <3>2
    <3> QED
      BY <3>3
  <2>2. CASE ~ (k + 1 <= n)
    BY <2>2
  <2> QED
    BY <2>1, <2>2
<1> HIDE DEF S
<1>7. S = Nat
  <2>1. S \in SUBSET Nat
    BY DEF S
  <2> QED
    BY <1>5, <1>6, <2>1, SetInduction
<1>8. q[n] <= r[n]
  BY <1>3, <1>7 DEF S
<1> QED
  BY <1>1, <1>2, <1>3, <1>8, TotalIsSum

\* A count that clears a message is no larger, and one that adds messages adds them.
LEMMA RecountIs == ASSUME NEW s \in Seq(Nat) PROVE Recount(s) \in Nat
<1>1. Prompt \in Nat
  BY ContextWindowAssumption
<1>2. Total(s) \in Nat
  BY TotalIs
<1> QED
  BY <1>1, <1>2 DEF Recount

LEMMA RecountOfNone == Recount(<<>>) = Prompt /\ Prompt \in Nat
BY TotalOfNone, ContextWindowAssumption DEF Recount

LEMMA RecountOfMore ==
    ASSUME NEW s \in Seq(Nat), NEW size \in Nat
    PROVE  Recount(Append(s, size)) = Recount(s) + size
<1>1. Total(s) \in Nat /\ Total(Append(s, size)) = Total(s) + size
  BY TotalIs, TotalOfMore
<1>2. Prompt \in Nat
  BY ContextWindowAssumption
<1> QED
  BY <1>1, <1>2 DEF Recount

EstimateInv == SizesInv /\ EstimateCovers

LEMMA EstimateStarts == WindowInit => EstimateInv
<1> SUFFICES ASSUME WindowInit
             PROVE  EstimateInv
  OBVIOUS
<1>1. Prompt \in Nat /\ real \in Nat /\ limits.window \in Nat
  BY ContextWindowAssumption DEF WindowInit
<1>2. Recount(<<>>) = Prompt
  BY RecountOfNone
<1>3. SizesInv
  BY <1>1, <1>2, ContextWindowAssumption DEF WindowInit, SizesInv
<1> QED
  BY <1>1, <1>2, <1>3 DEF EstimateInv, EstimateCovers, WindowInit

\* Steps that leave the conversation and its estimate.
LEMMA EstimateKept ==
    ASSUME EstimateInv, UNCHANGED <<real, history, usage, unseen>>,
           \/ limits' = limits
           \/ \E w \in Nat : limits' = [limits EXCEPT !.window = w]
    PROVE  EstimateInv'
BY DEF EstimateInv, SizesInv, EstimateCovers, Recount

\* Steps that make another conversation, with another estimate that covers it.
LEMMA EstimateMade ==
    ASSUME EstimateInv, limits' = limits, real' = real, history' \in Seq(Nat),
           usage' \in Nat, unseen' \in Nat, usage' + unseen' >= Recount(history')
    PROVE  EstimateInv'
<1>1. EstimateCovers'
  BY DEF EstimateCovers
<1> QED
  BY <1>1 DEF EstimateInv, SizesInv

LEMMA EstimateStep == EstimateInv /\ WindowNext => EstimateInv'
<1> SUFFICES ASSUME EstimateInv, WindowNext
             PROVE  EstimateInv'
  OBVIOUS
<1>0. /\ history \in Seq(Nat) /\ usage \in Nat /\ unseen \in Nat /\ real \in Nat
      /\ limits.window \in Nat
      /\ Recount(history) \in Nat /\ usage + unseen >= Recount(history)
      /\ SummaryPrompt \in Nat /\ Prompt \in Nat
  BY RecountIs, ContextWindowAssumption DEF EstimateInv, SizesInv, EstimateCovers
<1>1. CASE UserInput
  <2>1. PICK size \in 1..2 : history' = Append(history, size) /\ usage' = usage + size
    BY <1>1 DEF UserInput
  <2>2. limits' = limits /\ real' = real /\ unseen' = unseen
    BY <1>1 DEF UserInput
  <2>3. size \in Nat /\ Recount(history') = Recount(history) + size
    <3>1. size \in Nat
      BY <2>1
    <3> QED
      BY <1>0, <2>1, <3>1, RecountOfMore
  <2>4. history' \in Seq(Nat) /\ usage' \in Nat /\ usage' + unseen' >= Recount(history')
    BY <1>0, <2>1, <2>2, <2>3
  <2> QED
    BY <1>0, <2>2, <2>4, EstimateMade
<1>2. CASE Microcompact
  <2>1. PICK i \in 1..(Len(history) - 1) :
           history[i] = 2 /\ history' = [history EXCEPT ![i] = 1]
    BY <1>2 DEF Microcompact
  <2>2. /\ limits' = limits /\ real' = real /\ unseen' = unseen /\ usage' = usage
    BY <1>2 DEF Microcompact
  <2>3. /\ history' \in Seq(Nat) /\ Len(history') = Len(history)
        /\ \A k \in 1..Len(history) : history'[k] <= history[k]
    BY <1>0, <2>1
  <2> DEFINE h == history'
  <2>4. Total(h) <= Total(history)
    BY <1>0, <2>3, TotalOfLess
  <2>5. Total(h) \in Nat /\ Total(history) \in Nat
    BY <1>0, <2>3, TotalIs
  <2>6. usage' + unseen' >= Recount(h)
    BY <1>0, <2>2, <2>4, <2>5 DEF Recount
  <2> QED
    BY <1>0, <2>2, <2>3, <2>6, EstimateMade
<1>3. CASE Guard
  BY <1>3, EstimateKept DEF Guard
<1>4. CASE Emergency
  BY <1>4, EstimateKept DEF Emergency
<1>5. CASE Summarized
  <2>1. /\ limits' = limits /\ real' = real /\ history' = <<SummaryPrompt>>
        /\ usage' = Recount(<<SummaryPrompt>>) /\ unseen' = 0
    BY <1>5 DEF Summarized
  <2>2. <<SummaryPrompt>> \in Seq(Nat)
    BY <1>0
  <2>3. Recount(<<SummaryPrompt>>) \in Nat
    BY <2>2, RecountIs
  <2> QED
    BY <2>1, <2>2, <2>3, EstimateMade
<1>6. CASE Shorten
  BY <1>6, EstimateKept DEF Shorten
<1>7. CASE SummaryFails
  BY <1>7, EstimateKept DEF SummaryFails
<1>8. CASE FinalAnswer
  <2>1. PICK measured \in BOOLEAN :
           /\ usage' = IF measured THEN Recount(history) + 1 ELSE usage + 1
           /\ unseen' = IF measured THEN 0 ELSE unseen
    BY <1>8 DEF FinalAnswer, Answered
  <2>2. limits' = limits /\ real' = real /\ history' = Append(history, 1)
    BY <1>8 DEF FinalAnswer
  <2>3. history' \in Seq(Nat) /\ Recount(history') = Recount(history) + 1
    <3>1. 1 \in Nat
      OBVIOUS
    <3> QED
      BY <1>0, <2>2, <3>1, RecountOfMore
  <2>4. usage' \in Nat /\ unseen' \in Nat /\ usage' + unseen' >= Recount(history')
    BY <1>0, <2>1, <2>3
  <2> QED
    BY <2>2, <2>3, <2>4, EstimateMade
<1>9. CASE ToolsRan
  <2>1. PICK measured \in BOOLEAN, result \in 1..2 :
           /\ usage' = (IF measured THEN Recount(history) ELSE usage) + 1 + result
           /\ unseen' = IF measured THEN 0 ELSE unseen
           /\ history' = history \o <<1, result>>
    BY <1>9 DEF ToolsRan
  <2>2. limits' = limits /\ real' = real
    BY <1>9 DEF ToolsRan
  <2>3. history' = Append(Append(history, 1), result)
    BY <1>0, <2>1
  <2>4. Append(history, 1) \in Seq(Nat) /\ 1 \in Nat /\ result \in Nat
    BY <1>0
  <2>5. history' \in Seq(Nat) /\ Recount(history') = Recount(history) + 1 + result
    <3>1. Recount(Append(history, 1)) = Recount(history) + 1
      BY <1>0, <2>4, RecountOfMore
    <3>2. Recount(Append(Append(history, 1), result)) = Recount(Append(history, 1)) + result
      BY <2>4, RecountOfMore
    <3> QED
      BY <2>3, <2>4, <3>1, <3>2
  <2>6. usage' \in Nat /\ unseen' \in Nat /\ usage' + unseen' >= Recount(history')
    BY <1>0, <2>1, <2>4, <2>5
  <2> QED
    BY <2>2, <2>5, <2>6, EstimateMade
<1>10. CASE TruncatedCall
  <2>1. PICK measured \in BOOLEAN :
           /\ usage' = IF measured THEN Recount(history) + 1 ELSE usage
           /\ unseen' = (IF measured THEN 0 ELSE unseen) + 1
    BY <1>10 DEF TruncatedCall
  <2>2. limits' = limits /\ real' = real /\ history' = Append(history, 1)
    BY <1>10 DEF TruncatedCall
  <2>3. history' \in Seq(Nat) /\ Recount(history') = Recount(history) + 1
    <3>1. 1 \in Nat
      OBVIOUS
    <3> QED
      BY <1>0, <2>2, <3>1, RecountOfMore
  <2>4. usage' \in Nat /\ unseen' \in Nat /\ usage' + unseen' >= Recount(history')
    BY <1>0, <2>1, <2>3
  <2> QED
    BY <2>2, <2>3, <2>4, EstimateMade
<1>11. CASE RequestFails
  BY <1>11, EstimateKept DEF RequestFails
<1>12. CASE Overflow
  <2>1. limits' = limits \/ \E w \in Nat : limits' = [limits EXCEPT !.window = w]
    <3>1. CASE retried
      BY <1>12, <3>1 DEF Overflow
    <3>2. CASE ~retried
      <4>1. PICK learned \in Learned :
               limits' = [limits EXCEPT !.window = IF learned < limits.window THEN learned
                                                   ELSE limits.window]
        BY <1>12, <3>2 DEF Overflow
      <4>2. learned \in Nat
        BY <1>0 DEF Learned
      <4> QED
        BY <1>0, <4>1, <4>2
    <3> QED
      BY <3>1, <3>2
  <2>2. UNCHANGED <<real, history, usage, unseen>>
    BY <1>12 DEF Overflow
  <2> QED
    BY <2>1, <2>2, EstimateKept
<1>13. CASE GaveUp
  BY <1>13, EstimateKept DEF GaveUp
<1>14. CASE CompactCommand
  BY <1>14, EstimateKept DEF CompactCommand
<1>15. CASE ClearCommand
  <2>1. /\ limits' = limits /\ real' = real /\ history' = <<>>
        /\ usage' = Recount(<<>>) /\ unseen' = 0
    BY <1>15 DEF ClearCommand
  <2>2. Recount(<<>>) \in Nat /\ <<>> \in Seq(Nat)
    BY RecountOfNone
  <2> QED
    BY <2>1, <2>2, EstimateMade
<1> QED
  BY <1>1, <1>2, <1>3, <1>4, <1>5, <1>6, <1>7, <1>8, <1>9, <1>10, <1>11, <1>12, <1>13,
     <1>14, <1>15 DEF WindowNext

\* A request fits with the output it asks for, as far as the estimate covers it.
LEMMA EstimateFits == EstimateInv => OutputFits
<1> SUFFICES ASSUME EstimateInv, OutputBudget > MinOutput
             PROVE  Recount(history) + OutputBudget <= limits.window + unseen
  BY DEF OutputFits
<1> DEFINE w == limits.window
           room == Minus(Minus(w, usage), w \div 10)
<1>1. /\ w \in Nat /\ usage \in Nat /\ unseen \in Nat /\ Recount(history) \in Nat
      /\ usage + unseen >= Recount(history)
  BY RecountIs DEF EstimateInv, SizesInv, EstimateCovers
<1>2. MinOutput \in Nat /\ RequestedOutput \in Nat
  BY ContextWindowAssumption
<1>3. w \div 10 \in Nat
  BY <1>1
<1>4. room \in Nat /\ (room > 0 => room <= w - usage)
  <2> HIDE DEF w
  <2> DEFINE tenth == w \div 10
  <2>1. tenth \in Nat
    BY <1>3
  <2> HIDE DEF tenth
  <2>2. Minus(Minus(w, usage), tenth) \in Nat
        /\ (Minus(Minus(w, usage), tenth) > 0 => Minus(Minus(w, usage), tenth) <= w - usage)
    BY <1>1, <2>1 DEF Minus
  <2> QED
    BY <2>2 DEF tenth
<1>5. OutputBudget = LET capped == IF room > MinOutput THEN room ELSE MinOutput
                     IN  IF RequestedOutput < capped THEN RequestedOutput ELSE capped
  BY DEF OutputBudget
<1> HIDE DEF w, room
<1>6. room > MinOutput /\ OutputBudget <= room /\ OutputBudget \in Nat
  BY <1>2, <1>4, <1>5
<1>7. room <= w - usage
  BY <1>2, <1>4, <1>6
<1>8. Recount(history) + OutputBudget <= w + unseen
  BY <1>1, <1>4, <1>6, <1>7
<1> QED
  BY <1>8 DEF w

\* The trigger is below the block, whatever the window.
LEMMA TriggerFirst ==
    ASSUME SizesInv
    PROVE  /\ Trigger(limits) \in Nat /\ EmergencyLimit(limits) \in Nat
           /\ Trigger(limits) <= EmergencyLimit(limits)
<1> DEFINE w == limits.window
           p == limits.pct
           b == limits.buffer
<1>1. w \in Nat /\ p \in Percentages \cup {NoPercentage} /\ b \in EmergencyBuffers
  BY DEF SizesInv
<1>2. OutputReserve \in Nat /\ AutocompactBuffer \in Nat
  BY ContextWindowAssumption
<1>3. b \in Nat /\ b <= OutputReserve + AutocompactBuffer
  BY <1>1, ContextWindowAssumption
<1>4. CASE p = NoPercentage
  <2>1. Trigger(limits) = Minus(Minus(w, OutputReserve), AutocompactBuffer)
        /\ EmergencyLimit(limits) = Minus(w, b)
    BY <1>4 DEF Trigger, EmergencyLimit
  <2> HIDE DEF w, b
  <2> QED
    BY <1>1, <1>2, <1>3, <2>1 DEF Minus
<1>5. CASE p # NoPercentage
  <2>1. p \in 0..100
    BY <1>1, <1>5, ContextWindowAssumption
  <2> DEFINE x == w * p
             y == w * (100 - p)
             t == x \div 100
             m == y \div 200
  <2>2. Trigger(limits) = t /\ EmergencyLimit(limits) = Minus(w, IF b < m THEN b ELSE m)
    BY <1>5 DEF Trigger, EmergencyLimit
  <2> HIDE DEF w, b, p
  <2>3. x \in Nat /\ y \in Nat
    BY <1>1, <2>1
  <2>4. x + y = 100 * w
    BY <1>1, <2>1
  <2> HIDE DEF x, y
  <2>5. t \in Nat /\ m \in Nat /\ 100 * t <= x /\ 200 * m <= y
    BY <2>3
  <2> HIDE DEF t, m
  <2>6. t + 2 * m <= w
    BY <1>1, <2>3, <2>4, <2>5
  <2>7. t <= Minus(w, IF b < m THEN b ELSE m) /\ Minus(w, IF b < m THEN b ELSE m) \in Nat
    BY <1>1, <1>3, <2>5, <2>6 DEF Minus
  <2> QED
    BY <2>2, <2>5, <2>7
<1> QED
  BY <1>4, <1>5

LEMMA TriedStarts == WindowInit => TriedInv /\ RefusedInTime
BY DEF WindowInit, TriedInv, RefusedInTime

LEMMA TriedStep == SizesInv /\ TriedInv /\ RefusedInTime /\ WindowNext
                     => TriedInv' /\ RefusedInTime'
<1> SUFFICES ASSUME SizesInv, TriedInv, RefusedInTime, WindowNext
             PROVE  TriedInv' /\ RefusedInTime'
  OBVIOUS
<1> USE DEF TriedInv, RefusedInTime
<1>1. CASE step' \in {"idle", "guard", "send"}
  BY <1>1
<1>2. CASE Microcompact \/ Shorten
  BY <1>2 DEF Microcompact, Shorten, CircuitBroken
<1>3. CASE Guard
  <2>1. limits' = limits /\ usage' = usage /\ failures' = failures
    BY <1>3 DEF Guard
  <2>2. CASE ShouldAutocompact /\ ~CircuitBroken
    BY <1>3, <2>2 DEF Guard, AskSummary
  <2>3. CASE ~(ShouldAutocompact /\ ~CircuitBroken)
    <3>1. step' = "emergency" /\ tried' = tried
      BY <1>3, <2>3 DEF Guard
    <3>2. usage \in Nat /\ Trigger(limits) \in Nat
      BY TriggerFirst DEF SizesInv
    <3>3. ~limits.enabled \/ CircuitBroken \/ usage < Trigger(limits)
      BY <2>3, <3>2 DEF ShouldAutocompact
    <3>4. ~limits'.enabled \/ CircuitBroken' \/ usage' < Trigger(limits')
      BY <2>1, <3>3 DEF CircuitBroken
    <3> QED
      BY <3>1, <3>4
  <2> QED
    BY <2>2, <2>3
<1>4. CASE Emergency
  <2>1. /\ limits' = limits /\ failures' = failures /\ tried' = tried /\ step = "emergency"
        /\ step' = IF usage >= EmergencyLimit(limits) THEN "refused" ELSE "send"
    BY <1>4 DEF Emergency
  <2>2. usage < Trigger(limits) => ~(usage >= EmergencyLimit(limits))
    <3>1. usage \in Nat
      BY DEF SizesInv
    <3> QED
      BY <3>1, TriggerFirst
  <2> QED
    BY <2>1, <2>2 DEF CircuitBroken
<1>5. CASE SummaryFails
  BY <1>5 DEF SummaryFails
<1>6. CASE Overflow
  BY <1>6 DEF Overflow, AskSummary, CircuitBroken
<1>7. CASE CompactCommand
  BY <1>7 DEF CompactCommand, AskSummary
<1>8. CASE UserInput \/ FinalAnswer \/ ToolsRan \/ TruncatedCall \/ RequestFails \/ GaveUp
           \/ ClearCommand \/ Summarized
  BY <1>1, <1>8 DEF UserInput, FinalAnswer, ToolsRan, TruncatedCall, RequestFails, GaveUp,
     ClearCommand, Summarized
<1> QED
  BY <1>2, <1>3, <1>4, <1>5, <1>6, <1>7, <1>8 DEF WindowNext

LEMMA SpentStarts == WindowInit => SpentInv /\ SpendingBounded
<1>1. MaxRetries \in Nat /\ MaxFailures \in Nat
  BY ContextWindowAssumption
<1> QED
  BY <1>1 DEF WindowInit, SpentInv, SpendingBounded

LEMMA SpentStep ==
    ASSUME MaxFailures # 0, SpentInv, SpendingBounded, WindowNext
    PROVE  SpentInv' /\ SpendingBounded'
<1>0. MaxRetries \in Nat /\ MaxFailures \in Nat
  BY ContextWindowAssumption
<1> USE <1>0 DEF SpentInv, SpendingBounded, CircuitBroken
<1>1. CASE UserInput
  BY <1>1 DEF UserInput
<1>2. CASE Microcompact
  BY <1>2 DEF Microcompact
<1>3. CASE Guard
  BY <1>3 DEF Guard, AskSummary
<1>4. CASE Emergency
  BY <1>4 DEF Emergency
<1>5. CASE Summarized
  BY <1>5 DEF Summarized
<1>6. CASE Shorten
  BY <1>6 DEF Shorten, CanShorten
<1>7. CASE SummaryFails
  BY <1>7 DEF SummaryFails
<1>8. CASE FinalAnswer
  BY <1>8 DEF FinalAnswer, Answered
<1>9. CASE ToolsRan
  BY <1>9 DEF ToolsRan
<1>10. CASE TruncatedCall
  BY <1>10 DEF TruncatedCall
<1>11. CASE RequestFails
  BY <1>11 DEF RequestFails
<1>12. CASE Overflow
  BY <1>12 DEF Overflow, AskSummary
<1>13. CASE GaveUp
  BY <1>13 DEF GaveUp
<1>14. CASE CompactCommand
  BY <1>14 DEF CompactCommand, AskSummary
<1>15. CASE ClearCommand
  BY <1>15 DEF ClearCommand
<1> QED
  BY <1>1, <1>2, <1>3, <1>4, <1>5, <1>6, <1>7, <1>8, <1>9, <1>10, <1>11, <1>12, <1>13,
     <1>14, <1>15 DEF WindowNext

WindowInv == EstimateInv /\ TriedInv /\ RefusedInTime

LEMMA WindowAlways == RoundSpec => [](which = "window" => WindowInv)
<1> DEFINE Inv == which = "window" => WindowInv
<1>1. RoundInit => Inv
  BY EstimateStarts, TriedStarts DEF RoundInit, WindowInv
<1>2. Inv /\ [RoundNext]_<<which, vars, others>> => Inv'
  <2> SUFFICES ASSUME Inv, [RoundNext]_<<which, vars, others>>, which' = "window"
               PROVE  WindowInv'
    OBVIOUS
  <2>1. which = "window"
    BY DEF RoundNext
  <2>2. CASE WindowNext
    BY <2>1, <2>2, EstimateStep, TriedStep DEF WindowInv, EstimateInv
  <2>3. CASE UNCHANGED <<which, vars, others>>
    <3>1. UNCHANGED windowVars
      BY <2>3 DEF others
    <3>2. EstimateInv'
      BY <2>1, <3>1 DEF windowVars, WindowInv, EstimateInv, SizesInv, EstimateCovers
    <3>3. TriedInv' /\ RefusedInTime'
      BY <2>1, <3>1 DEF windowVars, WindowInv, TriedInv, RefusedInTime, CircuitBroken
    <3> QED
      BY <3>2, <3>3 DEF WindowInv
  <2> QED
    BY <2>1, <2>2, <2>3 DEF RoundNext
<1> QED
  BY <1>1, <1>2, PTL DEF RoundSpec

LEMMA SpentAlways ==
    ASSUME MaxFailures # 0
    PROVE  RoundSpec => [](which = "window" => SpentInv /\ SpendingBounded)
<1> DEFINE Inv == which = "window" => SpentInv /\ SpendingBounded
<1>1. RoundInit => Inv
  BY SpentStarts DEF RoundInit
<1>2. Inv /\ [RoundNext]_<<which, vars, others>> => Inv'
  <2> SUFFICES ASSUME Inv, [RoundNext]_<<which, vars, others>>, which' = "window"
               PROVE  SpentInv' /\ SpendingBounded'
    OBVIOUS
  <2>1. which = "window"
    BY DEF RoundNext
  <2>2. CASE WindowNext
    BY <2>1, <2>2, SpentStep
  <2>3. CASE UNCHANGED <<which, vars, others>>
    <3>1. UNCHANGED windowVars
      BY <2>3 DEF others
    <3> QED
      BY <2>1, <3>1 DEF windowVars, SpentInv, SpendingBounded, CircuitBroken
  <2> QED
    BY <2>1, <2>2, <2>3 DEF RoundNext
<1> QED
  BY <1>1, <1>2, PTL DEF RoundSpec

\* The estimate of the next request never falls behind the conversation, whatever
\* was appended, cleared, summarized or measured, and the output asked for is what it
\* leaves of the window, for sizes, windows and thresholds of any value (engine.rs
\* 794-833, 1468-1578).
THEOREM EstimateAlways == RoundSpec => []EstimateHolds
<1>1. (which = "window" => WindowInv) => EstimateHolds
  BY EstimateFits DEF WindowInv, EstimateInv, EstimateHolds
<1> QED
  BY <1>1, WindowAlways, PTL

\* A turn is refused for its size only after compaction was tried, is off or has
\* failed too often, and neither a turn nor a session spends requests without bound on
\* becoming smaller, unless not one failure is allowed (compact/, engine.rs
\* 1105-1165).
THEOREM SizeAlways ==
    ASSUME MaxFailures # 0
    PROVE  RoundSpec => []SizeInHand
<1>1. (which = "window" => WindowInv) /\ (which = "window" => SpentInv /\ SpendingBounded)
        => SizeInHand
  BY DEF WindowInv, SizeInHand
<1> QED
  BY <1>1, WindowAlways, SpentAlways, PTL
-------------------------------------------------------------------------------
(* The rounds.                                                             *)

LEMMA ToolAlways == RoundSpec => [](which = "round" => ToolInv)
<1> DEFINE Inv == which = "round" => ToolInv
<1>1. RoundInit => Inv
  BY ToolStarts DEF RoundInit
<1>2. Inv /\ [RoundNext]_<<which, vars, others>> => Inv'
  <2> SUFFICES ASSUME Inv, [RoundNext]_<<which, vars, others>>, which' = "round"
               PROVE  ToolInv'
    OBVIOUS
  <2>1. which = "round"
    BY DEF RoundNext
  <2>2. [Next]_vars
    BY <2>1 DEF RoundNext
  <2> QED
    BY <2>1, <2>2, ToolStep
<1> QED
  BY <1>1, <1>2, PTL DEF RoundSpec

\* The mode and the schemas the model was told of are those of its next request,
\* whichever results changed them and in whatever order, and though a round may change
\* the mode several times (plan/tools.rs, tool_search.rs).
THEOREM ToldAlways == RoundSpec => []ToldTheTruth
<1>1. (which = "round" => ToolInv) => ToldTheTruth
  BY DEF ToolInv, ToldInv, ToldTheTruth, AsTold
<1> QED
  BY <1>1, ToolAlways, PTL

\* All of RunsAllowed but what only a model that keeps to its schemas warrants.
RunsLet ==
    /\ which = "round" => RunsAreLet /\ SafeTogether /\ PlanGrantsLapse
    /\ which = "agents" => Agents!ChildrenKeptIn

\* A call runs only when the user, the configuration or a skill that ran lets it,
\* beside others only when all of them are safe to, what was granted in plan mode
\* lapses with it, and a sub-agent runs nothing that its parent may not, whatever a
\* model calls (orchestration.rs, tool.rs 55, plan/state.rs 4-12, spawner.rs 31-32).
THEOREM RunsLetAlways == RoundSpec => []RunsLet
<1>1. (which = "round" => ToolInv) /\ (which = "agents" => Agents!AgentsInv) => RunsLet
  <2>1. ToolInv => PlanGrantsLapse
    BY DEF ToolInv, ListsInv, PlanGrantsLapse
  <2> QED
    BY <2>1, LetRuns, SafeRuns DEF RunsLet, Agents!AgentsInv
<1> QED
  BY <1>1, ToolAlways, AgentsAlways, PTL

\* All of what a call needs to run, when the model calls only what is declared to it:
\* in plan mode nothing runs that changes anything either (docs/advanced.md 331-337).
THEOREM RunsAllowedAlways ==
    ASSUME Obedient
    PROVE  RoundSpec => []RunsAllowed
<1>1. (which = "round" => ToolInv) /\ (which = "agents" => Agents!AgentsInv) => RunsAllowed
  <2>1. ToolInv => PlanGrantsLapse
    BY DEF ToolInv, ListsInv, PlanGrantsLapse
  <2> QED
    BY <2>1, LetRuns, SafeRuns, PlanRuns DEF RunsAllowed, Agents!AgentsInv
<1> QED
  BY <1>1, ToolAlways, AgentsAlways, PTL

\* When a round is over there is one result for each of its calls, whatever was
\* malformed, refused, denied, vetoed or failed, the call's own and in the order of the
\* calls unless one was denied on the terminal; and a call that starts agents waits for
\* every one (engine.rs 2073-2077, tool_call.rs 161-162, spawner.rs 110-133).
THEOREM ResultsAlways == RoundSpec => []ResultsMatch
<1>1. (which = "round" => ToolInv) /\ (which = "agents" => Agents!AgentsInv) => ResultsMatch
  BY ResultsOfCalls DEF ResultsMatch, Agents!AgentsInv
<1> QED
  BY <1>1, ToolAlways, AgentsAlways, PTL
-------------------------------------------------------------------------------
(* Skills: what the loader has read.                                       *)

\* There is a change to be told of, or one told of to be loaded.
Pending ==
    \/ watcher.owed \/ watcher.signal \/ watcher.phase \in {"sleeping", "drained"}
    \/ caller.seen # watcher.version

Started == watcher.phase \notin {"new", "watching"}

\* What reading the directories now gives, those up to a rank and all of them, and the
\* skills that are chosen from it.

ReadUpTo(r)    == UNION {ReadSource(Sources[j]) : j \in {k \in DOMAIN Sources :
                                                        Sources[k] \in Directories /\ k <= r}}
ReadAll        == UNION {ReadSource(s) : s \in Directories}
Chosen         == DeduplicateByName(Deduplicate(ReadAll \cup BuiltIn))
More(r)        == \E j \in DOMAIN Sources : j > r /\ Sources[j] \in Directories

\* As long as nothing is pending, what was read is what is there.
UpToDate ==
    /\ caller.phase = "loading" => caller.got = ReadUpTo(caller.next)
    /\ caller.phase = "loaded" => caller.got = ReadAll
    /\ caller.phase = "idle" => listed = Chosen

WatcherShape ==
    /\ watcher = [phase |-> watcher.phase, watched |-> watcher.watched, owed |-> watcher.owed,
                  signal |-> watcher.signal, version |-> watcher.version,
                  changes |-> watcher.changes]
    /\ watcher.phase \in {"new", "watching", "waiting", "sleeping", "drained"}
    /\ watcher.owed \in BOOLEAN /\ watcher.signal \in BOOLEAN
    /\ watcher.watched \subseteq Directories /\ watcher.version \in Nat
    /\ watcher.phase \in {"new", "watching"} => watcher.version = 0

CallerShape ==
    /\ caller = [phase |-> caller.phase, seen |-> caller.seen, next |-> caller.next,
                 got |-> caller.got]
    /\ caller.phase \in {"idle", "loading", "loaded"}
    /\ caller.seen \in Nat /\ caller.seen <= watcher.version
    /\ caller.phase = "idle" => caller.next = 0 /\ caller.got = {}
    /\ caller.phase = "loading" => caller.next \in Nat /\ More(caller.next)

SkillsInv ==
    /\ WatcherShape /\ CallerShape
    /\ caller.phase # "idle" => Started
    /\ Started /\ watcher.watched = Directories /\ ~ Pending => UpToDate
    /\ DOMAIN activated = activatedNames /\ StaysAwake

LEMMA SourcesAre ==
    /\ Len(Sources) \in Nat /\ DOMAIN Sources = 1..Len(Sources)
    /\ \A j \in DOMAIN Sources : j \in Nat /\ j >= 1 /\ j <= Len(Sources)
    /\ More(0)
<1>1. Len(Sources) \in Nat /\ DOMAIN Sources = 1..Len(Sources)
  BY SkillSetAssumption
<1>2. \A j \in DOMAIN Sources : j \in Nat /\ j >= 1 /\ j <= Len(Sources) /\ j > 0
  BY <1>1
<1>3. PICK i \in DOMAIN Sources : Sources[i] \notin Fixed
  BY SkillSetAssumption
<1>4. i > 0 /\ Sources[i] \in Directories
  BY <1>2, <1>3 DEF Directories
<1> QED
  BY <1>1, <1>2, <1>4 DEF More

\* The next directory after a rank is the first there is.
LEMMA NextReadIs ==
    ASSUME NEW r \in Nat, More(r)
    PROVE  /\ NextRead(r) \in DOMAIN Sources /\ NextRead(r) > r
           /\ Sources[NextRead(r)] \in Directories
           /\ \A j \in DOMAIN Sources : j > r /\ Sources[j] \in Directories => NextRead(r) <= j
<1> DEFINE S == {j \in DOMAIN Sources : j > r /\ Sources[j] \in Directories}
<1>1. S \in SUBSET Nat /\ S # {}
  BY SourcesAre DEF More
<1>2. PICK m \in S : \A x \in S : m <= x
  BY <1>1, LeastOf
<1>3. /\ m \in DOMAIN Sources /\ m > r /\ Sources[m] \in Directories
      /\ \A j \in DOMAIN Sources : j > r /\ Sources[j] \in Directories => m <= j
  BY <1>2
<1> QED
  BY <1>3 DEF NextRead

LEMMA LastReadIs ==
    /\ LastRead \in DOMAIN Sources /\ Sources[LastRead] \in Directories
    /\ \A j \in DOMAIN Sources : Sources[j] \in Directories => j <= LastRead
<1> DEFINE n == Len(Sources)
           S == {j \in DOMAIN Sources : Sources[j] \in Directories}
<1>1. n \in Nat /\ S \in SUBSET (0..n) /\ S # {}
  BY SourcesAre DEF More
<1> HIDE DEF n
<1>2. PICK m \in S : \A x \in S : x <= m
  <2> HIDE DEF S
  <2> QED
    BY <1>1, MaxOf
<1>3. /\ m \in DOMAIN Sources /\ Sources[m] \in Directories
      /\ \A j \in DOMAIN Sources : Sources[j] \in Directories => j <= m
  BY <1>2
<1> QED
  BY <1>3 DEF LastRead

\* A step of the loader reads on as far as the next directory, and after the last it has
\* read them all.
LEMMA ReadsOn ==
    ASSUME NEW r \in Nat, More(r)
    PROVE  /\ ReadUpTo(NextRead(r)) = ReadUpTo(r) \cup ReadSource(Sources[NextRead(r)])
           /\ NextRead(r) # LastRead => More(NextRead(r))
<1> DEFINE i == NextRead(r)
           U(m) == {k \in DOMAIN Sources : Sources[k] \in Directories /\ k <= m}
<1>1. /\ i \in DOMAIN Sources /\ i > r /\ Sources[i] \in Directories
      /\ \A j \in DOMAIN Sources : j > r /\ Sources[j] \in Directories => i <= j
  BY NextReadIs
<1>2. \A j \in DOMAIN Sources : j \in Nat
  BY SourcesAre
<1> HIDE DEF i
<1>3. U(i) = U(r) \cup {i}
  BY <1>1, <1>2
<1>4. ReadUpTo(i) = ReadUpTo(r) \cup ReadSource(Sources[i])
  <2>1. ReadUpTo(i) = UNION {ReadSource(Sources[j]) : j \in U(i)}
    BY DEF ReadUpTo
  <2>2. ReadUpTo(r) = UNION {ReadSource(Sources[j]) : j \in U(r)}
    BY DEF ReadUpTo
  <2> HIDE DEF U
  <2> QED
    BY <1>3, <2>1, <2>2
<1>5. i # LastRead => More(i)
  <2>1. /\ LastRead \in DOMAIN Sources /\ Sources[LastRead] \in Directories /\ i <= LastRead
    BY <1>1, LastReadIs
  <2> QED
    BY <1>1, <1>2, <2>1 DEF More
<1> QED
  BY <1>4, <1>5 DEF i

LEMMA ReadsAll == ReadUpTo(LastRead) = ReadAll
<1> DEFINE U == {k \in DOMAIN Sources : Sources[k] \in Directories /\ k <= LastRead}
<1>1. U = {k \in DOMAIN Sources : Sources[k] \in Directories}
  BY LastReadIs
<1>2. Directories = {Sources[k] : k \in U}
  BY <1>1 DEF Directories
<1>3. ReadUpTo(LastRead) = UNION {ReadSource(Sources[j]) : j \in U}
  BY DEF ReadUpTo
<1> HIDE DEF U
<1> QED
  BY <1>2, <1>3 DEF ReadAll

LEMMA NothingRead == ReadUpTo(0) = {}
<1>1. \A j \in DOMAIN Sources : j \in Nat /\ ~ (j <= 0)
  BY SourcesAre
<1> QED
  BY <1>1 DEF ReadUpTo

\* What is read is a matter of the disk.
LEMMA ReadsTheSame ==
    ASSUME disk' = disk
    PROVE  /\ ReadAll' = ReadAll /\ Chosen' = Chosen
           /\ \A r : ReadUpTo(r)' = ReadUpTo(r)
           /\ \A s : ReadSource(s)' = ReadSource(s)
<1>1. \A s : ReadSource(s)' = ReadSource(s)
  BY DEF ReadSource, SkillAt, TextAt
<1>2. BuiltIn' = BuiltIn
  BY <1>1 DEF BuiltIn
<1>3. ReadAll' = ReadAll
  BY <1>1 DEF ReadAll
<1>4. Chosen' = Chosen
  BY <1>2, <1>3 DEF Chosen, DeduplicateByName, Deduplicate
<1>5. \A r : ReadUpTo(r)' = ReadUpTo(r)
  BY <1>1 DEF ReadUpTo
<1> QED
  BY <1>1, <1>3, <1>4, <1>5
LEMMA SkillsStart == SkillsInit => SkillsInv
<1> SUFFICES ASSUME SkillsInit
             PROVE  SkillsInv
  OBVIOUS
<1>1. WatcherShape /\ CallerShape /\ ~ Started /\ caller.phase = "idle"
  BY DEF SkillsInit, WatcherShape, CallerShape, Started
<1>2. DOMAIN activated = activatedNames /\ StaysAwake
  BY DEF SkillsInit, StaysAwake
<1> QED
  BY <1>1, <1>2 DEF SkillsInv

LEMMA AwakeStep ==
    ASSUME SkillsInv, [SkillsNext]_skillVars
    PROVE  DOMAIN activated' = activatedNames' /\ StaysAwake'
<1>1. DOMAIN activated = activatedNames /\ StaysAwake
  BY DEF SkillsInv
<1>2. CASE Partition
  <2> DEFINE all == DeduplicateByName(Deduplicate(caller.got \cup BuiltIn))
             asleep == Waiting(all)
  <2>1. /\ listed' = all /\ dormant' = [n \in asleep |-> all[n]] /\ visible' = DOMAIN all \ asleep
        /\ UNCHANGED <<activated, activatedNames>>
    BY <1>2 DEF Partition
  <2>2. \A n \in asleep : n \in DOMAIN all /\ n \notin activatedNames
    BY DEF Waiting
  <2> HIDE DEF all, asleep
  <2>3. DOMAIN listed' = DOMAIN all /\ DOMAIN dormant' = asleep
    BY <2>1
  <2> QED
    BY <1>1, <2>1, <2>2, <2>3 DEF StaysAwake
<1>3. CASE ActivateForPaths
  <2>1. PICK touched \in Matched :
           /\ dormant' = [n \in DOMAIN dormant \ touched |-> dormant[n]]
           /\ activatedNames' = activatedNames \cup touched
           /\ activated' = [n \in DOMAIN activated \cup touched |->
                               IF n \in touched THEN dormant[n] ELSE activated[n]]
           /\ UNCHANGED <<listed, visible>>
    BY <1>3 DEF ActivateForPaths
  <2>2. touched \subseteq DOMAIN dormant
    BY DEF Matched
  <2>3. DOMAIN dormant' = DOMAIN dormant \ touched /\ DOMAIN activated' = DOMAIN activated \cup touched
    BY <2>1
  <2> QED
    BY <1>1, <2>1, <2>2, <2>3 DEF StaysAwake
<1>4. CASE ResetAll
  BY <1>4 DEF ResetAll, StaysAwake
<1>5. CASE UNCHANGED <<listed, visible, dormant, activated, activatedNames>>
  BY <1>1, <1>5 DEF StaysAwake
<1> QED
  BY <1>2, <1>3, <1>4, <1>5 DEF SkillsNext, skillVars, Load, Change, WatchDirectories, Subscribe,
     Notify, Seen, Drain, Broadcast, Changed, Moved

\* Steps of the skills alone, or of none.
LEMMA UpToDateStays ==
    ASSUME SkillsInv, UNCHANGED <<disk, watcher, caller, listed>>
    PROVE  /\ WatcherShape' /\ CallerShape' /\ (caller.phase # "idle" => Started)'
           /\ (Started /\ watcher.watched = Directories /\ ~ Pending => UpToDate)'
BY ReadsTheSame DEF SkillsInv, WatcherShape, CallerShape, More, Started, Pending, UpToDate

\* Steps of the watcher that make it no more up to date than it was.
LEMMA WatcherMoves ==
    ASSUME SkillsInv, NEW phase1 \in {"waiting", "sleeping", "drained"}, NEW signal1 \in BOOLEAN,
           NEW version1 \in Nat, watcher.version <= version1, Started,
           Moved(watcher.phase, phase1, signal1, version1),
           \/ signal1 \/ phase1 \in {"sleeping", "drained"} \/ caller.seen # version1
    PROVE  /\ WatcherShape' /\ CallerShape' /\ (caller.phase # "idle" => Started)'
           /\ Pending'
<1>1. WatcherShape /\ CallerShape
  BY DEF SkillsInv
<1>2. /\ watcher' = [watcher EXCEPT !.phase = phase1, !.signal = signal1, !.version = version1]
      /\ UNCHANGED caller
  BY DEF Moved
<1>3. watcher' = [phase |-> phase1, watched |-> watcher.watched, owed |-> watcher.owed,
                  signal |-> signal1, version |-> version1, changes |-> watcher.changes]
  BY <1>1, <1>2 DEF WatcherShape
<1>4. WatcherShape'
  BY <1>1, <1>3 DEF WatcherShape
<1>5. CallerShape'
  BY <1>1, <1>2, <1>3 DEF CallerShape, WatcherShape, More
<1>6. Started' /\ Pending'
  BY <1>2, <1>3 DEF Started, Pending
<1> QED
  BY <1>4, <1>5, <1>6

LEMMA SkillsStep ==
    ASSUME SkillsInv, [SkillsNext]_skillVars
    PROVE  SkillsInv'
<1> DEFINE Rest == /\ WatcherShape' /\ CallerShape' /\ (caller.phase # "idle" => Started)'
                   /\ (Started /\ watcher.watched = Directories /\ ~ Pending => UpToDate)'
<1> SUFFICES Rest
  BY AwakeStep DEF SkillsInv
<1>1. /\ WatcherShape /\ CallerShape /\ (caller.phase # "idle" => Started)
      /\ Started /\ watcher.watched = Directories /\ ~ Pending => UpToDate
  BY DEF SkillsInv
<1>2. /\ watcher = [phase |-> watcher.phase, watched |-> watcher.watched, owed |-> watcher.owed,
                    signal |-> watcher.signal, version |-> watcher.version,
                    changes |-> watcher.changes]
      /\ caller = [phase |-> caller.phase, seen |-> caller.seen, next |-> caller.next,
                   got |-> caller.got]
      /\ watcher.owed \in BOOLEAN /\ watcher.signal \in BOOLEAN /\ watcher.version \in Nat
      /\ caller.seen \in Nat /\ caller.seen <= watcher.version
  BY <1>1 DEF WatcherShape, CallerShape
<1>3. CASE UNCHANGED <<disk, watcher, caller, listed>>
  BY <1>3, UpToDateStays
<1>4. CASE Load
  <2>1. PICK r \in Nat, i \in Nat : /\ r = caller.next /\ i = NextRead(r) /\ More(r)
                                    /\ caller.phase = "loading"
    BY <1>1, <1>4, NextReadIs, SourcesAre DEF Load, CallerShape
  <2>2. PICK to : to = IF i = LastRead THEN "loaded" ELSE "loading"
    OBVIOUS
  <2>3. /\ caller' = [phase |-> to, seen |-> caller.seen, next |-> i,
                      got |-> caller.got \cup ReadSource(Sources[i])]
        /\ UNCHANGED <<disk, watcher, listed>>
    BY <1>2, <1>4, <2>1, <2>2 DEF Load
  <2>4. /\ ReadUpTo(i) = ReadUpTo(r) \cup ReadSource(Sources[i]) /\ (i # LastRead => More(i))
        /\ ReadUpTo(LastRead) = ReadAll
    BY <2>1, ReadsOn, ReadsAll
  <2>5. CallerShape'
    BY <1>1, <2>2, <2>3, <2>4 DEF CallerShape, More
  <2>6. WatcherShape' /\ Started' /\ (Pending' <=> Pending) /\ Started
    BY <1>1, <2>1, <2>3 DEF WatcherShape, Started, Pending
  <2>7. ASSUME watcher.watched = Directories, ~ Pending
        PROVE  UpToDate'
    <3>1. caller.got = ReadUpTo(r)
      BY <1>1, <2>1, <2>6, <2>7 DEF UpToDate
    <3>2. ReadUpTo(i)' = ReadUpTo(i) /\ ReadAll' = ReadAll
      BY <2>3, ReadsTheSame
    <3>3. caller'.got = ReadUpTo(i) /\ (to = "loaded" => caller'.got = ReadAll)
      BY <2>2, <2>3, <2>4, <3>1
    <3> QED
      BY <2>2, <2>3, <3>2, <3>3 DEF UpToDate
  <2> QED
    BY <2>3, <2>5, <2>6, <2>7
<1>5. CASE Partition
  <2>1. /\ caller' = [phase |-> "idle", seen |-> caller.seen, next |-> 0, got |-> {}]
        /\ caller.phase = "loaded" /\ UNCHANGED <<disk, watcher>>
        /\ listed' = DeduplicateByName(Deduplicate(caller.got \cup BuiltIn))
    BY <1>2, <1>5 DEF Partition
  <2>2. CallerShape' /\ WatcherShape' /\ (Pending' <=> Pending) /\ (Started' <=> Started)
    BY <1>1, <2>1 DEF CallerShape, WatcherShape, Started, Pending
  <2>3. ASSUME Started, watcher.watched = Directories, ~ Pending
        PROVE  UpToDate'
    <3>1. caller.got = ReadAll
      BY <1>1, <2>1, <2>3 DEF UpToDate
    <3>2. listed' = Chosen /\ Chosen' = Chosen
      BY <2>1, <3>1, ReadsTheSame DEF Chosen
    <3> QED
      BY <2>1, <3>2 DEF UpToDate
  <2> QED
    BY <2>1, <2>2, <2>3
<1>6. CASE ResetAll
  <2>1. /\ caller' = [phase |-> "loading", seen |-> caller.seen, next |-> caller.next,
                      got |-> caller.got]
        /\ caller.phase = "idle" /\ Started /\ UNCHANGED <<disk, watcher>>
    BY <1>2, <1>6 DEF ResetAll, Started
  <2>2. caller.next = 0 /\ caller.got = {}
    BY <1>1, <2>1 DEF CallerShape
  <2>3. CallerShape' /\ WatcherShape' /\ Started'
    BY <1>1, <2>1, <2>2, SourcesAre DEF CallerShape, WatcherShape, Started, More
  <2>4. UpToDate'
    BY <2>1, <2>2, NothingRead, ReadsTheSame DEF UpToDate
  <2> QED
    BY <2>3, <2>4
<1>7. CASE Change
  <2>1. PICK p \in Places :
           /\ p.source \in Directories
           /\ watcher' = [phase |-> watcher.phase, watched |-> watcher.watched,
                          owed |-> watcher.owed \/ p.source \in watcher.watched,
                          signal |-> watcher.signal, version |-> watcher.version,
                          changes |-> watcher.changes + 1]
           /\ UNCHANGED caller
    BY <1>2, <1>7 DEF Change
  <2>2. CallerShape' /\ WatcherShape' /\ (Started' <=> Started)
    BY <1>1, <2>1 DEF CallerShape, WatcherShape, Started, More
  <2>3. watcher'.watched = Directories => Pending'
    BY <2>1 DEF Pending
  <2> QED
    BY <1>1, <2>1, <2>2, <2>3
<1>8. CASE WatchDirectories
  <2>1. /\ watcher.phase = "new" /\ UNCHANGED caller
        /\ watcher' = [phase |-> "watching", watched |-> {d \in Directories : Exists(d)},
                       owed |-> watcher.owed, signal |-> watcher.signal,
                       version |-> watcher.version, changes |-> watcher.changes]
    BY <1>2, <1>8 DEF WatchDirectories
  <2>2. CallerShape' /\ WatcherShape' /\ ~ Started' /\ ~ Started
    BY <1>1, <2>1 DEF CallerShape, WatcherShape, Started, More
  <2> QED
    BY <1>1, <2>1, <2>2
<1>9. CASE Subscribe
  <2>1. /\ watcher.phase = "watching" /\ UNCHANGED <<disk, listed>>
        /\ watcher' = [phase |-> "waiting", watched |-> watcher.watched, owed |-> watcher.owed,
                       signal |-> FALSE, version |-> watcher.version,
                       changes |-> watcher.changes]
        /\ caller' = [phase |-> "loading", seen |-> caller.seen, next |-> caller.next,
                      got |-> caller.got]
    BY <1>2, <1>9 DEF Subscribe
  <2>2. caller.phase = "idle" /\ caller.next = 0 /\ caller.got = {}
    BY <1>1, <2>1 DEF CallerShape, Started
  <2>3. CallerShape' /\ WatcherShape' /\ Started'
    BY <1>1, <2>1, <2>2, SourcesAre DEF CallerShape, WatcherShape, Started, More
  <2>4. UpToDate'
    BY <2>1, <2>2, NothingRead, ReadsTheSame DEF UpToDate
  <2> QED
    BY <2>3, <2>4
<1>10. CASE Notify
  <2>1. /\ UNCHANGED caller
        /\ watcher' = [phase |-> watcher.phase, watched |-> watcher.watched, owed |-> FALSE,
                       signal |-> TRUE, version |-> watcher.version,
                       changes |-> watcher.changes]
    BY <1>2, <1>10 DEF Notify
  <2>2. CallerShape' /\ WatcherShape' /\ (Started' <=> Started) /\ Pending'
    BY <1>1, <2>1 DEF CallerShape, WatcherShape, Started, More, Pending
  <2> QED
    BY <1>1, <2>1, <2>2
<1>11. CASE Seen
  <2>1. PICK no \in BOOLEAN :
           watcher.phase = "waiting" /\ Moved(watcher.phase, "sleeping", no, watcher.version)
    BY <1>11 DEF Seen, Moved
  <2> QED
    BY <1>2, <2>1, WatcherMoves DEF Started
<1>12. CASE Drain
  <2>1. PICK no \in BOOLEAN :
           watcher.phase = "sleeping" /\ Moved(watcher.phase, "drained", no, watcher.version)
    BY <1>12 DEF Drain, Moved
  <2> QED
    BY <1>2, <2>1, WatcherMoves DEF Started
<1>13. CASE Broadcast
  <2>1. watcher.phase = "drained" /\ Moved(watcher.phase, "waiting", watcher.signal, watcher.version + 1)
    BY <1>13 DEF Broadcast, Moved
  <2>2. watcher.version + 1 \in Nat /\ watcher.version <= watcher.version + 1
        /\ caller.seen # watcher.version + 1
    BY <1>2
  <2> QED
    BY <1>2, <2>1, <2>2, WatcherMoves DEF Started
<1>14. CASE Changed
  <2>1. /\ caller.phase = "idle" /\ UNCHANGED <<disk, watcher, listed>>
        /\ caller.seen # watcher.version
        /\ caller' = [phase |-> "loading", seen |-> watcher.version, next |-> caller.next,
                      got |-> caller.got]
    BY <1>2, <1>14 DEF Changed
  <2>2. caller.next = 0 /\ caller.got = {}
    BY <1>1, <2>1 DEF CallerShape
  <2>3. CallerShape' /\ WatcherShape'
    BY <1>1, <2>1, <2>2, SourcesAre DEF CallerShape, WatcherShape, More
  <2>4. UpToDate'
    BY <2>1, <2>2, NothingRead, ReadsTheSame DEF UpToDate
  <2>5. Started'
    BY <1>1, <1>2, <2>1 DEF WatcherShape, Started
  <2> QED
    BY <2>3, <2>4, <2>5
<1> QED
  BY <1>3, <1>4, <1>5, <1>6, <1>7, <1>8, <1>9, <1>10, <1>11, <1>12, <1>13, <1>14
     DEF SkillsNext, skillVars, ActivateForPaths
LEMMA RankIs ==
    ASSUME NEW source \in {Sources[i] : i \in DOMAIN Sources}
    PROVE  Rank(source) \in Nat /\ Rank(source) \in DOMAIN Sources /\ Sources[Rank(source)] = source
<1>1. \E i \in DOMAIN Sources : Sources[i] = source
  OBVIOUS
<1>2. Rank(source) \in DOMAIN Sources /\ Sources[Rank(source)] = source
  BY <1>1 DEF Rank
<1> QED
  BY <1>2, SourcesAre

\* Of some skills there is one of the first source.
LEMMA FirstOf ==
    ASSUME NEW S, S # {}, \A s \in S : s.source \in {Sources[i] : i \in DOMAIN Sources}
    PROVE  \E s \in S : \A t \in S : Rank(s.source) <= Rank(t.source)
<1> DEFINE K == {Rank(s.source) : s \in S}
<1>1. K \in SUBSET Nat /\ K # {}
  BY RankIs
<1>2. PICK k \in K : \A x \in K : k <= x
  BY <1>1, LeastOf
<1>3. PICK s \in S : k = Rank(s.source)
  OBVIOUS
<1>4. \A t \in S : Rank(t.source) \in K
  OBVIOUS
<1> QED
  BY <1>2, <1>3, <1>4

\* The places that hold a skill of a name.
Offers(n) == {p \in Places : p.name = n /\ TextAt(p) # None}

LEMMA PlaceIs ==
    ASSUME NEW p \in Places
    PROVE  /\ PlaceOf(SkillAt(p)) = p /\ SkillAt(p).name = p.name /\ SkillAt(p).source = p.source
           /\ SkillAt(p).text = TextAt(p) /\ p.name \in SkillNames
           /\ p.source \in {Sources[i] : i \in DOMAIN Sources}
           /\ p = [source |-> p.source, name |-> p.name]
BY DEF PlaceOf, SkillAt, Places

LEMMA EverythingRead ==
    /\ \A s \in ReadAll \cup BuiltIn : \E p \in Places : TextAt(p) # None /\ s = SkillAt(p)
    /\ \A p \in Places : TextAt(p) # None => SkillAt(p) \in ReadAll \cup BuiltIn
<1> DEFINE All == {Sources[i] : i \in DOMAIN Sources}
           In(s) == s \in ReadAll \cup BuiltIn
<1>1. \A s : In(s) <=> \E d \in All : s \in ReadSource(d)
  <2>1. All = Directories \cup Fixed
    BY SkillSetAssumption DEF Directories
  <2> HIDE DEF All
  <2>2. \A s : In(s) <=> \/ \E d \in Directories : s \in ReadSource(d)
                         \/ \E d \in Fixed : s \in ReadSource(d)
    BY DEF ReadAll, BuiltIn
  <2> QED
    BY <2>1, <2>2
<1>2. ASSUME NEW d \in All, NEW s \in ReadSource(d)
      PROVE  \E p \in Places : TextAt(p) # None /\ s = SkillAt(p)
  <2>1. PICK n \in SkillNames : /\ TextAt([source |-> d, name |-> n]) # None
                                /\ s = SkillAt([source |-> d, name |-> n])
    BY DEF ReadSource
  <2>2. [source |-> d, name |-> n] \in Places
    BY DEF Places
  <2> QED
    BY <2>1, <2>2
<1>3. ASSUME NEW p \in Places, TextAt(p) # None
      PROVE  In(SkillAt(p))
  <2>1. p.source \in All /\ p.name \in SkillNames /\ p = [source |-> p.source, name |-> p.name]
    BY PlaceIs
  <2>2. SkillAt(p) \in ReadSource(p.source)
    BY <1>3, <2>1 DEF ReadSource
  <2> QED
    BY <1>1, <2>1, <2>2
<1> QED
  BY <1>1, <1>2, <1>3

LEMMA ChosenFollows ==
    ASSUME NEW n \in SkillNames
    PROVE  /\ n \in DOMAIN Chosen =>
                /\ TextAt(PlaceOf(Chosen[n])) = Chosen[n].text /\ PlaceOf(Chosen[n]) \in Offers(n)
           /\ Offers(n) # {} /\ ~ (\E p \in Offers(n) : Shared(p)) =>
                n \in DOMAIN Chosen /\ PlaceOf(Chosen[n]) = Best(n)
<1> DEFINE All == ReadAll \cup BuiltIn
           D == Deduplicate(All)
           S == {s \in D : s.name = n}
<1>1. \A s \in D : s \in All
  BY DEF Deduplicate
<1>2. \A s \in All : \E p \in Places : TextAt(p) # None /\ s = SkillAt(p)
  BY EverythingRead
<1>3. \A p \in Places : TextAt(p) # None => SkillAt(p) \in All
  BY EverythingRead
<1>4. DOMAIN Chosen = {s.name : s \in D}
  BY DEF Chosen, DeduplicateByName
<1>a. \A m \in DOMAIN Chosen : Chosen[m] =
         CHOOSE s \in D : s.name = m /\ \A t \in D : t.name = m => Rank(s.source) <= Rank(t.source)
  BY DEF Chosen, DeduplicateByName
<1>b. \A s \in D : \A t \in All :
         Canonical(PlaceOf(t)) = Canonical(PlaceOf(s)) => Rank(s.source) <= Rank(t.source)
  BY DEF Deduplicate
<1>c. \A s \in All : (\A t \in All : Canonical(PlaceOf(t)) = Canonical(PlaceOf(s)) =>
                         Rank(s.source) <= Rank(t.source)) => s \in D
  BY DEF Deduplicate
<1> HIDE DEF All, D
<1>5. ASSUME n \in DOMAIN Chosen
      PROVE  /\ Chosen[n] \in D /\ Chosen[n].name = n
             /\ \A t \in D : t.name = n => Rank(Chosen[n].source) <= Rank(t.source)
  <2>1. S # {}
    BY <1>4, <1>5
  <2>2. \A s \in S : s.source \in {Sources[i] : i \in DOMAIN Sources}
    BY <1>1, <1>2, PlaceIs
  <2>3. PICK s \in S : \A t \in S : Rank(s.source) <= Rank(t.source)
    BY <2>1, <2>2, FirstOf
  <2>4. s \in D /\ s.name = n /\ \A t \in D : t.name = n => Rank(s.source) <= Rank(t.source)
    BY <2>3
  <2> QED
    BY <1>a, <1>5, <2>4
<1>6. ASSUME n \in DOMAIN Chosen
      PROVE  \E p \in Offers(n) : Chosen[n] = SkillAt(p) /\ PlaceOf(Chosen[n]) = p
  <2>1. PICK p \in Places : TextAt(p) # None /\ Chosen[n] = SkillAt(p)
    BY <1>1, <1>2, <1>5, <1>6
  <2> QED
    BY <1>5, <1>6, <2>1, PlaceIs DEF Offers
<1>7. ASSUME n \in DOMAIN Chosen
      PROVE  TextAt(PlaceOf(Chosen[n])) = Chosen[n].text /\ PlaceOf(Chosen[n]) \in Offers(n)
  BY <1>6, <1>7, PlaceIs DEF Offers
<1>8. ASSUME Offers(n) # {}, ~ (\E p \in Offers(n) : Shared(p))
      PROVE  n \in DOMAIN Chosen /\ PlaceOf(Chosen[n]) = Best(n)
  <2>1. ASSUME NEW p \in Offers(n)
        PROVE  SkillAt(p) \in D /\ SkillAt(p).name = n
    <3>1. p \in Places /\ TextAt(p) # None /\ p.name = n
      BY DEF Offers
    <3>2. ASSUME NEW t \in All, Canonical(PlaceOf(t)) = Canonical(p)
          PROVE  t = SkillAt(p)
      <4>1. PICK q \in Places : TextAt(q) # None /\ t = SkillAt(q)
        BY <1>2
      <4>2. PlaceOf(t) = q
        BY <4>1, PlaceIs
      <4>3. q = p
        BY <1>8, <3>2, <4>1, <4>2 DEF Shared
      <4> QED
        BY <4>1, <4>3
    <3>3. PlaceOf(SkillAt(p)) = p /\ SkillAt(p) \in All /\ SkillAt(p).name = n
      BY <1>3, <3>1, PlaceIs
    <3>4. Rank(SkillAt(p).source) <= Rank(SkillAt(p).source)
      <4>1. SkillAt(p).source \in {Sources[i] : i \in DOMAIN Sources}
        BY <3>1, PlaceIs
      <4>2. Rank(SkillAt(p).source) \in Nat
        BY <4>1, RankIs
      <4> QED
        BY <4>2
    <3> QED
      BY <1>c, <3>2, <3>3, <3>4
  <2>2. n \in DOMAIN Chosen
    BY <1>4, <1>8, <2>1
  <2>3. PICK p \in Offers(n) : Chosen[n] = SkillAt(p) /\ PlaceOf(Chosen[n]) = p
    BY <1>6, <2>2
  <2>4. \A q \in Offers(n) : Rank(p.source) <= Rank(q.source)
    <3> SUFFICES ASSUME NEW q \in Offers(n)
                 PROVE  Rank(p.source) <= Rank(q.source)
      OBVIOUS
    <3>1. SkillAt(q) \in D /\ SkillAt(q).name = n
      BY <2>1
    <3>2. SkillAt(q).source = q.source /\ SkillAt(p).source = p.source
      BY PlaceIs DEF Offers
    <3> QED
      BY <1>5, <2>2, <2>3, <3>1, <3>2
  <2>5. Best(n) \in Offers(n) /\ \A q \in Offers(n) : Rank(Best(n).source) <= Rank(q.source)
    <3>1. p \in {q \in Places : q.name = n /\ TextAt(q) # None}
          /\ \A q \in Places : q.name = n /\ TextAt(q) # None => Rank(p.source) <= Rank(q.source)
      BY <2>4 DEF Offers
    <3>2. Best(n) \in {q \in Places : q.name = n /\ TextAt(q) # None}
          /\ \A q \in Places : q.name = n /\ TextAt(q) # None => Rank(Best(n).source) <= Rank(q.source)
      BY <3>1 DEF Best
    <3> QED
      BY <3>2 DEF Offers
  <2>6. Rank(Best(n).source) = Rank(p.source)
    <3>1. Rank(p.source) <= Rank(Best(n).source) /\ Rank(Best(n).source) <= Rank(p.source)
      BY <2>4, <2>5
    <3>2. Rank(p.source) \in Nat /\ Rank(Best(n).source) \in Nat
      BY <2>5, RankIs, PlaceIs DEF Offers
    <3> QED
      BY <3>1, <3>2
  <2>7. Best(n).source = p.source /\ Best(n).name = p.name
    BY <2>5, <2>6, RankIs, PlaceIs DEF Offers
  <2>8. Best(n) = p
    BY <2>5, <2>7, PlaceIs DEF Offers
  <2> QED
    BY <2>2, <2>3, <2>8
<1> QED
  BY <1>7, <1>8

LEMMA SkillsFollowDisk == ASSUME SkillsInv PROVE FollowsTheDisk
<1> SUFFICES ASSUME AtRest, watcher.watched = Directories, NEW n \in SkillNames
             PROVE  /\ n \in DOMAIN listed =>
                         /\ TextAt(PlaceOf(listed[n])) = listed[n].text
                         /\ PlaceOf(listed[n]) \in Offers(n)
                    /\ Offers(n) # {} /\ ~ (\E p \in Offers(n) : Shared(p)) =>
                         n \in DOMAIN listed /\ PlaceOf(listed[n]) = Best(n)
  BY DEF FollowsTheDisk, Offers
<1>1. listed = Chosen
  BY DEF SkillsInv, AtRest, Pending, Started, UpToDate
<1> QED
  BY <1>1, ChosenFollows

LEMMA SkillsAlways == RoundSpec => [](which = "skills" => SkillsInv)
<1> DEFINE Inv == which = "skills" => SkillsInv
<1>1. RoundInit => Inv
  BY SkillsStart DEF RoundInit
<1>2. Inv /\ [RoundNext]_<<which, vars, others>> => Inv'
  <2> SUFFICES ASSUME Inv, [RoundNext]_<<which, vars, others>>, which' = "skills"
               PROVE  SkillsInv'
    OBVIOUS
  <2>1. which = "skills"
    BY DEF RoundNext
  <2>2. [SkillsNext]_skillVars
    BY <2>1 DEF RoundNext, others
  <2> QED
    BY <2>1, <2>2, SkillsStep
<1> QED
  BY <1>1, <1>2, PTL DEF RoundSpec

\* Once the watcher has nothing to tell and its task has followed it, each skill is the
\* one the first source with its name holds now, however changes fell between the reads
\* of a load, the watcher's pause and its announcement; and a skill that was activated is
\* not put to sleep by a reload (loader.rs, watcher.rs, conditional.rs).
THEOREM SkillsFollowAlways == RoundSpec => []SkillsFollow
<1>1. (which = "skills" => SkillsInv) => SkillsFollow
  BY SkillsFollowDisk DEF SkillsInv, SkillsFollow
<1> QED
  BY <1>1, SkillsAlways, PTL

-------------------------------------------------------------------------------
(* The configuration: where a setting comes from.                          *)

\* The first slot of a sequence that is filled, if there is one.
LEMMA FirstIs ==
    ASSUME NEW n \in Nat, NEW slots, DOMAIN slots = 1..n
    PROVE  /\ (\A i \in 1..n : slots[i] = Open) => First(slots) = Open
           /\ \A i \in 1..n : slots[i] # Open /\ (\A j \in 1..n : j < i => slots[j] = Open) =>
                 First(slots) = slots[i]
           /\ First(slots) = Open \/ \E i \in 1..n : First(slots) = slots[i]
<1> DEFINE filled == {i \in DOMAIN slots : slots[i] # Open}
<1>1. filled \in SUBSET Nat
  OBVIOUS
<1>2. First(slots) = IF filled = {} THEN Open ELSE slots[Min(filled)]
  BY DEF First
<1>3. \A i : i \in filled <=> i \in 1..n /\ slots[i] # Open
  OBVIOUS
<1> HIDE DEF filled
<1>4. filled # {} => Min(filled) \in filled /\ \A x \in filled : Min(filled) <= x
  BY <1>1, MinOf
<1>5. ASSUME NEW i \in 1..n, slots[i] # Open, \A j \in 1..n : j < i => slots[j] = Open
      PROVE  First(slots) = slots[i]
  <2>1. i \in filled /\ filled # {}
    BY <1>3, <1>5
  <2>2. Min(filled) <= i /\ Min(filled) \in 1..n /\ slots[Min(filled)] # Open
    BY <1>3, <1>4, <2>1
  <2>3. Min(filled) = i
    BY <1>5, <2>2
  <2> QED
    BY <1>2, <2>1, <2>3
<1> QED
  BY <1>2, <1>3, <1>4, <1>5

\* What a layer says of a setting is a slot of its own for it, or nothing.
Own(layer, k, s) == s \in Slots /\ s.by = layer /\ <<s.at, s.of>> = k

LEMMA SaysIs ==
    ASSUME given \subseteq Slots, NEW layer
    PROVE  /\ Says(layer) \in [Settings -> Slots \cup {Open}]
           /\ \A k \in Settings : Says(layer)[k] = Open \/ Own(layer, k, Says(layer)[k])
<1>1. ASSUME NEW k \in Settings
      PROVE  Says(layer)[k] = Open \/ Own(layer, k, Says(layer)[k])
  <2>1. Says(layer)[k] =
           IF \E s \in given : s.by = layer /\ <<s.at, s.of>> = k
           THEN CHOOSE s \in given : s.by = layer /\ <<s.at, s.of>> = k ELSE Open
    BY DEF Says
  <2>2. CASE \E s \in given : s.by = layer /\ <<s.at, s.of>> = k
    <3>1. Says(layer)[k] \in given /\ Says(layer)[k].by = layer
          /\ <<Says(layer)[k].at, Says(layer)[k].of>> = k
      BY <2>1, <2>2
    <3> QED
      BY <3>1 DEF Own
  <2>3. CASE ~ \E s \in given : s.by = layer /\ <<s.at, s.of>> = k
    BY <2>1, <2>3
  <2> QED
    BY <2>2, <2>3
<1>2. Says(layer) = [k \in Settings |-> Says(layer)[k]]
  BY DEF Says
<1>3. \A k \in Settings : Says(layer)[k] \in Slots \cup {Open}
  BY <1>1 DEF Own
<1> QED
  BY <1>1, <1>2, <1>3

\* v is what the first of the profiles d with k says of it, or Open when none does.
SaidFirst(k, d, v) ==
    \/ v = Open /\ \A i \in d : Says(visited[i])[k] = Open
    \/ \E i \in d : /\ v = Says(visited[i])[k] /\ v # Open
                    /\ \A j \in d : j < i => Says(visited[j])[k] = Open

\* A profile has of its ancestors what it does not say itself.
LEMMA ProfileIs ==
    ASSUME given \subseteq Slots, visited \in Seq(Profiles)
    PROVE  /\ Profile \in [Settings -> Slots \cup {Open}]
           /\ \A k \in Settings : SaidFirst(k, DOMAIN visited, Profile[k])
<1> DEFINE D == DOMAIN visited
           T == [Settings -> Slots \cup {Open}]
           base == [k \in Settings |-> Open]
           pick == [d \in SUBSET D |-> Min(d)]
           G == [x \in D \X T |-> Over(x[2], Says(visited[x[1]]))]
<1>1. D \in SUBSET Nat /\ IsFiniteSet(D)
  <2>1. D = 1..Len(visited) /\ Len(visited) \in Nat
    OBVIOUS
  <2> QED
    BY <2>1, FS_Interval
<1>2. base \in T
  OBVIOUS
<1>3. \A i \in D, b \in T : /\ G[<<i, b>>] = Over(b, Says(visited[i])) /\ G[<<i, b>>] \in T
                            /\ \A k \in Settings : G[<<i, b>>][k] =
                                  IF Says(visited[i])[k] # Open THEN Says(visited[i])[k] ELSE b[k]
  <2> SUFFICES ASSUME NEW i \in D, NEW b \in T
               PROVE  /\ G[<<i, b>>] = Over(b, Says(visited[i])) /\ Over(b, Says(visited[i])) \in T
                      /\ \A k \in Settings : Over(b, Says(visited[i]))[k] =
                            IF Says(visited[i])[k] # Open THEN Says(visited[i])[k] ELSE b[k]
    OBVIOUS
  <2>1. Says(visited[i]) \in T
    BY SaysIs
  <2>2. DOMAIN b = Settings
    OBVIOUS
  <2>3. Over(b, Says(visited[i])) =
           [k \in Settings |-> IF Says(visited[i])[k] # Open THEN Says(visited[i])[k] ELSE b[k]]
    BY <2>2 DEF Over
  <2> QED
    BY <2>1, <2>3
<1>4. \A d \in SUBSET D : d # {} => Min(d) \in d /\ \A x \in d : Min(d) <= x
  BY <1>1, MinOf
<1> HIDE DEF D, T, base, G
<1>5. Picks(pick, D) /\ Closed(G, D, T)
  BY <1>3, <1>4 DEF Picks, Closed
<1>6. PICK it \in [SUBSET D -> T] : IsFold(it, D, base, pick, G)
  <2> HIDE DEF pick
  <2> QED
    BY <1>1, <1>2, <1>5, FoldExists
<1>7. it = [d \in SUBSET D |->
               IF d = {} THEN base ELSE Over(it[d \ {Min(d)}], Says(visited[Min(d)]))]
  <2>1. \A d \in SUBSET D : d # {} => Min(d) \in D /\ d \ {Min(d)} \in SUBSET D
    BY <1>4
  <2>2. \A d \in SUBSET D :
            (IF d = {} THEN base ELSE G[<<pick[d], it[d \ {pick[d]}]>>])
            = (IF d = {} THEN base ELSE Over(it[d \ {Min(d)}], Says(visited[Min(d)])))
    BY <1>3, <2>1
  <2>3. it = [d \in SUBSET D |-> IF d = {} THEN base ELSE G[<<pick[d], it[d \ {pick[d]}]>>]]
    BY <1>6 DEF IsFold
  <2> HIDE DEF pick
  <2> QED
    BY <2>2, <2>3
<1>8. PICK f : /\ f = [d \in SUBSET D |->
                          IF d = {} THEN base ELSE Over(f[d \ {Min(d)}], Says(visited[Min(d)]))]
               /\ Profile = f[D]
  <2>1. \E f : /\ f = [d \in SUBSET D |->
                          IF d = {} THEN base ELSE Over(f[d \ {Min(d)}], Says(visited[Min(d)]))]
               /\ Profile = f[D]
    BY <1>7 DEF Profile, FoldRight, MapThenFoldSet, D, base
  <2> QED
    BY <2>1
<1>9. f[{}] = base
  BY <1>8
<1>10. \A d \in SUBSET D : d # {} => f[d] = Over(f[d \ {Min(d)}], Says(visited[Min(d)]))
  BY <1>8
<1> DEFINE Right(d) == f[d] \in T /\ \A k \in Settings : SaidFirst(k, d, f[d][k])
           S == {n \in Nat : \A d \in SUBSET D : Cardinality(d) <= n => Right(d)}
<1>11. \A d \in SUBSET D : /\ IsFiniteSet(d) /\ Cardinality(d) \in Nat
                           /\ (Cardinality(d) = 0 <=> d = {})
  <2> SUFFICES ASSUME NEW d \in SUBSET D
               PROVE  /\ IsFiniteSet(d) /\ Cardinality(d) \in Nat
                      /\ (Cardinality(d) = 0 <=> d = {})
    OBVIOUS
  <2>1. IsFiniteSet(d)
    BY <1>1, FS_Subset
  <2> QED
    BY <2>1, CardinalityIs
<1>12. Right({})
  BY <1>2, <1>9 DEF SaidFirst, base
<1>13. 0 \in S
  <2> SUFFICES ASSUME NEW d \in SUBSET D, Cardinality(d) <= 0
               PROVE  Right(d)
    OBVIOUS
  <2>1. d = {}
    BY <1>11
  <2> QED
    BY <1>12, <2>1
<1>14. ASSUME NEW n \in S
       PROVE  n + 1 \in S
  <2> SUFFICES ASSUME NEW d \in SUBSET D, Cardinality(d) <= n + 1
               PROVE  Right(d)
    OBVIOUS
  <2>1. CASE d = {}
    BY <1>12, <2>1
  <2>2. CASE d # {}
    <3>1. PICK i \in d : i = Min(d) /\ \A x \in d : i <= x
      BY <1>4, <2>2
    <3>2. PICK e \in SUBSET D : e = d \ {i}
      OBVIOUS
    <3>3. Cardinality(e) = Cardinality(d) - 1
      BY <1>11, <3>2, FS_RemoveElement
    <3>4. Right(e)
      BY <1>11, <3>3
    <3>5. f[d] = Over(f[e], Says(visited[i])) /\ i \in D
      BY <1>10, <2>2, <3>1, <3>2
    <3>6. f[d] \in T /\ \A k \in Settings : f[d][k] =
             IF Says(visited[i])[k] # Open THEN Says(visited[i])[k] ELSE f[e][k]
      <4>1. f[e] \in T
        BY <3>4
      <4>2. PICK b \in T : b = f[e]
        BY <4>1
      <4>3. /\ G[<<i, b>>] = Over(b, Says(visited[i])) /\ G[<<i, b>>] \in T
            /\ \A k \in Settings : G[<<i, b>>][k] =
                  IF Says(visited[i])[k] # Open THEN Says(visited[i])[k] ELSE b[k]
        BY <1>3, <3>5
      <4>4. f[d] = G[<<i, b>>]
        BY <3>5, <4>2, <4>3
      <4> HIDE DEF Right
      <4> QED
        BY <4>2, <4>3, <4>4
    <3>7. d = e \cup {i} /\ \A j \in d : ~ (j < i) /\ (j = i \/ j \in e)
      <4>1. \A j \in d : j \in Nat
        BY <1>1
      <4> QED
        BY <3>1, <3>2, <4>1
    <3>8. ASSUME NEW k \in Settings
          PROVE  SaidFirst(k, d, f[d][k])
      <4>1. SaidFirst(k, e, f[e][k])
        BY <3>4
      <4>2. CASE Says(visited[i])[k] # Open
        BY <3>6, <3>7, <4>2 DEF SaidFirst
      <4>3. CASE Says(visited[i])[k] = Open
        <5>1. f[d][k] = f[e][k]
          BY <3>6, <4>3
        <5>2. \A j \in d : j \in e \/ Says(visited[j])[k] = Open
          BY <3>7, <4>3
        <5>3. \A j \in e : j \in d
          BY <3>7
        <5> QED
          BY <4>1, <5>1, <5>2, <5>3 DEF SaidFirst
      <4> QED
        BY <4>2, <4>3
    <3> QED
      BY <3>6, <3>8
  <2> QED
    BY <2>1, <2>2
<1> HIDE DEF S
<1>15. S = Nat
  <2>1. S \in SUBSET Nat
    BY DEF S
  <2> QED
    BY <1>13, <1>14, <2>1, SetInduction
<1>16. Right(D)
  <2>1. Cardinality(D) \in Nat /\ Cardinality(D) \in S
    BY <1>11, <1>15
  <2> QED
    BY <2>1 DEF S
<1> QED
  BY <1>8, <1>16 DEF D, T

Turns  == <<"default", "max_turns">>
Active == <<"default", "provider">>
Ours   == <<"default", "api_key">>

\* Whom the code asks for the number of turns, in order.
Asked == <<Says("cli")[Turns]>> \o [i \in DOMAIN visited |-> Says(visited[i])[Turns]]
         \o <<Says("project")[Turns], Says("global")[Turns]>>

HomeOf(n) == {n} \cup IF n = "alias" THEN {"openai"} ELSE {}

AtHome(key, n, active) == /\ key.by \in Files => key.at \in HomeOf(n)
                          /\ key.by \in Profiles => active \in HomeOf(n)
                          /\ key.by = "env" => key.at \in HomeOf(n) \cup {"default"}

\* A slot is of a file, of a profile or of the outside.
LEMMA SlotIs ==
    ASSUME NEW s
    PROVE  s \in Slots <=> \/ \E f \in Files : s \in FileSlots(f)
                           \/ \E p \in Profiles : s \in ProfileSlots(p)
                           \/ s \in OtherSlots
<1> DEFINE F == UNION {FileSlots(f) : f \in Files}
           P == UNION {ProfileSlots(p) : p \in Profiles}
<1>1. s \in F <=> \E f \in Files : s \in FileSlots(f)
  BY Zenon
<1>2. s \in P <=> \E p \in Profiles : s \in ProfileSlots(p)
  BY Zenon
<1>3. Slots = F \cup P \cup OtherSlots
  BY Zenon DEF Slots
<1> HIDE DEF F, P
<1> QED
  BY <1>1, <1>2, <1>3

EntrySlots(f) == {Slot(f, e, x, "") : e \in Entries, x \in {"api_key", "model"}}

LEMMA EntrySlotIs ==
    ASSUME NEW f, NEW s
    PROVE  s \in EntrySlots(f) <=>
              \E e \in Entries, x \in {"api_key", "model"} : s = Slot(f, e, x, "")
BY DEF EntrySlots

LEMMA SettingOf ==
    ASSUME NEW l, NEW e, NEW x, NEW v, Slot(l, e, x, v) \in Slots
    PROVE  <<e, x>> \in Settings
<1>1. Slot(l, e, x, v).at = e /\ Slot(l, e, x, v).of = x
  BY DEF Slot
<1>2. \E s \in Slots : <<e, x>> = <<s.at, s.of>>
  BY <1>1
<1> QED
  BY <1>2, Zenon DEF Settings

\* What a provider or an ancestor can be.
Meant(s) == /\ <<s.at, s.of>> = Active => s.is \in {"anthropic", "alias"}
            /\ <<s.at, s.of>> = <<"default", "extends">> => s.is \in Profiles

\* What a slot of a layer can be.
LEMMA SlotsAre ==
    /\ Turns \in Settings /\ Active \in Settings /\ Ours \in Settings
    /\ \A m \in {"anthropic", "openai", "alias"} : <<m, "api_key">> \in Settings
    /\ <<"default", "extends">> \in Settings
    /\ \A s \in Slots : /\ <<s.at, s.of>> = Active => s.is \in {"anthropic", "alias"}
                        /\ <<s.at, s.of>> = <<"default", "extends">> => s.is \in Profiles
<1>1. /\ Slot("cli", "default", "max_turns", "") \in OtherSlots
      /\ Slot("cli", "default", "api_key", "") \in OtherSlots
      /\ Slot("cli", "default", "provider", "alias") \in OtherSlots
      /\ Slot("env", "anthropic", "api_key", "") \in OtherSlots
      /\ Slot("env", "openai", "api_key", "") \in OtherSlots
  BY DEF OtherSlots, Builtin
<1>2. Slot("global", "alias", "api_key", "") \in FileSlots("global") /\ "global" \in Files
  BY DEF FileSlots, Entries, Files
<1>3. Slot("inner", "default", "extends", "outer") \in ProfileSlots("inner") /\ "inner" \in Profiles
  BY DEF ProfileSlots, Profiles
<1>4. ASSUME NEW s \in Slots
      PROVE  Meant(s)
  <2>1. ASSUME NEW l, NEW x \in {"max_turns", "model", "api_key", "profile"}, NEW v
        PROVE  Meant(Slot(l, "default", x, v))
    BY <2>1 DEF Meant, Slot, Active
  <2>2. ASSUME NEW l, NEW x, NEW v, NEW e \in {"anthropic", "openai", "alias", "compact"}
        PROVE  Meant(Slot(l, e, x, v))
    BY <2>2 DEF Meant, Slot, Active
  <2>3. ASSUME NEW l, NEW v \in {"anthropic", "alias"}
        PROVE  Meant(Slot(l, "default", "provider", v))
    BY <2>3 DEF Meant, Slot, Active
  <2>4. ASSUME NEW l, NEW v \in Profiles
        PROVE  Meant(Slot(l, "default", "extends", v))
    BY <2>4 DEF Meant, Slot, Active
  <2>5. CASE s \in OtherSlots
    <3>1. \/ \E x \in {"max_turns", "api_key"} : s = Slot("cli", "default", x, "")
          \/ \E e \in {"anthropic", "alias"} : s = Slot("cli", "default", "provider", e)
          \/ s = Slot("cli", "default", "profile", "inner")
          \/ \E e \in Builtin \cup {"default"} : s = Slot("env", e, "api_key", "")
      BY <2>5, Zenon DEF OtherSlots
    <3> QED
      BY <2>1, <2>2, <2>3, <3>1 DEF Builtin
  <2>6. ASSUME NEW f \in Files, s \in FileSlots(f)
        PROVE  Meant(s)
    <3>1. \/ \E x \in {"max_turns", "model"} : s = Slot(f, "default", x, "")
          \/ \E p \in {"anthropic", "alias"} : s = Slot(f, "default", "provider", p)
          \/ \E e \in Entries, x \in {"api_key", "model"} : s = Slot(f, e, x, "")
          \/ \E x \in {"marker", "other"} : s = Slot(f, "compact", x, "")
      <4> DEFINE S1 == {Slot(f, "default", x, "") : x \in {"max_turns", "model"}}
                 S2 == {Slot(f, "default", "provider", p) : p \in {"anthropic", "alias"}}
                 S3 == EntrySlots(f)
                 S4 == {Slot(f, "compact", x, "") : x \in {"marker", "other"}}
      <4>1. s \in S1 \cup S2 \cup S3 \cup S4
        <5>1. FileSlots(f) = S1 \cup S2 \cup S3 \cup S4
          BY DEF FileSlots, EntrySlots
        <5> HIDE DEF S1, S2, S3, S4
        <5> QED
          BY <2>6, <5>1
      <4>2. s \in S1 => \E x \in {"max_turns", "model"} : s = Slot(f, "default", x, "")
        BY Zenon
      <4>3. s \in S2 => \E p \in {"anthropic", "alias"} : s = Slot(f, "default", "provider", p)
        BY Zenon
      <4>4. s \in S3 => \E e \in Entries, x \in {"api_key", "model"} : s = Slot(f, e, x, "")
        BY EntrySlotIs
      <4>5. s \in S4 => \E x \in {"marker", "other"} : s = Slot(f, "compact", x, "")
        BY Zenon
      <4> HIDE DEF S1, S2, S3, S4
      <4> QED
        BY <4>1, <4>2, <4>3, <4>4, <4>5
    <3> QED
      BY <2>1, <2>2, <2>3, <3>1 DEF Entries
  <2>7. ASSUME NEW p \in Profiles, s \in ProfileSlots(p)
        PROVE  Meant(s)
    <3>1. \/ \E x \in {"max_turns", "model", "api_key"} : s = Slot(p, "default", x, "")
          \/ \E e \in {"anthropic", "alias"} : s = Slot(p, "default", "provider", e)
          \/ \E q \in Profiles \ {p} : s = Slot(p, "default", "extends", q)
      BY <2>7, Zenon DEF ProfileSlots
    <3> QED
      BY <2>1, <2>3, <2>4, <3>1
  <2> QED
    BY <2>5, <2>6, <2>7, SlotIs
<1>5. \A s \in OtherSlots : s \in Slots
  BY SlotIs
<1>6. /\ Slot("global", "alias", "api_key", "") \in Slots
      /\ Slot("inner", "default", "extends", "outer") \in Slots
  BY <1>2, <1>3, SlotIs
<1>7. /\ <<"default", "max_turns">> \in Settings /\ <<"default", "api_key">> \in Settings
      /\ <<"default", "provider">> \in Settings /\ <<"default", "extends">> \in Settings
      /\ <<"anthropic", "api_key">> \in Settings /\ <<"openai", "api_key">> \in Settings
      /\ <<"alias", "api_key">> \in Settings
  BY <1>1, <1>5, <1>6, SettingOf
<1> QED
  BY <1>4, <1>7 DEF Meant, Turns, Active, Ours

\* What a profile says is a profile's own.
LEMMA ProfileOwn ==
    ASSUME given \subseteq Slots, visited \in Seq(Profiles), NEW k \in Settings
    PROVE  Profile[k] = Open \/ \E p \in Profiles : Own(p, k, Profile[k])
<1>1. SaidFirst(k, DOMAIN visited, Profile[k])
  BY ProfileIs
<1>2. ASSUME NEW i \in DOMAIN visited
      PROVE  visited[i] \in Profiles
  OBVIOUS
<1> QED
  BY <1>1, <1>2, SaysIs DEF SaidFirst

\* What the files say is a file's own.
LEMMA MergedIs ==
    ASSUME given \subseteq Slots
    PROVE  /\ \A k \in Settings : Merged[k] = Open \/ \E f \in Files : Own(f, k, Merged[k])
           /\ Merged[Turns] = IF Says("project")[Turns] # Open THEN Says("project")[Turns]
                              ELSE Says("global")[Turns]
<1> DEFINE g == Says("global")
           p == Says("project")
<1>1. g \in [Settings -> Slots \cup {Open}]
      /\ \A k \in Settings : /\ g[k] = Open \/ Own("global", k, g[k])
                             /\ p[k] = Open \/ Own("project", k, p[k])
  BY SaysIs
<1>2. Over(g, p) = [k \in Settings |-> IF p[k] # Open THEN p[k] ELSE g[k]]
  <2>1. DOMAIN g = Settings
    BY <1>1
  <2> QED
    BY <2>1 DEF Over
<1>3. \A k \in Settings :
          Merged[k] = CASE k[1] = "compact" -> IF p[<<"compact", "marker">>] # Open THEN p[k] ELSE g[k]
                        [] k = <<"default", "provider">> -> IF p[k].is # "anthropic" THEN p[k] ELSE g[k]
                        [] OTHER -> Over(g, p)[k]
  BY DEF Merged
<1> HIDE DEF g, p
<1>4. \A k \in Settings : Merged[k] = p[k] \/ Merged[k] = g[k]
  BY <1>2, <1>3
<1>5. Merged[Turns] = Over(g, p)[Turns]
  BY <1>3, SlotsAre DEF Turns
<1> QED
  BY <1>1, <1>2, <1>4, <1>5, SlotsAre DEF g, p, Files

\* What is known of the settings once the profile is applied.
LEMMA AppliedIs ==
    ASSUME given \subseteq Slots, visited \in Seq(Profiles),
           NEW c, c = Applied(Merged, Profile)
    PROVE  /\ c[Turns] = IF Profile[Turns] # Open THEN Profile[Turns] ELSE Merged[Turns]
           /\ c[Active].is \in {"anthropic", "alias"}
           /\ \A m \in {"anthropic", "openai", "alias"} :
                 LET v == c[<<m, "api_key">>]
                 IN  \/ v = Open
                     \/ \E f \in Files : Own(f, <<m, "api_key">>, v)
                     \/ m = c[Active].is /\ \E p \in Profiles : Own(p, Ours, v)
<1> DEFINE pf == Profile
           mg == Merged
           d == Scalars(mg, pf)
<1>1. \A k \in Settings : /\ pf[k] = Open \/ \E p \in Profiles : Own(p, k, pf[k])
                          /\ mg[k] = Open \/ \E f \in Files : Own(f, k, mg[k])
  BY ProfileOwn, MergedIs
<1> HIDE DEF pf, mg
<1>2. \A k \in Settings :
          d[k] = IF k \in {"default"} \X {"max_turns", "model", "provider"} /\ pf[k] # Open
                 THEN pf[k] ELSE mg[k]
  BY DEF Scalars
<1>3. c = IntoEntry(d, pf, d[Active].is)
  BY DEF Applied, pf, mg, Active
<1> HIDE DEF d
<1>4. \A k \in Settings :
          c[k] = IF k[1] = d[Active].is /\ k[2] = "api_key" /\ pf[Ours] # Open
                 THEN pf[Ours] ELSE d[k]
  BY <1>3 DEF IntoEntry, Ours
<1>5. c[Turns] = d[Turns] /\ c[Active] = d[Active]
  BY <1>4, SlotsAre DEF Turns, Active
<1>6. d[Turns] = IF pf[Turns] # Open THEN pf[Turns] ELSE mg[Turns]
  BY <1>2, SlotsAre DEF Turns
<1>7. d[Active] = pf[Active] \/ d[Active] = mg[Active]
  BY <1>2, SlotsAre
<1>8. d[Active].is \in {"anthropic", "alias"}
  BY <1>1, <1>7, SlotsAre DEF Own, Open, Slot
<1>9. ASSUME NEW m \in {"anthropic", "openai", "alias"}
      PROVE  LET v == c[<<m, "api_key">>]
             IN  \/ v = Open
                 \/ \E f \in Files : Own(f, <<m, "api_key">>, v)
                 \/ m = c[Active].is /\ \E p \in Profiles : Own(p, Ours, v)
  <2>1. <<m, "api_key">> \in Settings /\ d[<<m, "api_key">>] = mg[<<m, "api_key">>]
    BY <1>2, SlotsAre
  <2> QED
    BY <1>1, <1>4, <1>5, <2>1, SlotsAre
<1> QED
  BY <1>5, <1>6, <1>8, <1>9 DEF pf, mg

\* The provider asked for, by whoever is heard first.
LEMMA NamedIs ==
    ASSUME given \subseteq Slots, visited \in Seq(Profiles),
           NEW c, c = Applied(Merged, Profile)
    PROVE  Named(c) \in {"anthropic", "alias"}
<1> DEFINE two == <<Says("cli")[Active], c[Active]>>
<1>1. First(two) = Open \/ First(two) = two[1] \/ First(two) = two[2]
  <2>1. DOMAIN two = 1..2
    OBVIOUS
  <2> HIDE DEF two
  <2>2. First(two) = Open \/ \E i \in 1..2 : First(two) = two[i]
    BY <2>1, FirstIs
  <2> QED
    BY <2>2
<1>2. two[1].is \in {"anthropic", "alias"}
  BY SaysIs, SlotsAre DEF Own, Open, Slot
<1>3. two[2].is \in {"anthropic", "alias"}
  BY AppliedIs
<1>4. Named(c) = First(two).is
  BY DEF Named, Active
<1> QED
  BY <1>1, <1>2, <1>3, <1>4 DEF Open, Slot

\* The key is one that was given for the provider.
LEMMA KeyIs ==
    ASSUME given \subseteq Slots, visited \in Seq(Profiles),
           NEW c, c = Applied(Merged, Profile)
    PROVE  AtHome(Key(c), Named(c), c[Active].is)
<1> DEFINE n == Named(c)
           type == IF n = "alias" THEN "openai" ELSE n
           four == <<Says("cli")[Ours], Effective(c, n, "api_key"),
                     Says("env")[Ours], Says("env")[<<type, "api_key">>]>>
<1>1. n \in {"anthropic", "alias"}
  BY NamedIs
<1>2. Key(c) = First(four)
  BY DEF Key, Ours
<1> HIDE DEF n
<1>3. AtHome(Open, n, c[Active].is)
  BY DEF AtHome, Open, Slot, Files, Profiles
<1>4. AtHome(four[1], n, c[Active].is)
  BY <1>3, SaysIs, SlotsAre DEF AtHome, Own, Files, Profiles
<1>5. AtHome(four[2], n, c[Active].is)
  <2>1. \/ Effective(c, n, "api_key") = c[<<n, "api_key">>]
        \/ n = "alias" /\ Effective(c, n, "api_key") = c[<<"openai", "api_key">>]
    BY <1>1, SlotsAre DEF Effective, Builtin
  <2>2. ASSUME NEW m \in HomeOf(n)
        PROVE  AtHome(c[<<m, "api_key">>], n, c[Active].is)
    <3>1. m \in {"anthropic", "openai", "alias"}
      BY <1>1, <2>2 DEF HomeOf
    <3> DEFINE v == c[<<m, "api_key">>]
    <3>2. \/ v = Open
          \/ \E f \in Files : Own(f, <<m, "api_key">>, v)
          \/ m = c[Active].is /\ \E p \in Profiles : Own(p, Ours, v)
      BY <3>1, AppliedIs
    <3> HIDE DEF v
    <3>3. ASSUME NEW f \in Files, Own(f, <<m, "api_key">>, v)
          PROVE  AtHome(v, n, c[Active].is)
      <4>1. v.by \in Files /\ v.at = m
        BY <3>3 DEF Own
      <4> QED
        BY <2>2, <4>1 DEF AtHome, Files, Profiles
    <3>4. ASSUME m = c[Active].is, NEW p \in Profiles, Own(p, Ours, v)
          PROVE  AtHome(v, n, c[Active].is)
      <4>1. v.by \in Profiles
        BY <3>4 DEF Own
      <4> QED
        BY <2>2, <3>4, <4>1 DEF AtHome, Files, Profiles
    <3>5. AtHome(v, n, c[Active].is)
      BY <1>3, <3>2, <3>3, <3>4
    <3> QED
      BY <3>5 DEF v
  <2> QED
    BY <2>1, <2>2 DEF HomeOf
<1>6. AtHome(four[3], n, c[Active].is)
  BY <1>3, SaysIs, SlotsAre DEF AtHome, Own, Files, Profiles, Ours
<1>7. AtHome(four[4], n, c[Active].is)
  <2>1. type \in HomeOf(n) /\ type \in {"anthropic", "openai", "alias"}
    BY <1>1 DEF HomeOf
  <2> HIDE DEF type
  <2>2. <<type, "api_key">> \in Settings
    BY <2>1, SlotsAre
  <2> DEFINE v == Says("env")[<<type, "api_key">>]
  <2>3. v = Open \/ Own("env", <<type, "api_key">>, v)
    BY <2>2, SaysIs
  <2> HIDE DEF v
  <2>4. ASSUME Own("env", <<type, "api_key">>, v)
        PROVE  AtHome(v, n, c[Active].is)
    <3>1. v.by = "env" /\ v.at = type
      BY <2>4 DEF Own
    <3> QED
      BY <2>1, <3>1 DEF AtHome, Files, Profiles
  <2>5. AtHome(v, n, c[Active].is)
    BY <1>3, <2>3, <2>4
  <2> QED
    BY <2>5 DEF v
<1>8. DOMAIN four = 1..4
  OBVIOUS
<1> HIDE DEF four
<1>9. First(four) = Open \/ \E i \in 1..4 : First(four) = four[i]
  BY <1>8, FirstIs
<1> QED
  BY <1>2, <1>3, <1>4, <1>5, <1>6, <1>7, <1>9 DEF n

\* The number of turns is that of the first who gives it.
LEMMA TurnsAre ==
    ASSUME given \subseteq Slots, visited \in Seq(Profiles),
           NEW c, c = Applied(Merged, Profile)
    PROVE  First(<<Says("cli")[Turns], c[Turns]>>) = First(Asked)
<1> DEFINE two == <<Says("cli")[Turns], c[Turns]>>
           n == Len(visited)
<1>1. /\ n \in Nat /\ DOMAIN visited = 1..n
      /\ DOMAIN Asked = 1..(n + 3) /\ Asked[1] = Says("cli")[Turns]
      /\ \A i \in 1..n : Asked[i + 1] = Says(visited[i])[Turns]
      /\ Asked[n + 2] = Says("project")[Turns] /\ Asked[n + 3] = Says("global")[Turns]
  BY DEF Asked
<1>2. /\ c[Turns] = IF Profile[Turns] # Open THEN Profile[Turns] ELSE Merged[Turns]
      /\ Merged[Turns] = IF Says("project")[Turns] # Open THEN Says("project")[Turns]
                         ELSE Says("global")[Turns]
  BY AppliedIs, MergedIs
<1>3. SaidFirst(Turns, 1..n, Profile[Turns])
  BY <1>1, ProfileIs, SlotsAre
<1>4. DOMAIN two = 1..2 /\ two[1] = Says("cli")[Turns] /\ two[2] = c[Turns]
  OBVIOUS
<1> HIDE DEF two, n
<1>5. ASSUME NEW i \in 1..(n + 3), Asked[i] # Open, \A j \in 1..(n + 3) : j < i => Asked[j] = Open
      PROVE  First(Asked) = Asked[i]
  BY <1>1, <1>5, FirstIs
<1>6. (\A i \in 1..(n + 3) : Asked[i] = Open) => First(Asked) = Open
  BY <1>1, FirstIs
<1>7. /\ two[1] # Open => First(two) = two[1]
      /\ two[1] = Open /\ two[2] # Open => First(two) = two[2]
      /\ two[1] = Open /\ two[2] = Open => First(two) = Open
  <2>1. /\ (\A i \in 1..2 : two[i] = Open) => First(two) = Open
        /\ \A i \in 1..2 : two[i] # Open /\ (\A j \in 1..2 : j < i => two[j] = Open) =>
              First(two) = two[i]
    BY <1>4, FirstIs
  <2>2. 1..2 = {1, 2}
    OBVIOUS
  <2>3. two[1] # Open => First(two) = two[1]
    BY <2>1, <2>2
  <2>4. two[1] = Open /\ two[2] # Open => First(two) = two[2]
    BY <2>1, <2>2
  <2> QED
    BY <2>1, <2>2, <2>3, <2>4
<1>8. \A j \in 1..(n + 3) : j = 1 \/ (\E i \in 1..n : j = i + 1) \/ j = n + 2 \/ j = n + 3
  <2> SUFFICES ASSUME NEW j \in 1..(n + 3), j # 1, j # n + 2, j # n + 3
               PROVE  \E i \in 1..n : j = i + 1
    OBVIOUS
  <2>1. j - 1 \in 1..n /\ j = (j - 1) + 1
    BY <1>1
  <2> QED
    BY <2>1
<1>9. CASE two[1] # Open
  <2>1. First(Asked) = Asked[1]
    BY <1>1, <1>4, <1>5, <1>9
  <2> QED
    BY <1>1, <1>4, <1>7, <1>9, <2>1 DEF two
<1>10. CASE two[1] = Open /\ Profile[Turns] # Open
  <2>1. PICK i \in 1..n : /\ Profile[Turns] = Says(visited[i])[Turns]
                          /\ \A j \in 1..n : j < i => Says(visited[j])[Turns] = Open
    BY <1>3, <1>10 DEF SaidFirst
  <2>2. ASSUME NEW j \in 1..(n + 3), j < i + 1
        PROVE  Asked[j] = Open
    <3>1. j # n + 2 /\ j # n + 3
      BY <1>1, <2>2
    <3>2. CASE j = 1
      BY <1>1, <1>4, <1>10, <3>2
    <3>3. ASSUME NEW l \in 1..n, j = l + 1
          PROVE  Asked[j] = Open
      <4>1. l < i
        BY <1>1, <2>2, <3>3
      <4> QED
        BY <1>1, <2>1, <3>3, <4>1
    <3> QED
      BY <1>8, <3>1, <3>2, <3>3
  <2>3. i + 1 \in 1..(n + 3) /\ Asked[i + 1] = Profile[Turns]
    BY <1>1, <2>1
  <2>4. First(Asked) = Profile[Turns]
    BY <1>5, <1>10, <2>2, <2>3
  <2> QED
    BY <1>2, <1>4, <1>7, <1>10, <2>4 DEF two
<1>11. CASE two[1] = Open /\ Profile[Turns] = Open
  <2>1. \A i \in 1..n : Says(visited[i])[Turns] = Open
    BY <1>3, <1>11 DEF SaidFirst
  <2>2. \A j \in 1..(n + 3) : Asked[j] # Open => j = n + 2 \/ j = n + 3
    BY <1>1, <1>4, <1>8, <1>11, <2>1
  <2>3. n + 2 \in 1..(n + 3) /\ n + 3 \in 1..(n + 3) /\ n + 2 < n + 3
    BY <1>1
  <2>4. CASE Asked[n + 2] # Open
    <3>1. \A j \in 1..(n + 3) : j < n + 2 => Asked[j] = Open
      BY <1>1, <2>2
    <3>2. First(Asked) = Asked[n + 2]
      BY <1>5, <2>3, <2>4, <3>1
    <3> QED
      BY <1>1, <1>2, <1>4, <1>7, <1>11, <2>4, <3>2 DEF two
  <2>5. CASE Asked[n + 2] = Open /\ Asked[n + 3] # Open
    <3>1. \A j \in 1..(n + 3) : j < n + 3 => Asked[j] = Open
      BY <1>1, <2>2, <2>5
    <3>2. First(Asked) = Asked[n + 3]
      BY <1>5, <2>3, <2>5, <3>1
    <3> QED
      BY <1>1, <1>2, <1>4, <1>7, <1>11, <2>5, <3>2 DEF two
  <2>6. CASE Asked[n + 2] = Open /\ Asked[n + 3] = Open
    <3>1. First(Asked) = Open
      BY <1>6, <2>2, <2>6
    <3> QED
      BY <1>1, <1>2, <1>4, <1>7, <1>11, <2>6, <3>1 DEF two
  <2> QED
    BY <2>4, <2>5, <2>6
<1> QED
  BY <1>9, <1>10, <1>11

\* The inductive invariant of the configuration: a chain of profiles is one without a
\* repetition, and what was resolved is right.
CfgInv == /\ given \subseteq Slots /\ visited \in Seq(Profiles)
          /\ Precedence /\ KeyGoesHome

LEMMA CfgStarts == CfgInit => CfgInv
BY DEF CfgInit, CfgInv, Precedence, KeyGoesHome, IsInjective

\* The profile that comes next is a profile.
LEMMA ParentIs ==
    ASSUME given \subseteq Slots, visited \in Seq(Profiles), Parent # Open
    PROVE  Parent.is \in Profiles
<1> DEFINE ext == <<"default", "extends">>
<1>1. Parent = Says(Last(visited))[ext]
  BY DEF Parent
<1>2. ext \in Settings
  BY SlotsAre
<1> HIDE DEF ext
<1>3. Own(Last(visited), ext, Parent)
  BY <1>1, <1>2, SaysIs
<1> QED
  BY <1>3, SlotsAre DEF Own, ext

\* Nothing that is already resolved is touched again.
LEMMA CfgUndone ==
    ASSUME IsInjective(visited), stage # "done"
    PROVE  Precedence /\ KeyGoesHome
BY DEF Precedence, KeyGoesHome

\* The values that the resolution asks for are matters of what was given.
LEMMA AskedTheSame == ASSUME UNCHANGED <<given, visited>> PROVE Asked' = Asked
BY DEF Asked, Says

LEMMA ResolveStep == ASSUME CfgInv, Resolve PROVE CfgInv'
<1> DEFINE c == Applied(Merged, Profile)
<1>1. given \subseteq Slots /\ visited \in Seq(Profiles) /\ IsInjective(visited)
      /\ UNCHANGED <<given, visited>>
  BY DEF CfgInv, Precedence, Resolve
<1>2. CASE stage' # "done"
  BY <1>1, <1>2 DEF CfgInv, Precedence, KeyGoesHome
<1>3. CASE stage' = "done"
  <2>1. /\ config'.provider = Named(c) /\ config'.active = c[Active].is /\ config'.api_key = Key(c)
        /\ config'.max_turns = First(<<Says("cli")[Turns], c[Turns]>>)
    BY <1>3 DEF Resolve, Active, Turns
  <2>2. config'.max_turns = First(Asked')
    BY <1>1, <2>1, TurnsAre, AskedTheSame
  <2>3. Precedence'
    BY <1>1, <2>2 DEF Precedence, Asked, Turns, IsInjective
  <2>4. AtHome(config'.api_key, config'.provider, config'.active)
    BY <1>1, <2>1, KeyIs
  <2>5. KeyGoesHome'
    BY <2>4 DEF KeyGoesHome, AtHome, HomeOf
  <2> QED
    BY <1>1, <2>3, <2>5 DEF CfgInv
<1> QED
  BY <1>2, <1>3

LEMMA CfgStep == ASSUME CfgInv, [CfgNext]_cfgVars PROVE CfgInv'
<1>1. given \subseteq Slots /\ visited \in Seq(Profiles) /\ IsInjective(visited)
  BY DEF CfgInv, Precedence
<1>2. ASSUME given' \subseteq Slots, visited' \in Seq(Profiles), IsInjective(visited'), stage' # "done"
      PROVE  CfgInv'
  BY <1>2 DEF CfgInv, Precedence, KeyGoesHome
<1>3. ASSUME NEW s \in Slots, Give(s)
      PROVE  CfgInv'
  BY <1>1, <1>2, <1>3 DEF Give
<1>4. CASE StartChain
  <2>1. visited' \in Seq(Profiles) /\ IsInjective(visited')
    BY <1>4 DEF StartChain, Profiles, IsInjective
  <2> QED
    BY <1>1, <1>2, <1>4, <2>1 DEF StartChain
<1>5. CASE Follow
  <2>1. Parent.is \in Profiles
    BY <1>1, <1>5, ParentIs DEF Follow
  <2>2. visited' \in Seq(Profiles) /\ IsInjective(visited')
    <3>1. CASE Circular(Parent.is)
      BY <1>1, <1>5, <3>1 DEF Follow
    <3>2. CASE ~ Circular(Parent.is)
      <4> DEFINE q == Parent.is
      <4>1. visited' = Append(visited, q)
        BY <1>5, <3>2 DEF Follow
      <4>2. \A i \in DOMAIN visited : visited[i] # q
        BY <3>2 DEF Circular, Range
      <4>3. q \in Profiles
        BY <2>1
      <4> HIDE DEF q
      <4> QED
        BY <1>1, <4>1, <4>2, <4>3 DEF IsInjective
    <3> QED
      BY <3>1, <3>2
  <2> QED
    BY <1>1, <1>2, <1>5, <2>2 DEF Follow
<1>6. CASE UNCHANGED cfgVars
  <2>1. UNCHANGED <<given, stage, visited, config>> /\ Asked' = Asked
    BY <1>6, AskedTheSame DEF cfgVars
  <2>2. Precedence'
    BY <2>1 DEF CfgInv, Precedence, IsInjective, Asked, Turns
  <2> QED
    BY <2>1, <2>2 DEF CfgInv, KeyGoesHome
<1> QED
  BY <1>3, <1>4, <1>5, <1>6, ResolveStep DEF CfgNext

LEMMA SettledHolds == RoundSpec => [](which = "settings" => CfgInv)
<1> DEFINE Inv == which = "settings" => CfgInv
<1>1. RoundInit => Inv
  BY CfgStarts DEF RoundInit
<1>2. Inv /\ [RoundNext]_<<which, vars, others>> => Inv'
  <2> SUFFICES ASSUME Inv, [RoundNext]_<<which, vars, others>>, which' = "settings"
               PROVE  CfgInv'
    OBVIOUS
  <2>1. which = "settings"
    BY DEF RoundNext
  <2>2. [CfgNext]_cfgVars
    BY <2>1 DEF RoundNext, others
  <2> QED
    BY <2>1, <2>2, CfgStep
<1> QED
  BY <1>1, <1>2, PTL DEF RoundSpec

\* Each setting has its value from the first that gives it of the command line, the
\* chain of profiles, the project and the global file, however long the chain is and
\* whatever each layer gives; the chain repeats nobody; and the key is one that was given
\* for the provider in the end (config.rs 961-1056).
THEOREM SettledAlways == RoundSpec => []SettledRight
<1>1. (which = "settings" => CfgInv) => SettledRight
  BY DEF CfgInv, SettledRight
<1> QED
  BY <1>1, SettledHolds, PTL
===============================================================================
