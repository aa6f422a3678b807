---------------------------- MODULE AgentRunProofs ----------------------------
(***************************************************************************)
(* Theorems about AgentRun, for every set of inputs, every bound and every *)
(* choice of hazards.                                                      *)
(***************************************************************************)
EXTENDS AgentRun, SequenceTheorems, TLAPS

-------------------------------------------------------------------------------
(* What the history operators do.                                          *)

\* A history is extended by an entry, or by another history, and carries the
\* user messages of both.
LEMMA CoveredAppend ==
    ASSUME NEW h \in Seq(Entry), NEW e \in Entry
    PROVE  /\ Append(h, e) \in Seq(Entry)
           /\ Covered(Append(h, e)) = Covered(h) \cup e.inputs
<1>1. Append(h, e) \in Seq(Entry)
  OBVIOUS
<1>2. \A i \in DOMAIN h : Append(h, e)[i] = h[i]
  OBVIOUS
<1>3. DOMAIN Append(h, e) = DOMAIN h \cup {Len(h) + 1}
  OBVIOUS
<1>4. Append(h, e)[Len(h) + 1] = e
  OBVIOUS
<1>5. Covered(Append(h, e)) = Covered(h) \cup e.inputs
  BY <1>2, <1>3, <1>4 DEF Covered
<1>. QED  BY <1>1, <1>5

LEMMA CoveredConcat ==
    ASSUME NEW h \in Seq(Entry), NEW t \in Seq(Entry)
    PROVE  /\ h \o t \in Seq(Entry)
           /\ Covered(h \o t) = Covered(h) \cup Covered(t)
<1>1. h \o t \in Seq(Entry)
  OBVIOUS
<1>2. DOMAIN (h \o t) = 1..(Len(h) + Len(t))
  OBVIOUS
<1>3. \A i \in DOMAIN h : i \in DOMAIN (h \o t) /\ (h \o t)[i] = h[i]
  BY <1>2
<1>4. \A i \in DOMAIN t : /\ Len(h) + i \in DOMAIN (h \o t)
                          /\ (h \o t)[Len(h) + i] = t[i]
  BY <1>2
<1>5. \A i \in DOMAIN (h \o t) :
         i \in DOMAIN h \/ \E j \in DOMAIN t : i = Len(h) + j
  <2>1. SUFFICES ASSUME NEW i \in 1..(Len(h) + Len(t)), ~(i \in DOMAIN h)
                 PROVE  \E j \in DOMAIN t : i = Len(h) + j
    BY <1>2, Zenon
  <2>2. i - Len(h) \in DOMAIN t /\ i = Len(h) + (i - Len(h))
    BY <2>1
  <2>. QED  BY <2>2
<1>6. Covered(h \o t) \subseteq Covered(h) \cup Covered(t)
  BY <1>3, <1>4, <1>5 DEF Covered
<1>7. Covered(h) \cup Covered(t) \subseteq Covered(h \o t)
  BY <1>3, <1>4 DEF Covered
<1>. QED  BY <1>1, <1>6, <1>7

\* Folding the inbox makes one entry of each waiting message.
LEMMA FramedEntries ==
    ASSUME NEW q \in Seq(Inputs)
    PROVE  /\ Framed(q) \in Seq(Entry)
           /\ Covered(Framed(q)) = Range(q)
<1>1. DOMAIN q = 1..Len(q) /\ Len(q) \in Nat
  OBVIOUS
<1>2. \A i \in 1..Len(q) : User({q[i]}) \in Entry
  BY <1>1 DEF User, Entry
<1>3. [i \in 1..Len(q) |-> User({q[i]})] \in Seq(Entry)
  BY <1>1, <1>2, IsASeq
<1>4. Framed(q) \in Seq(Entry)
  BY <1>1, <1>3 DEF Framed
<1>5. DOMAIN Framed(q) = DOMAIN q /\ \A i \in DOMAIN q : Framed(q)[i].inputs = {q[i]}
  BY DEF Framed, User
<1>6. Covered(Framed(q)) = Range(q)
  BY <1>5 DEF Covered, Range
<1>. QED  BY <1>4, <1>6

\* A history carries user messages and nothing else.
LEMMA CoveredInputs ==
    ASSUME NEW h \in Seq(Entry)
    PROVE  Covered(h) \subseteq Inputs
<1>1. \A e \in Entry : e.inputs \subseteq Inputs
  BY DEF Entry
<1>2. \A i \in DOMAIN h : h[i] \in Entry
  OBVIOUS
<1>. QED  BY <1>1, <1>2 DEF Covered

\* A summary carries what the history it replaces carried.
LEMMA SummaryEntries ==
    ASSUME NEW h \in Seq(Entry)
    PROVE  /\ Summary(h) \in Seq(Entry)
           /\ Covered(Summary(h)) = Covered(h)
<1>1. Covered(h) \subseteq Inputs
  BY CoveredInputs
<1>2. [kind |-> "summary", inputs |-> Covered(h)] \in Entry
  BY <1>1 DEF Entry
<1>3. DOMAIN Summary(h) = {1} /\ Summary(h)[1].inputs = Covered(h)
  BY DEF Summary
<1>4. Covered(Summary(h)) = Covered(h)
  BY <1>3 DEF Covered
<1>. QED  BY <1>2, <1>4 DEF Summary

\* Entries that are not the user's carry nothing.
LEMMA ControlEntries ==
    ASSUME NEW k \in {"prompt", "text", "calls", "results"}
    PROVE  /\ Control(k) \in Entry /\ Control(k).inputs = {}
           /\ <<Control(k)>> \in Seq(Entry) /\ Covered(<<Control(k)>>) = {}
<1>1. Control(k) \in Entry /\ Control(k).inputs = {}
  BY DEF Control, Entry
<1>2. DOMAIN <<Control(k)>> = {1} /\ <<Control(k)>>[1] = Control(k)
  OBVIOUS
<1>. QED  BY <1>1, <1>2 DEF Covered

LEMMA CutEntries ==
    ASSUME NEW c \in CutContent
    PROVE  c \in Seq(Entry) /\ Covered(c) = {}
<1>1. CASE c = <<>>
  BY <1>1 DEF Covered
<1>2. CASE c = <<Control("text")>>
  BY <1>2, ControlEntries
<1>. QED  BY <1>1, <1>2 DEF CutContent

\* An entry or a history that carries no user message adds none.
LEMMA SilentAppend ==
    ASSUME NEW h \in Seq(Entry), NEW k \in {"prompt", "text", "calls", "results"}
    PROVE  /\ Append(h, Control(k)) \in Seq(Entry)
           /\ Covered(Append(h, Control(k))) = Covered(h)
<1>1. Control(k) \in Entry /\ Control(k).inputs = {}
  BY ControlEntries
<1>2. /\ Append(h, Control(k)) \in Seq(Entry)
      /\ Covered(Append(h, Control(k))) = Covered(h) \cup {}
  BY <1>1, CoveredAppend
<1>. QED  BY <1>2

LEMMA SilentConcat ==
    ASSUME NEW h \in Seq(Entry), NEW t \in Seq(Entry), Covered(t) = {}
    PROVE  h \o t \in Seq(Entry) /\ Covered(h \o t) = Covered(h)
<1>1. /\ h \o t \in Seq(Entry)
      /\ Covered(h \o t) = Covered(h) \cup {}
  BY CoveredConcat
<1>. QED  BY <1>1
-------------------------------------------------------------------------------
(* Type correctness.  That a normal turn under way still has budget is the *)
(* strengthening that keeps the count of turns within it.                  *)

TurnLeft == (pc \in {"ask", "recover", "send", "wait"} /\ kind = "Normal")
               => turns < MaxTurns

TypeInv == TypeOK /\ TurnLeft

\* The parts of TypeOK, for the provers to take one at a time.
HistoryOK == /\ queue \in Seq(Inputs) /\ said \in Seq(Inputs)
             /\ messages \in Seq(Entry) /\ saved \in Seq(Entry)
FlagsOK == open \in BOOLEAN /\ retried \in BOOLEAN /\ overflowed \in BOOLEAN
StateOK == /\ pc \in Running \cup {"idle", "closing", "cancelled"}
           /\ kind \in Reasons \cup {"Normal"}
           /\ turns \in 0..MaxTurns /\ attempt \in 0..MaxContinuations
           /\ calls \in Nat /\ runs \in 0..MaxRuns
           /\ task \subseteq Inputs /\ asked \subseteq Inputs /\ lost \subseteq Inputs
           /\ result \in {"none", "end_turn", "max_turns", "max_tokens", "error",
                          "aborted"}

LEMMA TypeStep ==
    ASSUME TypeInv, [Next]_vars
    PROVE  TypeInv'
<1>. USE ConstantsAssumption DEF TypeInv
<1>a. /\ \A e \in Entry : Append(messages, e) \in Seq(Entry)
      /\ \A t \in Seq(Entry) : messages \o t \in Seq(Entry)
      /\ Framed(queue) \in Seq(Entry)
      /\ Summary(messages) \in Seq(Entry)
  BY CoveredAppend, CoveredConcat, FramedEntries, SummaryEntries DEF TypeOK
<1>b. \A k \in {"prompt", "text", "calls", "results"} :
         Control(k) \in Entry /\ <<Control(k)>> \in Seq(Entry)
  BY ControlEntries
<1>c. \A c \in CutContent : /\ messages \o c \in Seq(Entry)
                            /\ messages \o c \o <<Control("text")>> \in Seq(Entry)
                            /\ messages \o c \o <<Control("prompt")>> \in Seq(Entry)
  BY <1>a, <1>b, CutEntries, CoveredConcat
<1>d. /\ <<>> \in Seq(Inputs) /\ <<>> \in Seq(Entry)
      /\ {} \subseteq Inputs
      /\ 0 \in 0..MaxTurns /\ 0 \in 0..MaxContinuations
      /\ 1 \in 0..MaxContinuations /\ 0 \in 0..MaxRuns /\ 0 \in Nat
  OBVIOUS
<1>1. ASSUME NEW m \in Inputs, Push(m) PROVE TypeInv'
  BY <1>1 DEF Push, TypeOK, TurnLeft, convo, turn, guards
<1>2. ASSUME NEW m \in Inputs, StartRun(m) PROVE TypeInv'
  <2>1. HistoryOK'
    BY <1>2, <1>d DEF StartRun, convo, TypeOK, HistoryOK
  <2>2. StateOK'
    BY <1>2, <1>d DEF StartRun, Running, TypeOK, StateOK
  <2>4. FlagsOK'
    BY <1>2, <1>d DEF StartRun, Running, TypeOK, FlagsOK
  <2>3. TurnLeft'
    BY <1>2, <1>d DEF StartRun, TurnLeft
  <2>. QED  BY <2>1, <2>2, <2>3, <2>4 DEF TypeOK, HistoryOK, StateOK, FlagsOK
<1>3. CASE Begin
  <2>1. User(task) \in Entry
    BY DEF User, Entry, TypeOK
  <2>. QED  BY <1>3, <1>a, <2>1 DEF Begin, Record, TypeOK, TurnLeft, inbox, turn,
              guards, ghosts, Running
<1>4. CASE StopAtBudget
  BY <1>4 DEF StopAtBudget, Record, EndRun, TypeOK, TurnLeft, inbox, turn,
     guards, ghosts
<1>5. CASE Absorb
  <2>1. TypeOK'
    BY <1>5, <1>a, <1>d DEF Absorb, Fold, StartTurn, TypeOK,
       guards, ghosts, Running
  <2>2. TurnLeft'
    BY <1>5, <1>a, <1>d DEF Absorb, StartTurn, BudgetReached, TypeOK, TurnLeft,
       guards
  <2>. QED  BY <2>1, <2>2
<1>6. CASE Microcompact
  BY <1>6 DEF Microcompact, Record, TypeOK, TurnLeft, inbox, turn, guards, ghosts
<1>7. CASE Compact
  BY <1>7, <1>a DEF Compact, Record, TypeOK, TurnLeft, inbox, turn, guards,
     ghosts, Running
<1>8. CASE ContextTooLong
  BY <1>8 DEF ContextTooLong, EndRun, TypeOK, TurnLeft, inbox, convo, turn,
     guards, ghosts
<1>9. CASE Send
  <2>1. Covered(messages) \subseteq Inputs
    BY CoveredInputs DEF TypeOK
  <2>. QED  BY <1>9, <2>1 DEF Send, TypeOK, TurnLeft, inbox, convo, guards,
              ghosts, Running
<1>10. CASE Overflow
  BY <1>10 DEF Overflow, TypeOK, TurnLeft, inbox, convo, guards, ghosts, Running
<1>11. CASE Fail
  BY <1>11 DEF Fail, EndRun, TypeOK, TurnLeft, inbox, convo, turn, guards, ghosts
<1>12. CASE AnswerTools
  BY <1>12, <1>a, <1>b DEF AnswerTools, Outcome, Record, TypeOK, TurnLeft, inbox,
     turn, ghosts, Running
<1>13. CASE AnswerFinal
  BY <1>13, <1>a, <1>b DEF AnswerFinal, Outcome, Record, TypeOK, TurnLeft, inbox,
     turn, ghosts, Running
<1>14. CASE Look
  BY <1>14 DEF Look, EndRun, TypeOK, TurnLeft, convo, turn, guards, ghosts, Running
<1>15. CASE CutCall
  BY <1>15, <1>c DEF CutCall, Outcome, Remember, TypeOK, TurnLeft, inbox, turn,
     ghosts, Running
<1>16. CASE Cut
  <2>1. HistoryOK'
    BY <1>16, <1>c, <1>d DEF Cut, Outcome, Remember, inbox, ghosts, TypeOK, HistoryOK
  <2>2. StateOK'
    BY <1>16, <1>c, <1>d DEF Cut, Outcome,
       StartTurn, inbox, ghosts, Running, Reasons, TurnLeft, TypeOK, StateOK
  <2>4. FlagsOK'
    BY <1>16, <1>c, <1>d DEF Cut, Outcome,
       StartTurn, inbox, ghosts, Running, Reasons, TurnLeft, TypeOK, FlagsOK
  <2>3. TurnLeft'
    BY <1>16, <1>c, <1>d DEF Cut, StartTurn, TurnLeft
  <2>. QED  BY <2>1, <2>2, <2>3, <2>4 DEF TypeOK, HistoryOK, StateOK, FlagsOK
<1>17. CASE Empty
  <2>1. HistoryOK'
    BY <1>17, <1>a, <1>b, <1>d DEF Empty, Record, inbox,
       convo, ghosts, TypeOK, HistoryOK
  <2>2. StateOK'
    BY <1>17, <1>a, <1>b, <1>d DEF Empty, Outcome,
       StartTurn, inbox, ghosts, Running, Reasons, TurnLeft, TypeOK, StateOK
  <2>4. FlagsOK'
    BY <1>17, <1>a, <1>b, <1>d DEF Empty, Outcome,
       StartTurn, inbox, ghosts, Running, Reasons, TurnLeft, TypeOK, FlagsOK
  <2>3. TurnLeft'
    BY <1>17, <1>a, <1>b, <1>d DEF Empty, StartTurn, TurnLeft
  <2>. QED  BY <2>1, <2>2, <2>3, <2>4 DEF TypeOK, HistoryOK, StateOK, FlagsOK
<1>18. CASE ToolsDone
  <2>1. \A f \in {<<>>, <<Control("prompt")>>} :
           messages \o <<Control("results")>> \o f \in Seq(Entry)
    <3>1. messages \o <<Control("results")>> \in Seq(Entry)
      BY <1>a, <1>b
    <3>2. \A f \in {<<>>, <<Control("prompt")>>} : f \in Seq(Entry)
      BY <1>b, <1>d
    <3>. QED  BY <3>1, <3>2, CoveredConcat
  <2>. QED  BY <1>18, <2>1 DEF ToolsDone, Record, StartTurn, EndRun, TypeOK,
              TurnLeft, inbox, guards, ghosts, Running, Reasons
<1>19. CASE ToolsQuit
  BY <1>19 DEF ToolsQuit, Record, EndRun, TypeOK, TurnLeft, inbox, turn, guards,
     ghosts
<1>20. CASE ContinueCut
  <2>1. HistoryOK'
    BY <1>20, <1>c, <1>d DEF ContinueCut, Record, Remember,
       inbox, ghosts, TypeOK, HistoryOK
  <2>2. StateOK'
    BY <1>20, <1>c, <1>d DEF ContinueCut,
       StartTurn, EndRun, inbox, guards, ghosts, Running, Reasons, TypeOK, StateOK
  <2>4. FlagsOK'
    BY <1>20, <1>c, <1>d DEF ContinueCut,
       StartTurn, EndRun, inbox, guards, ghosts, Running, Reasons, TypeOK, FlagsOK
  <2>3. TurnLeft'
    BY <1>20, <1>c, <1>d DEF ContinueCut,
       StartTurn, EndRun, TurnLeft
  <2>. QED  BY <2>1, <2>2, <2>3, <2>4 DEF TypeOK, HistoryOK, StateOK, FlagsOK
<1>21. CASE FinalizeDone
  BY <1>21, <1>a, <1>b DEF FinalizeDone, Record, EndRun, TypeOK, TurnLeft, inbox,
     turn, guards, ghosts
<1>22. CASE FinalizeFallback
  BY <1>22, <1>a, <1>b DEF FinalizeFallback, Record, EndRun, TypeOK, TurnLeft,
     inbox, turn, guards, ghosts, Reasons
<1>23. CASE CloseRun
  BY <1>23, <1>a, <1>d DEF CloseRun, Fold, TypeOK, TurnLeft, turn, guards, ghosts
<1>24. CASE Cancel
  BY <1>24 DEF Cancel, TypeOK, TurnLeft, inbox, convo, turn, guards, ghosts
<1>25. CASE Abort
  <2>1. Append(messages, Control("results")) \o Framed(queue) \in Seq(Entry)
    BY <1>a, <1>b, CoveredConcat
  <2>. QED  BY <1>25, <1>a, <1>d, <2>1 DEF Abort, Record, Fold, TypeOK, TurnLeft, turn,
              guards, ghosts
<1>26. CASE Crash
  <2>1. Range(queue) \subseteq Inputs
    BY DEF TypeOK, Range
  <2>. QED  BY <1>26, <1>d, <2>1 DEF Crash, TypeOK, TurnLeft, turn, guards
<1>27. CASE UNCHANGED vars
  BY <1>27 DEF vars, TypeOK, TurnLeft, inbox, convo, turn, guards, ghosts
<1>. QED
  BY <1>1, <1>2, <1>3, <1>4, <1>5, <1>6, <1>7, <1>8, <1>9, <1>10, <1>11, <1>12,
     <1>13, <1>14, <1>15, <1>16, <1>17, <1>18, <1>19, <1>20, <1>21, <1>22,
     <1>23, <1>24, <1>25, <1>26, <1>27
     DEF Next, Engine, Host, ModelTurn, NormalTurn, FinalTurn

\* The model is type correct, a run counts at most max_turns_per_run normal
\* turns and attempts at most MAX_TRUNCATION_CONTINUATIONS continuations.
THEOREM TypeCorrect == Spec => [](TypeOK /\ TurnLeft)
<1>1. Init => TypeInv
  <2>. SUFFICES ASSUME Init PROVE TypeInv
    OBVIOUS
  <2>1. HistoryOK
    BY DEF Init, HistoryOK
  <2>2. StateOK
    BY ConstantsAssumption DEF Init, StateOK
  <2>4. FlagsOK
    BY DEF Init, FlagsOK
  <2>3. TurnLeft
    BY DEF Init, TurnLeft
  <2>. QED  BY <2>1, <2>2, <2>3, <2>4 DEF TypeInv, TypeOK, HistoryOK, StateOK, FlagsOK
<1>2. TypeInv /\ [Next]_vars => TypeInv'
  BY TypeStep
<1>. QED  BY <1>1, <1>2, PTL DEF Spec, TypeInv
-------------------------------------------------------------------------------
(* What a step does to the user messages in the history: a run records its *)
(* own message, a fold the waiting ones, and no other step changes which   *)
(* user messages memory or the session file carries.                       *)

Folding == Absorb \/ CloseRun \/ Abort
Arrival == \E m \in Inputs : Push(m) \/ StartRun(m)
Quiet   == \/ StopAtBudget \/ ModelTurn \/ NormalTurn \/ Look \/ ToolsDone
           \/ ToolsQuit \/ FinalTurn \/ Cancel \/ UNCHANGED vars

LEMMA StepKinds == [Next]_vars <=> Begin \/ Folding \/ Arrival \/ Quiet \/ Crash
  BY DEF Next, Engine, Host, Folding, Arrival, Quiet

LEMMA BeginHears ==
    ASSUME TypeOK, Begin
    PROVE  /\ Covered(messages') = Covered(messages) \cup task
           /\ Covered(saved') = Covered(messages')
<1>1. User(task) \in Entry /\ User(task).inputs = task
  BY DEF User, Entry, TypeOK
<1>2. Covered(Append(messages, User(task))) = Covered(messages) \cup task
  BY <1>1, CoveredAppend DEF TypeOK
<1>. QED  BY <1>2 DEF Begin, Record

LEMMA FoldHears ==
    ASSUME TypeOK, HeardIsSaved, Folding
    PROVE  /\ Covered(messages') = Covered(messages) \cup Range(queue)
           /\ Covered(saved') = Covered(messages')
<1>a. messages \in Seq(Entry) /\ saved \in Seq(Entry) /\ queue \in Seq(Inputs)
  BY DEF TypeOK
<1>b. /\ Append(messages, Control("results")) \in Seq(Entry)
      /\ Covered(Append(messages, Control("results"))) = Covered(messages)
  BY <1>a, SilentAppend
<1>c. Framed(queue) \in Seq(Entry) /\ Covered(Framed(queue)) = Range(queue)
  BY <1>a, FramedEntries
<1>d. /\ Covered(messages \o Framed(queue)) = Covered(messages) \cup Range(queue)
      /\ queue = <<>> => Range(queue) = {}
  BY <1>a, <1>c, CoveredConcat DEF Range
<1>1. CASE Fold(messages, queue)
  <2>1. Covered(messages') = Covered(messages) \cup Range(queue)
    BY <1>1, <1>d DEF Fold
  <2>2. Covered(saved') = Covered(messages')
    BY <1>1, <1>d, <2>1 DEF Fold, HeardIsSaved
  <2>. QED  BY <2>1, <2>2
<1>2. CASE Record(Append(messages, Control("results")) \o Framed(queue))
  <2>1. Covered(Append(messages, Control("results")) \o Framed(queue))
          = Covered(Append(messages, Control("results"))) \cup Covered(Framed(queue))
    BY <1>b, <1>c, CoveredConcat
  <2>. QED  BY <1>2, <1>b, <1>c, <2>1 DEF Record
<1>. QED  BY <1>1, <1>2 DEF Folding, Absorb, CloseRun, Abort

LEMMA QuietHears ==
    ASSUME TypeOK, HeardIsSaved, Quiet
    PROVE  /\ Covered(messages') = Covered(messages)
           /\ Covered(saved') = Covered(messages')
<1>a. messages \in Seq(Entry) /\ saved \in Seq(Entry)
  BY DEF TypeOK
<1>b. \A k \in {"prompt", "text", "calls", "results"} :
         /\ Append(messages, Control(k)) \in Seq(Entry)
         /\ Covered(Append(messages, Control(k))) = Covered(messages)
  BY <1>a, SilentAppend
<1>c. \A c \in CutContent : /\ messages \o c \in Seq(Entry)
                            /\ Covered(messages \o c) = Covered(messages)
  BY <1>a, CutEntries, SilentConcat
<1>d. \A c \in CutContent : \A k \in {"prompt", "text"} :
         Covered(messages \o c \o <<Control(k)>>) = Covered(messages)
  <2>1. SUFFICES ASSUME NEW c \in CutContent, NEW k \in {"prompt", "text"}
                 PROVE  Covered(messages \o c \o <<Control(k)>>) = Covered(messages)
    OBVIOUS
  <2>2. messages \o c \in Seq(Entry) /\ Covered(messages \o c) = Covered(messages)
    BY <1>c
  <2>3. <<Control(k)>> \in Seq(Entry) /\ Covered(<<Control(k)>>) = {}
    BY ControlEntries
  <2>. QED  BY <2>2, <2>3, SilentConcat
<1>1. CASE UNCHANGED convo
  BY <1>1 DEF convo, HeardIsSaved
<1>2. CASE Record(messages)
  BY <1>2 DEF Record
<1>3. CASE Record(Summary(messages))
  BY <1>3, <1>a, SummaryEntries DEF Record
<1>4. CASE \E k \in {"prompt", "text", "calls"} : Record(Append(messages, Control(k)))
  BY <1>4, <1>b DEF Record
<1>5. CASE CutCall \/ Cut
  BY <1>5, <1>c, <1>d DEF CutCall, Cut, Remember, HeardIsSaved
<1>6. CASE ToolsDone
  <2>1. /\ messages \o <<Control("results")>> \in Seq(Entry)
        /\ Covered(messages \o <<Control("results")>>) = Covered(messages)
    <3>1. <<Control("results")>> \in Seq(Entry) /\ Covered(<<Control("results")>>) = {}
      BY ControlEntries
    <3>. QED  BY <1>a, <3>1, SilentConcat
  <2>2. PICK f \in {<<>>, <<Control("prompt")>>} :
              Record(messages \o <<Control("results")>> \o f)
    BY <1>6 DEF ToolsDone
  <2>3. f \in Seq(Entry) /\ Covered(f) = {}
    <3>1. CASE f = <<>>
      BY <3>1 DEF Covered
    <3>2. CASE f = <<Control("prompt")>>
      BY <3>2, ControlEntries
    <3>. QED  BY <2>2, <3>1, <3>2
  <2>4. Covered(messages \o <<Control("results")>> \o f) = Covered(messages)
    BY <2>1, <2>3, SilentConcat
  <2>. QED  BY <2>2, <2>4 DEF Record
<1>7. CASE ContinueCut
  BY <1>7, <1>c, <1>d DEF ContinueCut, Record, Remember, HeardIsSaved
<1>8. CASE StopAtBudget \/ Look \/ ToolsQuit \/ Cancel \/ UNCHANGED vars
  BY <1>8, <1>1, <1>2 DEF StopAtBudget, Look, ToolsQuit, Cancel, vars
<1>9. CASE ModelTurn
  BY <1>9, <1>1, <1>2, <1>3 DEF ModelTurn, Microcompact, Compact, ContextTooLong,
     Send, Overflow, Fail
<1>10. CASE NormalTurn
  BY <1>10, <1>1, <1>4, <1>5 DEF NormalTurn, AnswerTools, AnswerFinal, Empty
<1>11. CASE FinalTurn
  BY <1>11, <1>4, <1>7 DEF FinalTurn, FinalizeDone, FinalizeFallback
<1>. QED  BY <1>6, <1>8, <1>9, <1>10, <1>11 DEF Quiet

\* A quiet step leaves the inbox and its history alone, but for shutting the
\* gate on an empty queue.
LEMMA QuietInbox ==
    ASSUME Quiet
    PROVE  /\ UNCHANGED <<queue, task, said, lost>>
           /\ open' = open \/ (open' = FALSE /\ queue = <<>>)
<1>1. CASE ModelTurn
  BY <1>1 DEF ModelTurn, Microcompact, Compact, ContextTooLong, Send, Overflow,
     Fail, inbox, ghosts
<1>2. CASE NormalTurn
  BY <1>2 DEF NormalTurn, AnswerTools, AnswerFinal, CutCall, Cut, Empty, inbox, ghosts
<1>3. CASE FinalTurn
  BY <1>3 DEF FinalTurn, ContinueCut, FinalizeDone, FinalizeFallback, inbox, ghosts
<1>4. CASE \/ StopAtBudget \/ Look \/ ToolsDone \/ ToolsQuit \/ Cancel
           \/ UNCHANGED vars
  BY <1>4 DEF StopAtBudget, Look, ToolsDone, ToolsQuit, Cancel, vars, inbox, ghosts
<1>. QED  BY <1>1, <1>2, <1>3, <1>4 DEF Quiet

LEMMA ArrivalHears == ASSUME Arrival PROVE UNCHANGED convo
  BY DEF Arrival, Push, StartRun, convo

LEMMA SavedStep ==
    ASSUME TypeOK, HeardIsSaved, [Next]_vars
    PROVE  HeardIsSaved' /\ Covered(messages) \subseteq Covered(messages')
<1>1. CASE Begin
  BY <1>1, BeginHears DEF HeardIsSaved
<1>2. CASE Folding
  BY <1>2, FoldHears DEF HeardIsSaved
<1>3. CASE Arrival
  BY <1>3, ArrivalHears DEF HeardIsSaved, convo
<1>4. CASE Quiet
  BY <1>4, QuietHears DEF HeardIsSaved
<1>5. CASE Crash
  BY <1>5 DEF Crash, HeardIsSaved
<1>. QED  BY <1>1, <1>2, <1>3, <1>4, <1>5, StepKinds

\* No user message the conversation holds is in memory only, at any point a
\* crash could strike.
THEOREM AlwaysSaved == Spec => []HeardIsSaved
<1>1. Init => HeardIsSaved
  BY DEF Init, HeardIsSaved
<1>2. TypeOK /\ HeardIsSaved /\ [Next]_vars => HeardIsSaved'
  BY SavedStep
<1>. QED  BY <1>1, <1>2, TypeCorrect, PTL DEF Spec

\* Neither compaction, abort, nor a crash and resume takes a user message
\* out of the conversation.
THEOREM ForgetsNothing == Spec => NeverForgets
<1>1. TypeOK /\ HeardIsSaved /\ [Next]_vars
        => [Covered(messages) \subseteq Covered(messages')]_vars
  <2>. SUFFICES ASSUME TypeOK, HeardIsSaved, [Next]_vars
                PROVE  Covered(messages) \subseteq Covered(messages')
    OBVIOUS
  <2>. QED  BY SavedStep
<1>. QED  BY <1>1, TypeCorrect, AlwaysSaved, PTL DEF Spec, NeverForgets
-------------------------------------------------------------------------------
(* The gate and what waits behind it.                                      *)

TaskHeld == /\ pc = "begin" => \E m \in Inputs : task = {m}
            /\ pc # "begin" => task = {}

InboxInv == OpenForTheRun /\ NothingStranded /\ TaskHeld

LEMMA InboxStep ==
    ASSUME TypeOK, InboxInv, [Next]_vars
    PROVE  InboxInv'
<1>. USE DEF InboxInv
<1>1. OpenForTheRun'
  <2>. USE DEF OpenForTheRun, Running
  <2>1. CASE \E m \in Inputs : Push(m) \/ StartRun(m)
    BY <2>1 DEF Push, StartRun
  <2>2. CASE Begin \/ StopAtBudget \/ Absorb
    BY <2>2 DEF Begin, StopAtBudget, Absorb, EndRun, StartTurn, inbox
  <2>3. CASE ModelTurn
    BY <2>3 DEF ModelTurn, Microcompact, Compact, ContextTooLong, Send, Overflow,
       Fail, EndRun, inbox
  <2>4. CASE NormalTurn
    BY <2>4 DEF NormalTurn, AnswerTools, AnswerFinal, CutCall, Cut, Empty, Outcome,
       StartTurn, inbox
  <2>5. CASE Look
    BY <2>5 DEF Look, EndRun
  <2>6. CASE ToolsDone \/ ToolsQuit
    BY <2>6 DEF ToolsDone, ToolsQuit, StartTurn, EndRun, inbox
  <2>7. CASE FinalTurn
    BY <2>7 DEF FinalTurn, ContinueCut, FinalizeDone, FinalizeFallback, StartTurn,
       EndRun, inbox
  <2>8. CASE CloseRun \/ Abort \/ Crash
    BY <2>8 DEF CloseRun, Abort, Crash
  <2>9. CASE Cancel \/ UNCHANGED vars
    BY <2>9 DEF Cancel, AwaitPoints, vars, inbox
  <2>. QED  BY <2>1, <2>2, <2>3, <2>4, <2>5, <2>6, <2>7, <2>8, <2>9
            DEF Next, Engine, Host
<1>2. NothingStranded'
  <2>. USE DEF NothingStranded
  <2>1. CASE \E m \in Inputs : Push(m)
    BY <2>1 DEF Push
  <2>2. CASE \E m \in Inputs : StartRun(m)
    BY <2>2 DEF StartRun
  <2>3. CASE Absorb \/ CloseRun \/ Abort \/ Crash
    BY <2>3 DEF Absorb, CloseRun, Abort, Crash
  <2>4. CASE Look
    BY <2>4 DEF Look
  <2>5. CASE UNCHANGED inbox
    BY <2>5 DEF inbox
  <2>. QED  BY <2>1, <2>2, <2>3, <2>4, <2>5 DEF Next, Engine, Host, ModelTurn,
            NormalTurn, FinalTurn, Begin, StopAtBudget, Microcompact, Compact,
            ContextTooLong, Send, Overflow, Fail, AnswerTools, AnswerFinal, CutCall,
            Cut, Empty, ToolsDone, ToolsQuit, ContinueCut, FinalizeDone,
            FinalizeFallback, Cancel, vars
<1>3. TaskHeld'
  <2>. USE DEF TaskHeld
  <2>1. CASE \E m \in Inputs : Push(m) \/ StartRun(m)
    BY <2>1 DEF Push, StartRun
  <2>2. CASE Begin \/ StopAtBudget \/ Absorb
    BY <2>2 DEF Begin, StopAtBudget, Absorb, EndRun, StartTurn
  <2>3. CASE ModelTurn
    BY <2>3 DEF ModelTurn, Microcompact, Compact, ContextTooLong, Send, Overflow,
       Fail, EndRun
  <2>4. CASE NormalTurn
    BY <2>4 DEF NormalTurn, AnswerTools, AnswerFinal, CutCall, Cut, Empty, Outcome,
       StartTurn
  <2>5. CASE Look
    BY <2>5 DEF Look, EndRun
  <2>6. CASE ToolsDone \/ ToolsQuit
    BY <2>6 DEF ToolsDone, ToolsQuit, StartTurn, EndRun
  <2>7. CASE FinalTurn
    BY <2>7 DEF FinalTurn, ContinueCut, FinalizeDone, FinalizeFallback, StartTurn,
       EndRun
  <2>8. CASE CloseRun \/ Abort \/ Crash
    BY <2>8 DEF CloseRun, Abort, Crash
  <2>9. CASE Cancel \/ UNCHANGED vars
    BY <2>9 DEF Cancel, AwaitPoints, vars
  <2>. QED  BY <2>1, <2>2, <2>3, <2>4, <2>5, <2>6, <2>7, <2>8, <2>9
            DEF Next, Engine, Host
<1>. QED  BY <1>1, <1>2, <1>3

\* The gate is open exactly while there is a run to join, and whenever it is
\* shut nothing waits behind it, whatever pushes, cancellations and crashes
\* interleave with the run.
THEOREM InboxSafe == Spec => [](OpenForTheRun /\ NothingStranded /\ TaskHeld)
<1>1. Init => InboxInv
  BY DEF Init, InboxInv, OpenForTheRun, NothingStranded, TaskHeld, Running
<1>2. TypeOK /\ InboxInv /\ [Next]_vars => InboxInv'
  BY InboxStep
<1>. QED  BY <1>1, <1>2, TypeCorrect, PTL DEF Spec, InboxInv

\* The engine, with compaction, abort, crash and resume, does only what the
\* abstract inbox promises the host.
THEOREM ContractKept == Spec => KeepsContract
<1>. USE DEF Contract!vars
<1>1. Init => Contract!Init
  BY DEF Init, Contract!Init, Covered
<1>2. TypeOK /\ HeardIsSaved /\ InboxInv /\ [Next]_vars => [Contract!Next]_Contract!vars
  <2>. SUFFICES ASSUME TypeOK, HeardIsSaved, InboxInv, [Next]_vars
                PROVE  Contract!Next \/ UNCHANGED Contract!vars
    OBVIOUS
  <2>1. CASE Begin
    <3>1. PICK m \in Inputs : task = {m}
      BY <2>1 DEF Begin, InboxInv, TaskHeld
    <3>2. open
      BY <2>1 DEF Begin, InboxInv, OpenForTheRun, Running
    <3>. QED  BY <2>1, <3>1, <3>2, BeginHears
              DEF Begin, inbox, Contract!Next, Contract!Say
  <2>2. CASE Folding
    <3>1. queue' = <<>> /\ open' \in {open, FALSE}
      BY <2>2 DEF Folding, Absorb, CloseRun, Abort
    <3>2. Covered(messages') = Covered(messages) \cup Range(queue)
      BY <2>2, FoldHears
    <3>. QED  BY <3>1, <3>2 DEF Contract!Next, Contract!Take, Range, Contract!Range
  <2>3. CASE Arrival
    <3>1. Covered(messages') = Covered(messages)
      BY <2>3, ArrivalHears DEF convo
    <3>2. ASSUME NEW m \in Inputs, Push(m) PROVE Contract!Next
      BY <3>1, <3>2 DEF Push, Contract!Next, Contract!Offer
    <3>3. ASSUME NEW m \in Inputs, StartRun(m) PROVE Contract!Next
      BY <3>1, <3>3 DEF StartRun, Contract!Next, Contract!Open
    <3>. QED  BY <2>3, <3>2, <3>3 DEF Arrival
  <2>4. CASE Quiet
    <3>1. Covered(messages') = Covered(messages) /\ queue' = queue
      BY <2>4, QuietHears, QuietInbox
    <3>2. CASE open' = open
      BY <3>1, <3>2
    <3>3. CASE open' = FALSE /\ queue = <<>>
      <4>1. Range(queue) = {}
        BY <3>3 DEF Range
      <4>2. Covered(messages') = Covered(messages) \cup Range(queue)
        BY <3>1, <4>1
      <4>. QED  BY <3>1, <3>3, <4>2
                DEF Contract!Next, Contract!Take, Range, Contract!Range
    <3>. QED  BY <2>4, <3>2, <3>3, QuietInbox
  <2>5. CASE Crash
    <3>1. Covered(messages') = Covered(messages)
      BY <2>5 DEF Crash, HeardIsSaved
    <3>. QED  BY <2>5, <3>1 DEF Crash, Contract!Next, Contract!Crash
  <2>. QED  BY <2>1, <2>2, <2>3, <2>4, <2>5, StepKinds
<1>. QED  BY <1>1, <1>2, TypeCorrect, AlwaysSaved, InboxSafe, PTL
          DEF Spec, KeepsContract, Contract!Spec, InboxInv
-------------------------------------------------------------------------------
(* What a normal final answer has answered.  The inductive invariant says  *)
(* where every message the user got in is, and what the pending request    *)
(* carries; a message arriving while the answer is written is still in the *)
(* queue when the engine looks.                                            *)

Accounted == Range(said) = Covered(messages) \cup Range(queue) \cup task \cup lost

AskInv ==
    /\ pc = "wait" => asked = Covered(messages)
    /\ pc = "look" => Range(said) \subseteq asked \cup Range(queue) \cup lost
    /\ result = "end_turn" => pc \in {"closing", "idle"}
    /\ (pc \in {"closing", "idle"} /\ result = "end_turn" /\ kind = "Normal") =>
          ~open /\ Range(said) \subseteq asked \cup lost

AnswerInv == Accounted /\ AskInv

LEMMA RangeAppend ==
    ASSUME NEW S, NEW q \in Seq(S), NEW e \in S
    PROVE  Range(Append(q, e)) = Range(q) \cup {e}
<1>1. /\ DOMAIN Append(q, e) = DOMAIN q \cup {Len(q) + 1}
      /\ \A i \in DOMAIN q : Append(q, e)[i] = q[i]
      /\ Append(q, e)[Len(q) + 1] = e
  OBVIOUS
<1>. QED  BY <1>1 DEF Range

LEMMA AccountedStep ==
    ASSUME TypeOK, HeardIsSaved, TaskHeld, Accounted, [Next]_vars
    PROVE  Accounted'
<1>. USE DEF Accounted
<1>1. Range(<<>>) = {}
  BY DEF Range
<1>2. CASE Begin
  BY <1>2, BeginHears DEF Begin, inbox, ghosts
<1>3. CASE Folding
  <2>1. UNCHANGED <<said, task, lost>> /\ queue' = <<>>
    BY <1>3 DEF Folding, Absorb, CloseRun, Abort, ghosts
  <2>. QED  BY <1>1, <1>3, <2>1, FoldHears
<1>4. ASSUME NEW m \in Inputs, Push(m) PROVE Accounted'
  <2>1. Range(queue') = Range(queue) \cup {m} /\ Range(said') = Range(said) \cup {m}
    BY <1>4, RangeAppend DEF Push, TypeOK
  <2>. QED  BY <1>4, <2>1 DEF Push, convo
<1>5. ASSUME NEW m \in Inputs, StartRun(m) PROVE Accounted'
  <2>1. Range(said') = Range(said) \cup {m} /\ task = {} /\ task' = {m}
    BY <1>5, RangeAppend DEF StartRun, TypeOK, TaskHeld
  <2>. QED  BY <1>5, <2>1 DEF StartRun, convo
<1>6. CASE Quiet
  BY <1>6, QuietHears, QuietInbox
<1>7. CASE Crash
  BY <1>1, <1>7 DEF Crash, HeardIsSaved
<1>. QED  BY <1>2, <1>3, <1>4, <1>5, <1>6, <1>7, StepKinds DEF Arrival

LEMMA AskStep ==
    ASSUME TypeOK, InboxInv, AnswerInv, [Next]_vars
    PROVE  AskInv'
<1>. USE DEF AskInv, AnswerInv
<1>1. ASSUME NEW m \in Inputs, Push(m) PROVE AskInv'
  <2>1. Range(queue') = Range(queue) \cup {m} /\ Range(said') = Range(said) \cup {m}
    BY <1>1, RangeAppend DEF Push, TypeOK
  <2>. QED  BY <1>1, <2>1 DEF Push, convo, turn
<1>2. ASSUME NEW m \in Inputs, StartRun(m) PROVE AskInv'
  BY <1>2 DEF StartRun
<1>3. CASE Begin \/ StopAtBudget \/ Absorb
  BY <1>3 DEF Begin, StopAtBudget, Absorb, EndRun, StartTurn
<1>4. CASE ModelTurn
  BY <1>4 DEF ModelTurn, Microcompact, Compact, ContextTooLong, Send, Overflow, Fail,
     EndRun, convo
<1>5. CASE AnswerFinal
  <2>1. Range(said) \subseteq asked \cup Range(queue) \cup lost
    BY <1>5 DEF AnswerFinal, Outcome, Accounted, InboxInv, TaskHeld
  <2>. QED  BY <1>5, <2>1 DEF AnswerFinal, Outcome, inbox, ghosts
<1>6. CASE AnswerTools \/ CutCall \/ Cut \/ Empty
  BY <1>6 DEF AnswerTools, CutCall, Cut, Empty, Outcome, StartTurn
<1>7. CASE Look
  <2>1. queue = <<>> => Range(queue) = {}
    BY DEF Range
  <2>. QED  BY <1>7, <2>1 DEF Look, EndRun, ghosts
<1>8. CASE ToolsDone \/ ToolsQuit
  BY <1>8 DEF ToolsDone, ToolsQuit, StartTurn, EndRun
<1>9. CASE FinalTurn
  BY <1>9 DEF FinalTurn, ContinueCut, FinalizeDone, FinalizeFallback, StartTurn,
     EndRun, turn, Reasons
<1>10. CASE CloseRun
  BY <1>10 DEF CloseRun, turn, ghosts
<1>11. CASE Abort \/ Cancel \/ Crash
  BY <1>11 DEF Abort, Cancel, Crash, AwaitPoints
<1>12. CASE UNCHANGED vars
  BY <1>12 DEF vars, inbox, convo, turn, ghosts
<1>. QED  BY <1>1, <1>2, <1>3, <1>4, <1>5, <1>6, <1>7, <1>8, <1>9, <1>10, <1>11,
          <1>12 DEF Next, Engine, Host, NormalTurn

\* No message is unaccounted for, and a run that reports the final answer of
\* a normal turn has put every message the user got in before the model.
THEOREM FinalAnswers == Spec => [](Accounted /\ FinalAnswersAll)
<1>1. Init => AnswerInv
  BY DEF Init, AnswerInv, Accounted, AskInv, Covered, Range
<1>2. TypeOK /\ HeardIsSaved /\ InboxInv /\ AnswerInv /\ [Next]_vars => AnswerInv'
  BY AccountedStep, AskStep DEF AnswerInv, InboxInv
<1>3. AnswerInv => Accounted /\ FinalAnswersAll
  BY DEF AnswerInv, AskInv, FinalAnswersAll
<1>. QED  BY <1>1, <1>2, <1>3, TypeCorrect, AlwaysSaved, InboxSafe, PTL
          DEF Spec, InboxInv
-------------------------------------------------------------------------------
(* How many requests a run can cost.  Completed is what the turns already  *)
(* over may have sent; the turn under way has sent none before its first   *)
(* request and two after a retry.                                          *)

Completed == IF kind = "MaxTokens" THEN 2 * (turns + attempt - 1) ELSE 2 * turns

Calm == pc \in {"begin", "top", "tools", "look"}

CountInv ==
    /\ kind = "MaxTokens" => attempt \in 1..MaxContinuations
    /\ Calm => kind = "Normal" /\ calls <= Completed
    /\ pc = "ask" => ~overflowed /\ calls <= Completed
    /\ pc = "recover" => overflowed /\ calls <= Completed + 1
    /\ pc = "send" => calls <= Completed + 1 /\ (~overflowed => calls <= Completed)
    /\ pc = "wait" => calls <= Completed + 2 /\ (~overflowed => calls <= Completed + 1)

LEMMA CompletedBound ==
    ASSUME TypeInv, CountInv
    PROVE  /\ Completed \in Nat
           /\ pc \in {"ask", "recover", "send", "wait"}
                => Completed + 2 <= 2 * (MaxTurns + MaxContinuations)
           /\ Calm => Completed <= 2 * (MaxTurns + MaxContinuations)
  BY ConstantsAssumption DEF Completed, CountInv, TypeInv, TypeOK, TurnLeft, Calm

LEMMA CountStep ==
    ASSUME TypeInv, CountInv, RequestBudget, [Next]_vars
    PROVE  CountInv' /\ RequestBudget'
<1>. USE ConstantsAssumption
<1>a. /\ turns \in Nat /\ attempt \in Nat /\ calls \in Nat
      /\ turns <= MaxTurns /\ attempt <= MaxContinuations
  BY DEF TypeInv, TypeOK
<1>b. /\ Completed \in Nat
      /\ pc \in {"ask", "recover", "send", "wait"}
           => Completed + 2 <= 2 * (MaxTurns + MaxContinuations)
  BY CompletedBound
<1>1. CASE UNCHANGED <<calls, kind, turns, attempt, overflowed>>
           /\ (pc' = pc \/ pc' \in {"idle", "closing", "cancelled"})
  BY <1>1 DEF CountInv, Completed, Calm, RequestBudget
<1>2. ASSUME NEW m \in Inputs, StartRun(m) PROVE CountInv' /\ RequestBudget'
  BY <1>2 DEF StartRun, CountInv, Completed, Calm, RequestBudget
<1>3. CASE Begin
  BY <1>3 DEF Begin, turn, guards, CountInv, Completed, Calm, RequestBudget
<1>4. CASE Absorb
  BY <1>4, <1>a DEF Absorb, StartTurn, guards, CountInv, Completed, Calm, RequestBudget
<1>5. CASE Compact
  BY <1>5, <1>a, <1>b DEF Compact, turn, guards, CountInv, Completed, Calm,
     RequestBudget
<1>6. CASE Send
  <2>1. calls' <= 2 * (MaxTurns + MaxContinuations)
    BY <1>6, <1>a, <1>b DEF Send, CountInv
  <2>2. Completed' = Completed
    BY <1>6 DEF Send, guards, Completed
  <2>. QED  BY <1>6, <1>a, <1>b, <2>1, <2>2 DEF Send, guards, CountInv, Calm,
            RequestBudget
<1>7. CASE Overflow
  BY <1>7, <1>a, <1>b DEF Overflow, guards, CountInv, Completed, Calm, RequestBudget
<1>8. CASE AnswerTools \/ AnswerFinal \/ CutCall
  BY <1>8, <1>a, <1>b DEF AnswerTools, AnswerFinal, CutCall, Outcome, turn, CountInv,
     Completed, Calm, RequestBudget
<1>9. CASE Cut
  BY <1>9, <1>a, <1>b DEF Cut, Outcome, StartTurn, CountInv, Completed, Calm,
     RequestBudget
<1>10. CASE Empty
  BY <1>10, <1>a, <1>b DEF Empty, Outcome, StartTurn, CountInv, Completed, Calm,
     RequestBudget
<1>11. CASE Look
  BY <1>11 DEF Look, EndRun, turn, guards, CountInv, Completed, Calm, RequestBudget
<1>12. CASE ToolsDone
  BY <1>12, <1>a DEF ToolsDone, StartTurn, EndRun, guards, CountInv, Completed, Calm,
     RequestBudget
<1>13. CASE ContinueCut
  BY <1>13, <1>a, <1>b DEF ContinueCut, StartTurn, EndRun, guards, CountInv, Completed,
     Calm, RequestBudget
<1>14. CASE \/ StopAtBudget \/ Microcompact \/ ContextTooLong \/ Fail \/ ToolsQuit
            \/ FinalizeDone \/ FinalizeFallback \/ CloseRun \/ Abort \/ Cancel
            \/ Crash \/ UNCHANGED vars \/ \E m \in Inputs : Push(m)
  BY <1>1, <1>14 DEF StopAtBudget, Microcompact, ContextTooLong, Fail, ToolsQuit,
     FinalizeDone, FinalizeFallback, CloseRun, Abort, Cancel, Crash, Push, EndRun,
     turn, guards, vars
<1>. QED  BY <1>2, <1>3, <1>4, <1>5, <1>6, <1>7, <1>8, <1>9, <1>10, <1>11, <1>12,
          <1>13, <1>14 DEF Next, Engine, Host, ModelTurn, NormalTurn, FinalTurn

\* Whatever the provider, the tools and the user do, a run sends at most two
\* requests for each turn it may count and each continuation it may attempt.
THEOREM RequestsBounded == Spec => []RequestBudget
<1>1. Init => CountInv /\ RequestBudget
  BY ConstantsAssumption DEF Init, CountInv, Completed, Calm, RequestBudget
<1>2. TypeInv /\ CountInv /\ RequestBudget /\ [Next]_vars => CountInv' /\ RequestBudget'
  BY CountStep
<1>. QED  BY <1>1, <1>2, TypeCorrect, PTL DEF Spec, TypeInv

\* A run stays within its bounds: of turns, of continuations, and of requests
\* (engine.rs 600-640, 1049-1060).
THEOREM Bounded == Spec => []RunBounded
<1>1. TypeOK /\ RequestBudget => RunBounded
  BY DEF RunBounded
<1>. QED  BY <1>1, TypeCorrect, RequestsBounded, PTL

\* No message the user got in is behind a shut gate, and what the conversation
\* holds of them is in the session file (pending_input.rs 69-92, engine.rs 573).
THEOREM Kept == Spec => []NothingLost
<1>1. NothingStranded /\ HeardIsSaved => NothingLost
  BY DEF NothingLost
<1>. QED  BY <1>1, InboxSafe, AlwaysSaved, PTL
-------------------------------------------------------------------------------
(***************************************************************************)
(* The order of the conversation, and the pairs in a request.              *)
(*                                                                         *)
(* A history is seen here as an order on the messages it carries: Before.  *)
(* Folds, summaries, synthetic results and resumes are shown to keep that  *)
(* order; the invariant OnceInv ties it to the order in which messages     *)
(* were let in, through the run about to start and the inbox.              *)
(***************************************************************************)

(* The order a history gives the messages it carries.                      *)

Before(h, x, y) == \E i, j \in DOMAIN h :
                      i <= j /\ x \in h[i].inputs /\ y \in h[j].inputs

Once(h) == \A i, j \in DOMAIN h : h[i].inputs \cap h[j].inputs # {} => i = j

\* In h, what s says earlier comes earlier, but for what l has lost.
InOrder(h, s, l) ==
    \A a, b \in DOMAIN s :
       (a < b /\ s[b] \in Covered(h)) => s[a] \in l \/ Before(h, s[a], s[b])

Sound(h, s, l) == Once(h) /\ InOrder(h, s, l)

\* A run's own message follows all that was heard; a waiting message follows
\* it and the messages that wait in front.
Line == /\ \A a, b \in DOMAIN said :
              a < b /\ said[b] \in task => said[a] \in Covered(messages) \cup lost
        /\ \A a, b \in DOMAIN said, j \in DOMAIN queue :
              a < b /\ said[b] = queue[j] =>
                 said[a] \in Covered(messages) \cup lost \cup task
                               \cup {queue[i] : i \in 1..(j - 1)}

Apart == /\ Covered(messages) \cap (Range(queue) \cup task \cup lost) = {}
         /\ Range(queue) \cap (task \cup lost) = {}
         /\ task \cap lost = {}
         /\ \A i, j \in DOMAIN queue : queue[i] = queue[j] => i = j

OnceInv == Apart /\ Line /\ Sound(messages, said, lost) /\ Sound(saved, said, lost)
-------------------------------------------------------------------------------
(* What each way of writing a history does to its order.                   *)

LEMMA BeforeCovered ==
    ASSUME NEW h, NEW x, NEW y, Before(h, x, y)
    PROVE  x \in Covered(h) /\ y \in Covered(h)
  BY DEF Before, Covered

\* A history is extended at its end: what it held keeps its order, and comes
\* before what is added.
LEMMA BeforeConcat ==
    ASSUME NEW h \in Seq(Entry), NEW t \in Seq(Entry)
    PROVE  /\ \A x, y : Before(h, x, y) => Before(h \o t, x, y)
           /\ \A x, y : Before(t, x, y) => Before(h \o t, x, y)
           /\ \A x \in Covered(h), y \in Covered(t) : Before(h \o t, x, y)
<1>1. \A i \in DOMAIN h : i \in DOMAIN (h \o t) /\ (h \o t)[i] = h[i]
  OBVIOUS
<1>2. \A i \in DOMAIN t : /\ Len(h) + i \in DOMAIN (h \o t)
                          /\ (h \o t)[Len(h) + i] = t[i]
  OBVIOUS
<1>3. \A i, j \in DOMAIN t : i <= j => Len(h) + i <= Len(h) + j
  OBVIOUS
<1>4. \A i \in DOMAIN h, j \in DOMAIN t : i <= Len(h) + j
  OBVIOUS
<1>5. \A x, y : Before(h, x, y) => Before(h \o t, x, y)
  BY <1>1 DEF Before
<1>6. \A x, y : Before(t, x, y) => Before(h \o t, x, y)
  BY <1>2, <1>3 DEF Before
<1>7. \A x \in Covered(h), y \in Covered(t) : Before(h \o t, x, y)
  BY <1>1, <1>2, <1>4 DEF Before, Covered
<1>. QED  BY <1>5, <1>6, <1>7

LEMMA OnceConcat ==
    ASSUME NEW h \in Seq(Entry), NEW t \in Seq(Entry), Once(h), Once(t),
           Covered(h) \cap Covered(t) = {}
    PROVE  Once(h \o t)
<1>1. \A i \in DOMAIN h : (h \o t)[i] = h[i] /\ h[i].inputs \subseteq Covered(h)
  BY DEF Covered
<1>2. \A i \in DOMAIN t : t[i].inputs \subseteq Covered(t)
  BY DEF Covered
<1>3. \A i \in DOMAIN (h \o t) :
         i \in DOMAIN h \/ \E k \in DOMAIN t : i = Len(h) + k /\ (h \o t)[i] = t[k]
  <2>1. SUFFICES ASSUME NEW i \in 1..(Len(h) + Len(t)), ~(i \in DOMAIN h)
                 PROVE  \E k \in DOMAIN t : i = Len(h) + k /\ (h \o t)[i] = t[k]
    <3>1. DOMAIN (h \o t) = 1..(Len(h) + Len(t))
      OBVIOUS
    <3>. QED  BY <2>1, <3>1, Zenon
  <2>2. i - Len(h) \in DOMAIN t /\ i = Len(h) + (i - Len(h))
    BY <2>1
  <2>3. (h \o t)[i] = t[i - Len(h)]
    BY <2>1
  <2>. QED  BY <2>2, <2>3
<1>4. SUFFICES ASSUME NEW i \in DOMAIN (h \o t), NEW j \in DOMAIN (h \o t),
                      NEW x, x \in (h \o t)[i].inputs, x \in (h \o t)[j].inputs
               PROVE  i = j
  BY DEF Once
<1>5. CASE i \in DOMAIN h /\ j \in DOMAIN h
  BY <1>1, <1>4, <1>5 DEF Once
<1>6. CASE i \in DOMAIN h /\ ~(j \in DOMAIN h)
  BY <1>1, <1>2, <1>3, <1>4, <1>6
<1>7. CASE ~(i \in DOMAIN h) /\ j \in DOMAIN h
  BY <1>1, <1>2, <1>3, <1>4, <1>7
<1>8. CASE ~(i \in DOMAIN h) /\ ~(j \in DOMAIN h)
  <2>1. PICK k \in DOMAIN t : i = Len(h) + k /\ (h \o t)[i] = t[k]
    BY <1>3, <1>8
  <2>2. PICK n \in DOMAIN t : j = Len(h) + n /\ (h \o t)[j] = t[n]
    BY <1>3, <1>8
  <2>3. k = n
    BY <1>4, <2>1, <2>2 DEF Once
  <2>. QED  BY <2>1, <2>2, <2>3
<1>. QED  BY <1>5, <1>6, <1>7, <1>8

\* Entries that carry no user message change nothing.
LEMMA SoundSilent ==
    ASSUME NEW h \in Seq(Entry), NEW t \in Seq(Entry), Covered(t) = {},
           NEW s, NEW l, Sound(h, s, l)
    PROVE  Sound(h \o t, s, l)
<1>1. Once(t)
  BY DEF Once, Covered
<1>2. Once(h \o t)
  BY <1>1, OnceConcat DEF Sound
<1>3. Covered(h \o t) = Covered(h)
  BY SilentConcat
<1>4. \A x, y : Before(h, x, y) => Before(h \o t, x, y)
  BY BeforeConcat
<1>. QED  BY <1>2, <1>3, <1>4 DEF Sound, InOrder

\* A summary stands for all it replaced, in one place.
LEMMA SoundSummary ==
    ASSUME NEW h \in Seq(Entry), NEW s, NEW l, Sound(h, s, l)
    PROVE  Sound(Summary(h), s, l)
<1>1. DOMAIN Summary(h) = {1} /\ Summary(h)[1].inputs = Covered(h)
  BY DEF Summary
<1>2. Covered(Summary(h)) = Covered(h)
  BY SummaryEntries
<1>3. Once(Summary(h))
  BY <1>1 DEF Once
<1>4. \A x, y : Before(h, x, y) => Before(Summary(h), x, y)
  <2>1. SUFFICES ASSUME NEW x, NEW y, Before(h, x, y) PROVE Before(Summary(h), x, y)
    OBVIOUS
  <2>2. x \in Covered(h) /\ y \in Covered(h)
    BY <2>1, BeforeCovered
  <2>3. 1 <= 1
    OBVIOUS
  <2>. QED  BY <1>1, <2>2, <2>3 DEF Before
<1>. QED  BY <1>2, <1>3, <1>4 DEF Sound, InOrder

\* New messages are added at the end: they must be new to the history, once
\* and in order among themselves, and nothing said before them left out.
LEMMA SoundAdd ==
    ASSUME NEW h \in Seq(Entry), NEW t \in Seq(Entry), NEW s, NEW l,
           Sound(h, s, l), Once(t), Covered(h) \cap Covered(t) = {},
           \A a, b \in DOMAIN s :
              a < b /\ s[b] \in Covered(t) =>
                 s[a] \in l \/ s[a] \in Covered(h) \/ Before(t, s[a], s[b])
    PROVE  Sound(h \o t, s, l)
<1>1. Once(h \o t)
  BY OnceConcat DEF Sound
<1>2. Covered(h \o t) = Covered(h) \cup Covered(t)
  BY CoveredConcat
<1>3. /\ \A x, y : Before(h, x, y) => Before(h \o t, x, y)
      /\ \A x, y : Before(t, x, y) => Before(h \o t, x, y)
      /\ \A x \in Covered(h), y \in Covered(t) : Before(h \o t, x, y)
  BY BeforeConcat
<1>4. SUFFICES ASSUME NEW a \in DOMAIN s, NEW b \in DOMAIN s, a < b,
                      s[b] \in Covered(h \o t), ~(s[a] \in l)
               PROVE  Before(h \o t, s[a], s[b])
  BY <1>1 DEF Sound, InOrder
<1>5. CASE s[b] \in Covered(h)
  BY <1>3, <1>4, <1>5 DEF Sound, InOrder
<1>6. CASE s[b] \in Covered(t)
  BY <1>3, <1>4, <1>6
<1>. QED  BY <1>2, <1>4, <1>5, <1>6

\* The inbox becomes entries in the order it waited in.
LEMMA FramedOrder ==
    ASSUME NEW q \in Seq(Inputs), \A i, j \in DOMAIN q : q[i] = q[j] => i = j
    PROVE  /\ Once(Framed(q))
           /\ \A i, j \in DOMAIN q : i <= j => Before(Framed(q), q[i], q[j])
<1>1. /\ DOMAIN Framed(q) = DOMAIN q
      /\ \A i \in DOMAIN q : Framed(q)[i].inputs = {q[i]}
  BY DEF Framed, User
<1>2. Once(Framed(q))
  BY <1>1 DEF Once
<1>3. \A i, j \in DOMAIN q : i <= j => Before(Framed(q), q[i], q[j])
  BY <1>1 DEF Before
<1>. QED  BY <1>2, <1>3
\* A message let in now is in no history yet.
LEMMA SoundSaid ==
    ASSUME NEW h \in Seq(Entry), NEW s \in Seq(Inputs), NEW l, Sound(h, s, l),
           NEW m \in Inputs, ~(m \in Covered(h))
    PROVE  Sound(h, Append(s, m), l)
<1>1. DOMAIN Append(s, m) = DOMAIN s \cup {Len(s) + 1}
  OBVIOUS
<1>2. (\A a \in DOMAIN s : Append(s, m)[a] = s[a]) /\ Append(s, m)[Len(s) + 1] = m
  OBVIOUS
<1>3. \A a \in DOMAIN Append(s, m), b \in DOMAIN s : a < b => a \in DOMAIN s
  OBVIOUS
<1>. QED  BY <1>1, <1>2, <1>3 DEF Sound, InOrder

\* A loss excuses more, never less.
LEMMA SoundLost ==
    ASSUME NEW h, NEW s, NEW l, NEW k, Sound(h, s, l), l \subseteq k
    PROVE  Sound(h, s, k)
  BY DEF Sound, InOrder

\* A quiet step rewrites the history in memory and in the file without
\* touching the order.
LEMMA QuietSound ==
    ASSUME TypeOK, Quiet, NEW s, NEW l, Sound(messages, s, l), Sound(saved, s, l)
    PROVE  Sound(messages', s, l) /\ Sound(saved', s, l)
<1>a. messages \in Seq(Entry) /\ saved \in Seq(Entry)
  BY DEF TypeOK
<1>b. \A h \in Seq(Entry) : \A k \in {"prompt", "text", "calls", "results"} :
         Sound(h, s, l) => Sound(h \o <<Control(k)>>, s, l)
  BY ControlEntries, SoundSilent
<1>c. \A k \in {"prompt", "text", "calls", "results"} :
         Append(messages, Control(k)) = messages \o <<Control(k)>>
  BY <1>a, ControlEntries, AppendIsConcat
<1>d. \A c \in CutContent : messages \o c \in Seq(Entry) /\ Sound(messages \o c, s, l)
  BY <1>a, CutEntries, SoundSilent
<1>1. CASE UNCHANGED convo
  BY <1>1 DEF convo
<1>2. CASE Record(messages)
  BY <1>2 DEF Record
<1>3. CASE Record(Summary(messages))
  BY <1>3, <1>a, SoundSummary DEF Record
<1>4. CASE \E k \in {"prompt", "text", "calls"} : Record(Append(messages, Control(k)))
  BY <1>4, <1>a, <1>b, <1>c DEF Record
<1>5. CASE CutCall \/ Cut
  BY <1>5, <1>b, <1>d DEF CutCall, Cut, Remember
<1>6. CASE ToolsDone
  <2>1. PICK f \in {<<>>, <<Control("prompt")>>} :
              Record(messages \o <<Control("results")>> \o f)
    BY <1>6 DEF ToolsDone
  <2>2. /\ messages \o <<Control("results")>> \in Seq(Entry)
        /\ Sound(messages \o <<Control("results")>>, s, l)
    BY <1>a, <1>b, ControlEntries
  <2>3. f \in Seq(Entry) /\ Covered(f) = {}
    <3>1. CASE f = <<>>
      BY <3>1 DEF Covered
    <3>2. CASE f = <<Control("prompt")>>
      BY <3>2, ControlEntries
    <3>. QED  BY <2>1, <3>1, <3>2
  <2>. QED  BY <2>1, <2>2, <2>3, SoundSilent DEF Record
<1>7. CASE ContinueCut
  BY <1>7, <1>b, <1>d DEF ContinueCut, Record, Remember
<1>8. CASE StopAtBudget \/ Look \/ ToolsQuit \/ Cancel \/ UNCHANGED vars
  BY <1>8, <1>1, <1>2 DEF StopAtBudget, Look, ToolsQuit, Cancel, vars
<1>9. CASE ModelTurn
  BY <1>9, <1>1, <1>2, <1>3 DEF ModelTurn, Microcompact, Compact, ContextTooLong,
     Send, Overflow, Fail
<1>10. CASE NormalTurn
  BY <1>10, <1>1, <1>4, <1>5 DEF NormalTurn, AnswerTools, AnswerFinal, Empty
<1>11. CASE FinalTurn
  BY <1>11, <1>4, <1>7 DEF FinalTurn, FinalizeDone, FinalizeFallback
<1>. QED  BY <1>6, <1>8, <1>9, <1>10, <1>11 DEF Quiet

-------------------------------------------------------------------------------
(* Each kind of step.                                                      *)

LEMMA BeginOnce ==
    ASSUME TypeOK, HeardIsSaved, OnceInv, Begin
    PROVE  OnceInv'
<1>1. User(task) \in Entry /\ User(task).inputs = task
  BY DEF User, Entry, TypeOK
<1>2. DOMAIN <<User(task)>> = {1} /\ <<User(task)>>[1] = User(task)
  OBVIOUS
<1>3. /\ <<User(task)>> \in Seq(Entry)
      /\ Covered(<<User(task)>>) = task
      /\ Once(<<User(task)>>)
  BY <1>1, <1>2 DEF Covered, Once
<1>4. Append(messages, User(task)) = messages \o <<User(task)>>
  BY <1>1, AppendIsConcat DEF TypeOK
<1>5. Sound(messages \o <<User(task)>>, said, lost)
  <2>1. Covered(messages) \cap Covered(<<User(task)>>) = {}
    BY <1>3 DEF OnceInv, Apart
  <2>2. \A a, b \in DOMAIN said :
           a < b /\ said[b] \in Covered(<<User(task)>>) =>
              \/ said[a] \in lost \/ said[a] \in Covered(messages)
              \/ Before(<<User(task)>>, said[a], said[b])
    BY <1>3 DEF OnceInv, Line
  <2>. QED  BY <1>3, <2>1, <2>2, SoundAdd DEF OnceInv, TypeOK
<1>6. /\ messages' = messages \o <<User(task)>> /\ saved' = messages'
      /\ task' = {} /\ UNCHANGED <<queue, said, lost>>
  BY <1>4 DEF Begin, Record, inbox, ghosts
<1>7. Covered(messages') = Covered(messages) \cup task
  BY BeginHears
<1>8. Apart'
  BY <1>6, <1>7 DEF OnceInv, Apart
<1>9. Line'
  BY <1>6, <1>7 DEF OnceInv, Line
<1>. QED  BY <1>5, <1>6, <1>8, <1>9 DEF OnceInv

\* What waits is added in its order: all that was said before is heard, lost,
\* or waits in front.
LEMMA FoldedSound ==
    ASSUME TypeOK, TaskHeld, OnceInv, pc # "begin",
           NEW h \in Seq(Entry), Covered(h) = Covered(messages), Sound(h, said, lost)
    PROVE  Sound(h \o Framed(queue), said, lost)
<1>1. Framed(queue) \in Seq(Entry) /\ Covered(Framed(queue)) = Range(queue)
  BY FramedEntries DEF TypeOK
<1>2. /\ Once(Framed(queue))
      /\ \A i, j \in DOMAIN queue : i <= j => Before(Framed(queue), queue[i], queue[j])
  BY FramedOrder DEF OnceInv, Apart, TypeOK
<1>3. Covered(h) \cap Covered(Framed(queue)) = {}
  BY <1>1 DEF OnceInv, Apart
<1>4. ASSUME NEW a \in DOMAIN said, NEW b \in DOMAIN said, a < b,
             said[b] \in Covered(Framed(queue))
      PROVE  \/ said[a] \in lost \/ said[a] \in Covered(h)
             \/ Before(Framed(queue), said[a], said[b])
  <2>1. PICK j \in DOMAIN queue : said[b] = queue[j]
    BY <1>1, <1>4 DEF Range
  <2>2. said[a] \in Covered(messages) \cup lost \cup {queue[i] : i \in 1..(j - 1)}
    BY <1>4, <2>1 DEF OnceInv, Line, TaskHeld
  <2>3. \A i \in 1..(j - 1) : i \in DOMAIN queue /\ i <= j
    BY DEF TypeOK
  <2>. QED  BY <1>2, <2>1, <2>2, <2>3
<1>. QED  BY <1>1, <1>2, <1>3, <1>4, SoundAdd

LEMMA FoldOnce ==
    ASSUME TypeOK, TaskHeld, HeardIsSaved, OnceInv, Folding
    PROVE  OnceInv'
<1>1. /\ UNCHANGED <<said, task, lost>> /\ queue' = <<>> /\ pc # "begin"
  BY DEF Folding, Absorb, CloseRun, Abort, ghosts
<1>2. /\ Append(messages, Control("results")) \in Seq(Entry)
      /\ Covered(Append(messages, Control("results"))) = Covered(messages)
      /\ Sound(Append(messages, Control("results")), said, lost)
  <2>1. Append(messages, Control("results")) = messages \o <<Control("results")>>
    BY ControlEntries, AppendIsConcat DEF TypeOK
  <2>2. <<Control("results")>> \in Seq(Entry) /\ Covered(<<Control("results")>>) = {}
    BY ControlEntries
  <2>3. Sound(messages \o <<Control("results")>>, said, lost)
    BY <2>2, SoundSilent DEF TypeOK, OnceInv
  <2>. QED  BY <2>1, <2>3, SilentAppend DEF TypeOK
<1>3. Sound(messages \o Framed(queue), said, lost)
  BY <1>1, FoldedSound DEF OnceInv, TypeOK
<1>4. Sound(Append(messages, Control("results")) \o Framed(queue), said, lost)
  BY <1>1, <1>2, FoldedSound
<1>5. Sound(messages', said, lost) /\ Sound(saved', said, lost)
  <2>1. CASE Fold(messages, queue)
    BY <2>1, <1>3 DEF Fold, OnceInv
  <2>2. CASE Record(Append(messages, Control("results")) \o Framed(queue))
    BY <2>2, <1>4 DEF Record
  <2>. QED  BY <2>1, <2>2 DEF Folding, Absorb, CloseRun, Abort
<1>6. Covered(messages') = Covered(messages) \cup Range(queue)
  BY FoldHears
<1>7. Apart'
  BY <1>1, <1>6 DEF OnceInv, Apart, Range
<1>8. Line'
  BY <1>1, <1>6 DEF OnceInv, Line, TaskHeld
<1>. QED  BY <1>1, <1>5, <1>7, <1>8 DEF OnceInv

LEMMA PushOnce ==
    ASSUME TypeOK, HeardIsSaved, Accounted, OnceInv, NEW m \in Inputs, Push(m)
    PROVE  OnceInv'
<1>. USE DEF TypeOK
<1>1. /\ ~(m \in Covered(messages) \cup Range(queue) \cup task \cup lost)
      /\ ~(m \in Range(said))
      /\ queue' = Append(queue, m) /\ said' = Append(said, m)
      /\ UNCHANGED <<messages, saved, task, lost>>
  BY DEF Push, convo, Accounted
<1>2. Sound(messages', said', lost') /\ Sound(saved', said', lost')
  BY <1>1, SoundSaid DEF OnceInv, HeardIsSaved
<1>3. /\ DOMAIN queue' = DOMAIN queue \cup {Len(queue) + 1}
      /\ \A i \in DOMAIN queue : queue'[i] = queue[i] /\ queue[i] # m
      /\ queue'[Len(queue) + 1] = m
  <2>1. \A i \in DOMAIN queue : queue[i] \in Range(queue)
    BY DEF Range
  <2>. QED  BY <1>1, <2>1
<1>4. /\ DOMAIN said' = DOMAIN said \cup {Len(said) + 1}
      /\ \A a \in DOMAIN said : said'[a] = said[a] /\ said[a] # m
      /\ said'[Len(said) + 1] = m
  <2>1. \A a \in DOMAIN said : said[a] \in Range(said)
    BY DEF Range
  <2>. QED  BY <1>1, <2>1
<1>5. Apart'
  <2>1. Range(queue') = Range(queue) \cup {m}
    BY <1>1, RangeAppend
  <2>2. \A i, j \in DOMAIN queue' : queue'[i] = queue'[j] => i = j
    BY <1>3 DEF OnceInv, Apart
  <2>. QED  BY <1>1, <2>1, <2>2 DEF OnceInv, Apart
<1>6. Line'
  <2>1. \A a \in DOMAIN said', b \in DOMAIN said : a < b => a \in DOMAIN said
    BY <1>4
  <2>2. ASSUME NEW a \in DOMAIN said', NEW b \in DOMAIN said', a < b, said'[b] \in task'
        PROVE  said'[a] \in Covered(messages') \cup lost'
    <3>1. b \in DOMAIN said
      BY <1>1, <1>4, <2>2
    <3>. QED  BY <1>1, <1>4, <2>1, <2>2, <3>1 DEF OnceInv, Line
  <2>3. ASSUME NEW a \in DOMAIN said', NEW b \in DOMAIN said', NEW j \in DOMAIN queue',
               a < b, said'[b] = queue'[j]
        PROVE  said'[a] \in Covered(messages') \cup lost' \cup task'
                              \cup {queue'[i] : i \in 1..(j - 1)}
    <3>1. CASE j \in DOMAIN queue
      <4>1. b \in DOMAIN said
        BY <1>3, <1>4, <2>3, <3>1
      <4>2. said[a] \in Covered(messages) \cup lost \cup task
                           \cup {queue[i] : i \in 1..(j - 1)}
        BY <1>3, <1>4, <2>1, <2>3, <3>1, <4>1 DEF OnceInv, Line
      <4>3. \A i \in 1..(j - 1) : queue'[i] = queue[i]
        BY <1>3, <3>1
      <4>4. {queue'[i] : i \in 1..(j - 1)} = {queue[i] : i \in 1..(j - 1)}
        BY <4>3
      <4>5. said'[a] = said[a]
        BY <1>4, <2>1, <2>3, <4>1
      <4>. QED  BY <1>1, <4>2, <4>4, <4>5
    <3>2. CASE j = Len(queue) + 1
      <4>1. b = Len(said) + 1 /\ a \in DOMAIN said
        BY <1>3, <1>4, <2>3, <3>2
      <4>2. said'[a] \in Range(said)
        BY <1>4, <4>1 DEF Range
      <4>3. Range(queue) \subseteq {queue'[i] : i \in 1..(j - 1)}
        <5>1. 1..(j - 1) = DOMAIN queue
          BY <3>2
        <5>. QED  BY <1>3, <5>1 DEF Range
      <4>. QED  BY <1>1, <4>2, <4>3 DEF Accounted
    <3>. QED  BY <1>3, <3>1, <3>2
  <2>. QED  BY <2>2, <2>3 DEF Line
<1>. QED  BY <1>2, <1>5, <1>6 DEF OnceInv

LEMMA StartOnce ==
    ASSUME TypeOK, InboxInv, HeardIsSaved, Accounted, OnceInv,
           NEW m \in Inputs, StartRun(m)
    PROVE  OnceInv'
<1>. USE DEF TypeOK
<1>1. /\ queue = <<>> /\ task = {}
  BY DEF StartRun, InboxInv, OpenForTheRun, NothingStranded, TaskHeld
<1>2. Range(queue) = {} /\ DOMAIN queue = {}
  BY <1>1 DEF Range
<1>3. /\ ~(m \in Covered(messages) \cup lost) /\ ~(m \in Range(said))
      /\ task' = {m} /\ said' = Append(said, m)
      /\ UNCHANGED <<queue, messages, saved, lost>>
  BY DEF StartRun, convo, Accounted
<1>4. Sound(messages', said', lost') /\ Sound(saved', said', lost')
  BY <1>3, SoundSaid DEF OnceInv, HeardIsSaved
<1>5. Apart'
  BY <1>2, <1>3 DEF OnceInv, Apart
<1>6. /\ DOMAIN said' = DOMAIN said \cup {Len(said) + 1}
      /\ \A a \in DOMAIN said : said'[a] = said[a] /\ said[a] \in Range(said)
      /\ said'[Len(said) + 1] = m
  <2>1. \A a \in DOMAIN said : said[a] \in Range(said)
    BY DEF Range
  <2>. QED  BY <1>3, <2>1
<1>7. \A a, b \in DOMAIN said' : a < b => a \in DOMAIN said
  BY <1>6
<1>8. Line'
  BY <1>1, <1>2, <1>3, <1>6, <1>7 DEF Line, Accounted
<1>. QED  BY <1>4, <1>5, <1>8 DEF OnceInv

\* A crash loses what was not yet heard; the file holds the same messages as
\* the memory it replaces.
LEMMA CrashOnce ==
    ASSUME TypeOK, HeardIsSaved, OnceInv, Crash
    PROVE  OnceInv'
<1>1. /\ messages' = saved /\ saved' = saved /\ queue' = <<>> /\ task' = {}
      /\ lost' = lost \cup Range(queue) \cup task /\ said' = said
  BY DEF Crash
<1>2. Range(queue') = {} /\ DOMAIN queue' = {}
  BY <1>1 DEF Range
<1>3. Covered(messages') = Covered(messages)
  BY <1>1 DEF HeardIsSaved
<1>4. Sound(saved, said, lost')
  BY <1>1, SoundLost DEF OnceInv
<1>5. Apart'
  BY <1>1, <1>2, <1>3 DEF OnceInv, Apart
<1>6. Line'
  BY <1>1, <1>2 DEF Line
<1>. QED  BY <1>1, <1>4, <1>5, <1>6 DEF OnceInv

LEMMA OnceStep ==
    ASSUME TypeOK, HeardIsSaved, InboxInv, Accounted, OnceInv, [Next]_vars
    PROVE  OnceInv'
<1>1. CASE Begin
  BY <1>1, BeginOnce
<1>2. CASE Folding
  BY <1>2, FoldOnce DEF InboxInv
<1>3. CASE Arrival
  BY <1>3, PushOnce, StartOnce DEF Arrival
<1>4. CASE Quiet
  <2>1. UNCHANGED <<queue, task, said, lost>> /\ Covered(messages') = Covered(messages)
    BY <1>4, QuietInbox, QuietHears
  <2>2. Sound(messages', said, lost) /\ Sound(saved', said, lost)
    BY <1>4, QuietSound DEF OnceInv
  <2>. QED  BY <2>1, <2>2 DEF OnceInv, Apart, Line
<1>5. CASE Crash
  BY <1>5, CrashOnce
<1>. QED  BY <1>1, <1>2, <1>3, <1>4, <1>5, StepKinds

\* Every message the user got in is in exactly one place, and the history
\* holds them in the order they were said in: no fold, retry, compaction,
\* abort or crash and resume drops, repeats or reorders one (pending_input.rs
\* 69-92, engine.rs 560-660).
THEOREM OnceInOrder == Spec => []HeardOnceInOrder
<1>1. Init => OnceInv
  BY DEF Init, OnceInv, Apart, Line, Sound, Once, InOrder, Covered, Range
<1>2. TypeOK /\ HeardIsSaved /\ InboxInv /\ Accounted /\ OnceInv /\ [Next]_vars
         => OnceInv'
  BY OnceStep
<1>3. Accounted /\ OnceInv => HeardOnceInOrder
  BY DEF Accounted, OnceInv, Apart, Sound, Once, InOrder, Before, HeardOnceInOrder,
     EachInputOnce, HeardInOrder
<1>. QED  BY <1>1, <1>2, <1>3, TypeCorrect, AlwaysSaved, InboxSafe, FinalAnswers, PTL
          DEF Spec, InboxInv
-------------------------------------------------------------------------------
(* Calls and their results.  Unanswered calls may stand only at the end of *)
(* the history, and only while their tools run or after a cancellation     *)
(* that found them running.                                                *)

Dangling(h) ==
    \A i \in DOMAIN h : h[i].kind = "calls" =>
        i = Len(h) \/ (i < Len(h) /\ h[i + 1].kind = "results")

Callless(h) == \A i \in DOMAIN h : h[i].kind # "calls"

PairedInv == /\ Dangling(messages)
             /\ pc \notin {"tools", "cancelled"} => Replayable(messages)

\* Entries other than calls do no harm at the end.
LEMMA PairedConcat ==
    ASSUME NEW h \in Seq(Entry), NEW t \in Seq(Entry), Replayable(h), Callless(t)
    PROVE  Replayable(h \o t)
<1>1. \A i \in DOMAIN h : (h \o t)[i] = h[i]
  OBVIOUS
<1>2. ASSUME NEW i \in DOMAIN (h \o t), (h \o t)[i].kind = "calls"
      PROVE  i < Len(h) /\ (h \o t)[i + 1].kind = "results"
  <2>1. CASE i \in DOMAIN h
    <3>1. i < Len(h) /\ h[i + 1].kind = "results"
      BY <1>1, <1>2, <2>1 DEF Replayable
    <3>2. i + 1 \in DOMAIN h
      BY <2>1, <3>1
    <3>. QED  BY <1>1, <3>1, <3>2
  <2>2. CASE ~(i \in DOMAIN h)
    <3>1. i - Len(h) \in DOMAIN t /\ (h \o t)[i] = t[i - Len(h)]
      BY <1>2, <2>2
    <3>. QED  BY <1>2, <3>1 DEF Callless
  <2>. QED  BY <2>1, <2>2
<1>3. Len(h) <= Len(h \o t) /\ Len(h) \in Nat /\ Len(h \o t) \in Nat
  OBVIOUS
<1>4. \A i \in DOMAIN (h \o t) : i \in Nat
  OBVIOUS
<1>. QED  BY <1>2, <1>3, <1>4 DEF Replayable

\* Results close the calls left at the end, and calls left there are new.
LEMMA PairedEnds ==
    ASSUME NEW h \in Seq(Entry)
    PROVE  /\ Dangling(h) => Replayable(Append(h, Control("results")))
           /\ Replayable(h) => Dangling(Append(h, Control("calls")))
           /\ Replayable(h) => Dangling(h)
           /\ Dangling(h) /\ ~Orphaned(h) => Replayable(h)
<1>1. ASSUME NEW e \in Entry
      PROVE  /\ Len(Append(h, e)) = Len(h) + 1
             /\ \A i \in DOMAIN Append(h, e) : i \in DOMAIN h \/ i = Len(h) + 1
             /\ \A i \in DOMAIN h : Append(h, e)[i] = h[i] /\ i < Len(h) + 1 /\ i \in Nat
             /\ Append(h, e)[Len(h) + 1] = e
  OBVIOUS
<1>2. /\ Control("results") \in Entry /\ Control("results").kind = "results"
      /\ Control("calls") \in Entry /\ Control("calls").kind = "calls"
  BY DEF Control, Entry
<1>3. \A i \in DOMAIN h : i < Len(h) => i + 1 \in DOMAIN h
  OBVIOUS
<1>4. Dangling(h) => Replayable(Append(h, Control("results")))
  <2>. SUFFICES ASSUME Dangling(h), NEW i \in DOMAIN Append(h, Control("results")),
                       Append(h, Control("results"))[i].kind = "calls"
                PROVE  /\ i < Len(h) + 1
                       /\ Append(h, Control("results"))[i + 1].kind = "results"
    BY <1>1, <1>2 DEF Replayable
  <2>1. i \in DOMAIN h /\ h[i].kind = "calls"
    BY <1>1, <1>2
  <2>2. CASE i = Len(h)
    BY <1>1, <1>2, <2>1, <2>2
  <2>3. CASE i < Len(h) /\ h[i + 1].kind = "results"
    BY <1>1, <1>2, <1>3, <2>1, <2>3
  <2>. QED  BY <2>1, <2>2, <2>3 DEF Dangling
<1>5. Replayable(h) => Dangling(Append(h, Control("calls")))
  BY <1>1, <1>2, <1>3 DEF Replayable, Dangling
<1>6. Replayable(h) => Dangling(h)
  BY DEF Replayable, Dangling
<1>7. Dangling(h) /\ ~Orphaned(h) => Replayable(h)
  BY DEF Replayable, Dangling, Orphaned
<1>. QED  BY <1>4, <1>5, <1>6, <1>7

\* Only a model's answer adds calls.
LEMMA CalllessEntries ==
    /\ \A k \in {"prompt", "text", "results"} : Callless(<<Control(k)>>)
    /\ Callless(<<>>)
    /\ \A S : Callless(<<User(S)>>)
    /\ \A h : Callless(Summary(h))
    /\ \A q : Callless(Framed(q))
    /\ \A c \in CutContent : Callless(c)
<1>1. \A e : DOMAIN <<e>> = {1} /\ <<e>>[1] = e
  OBVIOUS
<1>2. \A k \in {"prompt", "text", "results"} : Callless(<<Control(k)>>)
  BY <1>1 DEF Callless, Control
<1>3. Callless(<<>>)
  BY DEF Callless
<1>4. \A S : Callless(<<User(S)>>)
  BY <1>1 DEF Callless, User
<1>5. \A h : Callless(Summary(h))
  BY <1>1 DEF Callless, Summary
<1>6. \A q : Callless(Framed(q))
  BY DEF Callless, Framed, User
<1>7. \A c \in CutContent : Callless(c)
  BY <1>2, <1>3 DEF CutContent
<1>. QED  BY <1>2, <1>3, <1>4, <1>5, <1>6, <1>7
LEMMA PairedStep ==
    ASSUME "quit" \notin Hazards, "crash" \notin Hazards,
           TypeOK, PairedInv, [Next]_vars
    PROVE  PairedInv'
<1>. USE DEF TypeOK
<1>a. \A k \in {"prompt", "text", "results", "calls"} :
         /\ <<Control(k)>> \in Seq(Entry)
         /\ Append(messages, Control(k)) = messages \o <<Control(k)>>
  BY ControlEntries, AppendIsConcat
<1>b. ASSUME NEW h \in Seq(Entry), Replayable(h), pc' \notin {"tools", "cancelled"},
             messages' = h
      PROVE  PairedInv'
  BY <1>b, PairedEnds DEF PairedInv
<1>c. ASSUME NEW h \in Seq(Entry), Replayable(h), NEW k \in {"prompt", "text", "results"}
      PROVE  h \o <<Control(k)>> \in Seq(Entry) /\ Replayable(h \o <<Control(k)>>)
  <2>1. <<Control(k)>> \in Seq(Entry)
    BY <1>a
  <2>2. Callless(<<Control(k)>>)
    BY CalllessEntries
  <2>3. h \o <<Control(k)>> \in Seq(Entry)
    BY <2>1
  <2>. QED  BY <1>c, <2>1, <2>2, <2>3, PairedConcat
<1>d. ASSUME NEW h \in Seq(Entry), Replayable(h), NEW c \in CutContent
      PROVE  h \o c \in Seq(Entry) /\ Replayable(h \o c)
  BY <1>d, PairedConcat, CalllessEntries, CutEntries
<1>e. ASSUME NEW h \in Seq(Entry), Replayable(h)
      PROVE  h \o Framed(queue) \in Seq(Entry) /\ Replayable(h \o Framed(queue))
  BY <1>e, PairedConcat, CalllessEntries, FramedEntries
<1>1. CASE Begin
  <2>1. Replayable(messages) /\ User(task) \in Entry
    BY <1>1 DEF Begin, PairedInv, User, Entry
  <2>2. Append(messages, User(task)) = messages \o <<User(task)>>
    BY <2>1, AppendIsConcat
  <2>3. /\ messages \o <<User(task)>> \in Seq(Entry)
        /\ Replayable(messages \o <<User(task)>>)
    <3>1. <<User(task)>> \in Seq(Entry) /\ Callless(<<User(task)>>)
      BY <2>1, CalllessEntries
    <3>2. messages \o <<User(task)>> \in Seq(Entry)
      BY <3>1
    <3>. QED  BY <2>1, <3>1, <3>2, PairedConcat
  <2>. QED  BY <1>1, <1>b, <2>2, <2>3 DEF Begin, Record
<1>2. CASE Absorb \/ CloseRun
  <2>1. Replayable(messages) /\ messages' = messages \o Framed(queue)
        /\ pc' \in {"ask", "idle"}
    BY <1>2 DEF Absorb, CloseRun, PairedInv, Fold, StartTurn
  <2>. QED  BY <1>b, <1>e, <2>1
<1>3. CASE Abort
  <2>1. CASE Orphaned(messages)
    <3>1. /\ Append(messages, Control("results")) \in Seq(Entry)
          /\ Replayable(Append(messages, Control("results")))
      BY PairedEnds, SilentAppend DEF PairedInv
    <3>2. messages' = Append(messages, Control("results")) \o Framed(queue) /\ pc' = "idle"
      BY <1>3, <2>1 DEF Abort, Record
    <3>. QED  BY <1>b, <1>e, <3>1, <3>2
  <2>2. CASE ~Orphaned(messages)
    <3>1. Replayable(messages)
      BY <2>2, PairedEnds DEF PairedInv
    <3>2. messages' = messages \o Framed(queue) /\ pc' = "idle"
      BY <1>3, <2>2 DEF Abort, Fold
    <3>. QED  BY <1>b, <1>e, <3>1, <3>2
  <2>. QED  BY <2>1, <2>2
<1>4. CASE Compact
  BY <1>4, <1>b, SummaryEntries, CalllessEntries DEF Compact, Record, Replayable, Callless
<1>5. CASE AnswerTools
  BY <1>5, PairedEnds DEF AnswerTools, Outcome, Record, PairedInv
<1>6. CASE AnswerFinal \/ FinalizeDone \/ FinalizeFallback
  <2>1. Replayable(messages) /\ messages' = messages \o <<Control("text")>>
        /\ pc' \in {"look", "closing"}
    BY <1>6, <1>a DEF AnswerFinal, FinalizeDone, FinalizeFallback, Outcome, Record,
       EndRun, PairedInv
  <2>. QED  BY <1>b, <1>c, <2>1
<1>7. CASE CutCall
  <2>1. Replayable(messages) /\ pc' = "top"
    BY <1>7 DEF CutCall, Outcome, PairedInv
  <2>2. PICK c \in CutContent : messages' = messages \o c \o <<Control("prompt")>>
    BY <1>7 DEF CutCall, Remember
  <2>. QED  BY <1>b, <1>c, <1>d, <2>1, <2>2
<1>8. CASE Cut
  <2>1. Replayable(messages) /\ pc' = "ask"
    BY <1>8 DEF Cut, Outcome, StartTurn, PairedInv
  <2>2. PICK c \in CutContent : messages' = messages \o c
    BY <1>8 DEF Cut, Remember
  <2>. QED  BY <1>b, <1>d, <2>1, <2>2
<1>9. CASE Empty
  <2>1. Replayable(messages) /\ pc' \in {"top", "ask"}
        /\ messages' \in {messages, messages \o <<Control("prompt")>>}
    BY <1>9, <1>a DEF Empty, Outcome, StartTurn, Record, PairedInv, convo
  <2>. QED  BY <1>b, <1>c, <2>1
<1>10. CASE ToolsDone
  <2>1. /\ messages \o <<Control("results")>> \in Seq(Entry)
        /\ Replayable(messages \o <<Control("results")>>)
    BY <1>a, PairedEnds, SilentAppend DEF PairedInv
  <2>2. PICK f \in {<<>>, <<Control("prompt")>>} :
              messages' = messages \o <<Control("results")>> \o f
    BY <1>10 DEF ToolsDone, Record
  <2>3. f \in Seq(Entry) /\ Callless(f)
    <3>1. <<>> \in Seq(Entry) /\ <<Control("prompt")>> \in Seq(Entry)
      BY <1>a
    <3>. QED  BY <2>2, <3>1, CalllessEntries
  <2>4. pc' \in {"top", "ask", "closing"}
    BY <1>10 DEF ToolsDone, StartTurn, EndRun
  <2>. QED  BY <1>b, <2>1, <2>2, <2>3, <2>4, PairedConcat, CoveredConcat
<1>11. CASE ContinueCut
  <2>1. Replayable(messages) /\ pc' \in {"ask", "closing"}
    BY <1>11 DEF ContinueCut, StartTurn, EndRun, PairedInv
  <2>2. PICK c \in CutContent :
           messages' \in {messages \o c, messages \o c \o <<Control("text")>>}
    BY <1>11 DEF ContinueCut, Remember, Record
  <2>. QED  BY <1>b, <1>c, <1>d, <2>1, <2>2
<1>12. CASE \E m \in Inputs : Push(m) \/ StartRun(m)
  BY <1>12 DEF Push, StartRun, PairedInv, convo
<1>13. CASE Cancel
  BY <1>13 DEF Cancel, PairedInv, convo
<1>14. CASE StopAtBudget \/ Microcompact \/ ContextTooLong \/ Send \/ Overflow \/ Fail
            \/ Look \/ UNCHANGED vars
  BY <1>14 DEF StopAtBudget, Microcompact, ContextTooLong, Send, Overflow, Fail, Look,
     Record, EndRun, convo, vars, PairedInv
<1>15. ~ToolsQuit /\ ~Crash
  BY DEF ToolsQuit, Crash
<1>. QED  BY <1>1, <1>2, <1>3, <1>4, <1>5, <1>6, <1>7, <1>8, <1>9, <1>10, <1>11, <1>12,
          <1>13, <1>14, <1>15 DEF Next, Engine, Host, ModelTurn, NormalTurn, FinalTurn

\* Every request a provider is sent pairs each call with its results, through
\* truncation, compaction, cancellation and abort (engine.rs 2073-2077): only a
\* user who quits at a confirmation, which run agent_orphan shows, or a crash
\* between an answer and its results can leave calls unanswered.
THEOREM PairedUnlessQuit ==
    ASSUME "quit" \notin Hazards, "crash" \notin Hazards
    PROVE  Spec => []RequestReplayable
<1>1. Init => PairedInv
  BY DEF Init, PairedInv, Replayable, Dangling
<1>2. TypeOK /\ PairedInv /\ [Next]_vars => PairedInv'
  BY PairedStep
<1>3. PairedInv => RequestReplayable
  BY DEF PairedInv, RequestReplayable
<1>. QED  BY <1>1, <1>2, <1>3, TypeCorrect, PTL DEF Spec
===============================================================================
