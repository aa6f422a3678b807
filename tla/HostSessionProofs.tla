--------------------------- MODULE HostSessionProofs ---------------------------
(***************************************************************************)
(* Theorems about HostSession, for every set of call ids, every bound and  *)
(* whether or not the host may close stdin.                                *)
(***************************************************************************)
EXTENDS HostSession, SequenceTheorems, TLAPS

-------------------------------------------------------------------------------
(* The inductive invariant.                                                *)

\* What waits in the channel was written by the host.
Vouched == \A i \in DOMAIN stdin :
              stdin[i].kind \in Replies \cup {"mode"} => stdin[i] \in wrote

\* The engine is at an await exactly while a message runs, and which call it is
\* at, and why, follows from the await.
Place == /\ at = "none" <=> phase # "busy"
         /\ at \in {"asking", "question", "running"} => next <= Len(round)
         /\ at = "asking" => Now.need \in {"exec", "edit"}
         /\ at = "question" => Now.need = "ask"
         /\ at \in {"none", "model"} => ran = {}

\* A verdict, and a mode, is what the host wrote.
Given == /\ mode # "default" => Wrote("mode", mode)
         /\ at = "asking" => /\ verdict # "answer"
                             /\ verdict = "yes" => Wrote("approve", Now.id)
                             /\ verdict = "no" => Wrote("deny", Now.id)
         /\ at = "question" => /\ verdict \in {"none", "answer"}
                               /\ verdict = "answer" => Wrote("answer", Now.id)

\* The results are those of the calls before the one the engine is at.
InOrder == /\ \A i, j \in DOMAIN round : round[i].id = round[j].id => i = j
           /\ Len(results) = next - 1
           /\ at \in {"none", "model"} => next = Len(round) + 1
           /\ \A i \in DOMAIN results : results[i].id = round[i].id

\* What was run is a call up to that one.
RanSoFar == \A c \in ran : \E i \in DOMAIN round :
               /\ c = round[i] /\ i <= next
               /\ i = next => at \in {"running", "question"}

\* The newest settings are in force, or put off while a message runs.
InHand == /\ phase = "idle" => queued = NoUpdate
          /\ \A f \in Fields : newest[f] # 0 => Merged(config, queued)[f] = newest[f]

IInv == /\ TypeOK /\ Vouched /\ Place /\ Given /\ InOrder /\ RanSoFar
        /\ HostDecides /\ InHand
-------------------------------------------------------------------------------
(* Commands, and the channel they wait in.                                 *)

\* What a command of each kind is about.
LEMMA CommandShape ==
    ASSUME NEW c \in Command
    PROVE  /\ c.kind \in Replies => c.arg \in Calls
           /\ c.kind = "mode" => c.arg \in Modes
           /\ c.kind = "config" => c.arg \in Fields
           /\ c = [kind |-> c.kind, arg |-> c.arg]
<1>1. CASE c \in [kind : {"message", "stop"}, arg : {0}]
  BY <1>1 DEF Replies
<1>2. CASE c \in [kind : Replies, arg : Calls]
  BY <1>2 DEF Replies
<1>3. CASE c \in [kind : {"mode"}, arg : Modes]
  BY <1>3 DEF Replies
<1>4. CASE c \in [kind : {"config"}, arg : Fields]
  BY <1>4 DEF Replies
<1>. QED  BY <1>1, <1>2, <1>3, <1>4 DEF Command

\* A decision of the host is a command.
LEMMA ReplyIsCommand ==
    ASSUME NEW k \in Replies, NEW id \in Calls
    PROVE  [kind |-> k, arg |-> id] \in Command
BY DEF Command

\* The next command is one of those waiting, and so are the others.
LEMMA TakeCommand ==
    ASSUME stdin \in Seq(Command), stdin # <<>>
    PROVE  /\ Head(stdin) \in Command /\ 1 \in DOMAIN stdin /\ Head(stdin) = stdin[1]
           /\ Tail(stdin) \in Seq(Command)
           /\ \A i \in DOMAIN Tail(stdin) :
                 i + 1 \in DOMAIN stdin /\ Tail(stdin)[i] = stdin[i + 1]
OBVIOUS

\* What is written joins what waits.
LEMMA WriteCommand ==
    ASSUME stdin \in Seq(Command), NEW c \in Command, wrote \subseteq Command, Write(c), Vouched
    PROVE  /\ stdin' \in Seq(Command) /\ wrote' \subseteq Command
           /\ wrote \subseteq wrote' /\ Vouched'
<1>1. wrote \subseteq wrote' /\ wrote' \subseteq Command
  BY DEF Write
<1>2. stdin' \in Seq(Command)
  BY DEF Write
<1>3. \A i \in DOMAIN stdin' :
         (i \in DOMAIN stdin /\ stdin'[i] = stdin[i]) \/ stdin'[i] = c
  BY DEF Write
<1>4. c.kind \in Replies \cup {"mode"} => c \in wrote'
  BY DEF Write
<1>5. Vouched'
  BY <1>1, <1>3, <1>4 DEF Vouched
<1>. QED  BY <1>1, <1>2, <1>5

\* What the invariant says of the host's decisions outlives more of them.
LEMMA MoreWritten ==
    ASSUME IInv, wrote \subseteq wrote',
           UNCHANGED <<phase, engine, waiting, setup, ran>>
    PROVE  Place' /\ Given' /\ InOrder' /\ RanSoFar' /\ HostDecides' /\ InHand'
<1>. USE DEF IInv, engine, waiting, setup
<1>1. \A k, a : Wrote(k, a) => Wrote(k, a)'
  BY DEF Wrote
<1>2. Now' = Now
  BY DEF Now
<1>3. Given'
  BY <1>1, <1>2 DEF Given
<1>4. HostDecides'
  BY <1>1 DEF HostDecides
<1>5. Place' /\ InOrder' /\ RanSoFar' /\ InHand'
  BY <1>2 DEF Place, InOrder, RanSoFar, InHand, Merged
<1>. QED  BY <1>3, <1>4, <1>5
-------------------------------------------------------------------------------
(* The host's steps.                                                       *)

LEMMA SendStep ==
    ASSUME IInv, NEW c \in Command, Send(c)
    PROVE  IInv'
<1>1. stdin' \in Seq(Command) /\ wrote' \subseteq Command /\ wrote \subseteq wrote' /\ Vouched'
  BY WriteCommand DEF IInv, TypeOK, Send
<1>2. TypeOK'
  BY <1>1, ConstantsAssumption DEF IInv, TypeOK, Send, engine, waiting, setup, Now
<1>3. Place' /\ Given' /\ InOrder' /\ RanSoFar' /\ HostDecides' /\ InHand'
  BY <1>1, MoreWritten DEF Send
<1>. QED  BY <1>1, <1>2, <1>3 DEF IInv

LEMMA ReplyStep ==
    ASSUME IInv, NEW id \in Calls, Reply(id)
    PROVE  IInv'
<1>1. PICK k \in Replies : Write([kind |-> k, arg |-> id])
  BY DEF Reply, Replies
<1>2. [kind |-> k, arg |-> id] \in Command
  BY ReplyIsCommand
<1>3. stdin' \in Seq(Command) /\ wrote' \subseteq Command /\ wrote \subseteq wrote' /\ Vouched'
  BY <1>1, <1>2, WriteCommand DEF IInv, TypeOK
<1>4. shown' \subseteq shown
  BY DEF Reply
<1>5. TypeOK'
  BY <1>3, <1>4 DEF IInv, TypeOK, Reply, engine, waiting, setup, Now
<1>6. Place' /\ Given' /\ InOrder' /\ RanSoFar' /\ HostDecides' /\ InHand'
  BY <1>3, MoreWritten DEF Reply
<1>. QED  BY <1>3, <1>5, <1>6 DEF IInv

LEMMA CloseStep ==
    ASSUME IInv, Close
    PROVE  IInv'
<1>1. TypeOK' /\ Vouched'
  BY DEF IInv, TypeOK, Vouched, Close, engine, waiting, setup, Now
<1>2. Place' /\ Given' /\ InOrder' /\ RanSoFar' /\ HostDecides' /\ InHand'
  BY MoreWritten DEF Close
<1>. QED  BY <1>1, <1>2 DEF IInv
-------------------------------------------------------------------------------
(* Commands.                                                               *)

\* A decision settles the call that waits, or none, and is the host's.
LEMMA ResolveStep ==
    ASSUME IInv, phase # "over", NEW id \in Calls, NEW k \in {"approve", "deny"},
           Wrote(k, id), Resolve(id, IF k = "approve" THEN "yes" ELSE "no"),
           UNCHANGED <<host, phase, engine, setup, ran>>, stdin' \in Seq(Command)
    PROVE  TypeOK' /\ Given'
<1>. USE DEF IInv, host, engine, setup
<1>1. Now' = Now
  BY DEF Now
<1>2. CASE id \in pending
  <2>1. at = "asking" /\ verdict = "none" /\ id = Now.id
    BY <1>2 DEF TypeOK
  <2>2. verdict' = (IF k = "approve" THEN "yes" ELSE "no") /\ pending' = {} /\ questions' = questions
    BY <1>2, <2>1 DEF Resolve, TypeOK
  <2>. QED  BY <1>1, <2>1, <2>2 DEF TypeOK, Given, Wrote
<1>3. CASE id \notin pending
  <2>1. UNCHANGED waiting
    BY <1>3 DEF Resolve, waiting
  <2>. QED  BY <1>1, <2>1 DEF TypeOK, Given, Wrote, waiting
<1>. QED  BY <1>2, <1>3

\* An answer settles the question that waits, or none, and is the host's.
LEMMA AnswerStep ==
    ASSUME IInv, NEW id \in Calls, Wrote("answer", id), AnswerQuestion(id),
           UNCHANGED <<host, phase, engine, setup, ran>>, stdin' \in Seq(Command)
    PROVE  TypeOK' /\ Given'
<1>. USE DEF IInv, host, engine, setup
<1>1. Now' = Now
  BY DEF Now
<1>2. CASE id \in questions
  <2>1. at = "question" /\ verdict = "none" /\ id = Now.id
    BY <1>2 DEF TypeOK
  <2>2. verdict' = "answer" /\ questions' = {} /\ pending' = pending
    BY <1>2, <2>1 DEF AnswerQuestion, TypeOK
  <2>. QED  BY <1>1, <2>1, <2>2 DEF TypeOK, Given, Wrote
<1>3. CASE id \notin questions
  <2>1. UNCHANGED waiting
    BY <1>3 DEF AnswerQuestion, waiting
  <2>. QED  BY <1>1, <2>1 DEF TypeOK, Given, Wrote, waiting
<1>. QED  BY <1>2, <1>3

\* Put off or not, the newest settings are in hand.
LEMMA ConfigureStep ==
    ASSUME IInv, phase # "over", NEW f \in Fields, Configure(f)
    PROVE  /\ InHand' \/ phase' # phase
           /\ {config', queued', newest'} \subseteq Update /\ stamp' \in Nat
           /\ mode' = mode
<1>. DEFINE update == [NoUpdate EXCEPT ![f] = stamp + 1]
<1>1. update \in Update /\ stamp + 1 \in Nat
  BY DEF IInv, TypeOK, Update, NoUpdate
<1>2. Merged(config, update) \in Update
  BY <1>1 DEF IInv, TypeOK, Update, Merged
<1>3. \A g \in Fields : update[g] # 0 => Merged(config, update)[g] = update[g]
  BY DEF Merged
<1>4. {config', queued', newest'} \subseteq Update /\ stamp' \in Nat /\ mode' = mode
  BY <1>1, <1>2 DEF Configure, IInv, TypeOK
<1>5. CASE phase = "busy"
  BY <1>3, <1>4, <1>5 DEF Configure, InHand, Merged
<1>6. CASE phase # "busy"
  <2>1. queued = NoUpdate /\ queued' = NoUpdate
    BY <1>6 DEF Configure, IInv, InHand, TypeOK
  <2>2. newest' = update /\ config' = Merged(config, update)
    BY <1>6 DEF Configure
  <2>3. \A g \in Fields : Merged(config', queued')[g] = config'[g]
    BY <2>1 DEF Merged, NoUpdate
  <2>. QED  BY <1>3, <1>4, <2>1, <2>2, <2>3 DEF InHand
<1>. QED  BY <1>4, <1>5, <1>6

\* The loops' handling of a command keeps the invariant.
LEMMA HandleStep ==
    ASSUME IInv, Handle
    PROVE  IInv'
<1>. DEFINE c == Head(stdin)
<1>1. /\ stdin' = Tail(stdin) /\ stdin \in Seq(Command) /\ stdin # <<>>
      /\ phase # "over" /\ UNCHANGED host
  BY DEF Handle, IInv, TypeOK
<1>2. c \in Command /\ stdin' \in Seq(Command)
  BY <1>1, TakeCommand
<1>3. c.kind \in Replies \cup {"mode"} => Wrote(c.kind, c.arg)
  BY <1>1, <1>2, TakeCommand, CommandShape DEF IInv, Vouched, Wrote
<1>4. Vouched'
  BY <1>1, TakeCommand DEF IInv, Vouched, host
<1>5. CASE c.kind = "message" /\ phase = "idle" /\ phase' = "busy" /\ at' = "model"
           /\ UNCHANGED <<round, next, results, used, waiting, setup, ran>>
  <2>1. at = "none" /\ ran = {}
    BY <1>5 DEF IInv, Place
  <2>2. TypeOK'
    BY <1>1, <1>2, <1>5, <2>1 DEF IInv, TypeOK, host, waiting, setup
  <2>3. Place' /\ Given' /\ InOrder' /\ RanSoFar' /\ HostDecides' /\ InHand'
    BY <1>1, <1>5, <2>1 DEF IInv, Place, Given, InOrder, RanSoFar, HostDecides, InHand, Wrote,
       host, setup, Merged
  <2>. QED  BY <1>4, <2>2, <2>3 DEF IInv
<1>6. CASE c.kind = "message" /\ UNCHANGED <<phase, engine, waiting, setup, ran>>
  <2>1. TypeOK'
    BY <1>1, <1>2, <1>6 DEF IInv, TypeOK, host, engine, waiting, setup, Now
  <2>2. wrote \subseteq wrote'
    BY <1>1 DEF host
  <2>. QED  BY <1>4, <1>6, <2>1, <2>2, MoreWritten DEF IInv
<1>7. CASE c.kind = "stop" /\ phase' = "over" /\ EngineGone /\ questions' = {} /\ ran' = {}
           /\ config' = Merged(config, queued) /\ queued' = NoUpdate
           /\ UNCHANGED <<used, pending, verdict, mode, newest, stamp>>
  <2>1. Merged(config, queued) \in Update /\ NoUpdate \in Update
    BY DEF IInv, TypeOK, Update, Merged, NoUpdate
  <2>2. TypeOK'
    BY <1>1, <1>2, <1>7, <2>1 DEF IInv, TypeOK, host, EngineGone
  <2>3. Place' /\ Given' /\ InOrder' /\ RanSoFar' /\ HostDecides'
    BY <1>1, <1>7 DEF IInv, Place, Given, InOrder, RanSoFar, HostDecides, EngineGone, host, Wrote
  <2>4. InHand'
    BY <1>7 DEF IInv, InHand, Merged, NoUpdate
  <2>. QED  BY <1>4, <2>2, <2>3, <2>4 DEF IInv
<1>8. CASE c.kind \in {"approve", "deny"}
           /\ Resolve(c.arg, IF c.kind = "approve" THEN "yes" ELSE "no")
           /\ UNCHANGED <<phase, engine, setup, ran>>
  <2>1. c.arg \in Calls /\ Wrote(c.kind, c.arg)
    BY <1>2, <1>3, <1>8, CommandShape DEF Replies
  <2>2. TypeOK' /\ Given'
    BY <1>1, <1>2, <1>8, <2>1, ResolveStep
  <2>3. Place' /\ InOrder' /\ RanSoFar' /\ HostDecides' /\ InHand'
    BY <1>1, <1>8 DEF IInv, Place, InOrder, RanSoFar, HostDecides, InHand, Wrote, host, engine,
       setup, Now, Merged
  <2>. QED  BY <1>4, <2>2, <2>3 DEF IInv
<1>9. CASE c.kind = "answer" /\ AnswerQuestion(c.arg) /\ UNCHANGED <<phase, engine, setup, ran>>
  <2>1. c.arg \in Calls /\ Wrote("answer", c.arg)
    BY <1>2, <1>3, <1>9, CommandShape DEF Replies
  <2>2. TypeOK' /\ Given'
    BY <1>1, <1>2, <1>9, <2>1, AnswerStep
  <2>3. Place' /\ InOrder' /\ RanSoFar' /\ HostDecides' /\ InHand'
    BY <1>1, <1>9 DEF IInv, Place, InOrder, RanSoFar, HostDecides, InHand, Wrote, host, engine,
       setup, Now, Merged
  <2>. QED  BY <1>4, <2>2, <2>3 DEF IInv
<1>10. CASE c.kind = "mode" /\ mode' = c.arg
            /\ UNCHANGED <<phase, engine, waiting, config, queued, newest, stamp, ran>>
  <2>1. c.arg \in Modes /\ Wrote("mode", c.arg)
    BY <1>2, <1>3, <1>10, CommandShape
  <2>2. TypeOK'
    BY <1>1, <1>2, <1>10, <2>1 DEF IInv, TypeOK, host, engine, waiting, Now
  <2>3. Given'
    BY <1>1, <1>10, <2>1 DEF IInv, Given, Wrote, host, engine, waiting, Now
  <2>4. Place' /\ InOrder' /\ RanSoFar' /\ HostDecides' /\ InHand'
    BY <1>1, <1>10 DEF IInv, Place, InOrder, RanSoFar, HostDecides, InHand, Wrote, host, engine,
       waiting, Now, Merged
  <2>. QED  BY <1>4, <2>2, <2>3, <2>4 DEF IInv
<1>11. CASE c.kind = "config" /\ Configure(c.arg) /\ UNCHANGED <<phase, engine, waiting, ran>>
  <2>1. c.arg \in Fields
    BY <1>2, <1>11, CommandShape
  <2>2. /\ InHand' /\ mode' = mode
        /\ {config', queued', newest'} \subseteq Update /\ stamp' \in Nat
    BY <1>1, <1>11, <2>1, ConfigureStep
  <2>3. TypeOK'
    BY <1>1, <1>2, <1>11, <2>2 DEF IInv, TypeOK, host, engine, waiting, Now
  <2>4. Given' /\ Place' /\ InOrder' /\ RanSoFar' /\ HostDecides'
    BY <1>1, <1>11, <2>2 DEF IInv, Given, Place, InOrder, RanSoFar, HostDecides, Wrote, host,
       engine, waiting, Now
  <2>. QED  BY <1>4, <2>2, <2>3, <2>4 DEF IInv
<1>. QED  BY <1>5, <1>6, <1>7, <1>8, <1>9, <1>10, <1>11 DEF Handle

LEMMA EndOfInputStep ==
    ASSUME IInv, EndOfInput
    PROVE  IInv'
BY DEF IInv, EndOfInput, TypeOK, Vouched, Place, Given, InOrder, RanSoFar, HostDecides, InHand,
   Wrote, host, engine, waiting, setup, Now, Merged
-------------------------------------------------------------------------------
(* The engine's steps.                                                     *)

LEMMA RoundStep ==
    ASSUME IInv, Round
    PROVE  IInv'
<1>. USE DEF IInv, Busy, host, waiting, setup
<1>1. PICK n \in 1..MaxRound : \E r \in [1..n -> Call] :
         /\ \A i, j \in 1..n : r[i].id = r[j].id => i = j
         /\ round' = r /\ used' = used \cup {r[i].id : i \in 1..n}
  BY DEF Round
<1>2. PICK r \in [1..n -> Call] :
         /\ \A i, j \in 1..n : r[i].id = r[j].id => i = j
         /\ round' = r /\ used' = used \cup {r[i].id : i \in 1..n}
  BY <1>1
<1>3. n \in Nat /\ r \in Seq(Call) /\ Len(r) = n /\ DOMAIN r = 1..n
  BY <1>2, IsASeq, ConstantsAssumption
<1>4. \A i \in 1..n : r[i].id \in Calls
  BY <1>2 DEF Call
<1>5. TypeOK'
  BY <1>2, <1>3, <1>4 DEF TypeOK, Round
<1>6. InOrder'
  BY <1>2, <1>3 DEF InOrder, Round
<1>7. Place' /\ Given' /\ RanSoFar' /\ HostDecides'
  BY DEF Place, Given, RanSoFar, HostDecides, Round, Wrote
<1>8. Vouched' /\ InHand'
  BY DEF Vouched, InHand, Round, Merged
<1>. QED  BY <1>5, <1>6, <1>7, <1>8

LEMMA FinishStep ==
    ASSUME IInv, Finish
    PROVE  IInv'
<1>. USE DEF IInv, Busy, host, waiting, EngineGone
<1>1. Merged(config, queued) \in Update /\ NoUpdate \in Update
  BY DEF TypeOK, Update, Merged, NoUpdate
<1>2. TypeOK'
  BY <1>1 DEF TypeOK, Finish
<1>3. Vouched' /\ Place' /\ Given' /\ InOrder' /\ RanSoFar' /\ HostDecides'
  BY DEF Vouched, Place, Given, InOrder, RanSoFar, HostDecides, Finish, Wrote
<1>4. InHand'
  BY DEF InHand, Merged, NoUpdate, Finish
<1>. QED  BY <1>2, <1>3, <1>4

\* The call the engine is at, and what the invariant says of it.
LEMMA AtCall ==
    ASSUME IInv, next <= Len(round)
    PROVE  /\ next \in DOMAIN round /\ Now \in Call /\ Now = round[next]
           /\ \A i \in DOMAIN results : i < next /\ results[i].id # Now.id
<1>1. next \in DOMAIN round /\ Now \in Call /\ Now = round[next]
  BY DEF IInv, TypeOK, Now
<1>2. \A i \in DOMAIN results : i < next /\ i \in DOMAIN round
  BY <1>1 DEF IInv, TypeOK, InOrder
<1>3. \A i \in DOMAIN results : results[i].id # Now.id
  BY <1>1, <1>2 DEF IInv, InOrder
<1>. QED  BY <1>1, <1>2, <1>3

\* A result joins those of the calls before.
LEMMA DoneStep ==
    ASSUME IInv, next <= Len(round), NEW how \in {"done", "failed", "denied", "answered"},
           Done(how)
    PROVE  /\ results' \in Seq(Result) /\ next' \in 1..(Len(round) + 1)
           /\ InOrder' /\ at' = "round" /\ UNCHANGED <<round, used>>
           /\ \A i \in DOMAIN results' :
                 \/ i \in DOMAIN results /\ results'[i] = results[i]
                 \/ i = next /\ results'[i] = [id |-> Now.id, how |-> how]
<1>. DEFINE one == [id |-> Now.id, how |-> how]
<1>1. next \in DOMAIN round /\ Now \in Call /\ Now = round[next]
  BY AtCall
<1>2. one \in Result
  BY <1>1 DEF Call, Result
<1>3. results \in Seq(Result) /\ Len(results) = next - 1 /\ next \in Nat
  BY DEF IInv, TypeOK, InOrder
<1>4. results' = Append(results, one) /\ next' = next + 1 /\ at' = "round" /\ UNCHANGED <<round, used>>
  BY DEF Done
<1>5. \A i \in DOMAIN results' :
         \/ i \in DOMAIN results /\ results'[i] = results[i]
         \/ i = next /\ results'[i] = one
  BY <1>2, <1>3, <1>4
<1>6. results' \in Seq(Result) /\ Len(results') = next' - 1
  BY <1>2, <1>3, <1>4
<1>7. \A i \in DOMAIN results' : results'[i].id = round[i].id
  BY <1>1, <1>5 DEF IInv, InOrder
<1>8. InOrder'
  BY <1>4, <1>6, <1>7 DEF IInv, InOrder
<1>. QED  BY <1>1, <1>3, <1>4, <1>5, <1>6, <1>8

\* A step that only adds a result, of a call that was run or could not be.
LEMMA OutcomeStep ==
    ASSUME IInv, next <= Len(round), NEW how \in {"done", "failed", "answered"},
           Done(how), how = "answered" => Wrote("answer", Now.id),
           at \in {"running", "question", "round"}, verdict # "none" \/ at # "question",
           shown' \subseteq shown,
           UNCHANGED <<stdin, closed, sent, wrote, phase, waiting, setup, ran>>
    PROVE  IInv'
<1>1. /\ results' \in Seq(Result) /\ next' \in 1..(Len(round) + 1)
      /\ InOrder' /\ at' = "round" /\ UNCHANGED <<round, used>>
      /\ \A i \in DOMAIN results' :
            \/ i \in DOMAIN results /\ results'[i] = results[i]
            \/ i = next /\ results'[i] = [id |-> Now.id, how |-> how]
  BY DoneStep
<1>2. TypeOK'
  BY <1>1 DEF IInv, TypeOK, waiting, setup
<1>3. Vouched' /\ Place' /\ Given' /\ InHand'
  BY <1>1 DEF IInv, Vouched, Place, Given, InHand, Wrote, Merged, setup
<1>4. RanSoFar'
  <2>1. SUFFICES ASSUME NEW c \in ran
                 PROVE  \E i \in DOMAIN round : c = round[i] /\ i <= next' /\ i # next'
    BY <1>1 DEF RanSoFar
  <2>2. PICK i \in DOMAIN round : c = round[i] /\ i <= next
    BY DEF IInv, RanSoFar
  <2>3. next' = next + 1 /\ next \in Nat /\ i \in Nat
    BY DEF Done, IInv, TypeOK
  <2>. QED  BY <2>2, <2>3
<1>5. HostDecides'
  BY <1>1 DEF IInv, HostDecides, Wrote
<1>. QED  BY <1>1, <1>2, <1>3, <1>4, <1>5 DEF IInv

LEMMA RanStep ==
    ASSUME IInv, Ran
    PROVE  IInv'
<1>1. PICK how \in {"done", "failed"} : Done(how)
  BY DEF Ran
<1>2. next <= Len(round) /\ at = "running"
  BY DEF IInv, Place, Ran, Busy
<1>3. UNCHANGED <<stdin, closed, sent, wrote, phase, waiting, setup, ran>> /\ shown' \subseteq shown
  BY DEF Ran, host
<1>. QED  BY <1>1, <1>2, <1>3, OutcomeStep

LEMMA AnsweredStep ==
    ASSUME IInv, Answered
    PROVE  IInv'
<1>1. next <= Len(round) /\ at = "question" /\ Done("answered") /\ verdict # "none"
  BY DEF IInv, Place, Answered, Busy
<1>2. Wrote("answer", Now.id)
  BY <1>1 DEF IInv, Given
<1>3. UNCHANGED <<stdin, closed, sent, wrote, phase, waiting, setup, ran>> /\ shown' \subseteq shown
  BY DEF Answered
<1>. QED  BY <1>1, <1>2, <1>3, OutcomeStep

LEMMA BadQuestionStep ==
    ASSUME IInv, BadQuestion
    PROVE  IInv'
<1>1. next <= Len(round) /\ at = "round" /\ Done("failed")
  BY DEF BadQuestion, Busy, More
<1>2. UNCHANGED <<stdin, closed, sent, wrote, phase, waiting, setup, ran>> /\ shown' \subseteq shown
  BY DEF BadQuestion, host
<1>. QED  BY <1>1, <1>2, OutcomeStep

LEMMA RoundDoneStep ==
    ASSUME IInv, RoundDone
    PROVE  IInv'
<1>. USE DEF IInv, Busy, host, waiting, setup
<1>1. TypeOK' /\ Vouched' /\ Place' /\ Given'
  BY DEF TypeOK, Vouched, Place, Given, RoundDone, Wrote
<1>2. next = Len(round) + 1
  BY DEF RoundDone, More, TypeOK
<1>3. InOrder' /\ RanSoFar' /\ HostDecides' /\ InHand'
  BY <1>2 DEF InOrder, RanSoFar, HostDecides, InHand, RoundDone, Wrote, Merged
<1>. QED  BY <1>1, <1>3

\* The call the engine is at is run: the host let it, or it needs no leave.
LEMMA RunStep ==
    ASSUME IInv, next <= Len(round), ran' = ran \cup {Now},
           at' \in {"running", "question"},
           at \in {"round", "asking"},
           \/ Now.need \in {"free", "ask"} \/ Waived(Now.need) \/ Wrote("approve", Now.id),
           UNCHANGED <<round, next, results, wrote>>
    PROVE  RanSoFar' /\ HostDecides' /\ ran' \subseteq Call
<1>1. /\ next \in DOMAIN round /\ Now \in Call /\ Now = round[next]
      /\ \A i \in DOMAIN results : i < next /\ results[i].id # Now.id
  BY AtCall
<1>2. RanSoFar'
  BY <1>1 DEF IInv, RanSoFar
<1>3. Waived(Now.need) => Wrote("mode", "yolo") \/ (Now.need = "edit" /\ Wrote("mode", "auto_edit"))
  BY DEF IInv, Given, Waived
<1>4. HostDecides'
  BY <1>1, <1>3 DEF IInv, HostDecides, Wrote
<1>5. ran' \subseteq Call
  BY <1>1 DEF IInv, TypeOK
<1>. QED  BY <1>2, <1>4, <1>5

LEMMA TakeStep ==
    ASSUME IInv, Take
    PROVE  IInv'
<1>. USE DEF Busy
<1>1. /\ next <= Len(round) /\ at = "round" /\ phase = "busy"
      /\ UNCHANGED <<stdin, closed, sent, wrote, phase, round, next, results, used, setup>>
  BY DEF Take, More
<1>2. next \in DOMAIN round /\ Now \in Call /\ Now' = Now
  BY <1>1, AtCall DEF Now
<1>3. Vouched' /\ (at' \notin {"none", "model"} => InOrder')
  BY <1>1 DEF IInv, Vouched, InOrder
<1>4. InHand'
  BY <1>1 DEF IInv, InHand, Merged, setup
<1>5. pending = {} /\ questions = {}
  BY <1>1 DEF IInv, TypeOK
<1>6. CASE Now.need \in {"exec", "edit"} /\ Ask /\ shown' = shown \cup {Now} /\ UNCHANGED <<questions, ran>>
  <2>1. at' = "asking" /\ verdict' = "none" /\ pending' = {Now.id}
    BY <1>5, <1>6 DEF Ask
  <2>2. TypeOK'
    BY <1>1, <1>2, <1>5, <1>6, <2>1 DEF IInv, TypeOK, setup
  <2>3. Place' /\ Given' /\ InOrder' /\ Vouched'
    BY <1>1, <1>2, <1>3, <1>6, <2>1 DEF IInv, Place, Given, Wrote, setup
  <2>4. RanSoFar' /\ HostDecides'
    BY <1>1, <1>6, <2>1 DEF IInv, RanSoFar, HostDecides, Wrote
  <2>. QED  BY <1>4, <2>2, <2>3, <2>4 DEF IInv
<1>7. CASE /\ Now.need = "ask" /\ at' = "question" /\ questions' = questions \cup {Now.id}
           /\ verdict' = "none" /\ shown' = shown \cup {Now} /\ ran' = ran \cup {Now}
           /\ UNCHANGED pending
  <2>1. RanSoFar' /\ HostDecides' /\ ran' \subseteq Call
    BY <1>1, <1>7, RunStep
  <2>2. TypeOK'
    BY <1>1, <1>2, <1>5, <1>7, <2>1 DEF IInv, TypeOK, setup
  <2>3. Place' /\ Given' /\ InOrder' /\ Vouched'
    BY <1>1, <1>2, <1>3, <1>7 DEF IInv, Place, Given, Wrote, setup
  <2>. QED  BY <1>4, <2>1, <2>2, <2>3 DEF IInv
<1>8. CASE /\ Now.need = "free" \/ (Now.need \in {"exec", "edit"} /\ Waived(Now.need))
           /\ at' = "running" /\ ran' = ran \cup {Now}
           /\ UNCHANGED <<shown, waiting>>
  <2>1. RanSoFar' /\ HostDecides' /\ ran' \subseteq Call
    BY <1>1, <1>8, RunStep
  <2>2. TypeOK'
    BY <1>1, <1>2, <1>5, <1>8, <2>1 DEF IInv, TypeOK, setup, waiting
  <2>3. Place' /\ Given' /\ InOrder' /\ Vouched'
    BY <1>1, <1>2, <1>3, <1>8 DEF IInv, Place, Given, Wrote, setup
  <2>. QED  BY <1>4, <2>1, <2>2, <2>3 DEF IInv
<1>. QED  BY <1>6, <1>7, <1>8 DEF Take

LEMMA DecidedStep ==
    ASSUME IInv, Decided
    PROVE  IInv'
<1>. USE DEF Busy
<1>1. /\ next <= Len(round) /\ at = "asking" /\ phase = "busy" /\ verdict # "none"
      /\ shown' \subseteq shown
      /\ UNCHANGED <<stdin, closed, sent, wrote, phase, waiting, setup>>
  BY DEF Decided, IInv, Place
<1>2. pending = {} /\ questions = {}
  BY <1>1 DEF IInv, TypeOK
<1>3. Vouched' /\ InHand'
  BY <1>1 DEF IInv, Vouched, InHand, Merged, setup
<1>4. CASE verdict = "yes" /\ at' = "running" /\ ran' = ran \cup {Now}
           /\ UNCHANGED <<round, next, results, used>>
  <2>1. Wrote("approve", Now.id)
    BY <1>1, <1>4 DEF IInv, Given
  <2>2. RanSoFar' /\ HostDecides' /\ ran' \subseteq Call
    BY <1>1, <1>4, <2>1, RunStep
  <2>3. TypeOK'
    BY <1>1, <1>2, <1>4, <2>2 DEF IInv, TypeOK, setup, waiting
  <2>4. Place' /\ Given' /\ InOrder'
    BY <1>1, <1>4 DEF IInv, Place, Given, InOrder, Wrote, setup
  <2>. QED  BY <1>3, <2>2, <2>3, <2>4 DEF IInv
<1>5. CASE verdict = "no" /\ Deny /\ UNCHANGED ran
  <2>1. /\ results' \in Seq(Result) /\ next' \in 1..(Len(round) + 1)
        /\ InOrder' /\ at' = "round" /\ UNCHANGED <<round, used>>
        /\ \A i \in DOMAIN results' :
              \/ i \in DOMAIN results /\ results'[i] = results[i]
              \/ i = next /\ results'[i] = [id |-> Now.id, how |-> "denied"]
    BY <1>1, <1>5, DoneStep DEF Deny
  <2>2. TypeOK'
    BY <1>1, <1>2, <1>5, <2>1 DEF IInv, TypeOK, setup, waiting
  <2>3. Place' /\ Given'
    BY <1>1, <1>5, <2>1 DEF IInv, Place, Given, Wrote, setup
  <2>4. \A c \in ran : \E i \in DOMAIN round : c = round[i] /\ i < next
    BY <1>1 DEF IInv, RanSoFar, TypeOK
  <2>5. next' = next + 1 /\ next \in Nat
    BY <1>5 DEF Deny, Done, IInv, TypeOK
  <2>6. RanSoFar'
    BY <1>5, <2>1, <2>4, <2>5 DEF RanSoFar
  <2>7. Now.id \notin {c.id : c \in ran} /\ Wrote("deny", Now.id)
    BY <1>1, <1>5, <2>4, AtCall DEF IInv, InOrder, Given
  <2>8. HostDecides'
    BY <1>1, <1>5, <2>1, <2>7 DEF IInv, HostDecides, Wrote
  <2>. QED  BY <1>3, <2>1, <2>2, <2>3, <2>6, <2>8 DEF IInv
<1>. QED  BY <1>4, <1>5 DEF Decided
-------------------------------------------------------------------------------
(* The theorems.                                                           *)

LEMMA InitInvariant == Init => IInv
<1>. SUFFICES ASSUME Init PROVE IInv
  OBVIOUS
<1>1. NoUpdate \in Update
  BY DEF NoUpdate, Update
<1>2. TypeOK
  <2>1. stdin \in Seq(Command) /\ round \in Seq(Call) /\ results \in Seq(Result)
    BY DEF Init
  <2>2. next \in 1..(Len(round) + 1)
    BY DEF Init
  <2>3. sent \in 0..MaxSent
    BY ConstantsAssumption DEF Init
  <2>. QED  BY <1>1, <2>1, <2>2, <2>3 DEF Init, TypeOK, Modes
<1>3. Vouched /\ Place /\ Given /\ InOrder /\ RanSoFar /\ HostDecides
  BY DEF Init, Vouched, Place, Given, InOrder, RanSoFar, HostDecides
<1>4. InHand
  BY DEF Init, InHand, NoUpdate
<1>. QED  BY <1>2, <1>3, <1>4 DEF IInv

LEMMA StepInvariant == IInv /\ [Next]_vars => IInv'
<1>. SUFFICES ASSUME IInv, [Next]_vars PROVE IInv'
  OBVIOUS
<1>1. CASE \E c \in Command : Send(c)
  BY <1>1, SendStep
<1>2. CASE \E id \in Calls : Reply(id)
  BY <1>2, ReplyStep
<1>3. CASE Close
  BY <1>3, CloseStep
<1>4. CASE Handle
  BY <1>4, HandleStep
<1>5. CASE EndOfInput
  BY <1>5, EndOfInputStep
<1>6. CASE Engine
  BY <1>6, RoundStep, FinishStep, TakeStep, DecidedStep, RanStep, AnsweredStep, BadQuestionStep,
     RoundDoneStep DEF Engine
<1>7. CASE UNCHANGED vars
  BY <1>7 DEF vars, IInv, TypeOK, Vouched, Place, Given, InOrder, RanSoFar, HostDecides, InHand,
     Wrote, host, engine, waiting, setup, Now, Merged
<1>. QED  BY <1>1, <1>2, <1>3, <1>4, <1>5, <1>6, <1>7 DEF Next

LEMMA Invariance == Spec => []IInv
<1>1. Init => IInv
  BY InitInvariant
<1>2. IInv /\ [Next]_vars => IInv'
  BY StepInvariant
<1>. QED  BY <1>1, <1>2, PTL DEF Spec

\* Whatever the host sends and when, a call waits for a decision exactly while
\* the engine does, in approvals and in questions (approval.rs, ask.rs).
THEOREM HostTypeCorrect == Spec => []TypeOK
BY Invariance, PTL DEF IInv

\* No tool runs that the host did not let run, and no denial or answer is
\* attributed to a call it was not given for (orchestration.rs 370-431).
THEOREM HostInCharge == Spec => []HostDecides
BY Invariance, PTL DEF IInv

\* What goes back to the model has one result for each call, in their order.
THEOREM RoundsAnswered == Spec => []RoundAnswered
<1>1. IInv => RoundAnswered
  BY DEF IInv, TypeOK, InOrder, RoundAnswered
<1>. QED  BY <1>1, Invariance, PTL

\* Between messages the newest settings are in force (message.rs 126-146).
THEOREM NewestInForce == Spec => []NewestConfig
<1>1. IInv => NewestConfig
  BY DEF IInv, InHand, NewestConfig, Merged, NoUpdate
<1>. QED  BY <1>1, Invariance, PTL

\* The host's word counts, of calls and of settings.
THEOREM InControl == Spec => []HostInControl
<1>1. HostDecides /\ NewestConfig => HostInControl
  BY DEF HostInControl
<1>. QED  BY <1>1, HostInCharge, NewestInForce, PTL

\* A call is registered exactly while the engine waits for it, and no round goes
\* back without the result of one of its calls.
THEOREM Settled == Spec => []CallsSettled
<1>1. TypeOK /\ RoundAnswered => CallsSettled
  BY DEF CallsSettled
<1>. QED  BY <1>1, HostTypeCorrect, RoundsAnswered, PTL

\* No step changes the settings under a message (message.rs 85-100).
THEOREM SettingsStable == Spec => ConfigStable
<1>1. [Next]_vars => (phase = "busy" /\ phase' = "busy" => config' = config)
  <2>1. SUFFICES ASSUME [Next]_vars, phase = "busy", phase' = "busy" PROVE config' = config
    OBVIOUS
  <2>2. CASE \E c \in Command : Send(c)
    BY <2>2 DEF Send, setup
  <2>3. CASE \E id \in Calls : Reply(id)
    BY <2>3 DEF Reply, setup
  <2>4. CASE Close \/ EndOfInput
    BY <2>4 DEF Close, EndOfInput, setup
  <2>5. CASE Handle
    <3>1. (\E f : Configure(f)) => config' = config
      BY <2>1 DEF Configure
    <3>2. CASE UNCHANGED setup \/ config' = config
      BY <3>2 DEF setup
    <3>3. UNCHANGED setup \/ config' = config \/ \E f : Configure(f)
      BY <2>1, <2>5 DEF Handle
    <3>. QED  BY <3>1, <3>2, <3>3
  <2>6. CASE Engine
    BY <2>1, <2>6 DEF Engine, Round, Finish, Take, Decided, Ran, Answered, BadQuestion, RoundDone, setup
  <2>7. CASE UNCHANGED vars
    BY <2>7 DEF vars, setup
  <2>. QED  BY <2>1, <2>2, <2>3, <2>4, <2>5, <2>6, <2>7 DEF Next
<1>. QED  BY <1>1, PTL DEF Spec, ConfigStable
===============================================================================
