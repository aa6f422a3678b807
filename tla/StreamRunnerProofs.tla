--------------------------- MODULE StreamRunnerProofs ---------------------------
(***************************************************************************)
(* Theorems about StreamRunner, for every wire format, every number of     *)
(* retries, deltas and places in the channel.                              *)
(***************************************************************************)
EXTENDS StreamRunner, FiniteSetTheorems, SequenceTheorems, TLAPS

-------------------------------------------------------------------------------
(* What the channel operators do.                                          *)

\* An event of the response being decoded is one more at the end.
LEMMA EmitEvent ==
    ASSUME channel \in Seq(Event), request \in Nat, NEW k \in Kinds, Emit(k)
    PROVE  /\ channel' \in Seq(Event) /\ Len(channel') = Len(channel) + 1
           /\ Len(channel) < Capacity
           /\ channel'[Len(channel) + 1] = [kind |-> k, from |-> request]
           /\ \A i \in 1..Len(channel) : channel'[i] = channel[i]
<1>1. [kind |-> k, from |-> request] \in Event
  BY DEF Event
<1>. QED  BY <1>1 DEF Emit, Room

-------------------------------------------------------------------------------
(* Type correctness.                                                       *)

SendOK == /\ connects \in 0..MaxConnectRetries /\ servers \in 0..MaxServerRetries
          /\ attempt \in 0..Resends
StreamOK == /\ shown \in BOOLEAN /\ stopped \in BOOLEAN /\ initial \in BOOLEAN
            /\ deltas \in 0..MaxDeltas /\ done \in {"no", "pending", "sent"}
            /\ decoder \in Decoders
            /\ phase \in {"sending", "streaming", "backoff", "reporting", "finished"}
ChannelOK == channel \in Seq(Event) /\ Len(channel) <= Capacity
EngineOK == /\ receiver \in {"open", "gone"} /\ heard \in Seq(Event)
            /\ outcome \in {"none", "turn", "error", "dropped"}
RequestOK == request \in Nat \ {0} /\ whole \subseteq 1..request

LEMMA TypeStep == TypeOK /\ [Next]_vars => TypeOK'
<1>. SUFFICES ASSUME SendOK, StreamOK, ChannelOK, EngineOK, RequestOK, [Next]_vars
              PROVE  SendOK' /\ StreamOK' /\ ChannelOK' /\ EngineOK' /\ RequestOK'
  BY DEF TypeOK, Resends, SendOK, StreamOK, ChannelOK, EngineOK, RequestOK
<1>. USE ConstantsAssumption
<1>1. SendOK'
  <2>. USE DEF SendOK, sending, Resends
  <2>1. CASE Respond \/ Report \/ Cancel \/ Receive \/ Closed \/ Drop
    BY <2>1 DEF Respond, Report, Cancel, Receive, Closed, Drop
  <2>2. CASE RetrySend \/ Wake
    BY <2>2 DEF RetrySend, Wake
  <2>3. CASE \E err \in Errors : FailSend(err)
    BY <2>3 DEF FailSend, GoAgain
  <2>4. CASE Frame
    BY <2>4 DEF Frame, Delta, FinishReason, Terminal, Finish, MessageStop, ErrorEvent,
       Break, Eof, ErrorFrame, Failed, GoAgain
  <2>5. CASE UNCHANGED vars
    BY <2>5 DEF vars
  <2>. QED  BY <2>1, <2>2, <2>3, <2>4, <2>5 DEF Next, Task
<1>2. StreamOK'
  <2>. USE DEF StreamOK, response
  <2>1. CASE Respond
    <3>1. shown' \in BOOLEAN /\ stopped' \in BOOLEAN /\ initial' \in BOOLEAN
      BY <2>1, Zenon DEF Respond, NewResponse
    <3>2. /\ deltas' \in 0..MaxDeltas /\ done' = "no" /\ decoder' = decoder
          /\ phase' = "streaming"
      BY <2>1 DEF Respond, NewResponse
    <3>. QED  BY <3>1, <3>2
  <2>8. CASE Report \/ Cancel \/ Receive \/ Closed \/ Drop
    BY <2>8 DEF Report, Cancel, Receive, Closed, Drop
  <2>2. CASE RetrySend \/ Wake
    BY <2>2 DEF RetrySend, Wake
  <2>3. CASE \E err \in Errors : FailSend(err)
    BY <2>3 DEF FailSend, GoAgain
  <2>4. CASE \E kind \in {"thinking", "answer"} : Delta(kind)
    BY <2>4 DEF Delta, Streaming, Shows
  <2>5. CASE FinishReason \/ Terminal \/ Finish \/ MessageStop \/ ErrorEvent
    BY <2>5 DEF FinishReason, Terminal, Finish, MessageStop, ErrorEvent
  <2>6. CASE Break \/ Eof \/ \E err \in Errors : ErrorFrame(err)
    BY <2>6 DEF Break, Eof, ErrorFrame, Failed, GoAgain
  <2>7. CASE UNCHANGED vars
    BY <2>7 DEF vars
  <2>. QED  BY <2>1, <2>2, <2>3, <2>4, <2>5, <2>6, <2>7, <2>8 DEF Next, Task, Frame
<1>3. ChannelOK'
  <2>. USE DEF ChannelOK
  <2>1. ASSUME NEW k \in Kinds, Emit(k) PROVE ChannelOK'
    <3>1. request \in Nat
      BY DEF RequestOK
    <3>2. /\ channel' \in Seq(Event) /\ Len(channel') = Len(channel) + 1
          /\ Len(channel) < Capacity
      BY <2>1, <3>1, EmitEvent
    <3>. QED  BY <3>2
  <2>2. CASE UNCHANGED channel
    BY <2>2
  <2>3. CASE Receive
    BY <2>3 DEF Receive
  <2>. QED  BY <2>1, <2>2, <2>3 DEF Next, Task, Frame, Respond, RetrySend, FailSend, Wake,
            Delta, FinishReason, Terminal, Finish, MessageStop, ErrorEvent, Failed,
            ErrorFrame, Break, Eof, Report, Cancel, Closed, Drop, vars, Kinds
<1>4. EngineOK'
  <2>. USE DEF EngineOK, engine
  <2>1. CASE Receive
    <3>1. Head(channel) \in Event
      BY <2>1 DEF Receive, ChannelOK
    <3>2. Append(heard, Head(channel)) \in Seq(Event)
      BY <3>1
    <3>. QED  BY <2>1, <3>2 DEF Receive
  <2>2. CASE Closed \/ Drop
    BY <2>2 DEF Closed, Drop
  <2>3. CASE \E err \in Errors : FailSend(err)
    BY <2>3 DEF FailSend
  <2>4. CASE UNCHANGED engine
    BY <2>4
  <2>. QED  BY <2>1, <2>2, <2>3, <2>4 DEF Next, Task, Frame, Respond, RetrySend, Wake, Delta,
            FinishReason, Terminal, Finish, MessageStop, ErrorEvent, Failed, ErrorFrame,
            Break, Eof, Report, Cancel, vars
<1>5. RequestOK'
  <2>. USE DEF RequestOK
  <2>a. request \in 1..request /\ 1..request \subseteq 1..(request + 1)
    OBVIOUS
  <2>1. CASE RetrySend \/ Wake
    <3>1. request' = request + 1 /\ whole' = whole
      BY <2>1 DEF RetrySend, Wake
    <3>. QED  BY <2>a, <3>1
  <2>2. CASE FinishReason \/ Terminal \/ Finish \/ MessageStop
    <3>1. request' = request /\ whole' \subseteq whole \cup {request}
      BY <2>2 DEF FinishReason, Terminal, Finish, MessageStop
    <3>. QED  BY <2>a, <3>1
  <2>3. CASE UNCHANGED <<request, whole>>
    BY <2>3
  <2>. QED  BY <2>1, <2>2, <2>3 DEF Next, Task, Frame, Respond, FailSend, Delta, ErrorEvent,
            Failed, ErrorFrame, Break, Eof, Report, Cancel, Receive, Closed, Drop, vars
<1>. QED  BY <1>1, <1>2, <1>3, <1>4, <1>5

\* The model is type correct: no counter of retries passes its limit, and the
\* channel never holds more than it has places for (retry.rs 79-137).
THEOREM StreamTypeCorrect == Spec => []TypeOK
<1>1. Init => TypeOK
  <2>. SUFFICES ASSUME Init PROVE TypeOK
    OBVIOUS
  <2>1. SendOK /\ RequestOK /\ EngineOK /\ ChannelOK
    BY ConstantsAssumption DEF Init, SendOK, RequestOK, EngineOK, ChannelOK, Resends
  <2>2. StreamOK
    <3>1. shown \in BOOLEAN /\ stopped \in BOOLEAN /\ initial \in BOOLEAN
      BY Zenon DEF Init
    <3>2. deltas \in 0..MaxDeltas
      BY ConstantsAssumption DEF Init
    <3>. QED  BY <3>1, <3>2 DEF Init, StreamOK
  <2>. QED  BY <2>1, <2>2 DEF TypeOK, Resends, SendOK, StreamOK, ChannelOK, EngineOK, RequestOK
<1>. QED  BY <1>1, TypeStep, PTL DEF Spec
-------------------------------------------------------------------------------
(* One answer, of a response that was finished.  What was shown of the     *)
(* answer keeps the request from being sent again, so all there is of it   *)
(* is of the last request; and where the task ends without a finished      *)
(* response, an error is on its way to the engine.                         *)

OfThis(s) == \A i \in DOMAIN s : s[i].kind = "answer" => s[i].from = request /\ shown
Failing   == \E i \in DOMAIN channel : channel[i].kind = "error"

AnswersInv == /\ OfThis(channel) /\ OfThis(heard)
              /\ shown => phase \notin {"sending", "backoff"}
WholeInv ==
    /\ (phase = "streaming" /\ decoder \in {"openai", "ollama"} /\ done # "no") =>
          request \in whole
    /\ (phase = "streaming" /\ stopped) => request \in whole
    /\ (phase = "finished" /\ receiver = "open" /\ decoder # "bedrock") =>
          request \in whole \/ Failing
    /\ outcome = "turn" => /\ receiver = "gone" /\ phase = "finished"
                           /\ decoder # "bedrock" => request \in whole

LEMMA EmitOfThis ==
    ASSUME TypeOK, OfThis(channel), NEW k \in Kinds, Emit(k), request' = request,
           shown => shown', k = "answer" => shown'
    PROVE  OfThis(channel)' /\ (k = "error" => Failing')
<1>1. /\ channel' \in Seq(Event) /\ Len(channel') = Len(channel) + 1
      /\ channel'[Len(channel) + 1] = [kind |-> k, from |-> request]
      /\ \A i \in 1..Len(channel) : channel'[i] = channel[i]
  BY EmitEvent DEF TypeOK
<1>2. /\ DOMAIN channel' = 1..(Len(channel) + 1) /\ DOMAIN channel = 1..Len(channel)
      /\ Len(channel) \in Nat
  BY <1>1 DEF TypeOK
<1>3. ASSUME NEW i \in DOMAIN channel', channel'[i].kind = "answer"
      PROVE  channel'[i].from = request' /\ shown'
  <2>1. CASE i = Len(channel) + 1
    BY <1>1, <1>3, <2>1
  <2>2. CASE i \in 1..Len(channel)
    BY <1>1, <1>2, <1>3, <2>2 DEF OfThis
  <2>. QED  BY <1>2, <2>1, <2>2
<1>4. k = "error" => Failing'
  BY <1>1, <1>2 DEF Failing
<1>. QED  BY <1>3, <1>4 DEF OfThis

LEMMA AnswersStep == TypeOK /\ AnswersInv /\ [Next]_vars => AnswersInv'
<1>. SUFFICES ASSUME TypeOK, AnswersInv, [Next]_vars PROVE AnswersInv'
  OBVIOUS
<1>. USE DEF AnswersInv, response, engine
<1>1. ASSUME OfThis(channel), OfThis(heard), ~shown, UNCHANGED <<channel, heard>>
      PROVE  OfThis(channel)' /\ OfThis(heard)'
  BY <1>1 DEF OfThis
<1>2. ASSUME UNCHANGED <<request, heard>>, shown => shown'
      PROVE  OfThis(heard)' /\ (UNCHANGED channel => OfThis(channel)')
  BY <1>2 DEF OfThis
<1>3. CASE Respond \/ RetrySend \/ Wake
  <2>1. ~shown /\ UNCHANGED <<channel, heard>> /\ (shown' => phase' = "streaming")
    BY <1>3 DEF Respond, RetrySend, Wake, Sending, NewResponse
  <2>2. ~shown'
    BY <1>3, <2>1 DEF Respond, RetrySend, Wake, NewResponse
  <2>. QED  BY <1>1, <2>1, <2>2
<1>4. CASE \E err \in Errors : FailSend(err)
  <2>1. ~shown /\ ~shown' /\ UNCHANGED <<request, channel, heard>>
    BY <1>4 DEF FailSend, Sending
  <2>. QED  BY <1>1, <2>1
<1>5. ASSUME NEW kind \in {"thinking", "answer"}, Delta(kind) PROVE AnswersInv'
  <2>1. /\ Emit(kind) /\ kind \in Kinds /\ UNCHANGED <<request, heard, phase>>
        /\ phase = "streaming"
    BY <1>5 DEF Delta, Streaming, Kinds
  <2>2. shown' = (shown \/ Shows(kind))
    BY <1>5 DEF Delta
  <2>3. (shown => shown') /\ (kind = "answer" => shown')
    BY <2>2, Zenon DEF Shows
  <2>. QED  BY <1>2, <2>1, <2>3, EmitOfThis
<1>6. CASE FinishReason \/ Terminal \/ Finish \/ MessageStop \/ ErrorEvent \/ Report
  <2>1. /\ UNCHANGED <<request, heard, shown>> /\ phase' \in {"streaming", "finished"}
        /\ UNCHANGED channel \/ \E k \in Kinds \ {"answer"} : Emit(k)
    BY <1>6 DEF FinishReason, Terminal, Finish, MessageStop, ErrorEvent, Report, Kinds,
       Streaming
  <2>. QED  BY <1>2, <2>1, EmitOfThis
<1>7. CASE Break \/ Eof \/ \E err \in Errors : ErrorFrame(err)
  <2>1. /\ UNCHANGED <<request, heard, shown>> /\ phase' # "sending"
        /\ phase' = "backoff" => ~shown
        /\ UNCHANGED channel \/ Emit("done")
    BY <1>7 DEF Break, Eof, ErrorFrame, Failed, GoAgain
  <2>. QED  BY <1>2, <2>1, EmitOfThis DEF Kinds
<1>8. CASE Receive
  <2>1. /\ channel \in Seq(Event) /\ channel # <<>> /\ channel' = Tail(channel)
        /\ UNCHANGED <<request, shown, phase>>
    BY <1>8 DEF Receive, TypeOK
  <2>2. /\ DOMAIN channel' = 1..(Len(channel) - 1) /\ DOMAIN channel = 1..Len(channel)
        /\ Len(channel) \in Nat \ {0}
        /\ \A i \in DOMAIN channel' : channel'[i] = channel[i + 1]
        /\ Head(channel) = channel[1] /\ channel[1] \in Event
    BY <2>1
  <2>3. OfThis(channel)'
    <3>1. \A i \in DOMAIN channel' : i + 1 \in DOMAIN channel
      BY <2>2
    <3>. QED  BY <2>1, <2>2, <3>1 DEF OfThis
  <2>4. OfThis(heard)'
    <3>1. CASE UNCHANGED heard
      BY <1>2, <2>1, <3>1
    <3>2. CASE heard' = Append(heard, channel[1])
      <4>1. /\ heard \in Seq(Event) /\ DOMAIN heard' = DOMAIN heard \cup {Len(heard) + 1}
            /\ \A i \in DOMAIN heard : heard'[i] = heard[i]
            /\ heard'[Len(heard) + 1] = channel[1]
        BY <2>2, <3>2 DEF TypeOK
      <4>2. 1 \in DOMAIN channel
        BY <2>2
      <4>. QED  BY <2>1, <4>1, <4>2 DEF OfThis
    <3>. QED  BY <1>8, <2>2, <3>1, <3>2 DEF Receive
  <2>. QED  BY <2>1, <2>3, <2>4
<1>9. CASE Cancel \/ Closed \/ Drop \/ UNCHANGED vars
  <2>1. /\ UNCHANGED <<request, heard, shown, channel>>
        /\ phase' \in {phase, "finished"}
    BY <1>9 DEF Cancel, Closed, Drop, vars
  <2>. QED  BY <1>2, <2>1
<1>. QED  BY <1>3, <1>4, <1>5, <1>6, <1>7, <1>8, <1>9 DEF Next, Task, Frame

LEMMA WholeStep == TypeOK /\ AnswersInv /\ WholeInv /\ [Next]_vars => WholeInv'
<1>. SUFFICES ASSUME TypeOK, AnswersInv, WholeInv, [Next]_vars PROVE WholeInv'
  OBVIOUS
<1>. USE DEF WholeInv, response, engine
<1>1. CASE Respond \/ RetrySend \/ Wake
  BY <1>1 DEF Respond, RetrySend, Wake, Sending, NewResponse
<1>2. CASE \E err \in Errors : FailSend(err)
  BY <1>2 DEF FailSend, Sending, GoAgain
<1>3. CASE \E kind \in {"thinking", "answer"} : Delta(kind)
  BY <1>3 DEF Delta, Streaming
<1>4. CASE FinishReason \/ Terminal \/ Finish \/ MessageStop
  BY <1>4 DEF FinishReason, Terminal, Finish, MessageStop, Streaming
<1>5. CASE ErrorEvent \/ Report
  <2>1. Failing'
    BY <1>5, EmitOfThis DEF ErrorEvent, Report, AnswersInv, Kinds
  <2>2. UNCHANGED <<receiver, outcome, request, whole, done, decoder, stopped>>
    BY <1>5 DEF ErrorEvent, Report
  <2>3. phase' = phase \/ phase' = "finished"
    BY <1>5 DEF ErrorEvent, Report
  <2>. QED  BY <2>1, <2>2, <2>3
<1>6. CASE Break \/ Eof \/ \E err \in Errors : ErrorFrame(err)
  <2>1. /\ UNCHANGED <<request, whole, done, stopped, decoder, receiver, outcome>>
        /\ phase = "streaming" /\ phase' # "streaming"
        /\ phase' = "finished" => EndsWell
    BY <1>6 DEF Break, Eof, ErrorFrame, Failed, GoAgain, Streaming
  <2>. QED  BY <2>1 DEF EndsWell
<1>7. CASE Receive
  <2>1. ASSUME Failing, receiver' = "open" PROVE Failing'
    <3>1. /\ channel \in Seq(Event) /\ channel # <<>> /\ channel' = Tail(channel)
          /\ channel[1].kind # "error"
      BY <1>7, <2>1 DEF Receive, Waiting, TypeOK
    <3>2. PICK i \in 2..Len(channel) : channel[i].kind = "error"
      BY <2>1, <3>1 DEF Failing
    <3>3. i - 1 \in DOMAIN channel' /\ channel'[i - 1] = channel[i]
      BY <3>1
    <3>. QED  BY <3>2, <3>3 DEF Failing
  <2>2. /\ UNCHANGED <<phase, request, whole, done, stopped, decoder>>
        /\ receiver' = "open" => receiver = "open" /\ outcome' = outcome
        /\ receiver = "open"
        /\ outcome' \in {outcome, "error"}
    BY <1>7 DEF Receive, Waiting
  <2>. QED  BY <2>1, <2>2
<1>8. CASE Closed
  <2>1. ~Failing
    BY <1>8 DEF Closed, Failing
  <2>. QED  BY <1>8, <2>1 DEF Closed, Waiting
<1>9. CASE Cancel \/ Drop
  BY <1>9 DEF Cancel, Drop
<1>10. CASE UNCHANGED vars
  BY <1>10 DEF vars, Failing
<1>. QED  BY <1>1, <1>2, <1>3, <1>4, <1>5, <1>6, <1>7, <1>8, <1>9, <1>10
          DEF Next, Task, Frame

\* Whatever breaks, is sent again or dropped, what the engine has of the answer
\* comes from one response, and a turn it takes to be over from a response the
\* provider finished, Bedrock excepted (stream_runner.rs 83-108,
\* stream_process.rs 307-312, 385-394).
THEOREM DeliveredRightAlways == Spec => []DeliveredRight
<1>1. Init => AnswersInv /\ WholeInv
  BY DEF Init, AnswersInv, WholeInv, OfThis
<1>2. TypeOK /\ AnswersInv /\ WholeInv => DeliveredRight
  <2>. SUFFICES ASSUME TypeOK, AnswersInv, WholeInv PROVE DeliveredRight
    OBVIOUS
  <2>1. From({"answer"}) \subseteq {request}
    BY DEF From, AnswersInv, OfThis
  <2>2. Cardinality(From({"answer"})) <= 1
    <3>1. IsFiniteSet({request}) /\ Cardinality({request}) = 1
      BY FS_Singleton
    <3>. QED  BY <2>1, <3>1, FS_Subset
  <2>3. TruthfulTurn
    BY <2>1 DEF TruthfulTurn, WholeInv
  <2>. QED  BY <2>2, <2>3 DEF DeliveredRight, AnswerOnce
<1>. QED  BY <1>1, <1>2, AnswersStep, WholeStep, StreamTypeCorrect, PTL DEF Spec
-------------------------------------------------------------------------------
(* How many requests one call can cost.                                    *)

\* What the first request costs in connections for each server error.
Dials == IF RetriesConnect THEN MaxConnectRetries + 1 ELSE 1
Spent(resends) == (MaxServerRetries + 1) * (Dials + resends)

CountInv ==
    /\ initial => /\ phase \in {"sending", "finished"} /\ attempt = 0 /\ connects < Dials
                  /\ request <= servers * Dials + connects + 1
    /\ ~initial /\ phase = "sending" =>
          attempt > 0 /\ request <= Spent(attempt - 1) + servers + 1
    /\ ~initial /\ phase = "backoff" => attempt > 0 /\ request <= Spent(attempt - 1)
    /\ ~initial => request <= Spent(attempt)

\* Each resend costs one request more than the server errors it may meet, and
\* each server error of the first request a round of connections.
LEMMA SpentGrows ==
    ASSUME NEW a \in Nat
    PROVE  /\ Dials \in Nat \ {0} /\ Spent(a) \in Nat
           /\ Spent(a + 1) = Spent(a) + MaxServerRetries + 1
           /\ \A b \in Nat : a <= b => Spent(a) <= Spent(b)
<1>. USE ConstantsAssumption
<1>1. Dials \in Nat \ {0}
  BY DEF Dials
<1>2. \A s, d, n \in Nat : /\ (s + 1) * (d + n) \in Nat
                           /\ (s + 1) * (d + (n + 1)) = (s + 1) * (d + n) + s + 1
  OBVIOUS
<1>3. \A s, d, m, n \in Nat : m <= n => (s + 1) * (d + m) <= (s + 1) * (d + n)
  <2>. SUFFICES ASSUME NEW s \in Nat, NEW d \in Nat, NEW m \in Nat, NEW n \in Nat, m <= n
                PROVE  (s + 1) * (d + m) <= (s + 1) * (d + n)
    OBVIOUS
  <2>1. PICK k \in Nat : n = m + k
    <3>1. n - m \in Nat /\ n = m + (n - m)
      OBVIOUS
    <3>. QED  BY <3>1
  <2>2. (s + 1) * (d + (m + k)) = (s + 1) * (d + m) + (s + 1) * k
    OBVIOUS
  <2>3. (s + 1) * k \in Nat /\ (s + 1) * (d + m) \in Nat
    OBVIOUS
  <2>. QED  BY <2>1, <2>2, <2>3
<1>. QED  BY <1>1, <1>2, <1>3 DEF Spent

LEMMA DialsGrow ==
    ASSUME NEW n \in 0..MaxServerRetries
    PROVE  /\ n * Dials \in Nat /\ (n + 1) * Dials = n * Dials + Dials
           /\ n * Dials + Dials <= Spent(0)
<1>. USE ConstantsAssumption
<1>1. Dials \in Nat
  BY DEF Dials
<1>2. \A d, s, m \in Nat : /\ m * d \in Nat /\ (m + 1) * d = m * d + d
                           /\ s = m + (s - m) /\ (s + 1) * (d + 0) = (s + 1) * d
  OBVIOUS
<1>3. ASSUME NEW d \in Nat, NEW m \in Nat, NEW k \in Nat
      PROVE  (m + 1) * d <= ((m + k) + 1) * d
  <2>1. ((m + k) + 1) * d = (m + 1) * d + k * d
    OBVIOUS
  <2>2. k * d \in Nat /\ (m + 1) * d \in Nat
    OBVIOUS
  <2>. QED  BY <2>1, <2>2
<1>4. MaxServerRetries - n \in Nat /\ n + (MaxServerRetries - n) = MaxServerRetries
  OBVIOUS
<1>5. (n + 1) * Dials <= (MaxServerRetries + 1) * Dials
  BY <1>1, <1>3, <1>4
<1>. QED  BY <1>1, <1>2, <1>5 DEF Spent

LEMMA CountStep == TypeOK /\ CountInv /\ [Next]_vars => CountInv'
<1>. SUFFICES ASSUME TypeOK, CountInv, [Next]_vars PROVE CountInv'
  OBVIOUS
<1>. USE ConstantsAssumption DEF CountInv, sending
<1>a. /\ request \in Nat /\ attempt \in Nat /\ connects \in Nat
      /\ servers \in 0..MaxServerRetries /\ initial \in BOOLEAN
  BY DEF TypeOK, Resends
<1>b. /\ Dials \in Nat \ {0} /\ servers * Dials \in Nat
      /\ (servers + 1) * Dials = servers * Dials + Dials
      /\ servers * Dials + Dials <= Spent(0)
  BY <1>a, SpentGrows, DialsGrow
<1>c. \A a \in Nat : Spent(a) \in Nat /\ Spent(a + 1) = Spent(a) + MaxServerRetries + 1
  BY SpentGrows
<1>d. decoder' = decoder
  BY DEF Next, Task, Respond, RetrySend, FailSend, Wake, Frame, Delta, FinishReason, Terminal,
     Finish, MessageStop, ErrorEvent, Failed, ErrorFrame, Break, Eof, Report, Cancel, Receive,
     Closed, Drop, vars
<1>e. Dials' = Dials /\ \A a \in Nat : Spent(a)' = Spent(a)
  BY <1>d DEF Dials, Spent, RetriesConnect
<1>. HIDE DEF CountInv
<1>1. CASE Respond
  <2>1. phase' = "streaming" /\ initial' = FALSE /\ UNCHANGED <<attempt, request>>
    BY <1>1 DEF Respond
  <2>2. initial => request <= Spent(attempt)
    <3>1. \A p, c, d, m \in Nat : c < d /\ p + d <= m => p + c + 1 <= m
      OBVIOUS
    <3>2. initial => servers * Dials + connects + 1 <= Spent(0)
      BY <1>a, <1>b, <1>c, <3>1 DEF CountInv
    <3>3. initial => attempt = 0 /\ request <= servers * Dials + connects + 1
      BY DEF CountInv
    <3>. QED  BY <1>a, <1>b, <1>c, <3>2, <3>3
  <2>. QED  BY <2>1, <2>2, <1>a, <1>e DEF CountInv, Sending
<1>2. CASE RetrySend
  <2>1. /\ UNCHANGED <<phase, initial, attempt>> /\ phase = "sending"
        /\ request' = request + 1
    BY <1>2 DEF RetrySend, Sending
  <2>2. CASE initial /\ connects' = connects + 1 /\ servers' = servers
    <3>1. connects + 1 < Dials
      BY <1>2, <1>a, <2>2 DEF RetrySend, Dials, TypeOK
    <3>. QED  BY <2>1, <2>2, <3>1, <1>a, <1>b, <1>e DEF CountInv
  <2>3. CASE servers' = servers + 1 /\ connects' = 0
    <3>1. CASE initial
      <4>1. \A r, p, c, d \in Nat : r <= p + c + 1 /\ c < d => r + 1 <= (p + d) + 0 + 1
        OBVIOUS
      <4>2. request + 1 <= (servers * Dials + Dials) + 0 + 1
        BY <1>a, <1>b, <3>1, <4>1 DEF CountInv
      <4>3. servers' * Dials' = servers * Dials + Dials
        BY <2>3, <1>b, <1>e
      <4>. QED  BY <2>1, <2>3, <3>1, <4>2, <4>3, <1>b, <1>e DEF CountInv
    <3>2. CASE ~initial
      <4>1. attempt > 0 /\ request <= Spent(attempt - 1) + servers + 1
        BY <2>1, <3>2 DEF CountInv
      <4>2. /\ Spent(attempt - 1) \in Nat
            /\ Spent(attempt) = Spent(attempt - 1) + MaxServerRetries + 1
        BY <1>a, <1>c, <4>1
      <4>3. request + 1 <= Spent(attempt - 1) + (servers + 1) + 1
        BY <1>a, <4>1, <4>2
      <4>4. servers + 1 <= MaxServerRetries
        BY <1>2, <2>3, <1>a DEF RetrySend
      <4>. QED  BY <2>1, <2>3, <3>2, <4>1, <4>2, <4>3, <4>4, <1>a, <1>e DEF CountInv
    <3>. QED  BY <3>1, <3>2
  <2>. QED  BY <1>2, <2>2, <2>3 DEF RetrySend
<1>3. CASE \E err \in Errors : FailSend(err)
  BY <1>3, <1>a, <1>b, <1>c, <1>e DEF FailSend, GoAgain, Sending, CountInv
<1>4. CASE Wake
  <2>1. /\ ~initial /\ attempt > 0 /\ request <= Spent(attempt - 1)
        /\ phase' = "sending" /\ request' = request + 1 /\ servers' = 0
        /\ UNCHANGED <<initial, attempt>>
    BY <1>4 DEF Wake, CountInv
  <2>2. /\ Spent(attempt - 1) \in Nat
        /\ Spent(attempt) = Spent(attempt - 1) + MaxServerRetries + 1
    BY <1>a, <1>c, <2>1
  <2>. QED  BY <2>1, <2>2, <1>a, <1>e DEF CountInv
<1>5. CASE Frame
  <2>1. ~initial /\ request <= Spent(attempt)
    BY <1>5 DEF Frame, Delta, FinishReason, Terminal, Finish, MessageStop, ErrorEvent, Break,
       Eof, ErrorFrame, Streaming, CountInv
  <2>2. /\ UNCHANGED <<initial, request>> /\ phase' # "sending"
        /\ \/ phase' # "backoff" /\ attempt' = attempt
           \/ attempt' = attempt + 1
    BY <1>5 DEF Frame, Delta, FinishReason, Terminal, Finish, MessageStop, ErrorEvent, Break,
       Eof, ErrorFrame, Streaming, Failed, GoAgain
  <2>3. CASE attempt' = attempt
    BY <2>1, <2>2, <2>3, <1>a, <1>e DEF CountInv
  <2>4. CASE attempt' = attempt + 1
    <3>1. attempt' > 0 /\ attempt' - 1 = attempt /\ Spent(attempt') = Spent(attempt) + MaxServerRetries + 1
      BY <1>a, <1>c, <2>4
    <3>2. request <= Spent(attempt')
      BY <1>a, <1>c, <2>1, <3>1
    <3>. QED  BY <2>1, <2>2, <3>1, <3>2, <1>a, <1>e DEF CountInv
  <2>. QED  BY <2>2, <2>3, <2>4
<1>6. CASE Report \/ Cancel \/ Receive \/ Closed \/ Drop \/ UNCHANGED vars
  BY <1>6, <1>a, <1>e DEF Report, Cancel, Receive, Closed, Drop, vars, CountInv
<1>. QED  BY <1>1, <1>2, <1>3, <1>4, <1>5, <1>6 DEF Next, Task

\* Retries are counted, and what one call costs in requests is at most what its
\* limits allow: for each server error as many connections as may be tried, and for
\* each resend as many requests as server errors (retry.rs 79-137,
\* stream_runner.rs 110-190).
THEOREM RetriesCountedAlways == Spec => []RetriesCounted
<1>1. Init => CountInv
  <2>1. 0 * Dials = 0 /\ Dials \in Nat \ {0}
    BY DialsGrow, SpentGrows, ConstantsAssumption
  <2>. QED  BY <2>1 DEF Init, CountInv
<1>2. TypeOK /\ CountInv => RetriesCounted
  <2>. SUFFICES ASSUME TypeOK, CountInv PROVE RequestsBounded
    BY DEF RetriesCounted
  <2>1. /\ request \in Nat /\ attempt \in Nat /\ Resends \in Nat /\ attempt <= Resends
        /\ connects \in Nat /\ servers \in 0..MaxServerRetries /\ initial \in BOOLEAN
    BY ConstantsAssumption DEF TypeOK, Resends
  <2>2. request <= Spent(attempt)
    <3>1. CASE initial
      <4>1. \A p, c, d, m \in Nat : c < d /\ p + d <= m => p + c + 1 <= m
        OBVIOUS
      <4>2. /\ servers * Dials \in Nat /\ servers * Dials + Dials <= Spent(0)
            /\ Dials \in Nat /\ Spent(0) \in Nat
        BY <2>1, DialsGrow, SpentGrows
      <4>3. servers * Dials + connects + 1 <= Spent(0)
        BY <2>1, <3>1, <4>1, <4>2 DEF CountInv
      <4>. QED  BY <2>1, <3>1, <4>2, <4>3 DEF CountInv
    <3>2. CASE ~initial
      BY <3>2 DEF CountInv
    <3>. QED  BY <3>1, <3>2
  <2>3. Spent(attempt) <= Spent(Resends) /\ Spent(attempt) \in Nat /\ Spent(Resends) \in Nat
    BY <2>1, SpentGrows
  <2>4. request <= Spent(Resends)
    BY <2>1, <2>2, <2>3
  <2>. QED  BY <2>4 DEF RequestsBounded, Spent, Dials
<1>. QED  BY <1>1, <1>2, CountStep, StreamTypeCorrect, PTL DEF Spec
===============================================================================
