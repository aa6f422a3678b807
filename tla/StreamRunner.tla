----------------------------- MODULE StreamRunner -----------------------------
(***************************************************************************)
(* One provider request as the engine sees it (dream-engine-providers):    *)
(* the first request with its retries, the task that decodes the response  *)
(* into a channel (stream_process.rs, one decoder per wire format), sends  *)
(* the request again when nothing was shown (stream_runner.rs, retry.rs),  *)
(* and the engine that folds the channel into a turn (consume_stream) or   *)
(* drops it.                                                               *)
(*                                                                         *)
(* The task looks at the receiver first whenever it is polled, so a step   *)
(* of the task other than Cancel needs the receiver.                       *)
(***************************************************************************)
EXTENDS Naturals, Sequences, FiniteSets

CONSTANTS
    Decoders,           \* which wire formats are explored
    MaxStreamRetries,   \* MAX_STREAM_RETRIES, 2
    MaxConnectRetries,  \* MAX_INITIAL_CONNECT_RETRIES, 2
    MaxServerRetries,   \* length of INITIAL_HTTP_5XX_RETRY_BACKOFFS, 5
    MaxDeltas,          \* bound on the deltas of one response
    Capacity            \* the channel's, 64 in the source

AllDecoders == {"openai", "responses", "ollama", "anthropic", "bedrock"}

ASSUME ConstantsAssumption ==
    /\ Decoders \subseteq AllDecoders
    /\ MaxStreamRetries \in Nat /\ MaxConnectRetries \in Nat
    /\ MaxServerRetries \in Nat /\ MaxDeltas \in Nat
    /\ Capacity \in Nat \ {0}

VARIABLES
    decoder,            \* the wire format of this provider
    phase,              \* where the request is
    initial,            \* run_stream has not handed out the receiver yet
    connects, servers,  \* retries of the request being sent
    attempt,            \* resends of the stream
    request,            \* number of the last request, and of its response
    deltas,             \* deltas the response has brought
    shown,              \* emitted_answer or emitted_content
    done,               \* the finish the response announced: pending or sent
    stopped,            \* message_stop_seen
    channel,            \* events on their way
    receiver,           \* "open" or "gone"
    heard,              \* what consume_stream folded so far
    outcome,            \* what the engine makes of the turn
    whole               \* history: responses the provider finished

sending  == <<connects, servers>>
response == <<deltas, shown, done, stopped>>
engine   == <<receiver, heard, outcome>>
vars == <<decoder, phase, initial, sending, attempt, request, response,
          channel, engine, whole>>

Errors == {"connect", "http", "5xx", "rate", "fatal"}
Kinds  == {"thinking", "answer", "done", "error"}
Event  == [kind : Kinds, from : Nat]
-------------------------------------------------------------------------------
\* retry_policy, per transport.
Resends == IF decoder = "bedrock" THEN 0 ELSE MaxStreamRetries
RetriesConnect == decoder \in {"openai", "responses", "ollama"}

\* What makes a failed response a partial one: for chat completions and
\* Ollama only the answer, for the others the reasoning too.
Shows(kind) == \/ kind = "answer"
               \/ kind = "thinking" /\ decoder \notin {"openai", "ollama"}

\* is_retryable, and is_retryable_resend_error.
Retryable(err) == err \in {"rate", "connect"}
RetryableResend(err) == err = "http" \/ Retryable(err)

\* Mutant of EndsWell: the end of the connection is the end of the answer.
EndsWell_Always == TRUE

\* The connection closed: was this a complete response?
EndsWell == \/ decoder \in {"openai", "ollama"} /\ done # "no"
            \/ decoder = "anthropic" /\ stopped
            \/ decoder = "bedrock"

Room == Len(channel) < Capacity
Emit(kind) == Room /\ channel' = Append(channel, [kind |-> kind, from |-> request])

NewResponse == deltas' = 0 /\ shown' = FALSE /\ done' = "no" /\ stopped' = FALSE
-------------------------------------------------------------------------------
Init == /\ decoder \in Decoders
        /\ phase = "sending" /\ initial = TRUE
        /\ connects = 0 /\ servers = 0 /\ attempt = 0 /\ request = 1
        /\ deltas = 0 /\ shown = FALSE /\ done = "no" /\ stopped = FALSE
        /\ channel = <<>> /\ receiver = "open" /\ heard = <<>>
        /\ outcome = "none" /\ whole = {}

Sending == phase = "sending" /\ receiver = "open"

\* A response: the first one also hands the channel to the engine.
Respond == /\ Sending
           /\ phase' = "streaming" /\ initial' = FALSE
           /\ NewResponse
           /\ UNCHANGED <<decoder, sending, attempt, request, channel, engine, whole>>

\* Mutant of RetrySend: one server retry too many.
RetrySend_OneMore ==
    /\ Sending
    /\ servers <= MaxServerRetries
    /\ servers' = servers + 1 /\ connects' = 0
    /\ request' = request + 1
    /\ UNCHANGED <<decoder, phase, initial, attempt, response, channel, engine, whole>>

\* The errors the request itself is retried for: a connection that was never
\* made, the first time only, and a server error, which starts the count of
\* connection retries afresh.
RetrySend ==
    /\ Sending
    /\ \/ /\ initial /\ RetriesConnect /\ connects < MaxConnectRetries
          /\ connects' = connects + 1 /\ UNCHANGED servers
       \/ /\ servers < MaxServerRetries
          /\ servers' = servers + 1 /\ connects' = 0
    /\ request' = request + 1
    /\ UNCHANGED <<decoder, phase, initial, attempt, response, channel, engine, whole>>

\* Mutant of GoAgain: the attempt is not counted.
GoAgain_Uncounted(retry) ==
    /\ phase' = IF retry /\ attempt < Resends THEN "backoff" ELSE "reporting"
    /\ UNCHANGED attempt

\* Another attempt if the error allows it and one is left.
GoAgain(retry) ==
    IF retry /\ attempt < Resends
    THEN phase' = "backoff" /\ attempt' = attempt + 1
    ELSE phase' = "reporting" /\ UNCHANGED attempt

\* The request failed for good: stream() returns the error, or the resend
\* counts as a failed attempt.
FailSend(err) ==
    /\ Sending
    /\ (err = "connect" /\ initial /\ RetriesConnect) => connects = MaxConnectRetries
    /\ err = "5xx" => servers = MaxServerRetries
    /\ \/ /\ initial
          /\ phase' = "finished" /\ receiver' = "gone" /\ outcome' = "error"
          /\ UNCHANGED <<attempt, heard>>
       \/ /\ ~initial /\ GoAgain(RetryableResend(err))
          /\ UNCHANGED engine
    /\ UNCHANGED <<decoder, initial, sending, request, response, channel, whole>>

Wake == /\ phase = "backoff" /\ receiver = "open"
        /\ phase' = "sending" /\ request' = request + 1
        /\ connects' = 0 /\ servers' = 0
        /\ UNCHANGED <<decoder, initial, attempt, response, channel, engine, whole>>
-------------------------------------------------------------------------------
(* The response, frame by frame, as the decoder of the format takes it.    *)

Streaming == phase = "streaming" /\ receiver = "open"

Delta(kind) == /\ Streaming /\ done = "no" /\ deltas < MaxDeltas
               /\ Emit(kind)
               /\ deltas' = deltas + 1
               /\ shown' = (shown \/ Shows(kind))
               /\ UNCHANGED <<decoder, phase, initial, sending, attempt, request,
                              done, stopped, engine, whole>>

\* Chat completions: finish_reason, kept until [DONE] or the end.
FinishReason == /\ Streaming /\ decoder = "openai" /\ done = "no"
                /\ done' = "pending" /\ whole' = whole \cup {request}
                /\ UNCHANGED <<decoder, phase, initial, sending, attempt, request,
                               deltas, shown, stopped, channel, engine>>

\* [DONE], with or without a finish_reason, and response.completed: the
\* decoder looks no further.
Terminal == /\ Streaming
            /\ \/ decoder = "openai" /\ done = "pending" /\ Emit("done")
               \/ decoder = "openai" /\ done = "no" /\ UNCHANGED channel
               \/ decoder = "responses" /\ Emit("done")
            /\ phase' = "finished" /\ whole' = whole \cup {request}
            /\ UNCHANGED <<decoder, initial, sending, attempt, request, response,
                           engine>>

\* message_delta, or Ollama's done frame: reported at once, then read on.
Finish == /\ Streaming /\ decoder \in {"ollama", "anthropic", "bedrock"}
          /\ done = "no" /\ Emit("done")
          /\ done' = "sent"
          /\ whole' = IF decoder = "anthropic" THEN whole ELSE whole \cup {request}
          /\ UNCHANGED <<decoder, phase, initial, sending, attempt, request,
                         deltas, shown, stopped, engine>>

MessageStop == /\ Streaming /\ decoder = "anthropic" /\ done = "sent" /\ ~stopped
               /\ stopped' = TRUE /\ whole' = whole \cup {request}
               /\ UNCHANGED <<decoder, phase, initial, sending, attempt, request,
                              deltas, shown, done, channel, engine>>

\* An error frame inside the stream: an event for some formats, a failed
\* response for the others.
ErrorEvent == /\ Streaming
              /\ \/ /\ decoder = "responses" /\ phase' = "finished"
                 \/ /\ decoder \in {"anthropic", "bedrock"} /\ done = "no"
                    /\ UNCHANGED phase
              /\ Emit("error")
              /\ UNCHANGED <<decoder, initial, sending, attempt, request, response,
                             engine, whole>>

\* Mutant of Failed: a partial response is as good as an empty one.
Failed_Always(err) == /\ GoAgain(Retryable(err))
                      /\ UNCHANGED <<decoder, initial, sending, request,
                                     response, channel, engine, whole>>

\* FailedPartial is reported; FailedEmpty goes again if it may.
Failed(err) == /\ GoAgain(~shown /\ Retryable(err))
               /\ UNCHANGED <<decoder, initial, sending, request, response,
                              channel, engine, whole>>

ErrorFrame(err) == /\ Streaming /\ decoder \in {"openai", "ollama"}
                   /\ err \in {"rate", "fatal"}
                   /\ Failed(err)

\* The connection broke, or went quiet for the read timeout.
Break == Streaming /\ Failed("connect")

\* The connection closed.  Chat completions flushes a pending finish, Bedrock
\* makes one up if it has seen usage.
Eof == /\ Streaming
       /\ \/ /\ EndsWell
             /\ \/ decoder = "openai" /\ done = "pending" /\ Emit("done")
                \/ decoder = "bedrock" /\ done = "no" /\ Emit("done")
                \/ ~(decoder = "openai" /\ done = "pending") /\ UNCHANGED channel
             /\ phase' = "finished"
             /\ UNCHANGED <<decoder, initial, sending, attempt, request, response,
                            engine, whole>>
          \/ ~EndsWell /\ Failed("connect")

Report == /\ phase = "reporting" /\ receiver = "open"
          /\ Emit("error") /\ phase' = "finished"
          /\ UNCHANGED <<decoder, initial, sending, attempt, request, response,
                         engine, whole>>

\* Mutant of Cancel: only a response being decoded is given up.
Cancel_StreamOnly == /\ receiver = "gone" /\ phase = "streaming"
                     /\ phase' = "finished"
                     /\ UNCHANGED <<decoder, initial, sending, attempt, request,
                                    response, channel, engine, whole>>

\* The receiver is gone: whatever the task was at ends.
Cancel == /\ receiver = "gone" /\ phase # "finished"
          /\ phase' = "finished"
          /\ UNCHANGED <<decoder, initial, sending, attempt, request, response,
                         channel, engine, whole>>
-------------------------------------------------------------------------------
(* The engine.                                                             *)

Waiting == receiver = "open" /\ ~initial

\* consume_stream: an error ends it, anything else is folded in.
Receive == /\ Waiting /\ channel # <<>>
           /\ channel' = Tail(channel)
           /\ IF Head(channel).kind = "error"
              THEN receiver' = "gone" /\ outcome' = "error" /\ UNCHANGED heard
              ELSE /\ heard' = Append(heard, Head(channel))
                   /\ UNCHANGED <<receiver, outcome>>
           /\ UNCHANGED <<decoder, phase, initial, sending, attempt, request,
                          response, whole>>

Closed == /\ Waiting /\ channel = <<>> /\ phase = "finished"
          /\ receiver' = "gone" /\ outcome' = "turn"
          /\ UNCHANGED <<decoder, phase, initial, sending, attempt, request,
                         response, channel, heard, whole>>

\* The host drops the run.
Drop == /\ receiver = "open"
        /\ receiver' = "gone" /\ outcome' = "dropped"
        /\ UNCHANGED <<decoder, phase, initial, sending, attempt, request,
                       response, channel, heard, whole>>
-------------------------------------------------------------------------------
Frame == \/ \E kind \in {"thinking", "answer"} : Delta(kind)
         \/ FinishReason \/ Terminal \/ Finish \/ MessageStop
         \/ ErrorEvent \/ Break \/ Eof
         \/ \E err \in Errors : ErrorFrame(err)

Task == \/ Respond \/ RetrySend \/ Wake \/ Report \/ Cancel \/ Frame
        \/ \E err \in Errors : FailSend(err)

Next == Task \/ Receive \/ Closed \/ Drop

Spec == Init /\ [][Next]_vars

\* Requests and reads time out (http_client.rs), sleeps end, the runtime polls
\* what is ready.  The engine need never be dropped.
FairSpec == Spec /\ WF_vars(Task) /\ WF_vars(Receive \/ Closed)
-------------------------------------------------------------------------------
\* Every variable has its type and no retry counter passes its limit.
TypeOK ==
    /\ decoder \in Decoders
    /\ phase \in {"sending", "streaming", "backoff", "reporting", "finished"}
    /\ initial \in BOOLEAN /\ shown \in BOOLEAN /\ stopped \in BOOLEAN
    /\ connects \in 0..MaxConnectRetries /\ servers \in 0..MaxServerRetries
    /\ attempt \in 0..Resends /\ request \in Nat \ {0}
    /\ deltas \in 0..MaxDeltas /\ done \in {"no", "pending", "sent"}
    /\ channel \in Seq(Event) /\ Len(channel) <= Capacity
    /\ receiver \in {"open", "gone"} /\ heard \in Seq(Event)
    /\ outcome \in {"none", "turn", "error", "dropped"}
    /\ whole \subseteq 1..request

From(kinds) == {heard[i].from : i \in {j \in DOMAIN heard : heard[j].kind \in kinds}}

\* No text or tool call is delivered twice: all the engine has of the answer
\* comes from one response, whatever broke and was sent again.
AnswerOnce == Cardinality(From({"answer"})) <= 1

\* A turn is complete only if the response its answer came from was: a cut-off
\* stream is never an answer (stream_process.rs 307-312, 385-394).  Bedrock,
\* which has no terminal check, is not covered.
TruthfulTurn ==
    (outcome = "turn" /\ decoder # "bedrock") =>
        request \in whole /\ From({"answer"}) \subseteq whole

\* What the engine has of an answer is of one response, and of a whole one where
\* it takes the turn to be over.
DeliveredRight == AnswerOnce /\ TruthfulTurn

\* The requests one call can cost: the first with all its retries, and every
\* resend with those for server errors.
RequestsBounded ==
    request <= (MaxServerRetries + 1) *
                 ((IF RetriesConnect THEN MaxConnectRetries + 1 ELSE 1) + Resends)

\* Retries are counted, and the requests of a call within what they allow.
RetriesCounted == TypeOK /\ RequestsBounded

\* Every request comes to an end: an answer, an error, or the engine going
\* away, and then the task stops too and its connection is released.
StreamEnds == <>(phase = "finished" /\ outcome # "none")
===============================================================================
