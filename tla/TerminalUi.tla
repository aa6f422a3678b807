------------------------------ MODULE TerminalUi ------------------------------
(***************************************************************************)
(* The terminal interface (dream-engine-tui): one task that polls the      *)
(* engine's future, the channel of its events, and the keyboard.  What the *)
(* user sees is split in two: the scrollback, which the program can only   *)
(* append to (or clear as a whole, on a resize), and the live area, which  *)
(* is drawn again from `ui.transcript` at every turn of the loop.          *)
(*                                                                         *)
(* A text is a number of paragraphs: a paragraph may go to the scrollback  *)
(* once a later one has begun.  Layout, colour and the composer's text are *)
(* left out.                                                               *)
(***************************************************************************)
EXTENDS Naturals, Sequences, SequencesExt, FiniteSets

CONSTANTS Calls,        \* tool call ids, never used twice
          Histories,    \* the transcripts a resumed session can bring
          Interleaved,  \* may a response return to thinking after its text?
          NoCall, MaxEntered, MaxDeltas, MaxResizes, MaxQueue

VARIABLES
    ui,         \* AppState: the transcript and the indices into it
    scroll,     \* the lines in the scrollback, as pieces of entries
    queue,      \* the channel of AgentEvents
    stage,      \* where the engine is
    turn,       \* the calls of the response at hand, with their outcome
    asked,      \* ToolApprovalManager.pending, as a set of calls
    granted,    \* approved without asking: by mode, by an earlier "always"
    pending,    \* is the session still to be initialized?
    entered, deltas, resizes      \* bounds

uiVars == <<ui, scroll, queue, stage, turn, asked, granted, pending, entered, deltas, resizes>>

EntryKinds == {"user", "assistant", "thinking", "tool", "info"}
Statuses == {"queued", "approval", "running", "success", "error", "cancelled"}
Terminal == {"success", "error", "cancelled"}

\* An entry is a paragraph at least.  A resumed session brings entries of which
\* nothing is in the scrollback yet.
Entries == [kind : EntryKinds, status : Statuses, size : Nat \ {0}, offset : Nat]

ASSUME HistoriesAssumption ==
    \A history \in Histories :
        history \in Seq(Entries) /\ \A i \in DOMAIN history : history[i].offset = 0

ASSUME NoCallAssumption == NoCall \notin Calls

Entry(kind, status, size) == [kind |-> kind, status |-> status, size |-> size, offset |-> 0]
Ev(what, c) == [what |-> what, call |-> c]
Stable(e) == e.kind # "tool" \/ e.status \in Terminal

Fresh(history) ==
    [transcript |-> history, committed |-> 0, assistant |-> 0, thinking |-> 0,
     tools |-> [c \in Calls |-> 0], muted |-> {}, approval |-> NoCall, busy |-> FALSE]

-----------------------------------------------------------------------------
(* AppState's handlers, as functions of the state. *)

Push(u, e) == [u EXCEPT !.transcript = Append(@, e)]

Step(u, c, status) ==       \* update_tool_step
    IF u.tools[c] \in DOMAIN u.transcript
    THEN [u EXCEPT !.transcript[u.tools[c]].status = status]
    ELSE [Push(u, Entry("tool", status, 1)) EXCEPT !.tools[c] = Len(u.transcript) + 1]

Grow(u, kind) ==            \* append_stream
    IF u[kind] # 0 THEN [u EXCEPT !.transcript[u[kind]].size = @ + 1]
    ELSE [Push(u, Entry(kind, "success", 1)) EXCEPT ![kind] = Len(u.transcript) + 1]

Unasked(u, c) == [u EXCEPT !.approval = IF @ = c THEN NoCall ELSE @]

Prompted_First(u, c) ==     \* mutant: keeps the prompt already on the screen
    [Step(u, c, "approval") EXCEPT !.approval = IF u.approval = NoCall THEN c ELSE @]

Prompted(u, c) == [Step(u, c, "approval") EXCEPT !.approval = c]

ToolResult(u, c, status) ==
    IF c \in u.muted THEN [u EXCEPT !.muted = @ \ {c}] ELSE Step(u, c, status)

Handled(u, e) ==            \* handle_agent_event
    CASE e.what = "start"     -> [u EXCEPT !.assistant = 0, !.thinking = 0]
      [] e.what \in {"assistant", "thinking"} -> Grow(u, e.what)
      [] e.what = "info"      -> Push(u, Entry("info", "success", 1))
      [] e.what = "call"      -> Step(u, e.call, "queued")
      [] e.what = "request"   -> Prompted(u, e.call)
      [] e.what = "running"   -> Step(Unasked(u, e.call), e.call, "running")
      [] e.what = "cancelled" -> Step(Unasked(u, e.call), e.call, "cancelled")
      [] e.what \in {"done", "failed"} ->
            [Step(u, e.call, IF e.what = "done" THEN "success" ELSE "error")
                EXCEPT !.muted = @ \cup {e.call}]
      [] e.what \in {"success", "error"} -> ToolResult(u, e.call, e.what)

Drained(u, q) == FoldLeft(Handled, u, q)

BeginTurn(u, recognized) ==
    LET begun == [u EXCEPT !.busy = TRUE, !.assistant = 0, !.thinking = 0]
    IN  IF recognized THEN begun ELSE Push(begun, Entry("user", "success", 1))

EndTurn(u) == [u EXCEPT !.busy = FALSE, !.assistant = 0, !.thinking = 0]
CancelTurn(u) == Push(EndTurn(u), Entry("info", "success", 1))

-----------------------------------------------------------------------------
(* What goes to the scrollback. *)

Piece(u, i, to) == [entry |-> i, from |-> u.transcript[i].offset, to |-> to,
                    status |-> u.transcript[i].status]
Whole(u, i) == Piece(u, i, u.transcript[i].size)
Pieces(u, from, to) == [k \in 1..(to - from) |-> Whole(u, from + k)]

CommitAll(s) ==             \* commit_pending_history
    LET n == Len(s.u.transcript)
    IN  [u |-> [s.u EXCEPT !.committed = n], on |-> s.on \o Pieces(s.u, s.u.committed, n)]

CommitStreaming_Whole(s) == \* mutant: commits the growing entry with the others
    IF \/ ~s.u.busy \/ Len(s.u.transcript) <= s.u.committed
       \/ Last(s.u.transcript).kind \notin {"assistant", "thinking"}
    THEN s ELSE CommitAll(s)

\* Only a text that is last can be committed while it grows, and only once
\* every entry before it is settled.
CommitStreaming(s) ==       \* commit_streaming_history, streaming_history_commit
    LET u == s.u
        n == Len(u.transcript)
        grown == u.transcript[n].size - 1
        shown == u.transcript[n].offset
    IN  IF \/ ~u.busy \/ n <= u.committed
           \/ u.transcript[n].kind \notin {"assistant", "thinking"}
           \/ \E i \in (u.committed + 1)..(n - 1) : ~Stable(u.transcript[i])
           \/ (n = u.committed + 1 /\ grown <= shown)
        THEN s
        ELSE [u |-> [u EXCEPT !.committed = n - 1,
                              !.transcript[n].offset = IF grown > @ THEN grown ELSE @],
              on |-> s.on \o Pieces(u, u.committed, n - 1)
                          \o (IF grown > shown THEN <<Piece(u, n, grown)>> ELSE <<>>)]

Unsettled(u) ==
    {i \in {u.assistant, u.thinking} : i # 0}
        \cup {i \in DOMAIN u.transcript : ~Stable(u.transcript[i])}

Replayable(u) ==            \* prepare_history_replay
    IF Unsettled(u) = {} THEN Len(u.transcript)
    ELSE (CHOOSE i \in Unsettled(u) : \A j \in Unsettled(u) : i <= j) - 1

Reflowed(u0) ==             \* reflow_history: the scrollback is written anew
    LET u == [u0 EXCEPT !.committed = 0,
                !.transcript = [i \in DOMAIN u0.transcript |->
                                    [u0.transcript[i] EXCEPT !.offset = 0]]]
    IN  [u |-> [u EXCEPT !.committed = Replayable(u)], on |-> Pieces(u, 0, Replayable(u))]

Now == [u |-> ui, on |-> scroll]
Show(s) == ui' = s.u /\ scroll' = s.on

-----------------------------------------------------------------------------
(* The engine, as far as the interface sees it. *)

engineVars == <<stage, turn, asked, entered, deltas, granted, pending, resizes>>
Emit(es) == queue' = queue \o es
Room == Len(queue) < MaxQueue      \* how far a response runs ahead of the loop

NewTurn == [calls |-> <<>>, at |-> 0, ran |-> {}, texts |-> FALSE]

StreamStart ==
    /\ stage = "run" /\ Room
    /\ stage' = "stream"
    /\ turn' = NewTurn
    /\ Emit(<<Ev("start", NoCall)>>)
    /\ UNCHANGED <<ui, scroll, asked, entered, deltas, granted, pending, resizes>>

Delta(kind) ==
    /\ stage = "stream" /\ deltas < MaxDeltas /\ Room
    /\ kind = "thinking" => Interleaved \/ ~turn.texts
    /\ turn' = [turn EXCEPT !.texts = @ \/ kind = "assistant"]
    /\ deltas' = deltas + 1
    /\ Emit(<<Ev(kind, NoCall)>>)
    /\ UNCHANGED <<ui, scroll, stage, asked, entered, granted, pending, resizes>>

ToolUse(c) ==
    /\ stage = "stream" /\ Room
    /\ c \notin ToSet(turn.calls) /\ ui.tools[c] = 0 /\ Ev("call", c) \notin ToSet(queue)
    /\ turn' = [turn EXCEPT !.calls = Append(@, c)]
    /\ Emit(<<Ev("call", c)>>)
    /\ UNCHANGED <<ui, scroll, stage, asked, entered, deltas, granted, pending, resizes>>

\* The response is complete: its calls are run one after another, or, when it
\* was cut at the token limit, dropped.
ResponseEnds ==
    /\ stage = "stream"
    /\ \/ turn.calls # <<>> /\ stage' = "tools"
          /\ turn' = [turn EXCEPT !.at = 1, !.texts = FALSE]
       \/ stage' = "over" /\ turn' = NewTurn
    /\ UNCHANGED <<ui, scroll, queue, asked, entered, deltas, granted, pending, resizes>>

Current == turn.calls[turn.at]

Request ==      \* execute_tool_calls_with_approval
    /\ stage = "tools" /\ turn.at <= Len(turn.calls) /\ ~granted /\ Room
    /\ stage' = "waiting"
    /\ asked' = asked \cup {Current}
    /\ Emit(<<Ev("request", Current)>>)
    /\ UNCHANGED <<ui, scroll, turn, entered, deltas, granted, pending, resizes>>

Execute(outcome) ==     \* the tool may run for long: its end is a step of its own
    /\ stage = "running"
    /\ stage' = "tools"
    /\ turn' = [turn EXCEPT !.at = @ + 1,
                            !.ran = IF outcome = "done" THEN @ \cup {Current} ELSE @]
    /\ Emit(<<Ev(outcome, Current)>>)
    /\ UNCHANGED <<ui, scroll, asked, entered, deltas, granted, pending, resizes>>

RunGranted ==
    /\ stage = "tools" /\ turn.at <= Len(turn.calls) /\ granted /\ Room
    /\ stage' = "running"
    /\ Emit(<<Ev("running", Current)>>)
    /\ UNCHANGED <<ui, scroll, turn, asked, entered, deltas, granted, pending, resizes>>

Results(ran) == [i \in DOMAIN turn.calls |->
                    Ev(IF turn.calls[i] \in ran THEN "success" ELSE "error", turn.calls[i])]

RoundEnds ==
    /\ stage = "tools" /\ turn.at > Len(turn.calls)
    /\ stage' \in {"run", "over"}
    /\ Emit(Results(turn.ran))
    /\ turn' = NewTurn
    /\ UNCHANGED <<ui, scroll, asked, entered, deltas, granted, pending, resizes>>

-----------------------------------------------------------------------------
(* The terminal's loop. *)

Submit(recognized) ==       \* Enter on a line that is no application command
    /\ stage = "idle" /\ entered < MaxEntered
    /\ entered' = entered + 1
    /\ pending' = (pending /\ recognized)
    /\ Show(CommitAll([Now EXCEPT !.u = BeginTurn(ui, recognized)]))
    /\ IF recognized THEN stage' = "over" /\ Emit(<<Ev("info", NoCall)>>)
                     ELSE stage' = "run" /\ UNCHANGED queue
    /\ turn' = NewTurn
    /\ UNCHANGED <<asked, deltas, granted, resizes>>

SessionFails ==             \* init_session's error ends the program
    /\ stage = "idle" /\ pending
    /\ stage' = "exit"
    /\ UNCHANGED <<ui, scroll, queue, turn, asked, entered, deltas, granted, pending, resizes>>

Receive ==
    /\ stage # "exit" /\ queue # <<>>
    /\ queue' = Tail(queue)
    /\ LET s == [Now EXCEPT !.u = Handled(ui, Head(queue))]
       IN  IF stage = "idle" THEN Show(s) ELSE Show(CommitStreaming(s))
    /\ UNCHANGED engineVars

Finish_Undrained(outcome) ==    \* mutant: commits on what was handled so far
    /\ stage = "over"
    /\ Show(CommitAll([Now EXCEPT !.u = EndTurn(ui)]))
    /\ stage' = "idle"
    /\ UNCHANGED <<queue, turn, asked, entered, deltas, granted, pending, resizes>>

Finish(outcome) ==
    /\ stage = "over"
    /\ queue' = <<>>
    /\ LET drained == Drained(ui, queue)
       IN  CASE outcome = "ok"    -> Show(CommitAll([Now EXCEPT !.u = EndTurn(drained)]))
             [] outcome = "error" ->
                  Show(CommitAll([Now EXCEPT !.u =
                    Push([drained EXCEPT !.busy = FALSE], Entry("info", "success", 1))]))
             [] outcome = "abort" -> Show([Now EXCEPT !.u = [drained EXCEPT !.busy = FALSE]])
    /\ stage' = IF outcome = "abort" THEN "exit" ELSE "idle"
    /\ UNCHANGED <<turn, asked, entered, deltas, granted, pending, resizes>>

InTurn == stage \notin {"idle", "exit"}

\* Keys at a prompt.  approve and resolve remove the request; the engine that
\* waits for it goes on.
Answer(choice) ==
    /\ InTurn /\ ui.approval # NoCall
    /\ LET c == ui.approval
           waited == stage = "waiting" /\ c = Current /\ c \in asked
           s == CommitStreaming([Now EXCEPT !.u.approval = NoCall])
       IN  /\ Show(s)
           /\ asked' = asked \ {c}
           /\ granted' = (granted \/ (choice = "always" /\ c \in asked))
           /\ IF ~waited THEN UNCHANGED <<stage, turn, queue>>
              ELSE IF choice = "deny"
              THEN /\ stage' = "tools" /\ turn' = [turn EXCEPT !.at = @ + 1]
                   /\ Emit(<<Ev("cancelled", c)>>)
              ELSE /\ stage' = "running" /\ UNCHANGED turn
                   /\ Emit(<<Ev("running", c)>>)
    /\ UNCHANGED <<entered, deltas, pending, resizes>>

\* abort_current_turn answers the calls of a response that has no results yet;
\* the events it and the dropped engine left are handled before the commit.
Cancel ==
    /\ InTurn
    /\ LET denied == [ui EXCEPT !.approval = NoCall]
           orphans == IF stage \in {"tools", "waiting", "running"} THEN Results({}) ELSE <<>>
       IN  Show(CommitAll([Now EXCEPT !.u = Drained(CancelTurn(denied), queue \o orphans)]))
    /\ asked' = asked \ {ui.approval}
    /\ queue' = <<>>
    /\ stage' = "idle" /\ turn' = NewTurn
    /\ UNCHANGED <<entered, deltas, granted, pending, resizes>>

\* An application command leaves a note, at once in the scrollback;
\* /permissions yolo lets every later call run unasked.
Command(yolo) ==
    /\ stage = "idle" /\ entered < MaxEntered /\ entered' = entered + 1
    /\ granted' = (granted \/ yolo)
    /\ Show(CommitAll([Now EXCEPT !.u = Push(ui, Entry("info", "success", 1))]))
    /\ UNCHANGED <<queue, stage, turn, asked, deltas, pending, resizes>>

\* /new and /resume: the old session's events are dropped with its transcript,
\* and the new one is written to the scrollback; or the switch fails.
Switch(history) ==
    /\ stage = "idle" /\ entered < MaxEntered /\ entered' = entered + 1
    /\ \/ /\ Show(CommitAll([u |-> Fresh(history), on |-> <<>>]))
          /\ queue' = <<>> /\ pending' = (history = <<>>)
       \/ /\ Show([Now EXCEPT !.u = Push(ui, Entry("info", "success", 1))])
          /\ UNCHANGED <<queue, pending>>
    /\ UNCHANGED <<stage, turn, asked, deltas, granted, resizes>>

Resize ==
    /\ stage # "exit" /\ resizes < MaxResizes
    /\ resizes' = resizes + 1
    /\ IF InTurn THEN Show(CommitStreaming(Reflowed(ui))) ELSE Show(Reflowed(ui))
    /\ UNCHANGED <<queue, stage, turn, asked, entered, deltas, granted, pending>>

UiInit ==
    /\ ui = Fresh(<<>>) /\ scroll = <<>> /\ queue = <<>>
    /\ stage = "idle" /\ turn = NewTurn
    /\ asked = {} /\ granted = FALSE /\ pending = TRUE
    /\ entered = 0 /\ deltas = 0 /\ resizes = 0

UiNext ==
    \/ StreamStart \/ \E kind \in {"assistant", "thinking"} : Delta(kind)
    \/ \E c \in Calls : ToolUse(c)
    \/ ResponseEnds \/ Request \/ RunGranted \/ RoundEnds
    \/ \E outcome \in {"done", "failed"} : Execute(outcome)
    \/ \E recognized \in BOOLEAN : Submit(recognized)
    \/ SessionFails \/ Receive \/ Cancel \/ Resize
    \/ \E yolo \in BOOLEAN : Command(yolo)
    \/ \E outcome \in {"ok", "error", "abort"} : Finish(outcome)
    \/ \E choice \in {"once", "always", "deny"} : Answer(choice)
    \/ \E history \in Histories : Switch(history)

UiSpec == UiInit /\ [][UiNext]_uiVars

-----------------------------------------------------------------------------
\* Types, and that every index the interface keeps is inside the transcript.
UiTypeOK ==
    /\ \A i \in DOMAIN ui.transcript :
          /\ ui.transcript[i].kind \in EntryKinds /\ ui.transcript[i].status \in Statuses
          /\ ui.transcript[i].offset \in 0..ui.transcript[i].size
    /\ ui.committed \in 0..Len(ui.transcript)
    /\ {ui.assistant, ui.thinking} \cup {ui.tools[c] : c \in Calls} \subseteq 0..Len(ui.transcript)
    /\ ui.muted \subseteq Calls /\ ui.approval \in Calls \cup {NoCall}
    /\ stage \in {"idle", "run", "stream", "tools", "waiting", "running", "over", "exit"}
    /\ asked \subseteq Calls /\ {granted, pending} \subseteq BOOLEAN

\* Every paragraph is in the scrollback once or in the live area, never in
\* both and never in neither, across commits, cancels, resizes and switches.
EachPieceOnce ==
    \A i \in DOMAIN ui.transcript :
        LET at == {k \in DOMAIN scroll : scroll[k].entry = i}
            reached == IF i <= ui.committed THEN ui.transcript[i].size
                       ELSE ui.transcript[i].offset
        IN  /\ at = {} <=> reached = 0
            /\ \A j, k \in at : j..k \subseteq at
            /\ \A k \in at :
                  /\ scroll[k].from = IF k - 1 \in at THEN scroll[k - 1].to ELSE 0
                  /\ k + 1 \notin at => scroll[k].to = reached

\* The scrollback cannot be corrected: a tool's line in it shows the state the
\* tool is in, once the loop is idle and has handled what it was told, and its
\* entries stand in the transcript's order.  (A denied call is "cancelled"
\* until the round's results make it an "error": a resize in between writes
\* the first to the scrollback.)
ScrolledIsFinal ==
    stage = "idle" /\ queue = <<>> =>
        /\ \A k \in DOMAIN scroll :
              LET now == ui.transcript[scroll[k].entry].status
              IN  scroll[k].status = now \/ {scroll[k].status, now} = {"cancelled", "error"}
        /\ \A k \in 1..(Len(scroll) - 1) : scroll[k].entry <= scroll[k + 1].entry

\* While the engine waits for an approval and nothing is on its way, the prompt
\* on the screen is the one for that call: the user can always let it go on.
PromptReachesUser ==
    stage = "waiting" /\ queue = <<>> => ui.approval = Current /\ Current \in asked

=============================================================================
