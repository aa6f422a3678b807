---------------------------- MODULE StreamFraming ----------------------------
(***************************************************************************)
(* From bytes to frames (framing.rs, stream_process.rs): a response comes  *)
(* in chunks cut anywhere, inside a character, a line or a block; the      *)
(* decoder makes text of them, and one framer for each format makes frames *)
(* of the text.                                                            *)
(*                                                                         *)
(* A byte is <<c, i>>, the i-th of character c.  "d" and "e" are the       *)
(* prefixes of a data and an event line, "nl" ends a line, "x" has four    *)
(* bytes, "bad" is a byte of no character, "?" what stands for it.  Of a   *)
(* Bedrock stream "m" is a message with a payload and "n" one without.     *)
(***************************************************************************)
EXTENDS Naturals, Sequences, SequencesExt, FiniteSetsExt

CONSTANT Streams        \* format -> the character sequences a server may send

VARIABLES
    wire,               \* the format: "line", "block", "ndjson" or "aws"
    got, rest,          \* bytes received (history), and still to come
    undecoded,          \* Utf8StreamDecoder.pending
    buffer,             \* the framer's; of a Bedrock stream, of bytes
    kind,               \* current_event_type
    frames, closed      \* frames parsed so far; the stream is over

framingVars == <<wire, got, rest, undecoded, buffer, kind, frames, closed>>

Width(c)     == CASE c = "x" -> 4 [] c = "m" -> 3 [] c = "n" -> 2 [] OTHER -> 1
Encoded(s)   == FlattenSeq([j \in DOMAIN s |-> [i \in 1..Width(s[j]) |-> <<s[j], i>>]])
From(s, i)   == SubSeq(s, i, Len(s))
-------------------------------------------------------------------------------
(* The decoder.                                                            *)
\* The j-th byte belongs to a character that is whole among the first n.
Whole(bytes, n, j) ==
    LET first == j - bytes[j][2]
    IN  /\ bytes[j][1] # "bad" /\ j >= bytes[j][2] /\ first + Width(bytes[j][1]) <= n
        /\ \A i \in 1..Width(bytes[j][1]) : bytes[first + i] = <<bytes[j][1], i>>

\* valid_up_to.
ValidUpTo(bytes) ==
    Max({n \in 0..Len(bytes) : \A j \in 1..n : Whole(bytes, n, j)})

\* from_utf8_lossy: one "?" for the bytes of a character that breaks off.
Lossy(bytes) ==
    FlattenSeq([j \in DOMAIN bytes |->
        IF Whole(bytes, Len(bytes), j) THEN IF bytes[j][2] = 1 THEN <<bytes[j][1]>> ELSE <<>>
        ELSE IF j > 1 /\ bytes[j][2] > 1 /\ bytes[j - 1] = <<bytes[j][1], bytes[j][2] - 1>>
        THEN <<>> ELSE <<"?">>])

\* Mutant of Taken: a byte is given up one byte too soon.
Taken_Soon(bytes) ==
    LET n == ValidUpTo(bytes) IN IF n = 0 /\ Len(bytes) > 2 THEN 1 ELSE n

\* push: how many bytes become text.  At most three of a character can be
\* waiting for the rest, so that of more the first is given up.
Taken(bytes) ==
    LET n == ValidUpTo(bytes) IN IF n = 0 /\ Len(bytes) > 3 THEN 1 ELSE n
-------------------------------------------------------------------------------
(* The framers, all of which keep what has no end yet.                     *)
EndOfLines(text) == Max({0} \cup {i \in DOMAIN text : text[i] = "nl"})

\* The last of the blocks, which end with an empty line.
EndOfBlocks(text) ==
    FoldLeft(LAMBDA end, i : IF i > end /\ text[i] = "nl" /\ text[i + 1] = "nl" THEN i + 1 ELSE end,
             0, [i \in 1..Len(text) - 1 |-> i])

\* The messages of Bedrock tell their length at their head.
EndOfMessages(bytes) ==
    Max({0} \cup {j \in DOMAIN bytes : bytes[j][2] = Width(bytes[j][1])})

Lines(text) ==
    LET starts == SetToSortSeq({1} \cup {i + 1 : i \in {j \in DOMAIN text : text[j] = "nl"}}, <)
    IN  [k \in 1..Len(starts) - 1 |-> SubSeq(text, starts[k], starts[k + 1] - 2)]

Frame(event, data) == [event |-> event, data |-> data]
Begins(line, prefix) == line # <<>> /\ line[1] = prefix

\* SseLineFramer.  A line is trimmed first, and a prefix that ends in a space is
\* none without data.
LineFrames(text) ==
    LET found == SelectSeq(Lines(text), LAMBDA l : Begins(l, "d") /\ Len(l) > 1)
    IN  [k \in DOMAIN found |-> Frame(<<>>, Tail(found[k]))]

\* SseBlockFramer.  An event type holds for what follows, in later blocks too.
BlockFrames(event, text) ==
    FoldLeft(LAMBDA s, l :
                CASE Begins(l, "e") -> [s EXCEPT !.event = Tail(l)]
                  [] Begins(l, "d") -> [s EXCEPT !.frames = Append(@, Frame(s.event, Tail(l)))]
                  [] OTHER -> s,
             [event |-> event, frames |-> <<>>], Lines(text))

\* NdjsonFramer.
NdjsonFrames(text) ==
    LET found == SelectSeq(Lines(text), LAMBDA l : l # <<>>)
    IN  [k \in DOMAIN found |-> Frame(<<>>, found[k])]

\* parse_aws_event, bedrock_payload_to_frame.
MessageFrames(bytes) ==
    LET ends == SelectSeq(bytes, LAMBDA b : b = <<"m", 3>>)
    IN  [k \in DOMAIN ends |-> Frame(<<>>, <<"m">>)]

\* Mutant of Kept: a chunk that completes no frame is forgotten.
Kept_Complete(end, text) == IF end = 0 THEN <<>> ELSE From(text, end + 1)

Kept(end, text) == From(text, end + 1)

\* push_text.
PushText(text) ==
    CASE wire = "block" ->
            LET end == EndOfBlocks(text)
                new == BlockFrames(kind, SubSeq(text, 1, end))
            IN  /\ frames' = frames \o new.frames /\ kind' = new.event
                /\ buffer' = Kept(end, text)
      [] wire = "aws" ->
            LET end == EndOfMessages(text)
            IN  /\ frames' = frames \o MessageFrames(SubSeq(text, 1, end))
                /\ buffer' = Kept(end, text) /\ UNCHANGED kind
      [] OTHER ->
            LET end   == EndOfLines(text)
                lines == SubSeq(text, 1, end)
            IN  /\ frames' = frames \o (IF wire = "line" THEN LineFrames(lines)
                                        ELSE NdjsonFrames(lines))
                /\ buffer' = Kept(end, text) /\ UNCHANGED kind
-------------------------------------------------------------------------------
FramingInit ==
    /\ wire \in DOMAIN Streams /\ rest \in {Encoded(s) : s \in Streams[wire]}
    /\ got = <<>> /\ undecoded = <<>> /\ buffer = <<>> /\ kind = <<>> /\ frames = <<>>
    /\ closed = FALSE

\* The next n bytes arrive.
Chunk(n) ==
    LET bytes == undecoded \o SubSeq(rest, 1, n)
        taken == IF wire = "aws" THEN Len(bytes) ELSE Taken(bytes)
    IN  /\ ~closed /\ n <= Len(rest)
        /\ got' = got \o SubSeq(rest, 1, n) /\ rest' = From(rest, n + 1)
        /\ undecoded' = From(bytes, taken + 1)
        /\ PushText(buffer \o (IF wire = "aws" THEN bytes ELSE Lossy(SubSeq(bytes, 1, taken))))
        /\ UNCHANGED <<wire, closed>>

\* The stream ends, where the server is done or the connection closes: flush.
Close ==
    /\ ~closed /\ closed' = TRUE /\ undecoded' = <<>>
    /\ PushText(buffer \o Lossy(undecoded)
                \o (IF wire = "ndjson" THEN <<"nl">> ELSE <<>>))
    /\ UNCHANGED <<wire, got, rest>>

FramingNext == (\E n \in 1..Len(rest) : Chunk(n)) \/ Close
FramingSpec == FramingInit /\ [][FramingNext]_framingVars
-------------------------------------------------------------------------------
FramingTypeOK ==
    /\ wire \in DOMAIN Streams /\ closed \in BOOLEAN
    /\ got \o rest \in {Encoded(s) : s \in Streams[wire]}
    /\ undecoded = IF closed THEN <<>> ELSE From(got, Len(got) - Len(undecoded) + 1)

\* The frames of a text as a whole.
FramesOf(text) ==
    CASE wire = "line"   -> LineFrames(text)
      [] wire = "block"  -> BlockFrames(<<>>, SubSeq(text, 1, EndOfBlocks(text))).frames
      [] wire = "ndjson" -> NdjsonFrames(IF closed THEN Append(text, "nl") ELSE text)
      [] OTHER           -> MessageFrames(text)

\* What a reader sees of frames but for how often a byte of no character shows.
Legible(seq) ==
    [k \in DOMAIN seq |-> [event |-> SelectSeq(seq[k].event, LAMBDA c : c # "?"),
                           data  |-> SelectSeq(seq[k].data,  LAMBDA c : c # "?")]]

\* The frames are those of the bytes as a whole, however they are cut into
\* chunks: at the end of the stream, and before it at once, none held back that
\* is complete, unless a byte of no character was among them (framing.rs 17-24).
FramesWhole ==
    (closed \/ \A j \in DOMAIN got : got[j][1] # "bad") =>
        LET text == IF wire = "aws" THEN got
                    ELSE Lossy(IF closed THEN got ELSE SubSeq(got, 1, ValidUpTo(got)))
        IN  Legible(frames) = Legible(FramesOf(text))
===============================================================================
