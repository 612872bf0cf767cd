------------------------------ MODULE Decoder ------------------------------
(***************************************************************************)
(* The decoder as its caller sees it (decoder.go): Next calls feedUntilDone*)
(* (module ReadBuffer) with a new Response, whose feed (response.go) parses*)
(* the window line by line and body piece by body piece (module Response). *)
(* A step is one line, one piece of a body, or one call of the reader,     *)
(* which delivers the stream in pieces of any size.                        *)
(***************************************************************************)
EXTENDS ReadBuffer, Response, DecodeReference

CONSTANTS
  Streams,     \* what the server sends: the bytes, the answers due, where
               \* the responses end, and how the reader delivers them
  PoolCaps     \* capacities of the buffers dataFunc returns, 0: none

\* What a call of Next returns: nothing but the error when the stream has ended
\* before the response, else what has been parsed of it, and an error or none.
Answers ==
  [err : {"ErrUnexpectedEOF"}]
    \cup [err : {"none", "tooBig", "readError", "ErrDataMissing",
                 "ErrDataCorruption", "ErrCrcMismatch"},
          code : Codes, format : {"unknown", "yenc", "uu"}, lines : Nat,
          data : Seq(Byte), bad : BOOLEAN]

ASSUME DecoderAssumption ==
  /\ \A s \in Streams :
       /\ s.bytes \in Seq(Characters)
       /\ s.statusRead \in BOOLEAN
       /\ s.answers \in Seq(Answers)
  /\ PoolCaps \subseteq Nat

VARIABLES
  stream,   \* the one being read
  resp,     \* the Response of the current call
  stage,    \* where Response.feed is
  read,     \* decode: how much of the window it has consumed
  answers   \* what the calls of Next have returned

decoderVars == <<stream, resp, stage, read, answers>>
vars == <<rbVars, decoderVars>>

Stages == {"none", "feed", "lines", "return", "panic", "answer"}

input == stream.bytes

-----------------------------------------------------------------------------
(* Response.feed and Response.decode, on the window of the read buffer     *)

Window == [i \in 1..Pending(rb) |-> input[rb.buf[rb.start + i - 1]]]

\* What decode has not looked at yet.
Rest == SubSeq(Window, read + 1, Len(Window))

\* bytes.Cut at the first line end: the line and what follows it, if there is
\* a line end at all.
IsLineEnd(s, i) == s[i] = CR /\ s[i+1] = LF
FirstLineEnds(s) ==
  {i \in 1..Len(s)-1 : IsLineEnd(s, i) /\ \A j \in 1..i-1 : ~IsLineEnd(s, j)}

Cuts(s) == {[line |-> SubSeq(s, 1, i - 1), after |-> SubSeq(s, i + 2, Len(s))] :
              i \in FirstLineEnds(s)}

Parsing == pc = "feed" /\ UNCHANGED <<rbVars, stream, answers>>

\* A body under way goes on; a slice taken from below the window panics.
FeedBody ==
  /\ Parsing /\ stage = "feed"
  /\ resp.body /\ resp.format = "yenc"
  /\ \E d \in {DecodeYenc(resp, Window, pooled) : pooled \in PoolCaps} :
       /\ resp' = d.resp
       /\ read' = d.n
       /\ stage' = CASE d.n < 0 -> "panic"
                     [] d.n >= 0 /\ d.resp.body -> "return"
                     [] OTHER -> "lines"

\* Otherwise lines are read, unless a UU body is under way.
FeedLines ==
  /\ Parsing /\ stage = "feed"
  /\ ~(resp.body /\ resp.format = "yenc")
  /\ stage' = IF resp.body THEN "return" ELSE "lines"
  /\ read' = 0
  /\ UNCHANGED resp

NoLine ==
  /\ Parsing /\ stage = "lines"
  /\ Cuts(Rest) = {}
  /\ stage' = "return"
  /\ UNCHANGED <<resp, read>>

\* Mutant of ReadLine: one byte more than the line end is consumed.
ReadLineAndByte(line, n) ==
  /\ Parsing /\ stage = "lines"
  /\ read' = read + Len(line) + 3 + n

\* The line is read, and then n bytes of what follows it.
ReadLine(line, n) ==
  /\ Parsing /\ stage = "lines"
  /\ read' = read + Len(line) + 2 + n

IsTerminator(line) == line = <<DOT>>

IsStatusLine(line) ==
  /\ ~IsTerminator(line)
  /\ resp.format = "unknown" /\ ~resp.statusRead
  /\ resp.code = 0 /\ Len(Chars(line)) > 2

\* Mutant of Terminator: the rest of the window is taken for consumed.
TerminatorTakesAll ==
  \E cut \in Cuts(Rest) :
    /\ Parsing /\ stage = "lines"
    /\ IsTerminator(cut.line)
    /\ resp' = [resp EXCEPT !.eof = TRUE]
    /\ read' = Len(Window)
    /\ stage' = "return"

Terminator ==
  \E cut \in Cuts(Rest) :
    /\ ReadLine(cut.line, 0) /\ IsTerminator(cut.line)
    /\ resp' = [resp EXCEPT !.eof = TRUE]
    /\ stage' = "return"

ReadStatusLine ==
  \E cut \in Cuts(Rest) :
    /\ ReadLine(cut.line, 0) /\ IsStatusLine(cut.line)
    /\ resp' = StatusLine(resp, cut.line)
    /\ stage' = IF resp'.eof THEN "return" ELSE "lines"

\* Any other line, once the format has been looked for in it.
Detected(line) ==
  IF resp.format = "unknown" THEN DetectFormat(resp, line) ELSE resp

IsOtherLine(line, format) ==
  /\ ~IsTerminator(line) /\ ~IsStatusLine(line)
  /\ Detected(line).format = format

TextLine ==
  \E cut \in Cuts(Rest) :
    /\ ReadLine(cut.line, 0) /\ IsOtherLine(cut.line, "unknown")
    /\ resp' = [Detected(cut.line) EXCEPT !.lines = @ + 1]
    /\ stage' = IF DetectPanics(resp, cut.line) THEN "panic" ELSE stage

UULine ==
  \E cut \in Cuts(Rest) :
    /\ ReadLine(cut.line, 0) /\ IsOtherLine(cut.line, "uu")
    /\ resp' = DecodeUU(Detected(cut.line), cut.line)
    /\ UNCHANGED stage

\* A line of a yEnc response outside of the body.
YencLine ==
  \E cut \in Cuts(Rest) :
    /\ ReadLine(cut.line, 0) /\ IsOtherLine(cut.line, "yenc")
    /\ resp' = ProcessYencHeader(Detected(cut.line), cut.line)
    /\ ~resp'.body
    /\ UNCHANGED stage

\* A header that begins the body, of which the rest of the window is a piece.
YencBody ==
  \E cut \in Cuts(Rest) :
    /\ IsOtherLine(cut.line, "yenc")
    /\ \E r \in {ProcessYencHeader(Detected(cut.line), cut.line)} :
         /\ r.body
         /\ \E d \in {DecodeYenc(r, cut.after, pooled) : pooled \in PoolCaps} :
              /\ ReadLine(cut.line, d.n)
              /\ resp' = d.resp
              /\ stage' = IF d.resp.body THEN "return" ELSE "lines"

\* feed returns to feedUntilDone.
FeedReturns ==
  /\ stage = "return"
  /\ Fed(read, CASE ~resp.eof -> "none"
                 [] resp.eof /\ MetaError(resp) = "none" -> "done"
                 [] OTHER -> "parseError")
  /\ stage' = IF pc' = "idle" THEN "answer" ELSE "feed"
  /\ read' = 0
  /\ UNCHANGED <<stream, resp, answers>>

-----------------------------------------------------------------------------
(* The reader: all of the stream in pieces, or in the pieces it must keep  *)
(* together, then io.EOF, with the last piece or after it, or silence.     *)

\* A reader that keeps the pieces it is given together stops at their ends, and
\* within one only when there is no room for more of it.
Piece(n) ==
  stream.pieces # {} =>
    \/ received + n \in stream.pieces
    \/ n = rb.len - rb.end /\ \A at \in stream.pieces : at \notin received+1..received+n

ReadStream(at, then) ==
  \/ \E n \in 1..Len(input) :
       /\ received + n <= Len(input) /\ Piece(n)
       /\ Read(at, then, n,
               IF stream.reader = "eofWithData" /\ received + n = Len(input)
                 THEN "EOF" ELSE "none")
  \/ /\ received = Len(input)
     /\ stream.reader # "blocks"
     /\ Read(at, then, 0, "EOF")

\* readMore: room is made first.
RoomStep(at, then) ==
  /\ EnsureWriteSpace(at, then)
  /\ stage' = IF pc' = "idle" THEN "answer" ELSE stage
  /\ UNCHANGED <<stream, resp, read, answers>>

ReadStep(at, then) ==
  /\ ReadStream(at, then)
  /\ stage' = IF pc' = "idle" THEN "answer" ELSE stage
  /\ UNCHANGED <<stream, resp, read, answers>>

-----------------------------------------------------------------------------
(* Next                                                                    *)

\* Mutant of Answer: the end of the stream is taken for that of the response.
AnswerAtEOF(r, how) ==
  [err   |-> CASE how \in {"done", "EOF"} -> "none"
               [] how = "parseError" -> MetaError(r)
               [] OTHER -> how,
   code  |-> r.code, format |-> r.format, lines |-> r.lines,
   data  |-> r.data, bad |-> r.badData]

\* What the caller gets for the response: nothing at all when the stream ended
\* before it, else what was parsed and the error.
Answer(r, how) ==
  IF how = "EOF" /\ ~r.eof THEN [err |-> "ErrUnexpectedEOF"]
  ELSE [err   |-> CASE how \in {"done", "EOF"} -> "none"
                    [] how = "parseError" -> MetaError(r)
                    [] OTHER -> how,
        code  |-> r.code, format |-> r.format, lines |-> r.lines,
        data  |-> r.data, bad |-> r.badData]

\* The caller asks for as many responses as it sent requests.
CallNext ==
  /\ stage = "none"
  /\ Len(answers) < Len(stream.answers)
  /\ Call
  /\ resp' = NewResponse(stream.statusRead)
  /\ stage' = "feed"
  /\ read' = 0
  /\ UNCHANGED <<stream, answers>>

NextReturns ==
  /\ stage = "answer"
  /\ answers' = Append(answers, Answer(resp, outcome))
  /\ stage' = "none"
  /\ UNCHANGED <<rbVars, stream, resp, read>>

Init ==
  /\ RBInit
  /\ stream \in Streams
  /\ resp = NewResponse(stream.statusRead)
  /\ stage = "none"
  /\ read = 0
  /\ answers = <<>>

DecoderStep ==
  \/ FeedBody \/ FeedLines
  \/ NoLine \/ Terminator \/ ReadStatusLine
  \/ TextLine \/ UULine \/ YencLine \/ YencBody
  \/ FeedReturns
  \/ LoopHead /\ UNCHANGED decoderVars
  \/ RoomStep("fill", "fillRead")
  \/ RoomStep("more", "moreRead")
  \/ NextReturns

ReaderStep ==
  \/ ReadStep("fillRead", "feed")
  \/ ReadStep("moreRead", "loop")

Next == CallNext \/ DecoderStep \/ ReaderStep

\* The decoder is sequential code and runs on; the reader delivers what it has.
Spec == Init /\ [][Next]_vars /\ WF_vars(DecoderStep) /\ WF_vars(ReaderStep)
-----------------------------------------------------------------------------
\* The types of the variables; feed never reports more than it was shown, and
\* Next never returns the bare end of the stream.
TypeOK ==
  /\ RBTypeOK
  /\ stream \in Streams
  /\ stage \in Stages
  /\ read \in Int
  /\ stage \in {"feed", "lines", "return"} => read \in 0..Pending(rb)
  /\ resp \in Responses
  /\ answers \in Seq(Answers) /\ Len(answers) <= Len(stream.answers)

\* The calls of Next return the responses of the stream, in order, with their
\* data and the error each deserves, wherever the reads cut the stream.  Of a
\* response that the stream does not hold to its end they return some error: "if
\* err == nil then response.Data contains the decoded response" (src/README.md:74).
Whole(i) == stream.ends[i] <= Len(input)
AnswersAreDue ==
  \A i \in 1..Len(answers) :
    IF Whole(i) THEN answers[i] = stream.answers[i] ELSE answers[i].err # "none"

\* A call takes from the stream the bytes of its response and not one more:
\* what is in the buffer behind them is left for the next call.
ResponsesKeptApart ==
  stage = "none" /\ answers # <<>> /\ Whole(Len(answers)) =>
    delivered = stream.ends[Len(answers)]

\* The decoder waits for the reader only while the response is incomplete.
\* With its last byte in the buffer it finishes without reading on, which on a
\* connection would block until the next request.
WaitsOnlyForItsResponse ==
  pc \in ReadLocs => received < stream.ends[Len(answers) + 1]

\* feed never panics: decode never takes back what it has already consumed, and
\* the test for a UU line stays within the line.
NeverPanics == stage # "panic"

\* The stream from character n of the window on; what reading it character by
\* character gives, if a body goes on there with the State and the data there are.
StreamFrom(n) == SubSeq(input, delivered + n + 1, Len(input))
ReadingFrom(n) == Reading(StreamFrom(n), At(resp.state, resp.data))
ResultFrom(n) == Outcome(StreamFrom(n), At(resp.state, resp.data))

InBody == resp.body /\ resp.format = "yenc" /\ stage \in {"feed", "return"}

\* Where in the window the piece of a body is that the next step decodes.
BeginsBody(line) ==
  /\ IsOtherLine(line, "yenc")
  /\ ProcessYencHeader(Detected(line), line).body
PieceFrom ==
  CASE InBody -> {read}
    [] stage = "lines" ->
         {read + Len(cut.line) + 2 : cut \in {c \in Cuts(Rest) : BeginsBody(c.line)}}
    [] OTHER -> {}

\* By the reading t the end of the data is in the next characters, n characters
\* behind where t began; it has the State and the data there are.
EndsNext(t, n) ==
  LET at == delivered + read
      ended(e) == [state |-> resp.state, out |-> resp.data, end |-> e]
  IN  \/ /\ SubSeq(input, at + 1, at + 2) = <<EQ, Y>>
         /\ t[n+1].end = "none" /\ t[n+2] = ended("control")
      \/ /\ SubSeq(input, at + 1, at + 3) = <<DOT, CR, LF>>
         /\ t[n+2].end = "none" /\ t[n+3] = ended("article")

\* What a step does to a body that goes on at from: n characters more are decoded.
BodyReadFrom(from) ==
  \A t \in {ReadingFrom(from)}, result \in {ResultFrom(from)},
     n \in {delivered' + read' - delivered - from} :
    /\ InBody' => n \in DOMAIN t /\ t[n].end = "none" /\ ResultFrom(read)' = result
    /\ stage' = "lines" => n \in DOMAIN t /\ EndsNext(t, n)'

\* A body is decoded as reading it character by character from behind its header
\* would: while it goes on, each step leaves the result unchanged that reading all
\* of it will have, and does not pass its end.  When it ends, what has been decoded
\* is that result, and the line parser goes on with the end of the data.
BodyIsRead == [][\A from \in PieceFrom : BodyReadFrom(from)]_vars

\* What is decoded fits the data buffer, although a call of the kernel is given
\* as much of the window as there is room for, whatever the window holds.
DataFits == resp.cap # -1 => Len(resp.data) <= resp.cap

\* The data buffer is allocated once, for the size the headers declare, unless
\* the article holds more than they do: the margin is enough to see the end of
\* the data.  It is not allocated smaller than declared, up to the limit.
AllocatedOnce ==
  resp.cap # -1 =>
    /\ resp.cap >= AtMost(Declared(resp), YencMaxPartSize)
    /\ Len(resp.data) <= ExpectedSize(resp) - SizeMargin =>
         resp.cap \in {ExpectedSize(resp)} \cup PoolCaps

\* A call of Next returns once the reader has delivered its response: the loop
\* of feed and read never spins, and never waits for what has come.
CallsReturn == (stage = "feed") ~> (stage = "none")
=============================================================================
