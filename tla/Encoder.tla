------------------------------ MODULE Encoder ------------------------------
(***************************************************************************)
(* The streaming encoder (encoder.go): Write, Close and Reset of one       *)
(* Encoder, on a writer each call of which may fail.  A call holds writeMu *)
(* from its first look at the state to its return, so that it is one step, *)
(* however many goroutines call; the data of a CRC stands for the CRC.     *)
(*                                                                         *)
(* Calls after Close return errWriterNil and change nothing: they are      *)
(* stuttering steps here.                                                  *)
(***************************************************************************)
EXTENDS EncodeSIMD, DecodeGeneric

CONSTANTS
  Raw,          \* WithRaw
  Kernels,      \* "generic", and the vector kernels of machines that have them
  PartSizes,    \* sizes of the parts that each encodes, Meta.PartSize
  Pieces,       \* what its caller passes to Write behind each length of data
  MaxData,      \* bound: bytes written to an article
  MaxWrites,    \* bound: calls of Write for an article
  WriterFails,  \* the writer may fail
  Slack         \* the padding of maxLength, 2 + 64

ASSUME EncoderAssumption ==
  /\ Raw \in BOOLEAN /\ WriterFails \in BOOLEAN
  /\ Kernels \subseteq {"generic", "AVX2", "NEON"}
  /\ PartSizes \in [Kernels -> SUBSET Nat]
  /\ DOMAIN Pieces = Kernels
  /\ \A which \in Kernels, n \in 0..MaxData : Pieces[which][n] \subseteq Seq(0..255)
  /\ MaxData \in Nat /\ MaxWrites \in Nat /\ Slack \in Nat \ {0, 1}

VARIABLES
  kernel,   \* the kernel of the machine, which init has chosen
  enc,      \* the Encoder
  sink,     \* what the writer has been given: headers, body, trailers
  data,     \* what Write has been given
  writes,   \* how many calls of Write that took
  flushed,  \* an empty Write has written the byte held back
  failed,   \* some call has returned an error
  call      \* the last call of the kernel, and what it did

vars == <<kernel, enc, sink, data, writes, flushed, failed, call>>

\* No call yet: of its src, the column it begins on and the one it leaves, what
\* it makes of src, how much of dest it writes to, and how much there is of it.
NoCall == [src |-> <<>>, from |-> 0, col |-> 0, out |-> <<>>, need |-> 0, room |-> 0]

NewEncoder(size) ==
  [open |-> TRUE, hWritten |-> FALSE, crc |-> <<>>, column |-> 0,
   endByte |-> <<>>, processed |-> 0, partSize |-> size]

NewSink == [headers |-> 0, body |-> <<>>, trailers |-> <<>>]

-----------------------------------------------------------------------------
(* Write                                                                   *)

\* Mutant of MaxLength: no padding.
MaxLengthUnpadded(n) == n * 2 + 2 * ((n * 2) \div LineLength)

\* maxLength; at the usual 128 the quotient is a shift.
MaxLength(n) == n * 2 + Slack + 2 * ((n * 2) \div LineLength)

\* Mutants of HoldsBack: the last byte is written, or kept, whatever it is.
HoldsAnything(out) == TRUE
HoldsNothing(out) == FALSE

\* A blank that ends a Write is kept for the next call, which knows whether
\* it ends the data.
HoldsBack(out) == Last(out) \in Blank

\* The header has been written, or is not to be.
NeedsHeader == ~Raw /\ ~enc.hWritten
WithHeader(e) == [e EXCEPT !.hWritten = ~Raw]

\* The CRC is updated before anything is written.
WithCRC(p) == [enc EXCEPT !.crc = @ \o p]

MayWrite == enc.open /\ writes < MaxWrites

Called(p) ==
  /\ MayWrite
  /\ data' = data \o p
  /\ writes' = writes + 1

WriterFailed == WriterFails /\ failed' = TRUE

WriteFailsAtHeader(p) ==
  /\ Called(p) /\ WriterFailed
  /\ NeedsHeader
  /\ enc' = WithHeader(WithCRC(p))
  /\ UNCHANGED <<sink, flushed, call>>

\* sink once the header has been written, and the byte held back with it.
HeaderWritten ==
  [sink EXCEPT !.headers = IF NeedsHeader THEN @ + 1 ELSE @]
EndByteWritten == [HeaderWritten EXCEPT !.body = @ \o enc.endByte]

WriteFailsAtEndByte(p) ==
  /\ Called(p) /\ WriterFailed
  /\ enc.endByte # <<>>
  /\ enc' = WithHeader(WithCRC(p))
  /\ sink' = HeaderWritten
  /\ UNCHANGED <<flushed, call>>

\* An empty p flushes the byte that was held back.
WriteEmpty(p) ==
  /\ p = <<>> /\ Called(p)
  /\ enc' = [WithHeader(WithCRC(p)) EXCEPT !.endByte = <<>>]
  /\ sink' = EndByteWritten
  /\ flushed' = (flushed \/ enc.endByte # <<>>)
  /\ UNCHANGED <<failed, call>>

\* The rest of Write, when its p is not empty: fail says whether the writer
\* takes what has been encoded.
WriteEncoded(p, fail) ==
  p # <<>> /\ Called(p) /\ \E k \in {encodeIncremental(kernel, p, enc.column)} :
    LET keep == HoldsBack(k.out)
        flush == IF keep THEN SubSeq(k.out, 1, Len(k.out) - 1) ELSE k.out
    IN
    /\ fail => flush # <<>> /\ WriterFails
    /\ enc' = [WithHeader(WithCRC(p)) EXCEPT
                 !.processed = @ + Len(p), !.column = k.col,
                 !.endByte = IF keep THEN <<Last(k.out)>> ELSE <<>>]
    /\ sink' = IF fail THEN EndByteWritten
               ELSE [EndByteWritten EXCEPT !.body = @ \o flush]
    /\ failed' = (failed \/ fail)
    /\ call' = [src |-> p, from |-> enc.column, col |-> k.col, out |-> k.out,
                need |-> k.need, room |-> MaxLength(Len(p))]
    /\ UNCHANGED flushed

-----------------------------------------------------------------------------
\* Close: the writer is dropped, whether or not it took all of the rest.
CloseWith(s, err) ==
  /\ enc.open
  /\ enc' = [enc EXCEPT !.open = FALSE]
  /\ sink' = s
  /\ failed' = (failed \/ err)
  /\ UNCHANGED <<data, writes, flushed, call>>

EndEscaped ==
  IF enc.endByte = <<>> THEN sink
  ELSE [sink EXCEPT !.body = @ \o <<61, enc.endByte[1] + 64>>]

Trailer == [crc |-> enc.crc, size |-> enc.partSize]

Close ==
  CloseWith(IF Raw THEN EndEscaped ELSE [EndEscaped EXCEPT !.trailers = Append(@, Trailer)],
            ~Raw /\ enc.processed # enc.partSize)

CloseFailsAtEndByte ==
  WriterFails /\ enc.endByte # <<>> /\ CloseWith(sink, TRUE)

CloseFailsAtTrailer ==
  WriterFails /\ ~Raw /\ CloseWith(EndEscaped, TRUE)

\* Mutant of Reset: a byte held back survives it.
ResetKeepsEndByte(size) ==
  /\ Raw \/ size > 0
  /\ enc' = [NewEncoder(size) EXCEPT !.endByte = enc.endByte]
  /\ sink' = NewSink
  /\ data' = <<>>
  /\ writes' = 0
  /\ flushed' = FALSE /\ failed' = FALSE
  /\ call' = NoCall

\* Reset to a new writer, for a part that passes validate.
Reset(size) ==
  /\ Raw \/ size > 0
  /\ enc' = NewEncoder(size)
  /\ sink' = NewSink
  /\ data' = <<>>
  /\ writes' = 0
  /\ flushed' = FALSE /\ failed' = FALSE
  /\ call' = NoCall

Init ==
  /\ kernel \in Kernels
  /\ enc \in {NewEncoder(size) : size \in {n \in PartSizes[kernel] : Raw \/ n > 0}}
  /\ sink = NewSink
  /\ data = <<>>
  /\ writes = 0
  /\ flushed = FALSE /\ failed = FALSE
  /\ call = NoCall

Write ==
  /\ MayWrite
  /\ \E p \in {q \in Pieces[kernel][Len(data)] : Len(data) + Len(q) <= MaxData} :
       \/ WriteFailsAtHeader(p) \/ WriteFailsAtEndByte(p)
       \/ WriteEmpty(p)
       \/ \E fail \in BOOLEAN : WriteEncoded(p, fail)

Next ==
  /\ \/ Write
     \/ Close \/ CloseFailsAtEndByte \/ CloseFailsAtTrailer
     \/ \E size \in PartSizes[kernel] : Reset(size)
  /\ UNCHANGED kernel

Spec == Init /\ [][Next]_vars

-----------------------------------------------------------------------------
\* The types of the variables; the column stays within the line, or one past
\* it behind an escape.
TypeOK ==
  /\ enc.open \in BOOLEAN /\ enc.hWritten \in BOOLEAN
  /\ enc.column \in 0..LineLength+1
  /\ enc.endByte \in {<<>>} \cup {<<b>> : b \in Blank}
  /\ enc.processed \in 0..MaxData /\ enc.partSize \in PartSizes[kernel]
  /\ sink.body \in Seq(0..255) /\ sink.headers \in Nat
  /\ data \in Seq(0..255) /\ writes \in 0..MaxWrites
  /\ flushed \in BOOLEAN /\ failed \in BOOLEAN
  /\ kernel \in Kernels
  /\ call \in [src : Seq(0..255), from : 0..LineLength+1, col : 0..LineLength+1,
              out : Seq(0..255), need : Nat, room : Nat]

Closed == ~enc.open /\ ~failed

\* When no call has returned an error the writer has an article that decodes to
\* what Write was given, however it was cut into calls: with one header, with
\* the size and the CRC of the data in its trailer, and with a "=y" only there.
IntactUnlessReported ==
  Closed =>
    LET k == Decode(sink.body \o LineEnd \o <<EQ, Y>>, "CRLF") IN
    /\ k.out = data /\ k.end = "control"
    /\ ~Raw => sink.headers = 1
                /\ sink.trailers = <<[crc |-> data, size |-> Len(data)]>>

BeginsLine(i) == i = 1 \/ (i > 2 /\ SubSeq(sink.body, i - 2, i - 1) = LineEnd)
EndsLine(i) ==
  LET n == Len(sink.body) IN
  i = n \/ (i < n - 1 /\ SubSeq(sink.body, i + 1, i + 2) = LineEnd)

EdgesAreClean ==
  \A i \in 1..Len(sink.body) :
    /\ sink.body[i] \in Blank => ~BeginsLine(i) /\ ~EndsLine(i)
    /\ sink.body[i] = Dot => ~BeginsLine(i)

\* No line of a finished body begins or ends with a tab or a space, which relays
\* strip, or begins with a dot, which they would stuff: although Write must
\* decide whether a blank is the last of the line before it sees what follows.
NoBlankAtLineEdges == Closed => EdgesAreClean

\* That holds of the code as long as no empty Write flushes the byte held back.
NoBlankUnlessFlushed == ~flushed => NoBlankAtLineEdges

\* No line is longer than the configured length, with one more for an escape
\* that falls on its end.
LinesFit ==
  \A i \in 0..Len(sink.body) - (LineLength + 2) :
    \E j \in i+1..i+LineLength+2 : sink.body[j] \in {13, 10}

\* The same of an article written by one call: a batch that runs over the end
\* of the line is taken back.
SingleWriteFits == writes <= 1 => LinesFit

\* maxLength is enough for everything a call stores in the buffer: whole vectors,
\* what is taken back and the fourth byte of a line end included.  The NEON kernel
\* stores without a look at the buffer's length.
BufferSuffices == call.need <= call.room

\* For the same data and column a vector kernel leaves the output and the column
\* that encodeGeneric leaves ("for the same input, line size and starting column
\* they must produce identical output and leave the column in the same place",
\* encoder_simd_diff_test.go:11), wherever an escape falls in a vector and on a line.
SameAsPortable ==
  call.src # <<>> =>
    LET k == Encode(call.src, call.from) IN
    call.out = k.out /\ call.col = k.col

\* The last byte of the call's src is the last of its line, which is why
\* encodeGeneric does not move the column for it.
LastByteEndsLine ==
  Len(call.src) > 1 /\ Encode(Front(call.src), call.from).col = Encode(call.src, call.from).col

\* That holds of the code but for AVX2 calls whose last byte is the last of a line.
SameUnlessLineEnd == ~(kernel = "AVX2" /\ LastByteEndsLine) => SameAsPortable
=============================================================================
