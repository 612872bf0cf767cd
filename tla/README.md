# Verification of rapidyenc

TLA+ models of the Go package in this repository: a streaming decoder of yEnc
and UU articles out of NNTP responses, and a streaming yEnc encoder.  Modules
(`*.tla`) and TLC configurations (`*.cfg`) are all in this directory;
`PROJECT.json` maps every definition to the lines of the source it stands for.

    tlc -config MCDecoder.cfg MCDecoder       # a run: see the table below
    tlapm ReadBufferProofs.tla                # a proof

## 1. The system

The package has no goroutines of its own.  What makes it hard is that both
halves are *resumable*: data arrives, or is written, in pieces cut anywhere, and
the pieces must give what the whole would have given.

| component | state | operations | talks to |
|---|---|---|---|
| **read buffer** `readBuffer.go` | `buf`, cursors `start` and `end` | `init`, `window`, `advance`, `compact`, `ensureWriteSpace`, `readMore`, `feedUntilDone` | the `io.Reader`; a `streamFeeder`, called back with the window |
| **response parser** `response.go` | one `Response`: format, flags, sizes, CRC, `state` (the decoder State), the data and its buffer | `feed`, `decode`, `detectFormat`, `processYencHeader`, `ensureData`, `decodeYenc`, `decodeUU`, `metaError` | the kernel; `dataFunc`, the caller's buffer pool |
| **decoder front end** `decoder.go` | the read buffer, the options | `NewDecoder`, `Next` | the two above |
| **portable decoder kernel** `decoder_generic.go` | none between calls but the State | `decodeGeneric`: a loop of labels and gotos, one per State, and two special cases at the end of the slice | called by `decodeYenc`, and by the SIMD wrapper for the ends of a slice |
| **streaming encoder** `encoder.go` | header flag, CRC, column, byte held back, byte count; `writeMu` | `Write`, `Close`, `Reset` | an `io.Writer` that may fail; the kernel |
| **portable encoder kernel** `encoder_generic.go` | none between calls but the column | `encodeGeneric`: batches of 8, single bytes, the ends of a line | called by `Write` |
| **metadata** `meta.go` | sizes and offsets of a part | `validate`, `Begin`, `End` | headers of the encoder |
| **SIMD decoder** `decoder_simd*.go` | within a call: whether the next block begins escaped, which dots of it are dropped, what the tail must know | `decodeSIMD`: an aligned middle, in blocks of 64, between two portable ends; kernels `decodeSIMDAVX2`, `decodeNEON` | called in place of the portable kernel in `goexperiment.simd` builds, and calls it |
| **SIMD encoder** `encoder_simd*.go` | within a call: a biased column | `encodeSIMD`: chunks of two vectors, then a portable tail; kernels `encodeSIMDAVX2`, `encodeNEON` | the same of the portable encoder |
| **CRC combination** `crc32_*.go` | none | `crcUpdate`: four partial CRCs combined | `decodeYenc` on arm64 |
| **C library bindings** `cgo.go`, `*_cgo.go` | none | calls of a C library | cgo builds |
| **platform names** `platform*.go` | none | names of kernels | - |

### What is hard, and what is correct

* **Read buffer.**  A byte of the stream is moved by compaction and growth while
  cursors move; the window must stay exactly the bytes received and not
  consumed.  At its limit, the buffer must reclaim before it grows, grow only when
  full, and give up only when nothing is left to reclaim.  The reader must never
  see an empty slice: `io.Reader` answers that with `(0, nil)`, and the loop would
  spin.
* **Response parser.**  Lines and binary pieces alternate in one stream.  A read
  can end inside a line end, an escape, a stuffed dot, a terminator or `=yend`.
  Pipelined responses share the buffer: a response must take its bytes and not
  one more.  With the last byte of a response in the buffer the decoder must not
  read on: on a connection that blocks for ever, as the server says nothing until
  the next request.  `decodeYenc` gives bytes back by subtraction, which is right
  only when this call consumed them.
* **Decoder kernel.**  One label per State, each with lookahead, `pos--` steps,
  and special code for the last two characters: the result must be that of
  reading the body one character at a time, for all cuts, without running out of
  the slice.
* **Encoder.**  Whether a blank needs an escape depends on whether it ends its
  line, which the `Write` that encodes it does not know: a byte is held back.
  State is changed before the writer, which may fail, is called; `Reset` must
  leave nothing of the article before.
* **Encoder kernel.**  A batch is encoded without a look at the line's end and
  taken back when it ran over; stores are wider than what counts, so the
  estimate of the buffer has to cover more than the output.

* **SIMD decoder.**  What a line end, a dot, an escape or a terminator means
  crosses five seams: from an earlier call, from the unaligned head, from block to
  block, to the tail, and out of the call again.  Each seam carries it in a form of
  its own (State, `escFirst`, `nextMask`, `minMask`, State), and each is exact only
  together with what the other side looks at.  Runs of `=` are resolved by a
  carry.  None of it may show: the result must be the portable one.
* **SIMD encoder.**  A chunk of 64 or 32 bytes is encoded without a look at the
  line's end; how many bytes of the source to give back depends on the escapes
  behind the cut, which two ways to encode a chunk know in different forms.
* **CRC combination.**  The order of the quarters and the constants that shift a
  register over one; wrong ones show in long inputs only.

`PROJECT.json` lists these hazards with their lines and the properties that
cover them, those not covered yet included.

## 2. Modules

The models:

| module | EXTENDS | what it has |
|---|---|---|
| `ReadBuffer` | - | the read buffer, with any parser and any reader |
| `DecodeGeneric` | - | the portable decoder kernel |
| `DecodeReference` | `DecodeGeneric` | what a decoder must compute |
| `Bodies` | `DecodeReference` | bodies of articles, with the reference's readings |
| `BodyReader` | `Bodies` | the abstract specification of a decoder of bodies |
| `DecodeStream` | `Bodies` | the portable kernel, called piece by piece |
| `UULine` | `DecodeGeneric` | a UU line |
| `Response` | `UULine` | the response parser |
| `Decoder` | `ReadBuffer`, `Response`, `DecodeReference` (for properties) | the decoder, in the variables of `ReadBuffer` and its own; it implements `RBSpec` |
| `DecodeSIMD` | `DecodeGeneric` | the vector decoder kernels |
| `CrcCombine` | - | the combination of CRCs |
| `VectorStream` | `Bodies`, `DecodeSIMD`, `CrcCombine` | the vector kernels, called piece by piece; an INSTANCE of `BodyReader` that it implements |
| `EncodeGeneric` | - | the portable encoder kernel |
| `EncodeSIMD` | `EncodeGeneric` | the vector encoder kernels |
| `Encoder` | `EncodeSIMD`, `DecodeGeneric` | the encoder |

`MCDecodeStream`, `MCDecoder`, `MCVectorStream` and `MCEncoder` give them constants.

The proofs, each module extending the model it is about and the modules of
proofs its argument rests on:

| proofs | about | rest on |
|---|---|---|
| `Recursion` | recursive functions that repeat a step until it may stop, or count | - |
| `ReadBufferProofs` | `ReadBuffer` | - |
| `DecodeReferenceProofs` | `DecodeGeneric`: bounds, termination, and that it computes `DecodeReference` | `Recursion` |
| `DecodeStreamProofs` | `DecodeStream` | `DecodeReferenceProofs` |
| `VectorStreamProofs` | `DecodeSIMD`, `VectorStream` | `DecodeReferenceProofs` |
| `DecoderProofs` | `Decoder`, `Response` | `ReadBufferProofs`, `DecodeReferenceProofs` |
| `EncodeGenericProofs` | `DecodeReference` reads what `EncodeGeneric` writes, and its lines | `DecodeReferenceProofs` |
| `EncoderProofs` | `Encoder` with the portable kernel | `EncodeGenericProofs` |

**ReadBuffer** identifies a byte by its position in the stream, so a slot of
`buf` says which byte sits in it, stale bytes included.  `pc` is where
`feedUntilDone` is: one action for each stretch of code between two calls out of
it (of the reader, or of the parser), so `Read` and `Fed` are where the outside
chooses.  In this module the parser and the reader are arbitrary: the parser may
consume any prefix of the window and stop the loop at will, the reader may deliver
any number of bytes with or without an error.  It is therefore also the abstract
specification of what the read buffer promises *any* parser.

**DecodeGeneric** is `decodeGeneric`, label by label.  A configuration `k` has
the label (`at`), the cursor (`pos`), the output, the State and the End; `Step` is
one pass through a label, and `Decode` runs steps to the end.  Bytes keep their
width (`% 256`), so that the subtractions of 42 and 64 wrap.  `dotUnstuffing` is
the constant true in the source; the branches for false are left out.

**DecodeStream** is a body decoded in pieces.  The caller shows the kernel all
that is unread of a growing prefix, drops what it consumed and passes the State
on, as `decodeYenc` and `feedUntilDone` do.

**DecodeReference** is what every decoder must compute: an automaton
(`Transition`) that reads one character at a time, written from what each `State`
means, with no lookahead.  **BodyReader** is the abstract specification on top of
it: a reader that advances through a body in steps of any size, has after each
what the automaton has, and stops at the first end of the data.

**DecodeSIMD** is `decodeSIMD` with both kernels.  A mask is a set of lanes, and a
block is one pass of a kernel's loop: which lanes are special, whether an end of
the data begins in the block (then the kernel stops before it), which `=` escape,
which dots are dropped here and in the next block.  `FixEqMask` keeps the code's
carry, on numbers.  The two kernels differ in their vector instructions, which the
model does not have, and in how far behind a block they look (4 or 16
characters), which moves the boundary between the blocks and the tail.
`DecodeAligned` is given `length` as the code tracks it, which is not always the
length of what is left.

| code | operator |
|---|---|
| `decodeSIMD`: too short; the unaligned head | `DecodeVector` |
| the ends a State has begun; too short for a block | `DecodeAligned`, `EndsBegun` |
| `escFirst`, `nextMask`, the kernel, the State behind it | `WithBlocks`, `DotAhead`, `StateBehind` |
| the portable tail | `WithTail` |
| a kernel: before its loop; a pass; bailing out | `Kernel`, `Straddling`; `Block`; `NextMask` |

**CrcCombine** is `crcUpdate` of arm64, over a register of any width and any
polynomial; registers are sets of bits.

**VectorStream** is `DecodeStream` with `decodeSIMD` and the CRC: one action is one
call of `decodeYenc`'s kernel, on what is unread of a growing prefix, at any
address.

**Response** is the parser's state and what each line, and each piece of a body,
does to it: pure operators on a record.  A line's text is one number, and the
constant `Text` says what the parser finds in it: a status code; the words of a
`=ybegin`, `=ypart` or `=yend`, of which `Extract` takes the first with a key,
as `extractInt` and `extractCRC` do, with the number a word is or the error it
gives; or the characters of a line that can be UU.  Which of them is looked for, in
which state, and what follows is the model.  The characters that matter to the
framing (`\r`, `\n`, `.`, `=`, `y`) are characters of the stream, and reads can
cut between any two of them.  A CRC is the data it is of.

**UULine** is a UU line: the test of `detectFormat` (`LooksLikeUU`), with the panic
of a slice from 1 to 0, and the decoding of `decodeUU` (`UUDecoded`), on the bytes of
the line.

**Decoder** composes: its actions are the iterations of `decode`'s loop, the
returns of `feed` and the calls of the reader, and each of them moves the read
buffer through the actions of `ReadBuffer`, with the real parser and a reader that
delivers a given stream.  A stream comes with the answers that are due for it,
which `MCDecoder` writes down from the content of the articles.

| code | action |
|---|---|
| `feed`, body under way: `decodeYenc` first | `FeedBody` |
| `feed`, otherwise; nothing for a UU body under way | `FeedLines` |
| `decode`: no line end in the window | `NoLine` |
| the line `.` | `Terminator` |
| first line of a response | `ReadStatusLine` |
| other lines, by the format they are found to have | `TextLine`, `UULine`, `YencLine` |
| a header that begins the body, and the rest of the window | `YencBody` |
| `feed` returns to the loop | `FeedReturns` (with `Fed`) |
| `readMore` | `RoomStep`, `ReadStep` |
| `Next` is called, returns | `CallNext`, `NextReturns` |

**EncodeGeneric** is `encodeGeneric` in the same style: one operator for each part
of its loop.  `need` is the highest index stored to, which can be beyond the
output.  The batch of 8 is a constant so that small lines meet it.

**EncodeSIMD** is `encodeSIMD` with both kernels.  A pass encodes a chunk, in one
of the code's two ways; `TakeBackExpanded` and `TakeBackAt` are the two
computations of what to give back when it ran over the line, with the masks and
bit indexes of the code; `need` also counts the whole vectors stored.  The
kernels' line ends differ: `LineEndAVX2` (`encodeEOLHandle`) loads the next chunk
at once or gives up, `LineEndNEON` (`encodeEOLHandlePre`) writes most of the next
chunk itself.

**Encoder** is `Write`, `Close` and `Reset`.  A call holds `writeMu` from its first
look at the state to its return, so one call is one action, and goroutines need
not be told apart; there is one action for each call of the writer that may fail,
with the state that the code has changed by then.  The writer is what it has been
given: headers, body, trailers.  `kernel` is what `init` chose for the machine:
the portable encoder or one of the vector kernels.

## 3. Properties and runs

| run | module, configuration | properties |
|---|---|---|
| `read_buffer` | ReadBuffer, MCReadBuffer.cfg | `RBTypeOK`, `WindowIsStream`, `ReaderHasRoom`, `GivesUpOnlyWhenFull`, `GrowsOnlyWhenFull` |
| `decode_stream` | MCDecodeStream | `TypeOK`, `StaysInBounds`, `SameAsReference`, `StopsAtTheEnd`, `UnreadIsLineEnd`, `DecodesAll` |
| `decoder` | MCDecoder | `TypeOK`, `AnswersAreDue`, `ResponsesKeptApart`, `WaitsOnlyForItsResponse`, `NeverPanics`, `DataFits`, `AllocatedOnce`, `BodyIsRead`, `CallsReturn`, `RBSpec` |
| `encoder` | MCEncoder | `TypeOK`, `IntactUnlessReported`, `NoBlankUnlessFlushed`, `SingleWriteFits`, `BufferSuffices`, `SameUnlessLineEnd` |
| `vector_stream` | MCVectorStream | `TypeOK`, `UnreadIsLineEnd`, `CrcIsOfData`, `ImplementsReader` |

Each property is violated by at least one plausible bug: the operators commented
`Mutant of ...` are these bugs, and `PROJECT.json` pairs them with properties.

`RBSpec`, in `decoder`, is refinement: the composed decoder, seen through the
variables of the read buffer, behaves as `ReadBuffer` allows.  What is proved of
`RBSpec` for every parser therefore applies to the parser of `Response`.

`ImplementsReader`, in `vector_stream`, is one too: the vector decoder implements
`BodyReader`.  `read` is mapped to all that the calls were shown, as a line end
left unread counts as read (its State is `StateCRLF`); behind the end of the data,
to what they consumed.

`BodyIsRead`, in `decoder`, relates each step on a body to the whole of the stream,
which the decoder does not know: `ResultFrom` is what the reference automaton has in
the end if it reads on from a place of the stream, with the State and the data the
Response has.  No step changes it while the body goes on, nor does one pass the
end; and when `feed` leaves the body, the next characters of the stream are the `=y`
or the `.\r\n` with which the reference ends, for the line parser to read.  Growing
the data buffer, slices as short as the room left, compacting, and what
`decodeYenc` gives back are all between the two.

`AnswersAreDue` compares the answers for whole responses with those `MCDecoder`
writes down, and asks of a response that is cut off only for an error: which one
that should be, the documentation and the code do not agree (see 5).

`SameAsPortable` is what `encoder_simd_diff_test.go:11` says of the vector
encoders, and does not hold of the AVX2 kernel (`encoder_line_end`, see 5).
`SameUnlessLineEnd`, in `encoder`, is what does: the same of every call but those of
that kernel whose last byte is the last of its line.

### Bounds, and why they are enough

* `read_buffer`: default 2, limit 5, stream of 8.  The buffer doubles (2, 4), is
  capped (5, not 8), compacts with every offset and gives up; 8 bytes wrap it more
  than once.  The theorems below cover all sizes.
* `decode_stream`: all bodies up to 4 characters over the six classes the kernel
  tells apart, and all those of `X\r\n` and up to 4 more special characters.  The
  longest pattern the kernel looks at is `\r\n.\r\n` or `\r\n.=y`, five
  characters, with one behind it; every cut of each body is tried.
* `decoder`: a response and a `430` behind it, which shows any byte taken too many
  or too few; intact and damaged articles in one part or a part of several, an
  escape, stuffed dots, `=y` within a line, an empty body, wrong sizes and CRCs, a
  size no int64 holds, a file named `size=9`, trailers with the CRC of the part, of
  the file or of both, an article with its headers, and plain multi-line
  responses, with lines that only resemble UU.  Reads of any
  length; a buffer of 4, so it compacts, grows and is full within each stream.
  `YencMaxPartSize`, `YencMinBufferSize` and the margin are 9, 2 and 4 instead of
  some millions, some thousands and 64, and `IntMax` is 20: small enough that each
  clamp applies to some stream, and that the margin added to the largest size wraps.
  The margin has to be at least the three characters the end of the data takes, as the
  real one is.
  Streams that are cut off, at every one of their positions, are read in three bytes
  or multiples where the buffer has room.  UU responses and an article without
  `=yend` have to come whole in one read (see 5): a response before them has a line as
  long, for which the buffer has grown.  UU lines are
  encoded by `UUEncoded`, written after `uuLine` of `baddata_test.go`: a full one of
  45 bytes, short ones of 1, 2 and 3, which leave one, two and no bytes of a group
  empty, one of 14, whose first character is a dot, and lines trimmed or cut off.
  Some responses have no status line (`WithStatusLineAlreadyRead`).
* `encoder`: lines of 8, batches of 4.  With the portable kernel, articles of up to
  6 bytes in up to 3 calls: short writes of every byte the encoder tells apart,
  empty ones included, and articles in one call over a plain byte, a blank and an
  escape, which fill a line with a batch kept or one taken back.  With a vector
  kernel, articles of 18 bytes: a start that brings the column to each place of a
  line and beyond it, and the rest in a second call, plain with all windows of 8
  over a plain byte and an escape, and all pairs of a blank, a dot and an escape
  anywhere.  Vectors have 2 bytes: a chunk of 4 has none, one, or more escapes in
  either vector, is cut by the line's end at each of its places, and lines are two
  chunks long, as the usual 128 is two chunks of 64.  The padding of `maxLength` is
  6, that is 2 and two vectors, as 64 is two vectors of 32.
* `vector_stream`: blocks of 4 lanes, which look 4 or 6 characters ahead; bodies of
  12 to 15 characters with each window of three of the five characters the
  kernels look for: at the beginning, behind three plain characters, and behind
  the `\r\n.` of a dot that begins a line, which gives every terminator.  Any
  cut in two, and all four alignments of each call, so that a window falls on
  each seam.  The register has 16 bits, the quarters are of 2 and 1 bytes instead
  of 2048 and 256, so that calls have chunks of both sizes and a rest.

### Fairness

`Decoder`: weak fairness of the decoder's steps (sequential code, which runs on)
and of the reader's, which delivers what it has; a reader that has delivered its
stream and does not end it (`blocks`) has no step left and need not answer.  No
fairness of the caller: `CallsReturn` says that a call that was made returns.
`DecodeStream`: weak fairness of the next step; a caller that has input shows it.
`VectorStream` is about what the calls compute; that they get to the end of the body
is `DecodesAll` of `DecodeStream`.  `ReadBuffer` and `Encoder` have no liveness property and no fairness: a reader or
writer may block for ever.

`CHECK_DEADLOCK FALSE` is set where the system may stop: a caller that has all
its answers, a body that is decoded.  The other runs check for deadlock.

## 4. Proofs

All theorems hold for every value of the constants that satisfies the named
assumptions.

**Read buffer** (`ReadBufferProofs`).  All the properties of run `read_buffer`:
`TypeCorrect`, `WindowCorrect`, `RoomCorrect`, `GivesUpCorrect`, `GrowthCorrect`.
The argument is one inductive invariant, `IInv`.  Besides the properties it says
that an exhausted window has been reset to the front (`Tidy`), without which
`compact`, which leaves an empty window alone, could not reclaim the space and
`ensureWriteSpace` would grow or give up too early; and that the buffer is
allocated while a call is under way.  Each method of the buffer has a lemma
(`AdvanceBuffer`, `CompactBuffer`, `GrowBuffer`, `EnsureWriteSpaceBuffer`,
`StoreBuffer`) that says what it does to the window; the step theorem
(`NextIInv`) has a case for each action.  Assumption: `SizesAssumption`, of which
only a positive default size matters.

**Loops as functions** (`Recursion`).  `Decode` and `Encode` are the results of
recursive functions, as are `KernelRun` and the masks of `DecodeSIMD`.  Induction
over data is not available to the provers, but least elements of sets of numbers
are: `RepeatExists` shows that such an equation
has a solution when each step lowers a rank, so that `CHOOSE` takes one, and
`RepeatResult` that the result has whatever the step preserves, as the arguments
for which it has not would have one of least rank.  `CountExists` and `UpTo` are
the same for a function that counts to a bound.

**The portable decoder is the reference.**  `DecodeReferenceProofs`: a call never
leaves its slice (`Bounded`, label by label) and ends (`DecodeEnds`: the rank is
what is left of the slice, then the order of the labels).
`CallAgrees`: a call that continues what another one
returned gives what the reference gives, for every text, cut and State; and
`DecodeIsReference`, the same of a whole text.  The two are not in step: the
kernel looks up to three characters ahead, reads the CR behind a `=` twice, drops
a line end as two characters at once, and leaves one at the end of the slice to
the next call.  So the invariant, `Agrees`, says for each label how far the
reference is when the kernel gets there: at a label of a State it is about to read
the next character as that State would (`Continues`); in the loop it may also be
in the middle of a line end that nothing special follows (`MidLineEnd`).  Each label
has a lemma.  `DecodeStreamProofs` carries this through calls on a
growing prefix (`Agreement`), which gives `SameAsReference`, `StopsAtTheEnd` and
`UnreadIsLineEnd`, and `TypeCorrect` and `BoundsCorrect`.  Assumption:
`TraceAssumption`, that the constant `Trace` has the reference's readings;
`TraceExists` proves that there are such readings.

**The vector decoder is the reference.**  `VectorStreamProofs`: `TypeOK`,
`UnreadIsLineEnd` and `ImplementsReader` of `VectorStream`, for both kernels, every
body, every cut and every address, and for blocks of any even width (the code's 64
and the 4 of the run included).  The argument goes by the seams of the code.

* *Runs of `=`.*  `FixEqMaskCorrect`: the sum in `fixEqMask`, whose carry runs
  through each run of `=`, leaves exactly the ones that escape.  A mask as a number
  is defined lane by lane (`Value`), so the carries of the sum can be named and each
  shown to be what the lane before makes it (`SumCarries`).
* *A block.*  `BlockReads`: a block in which no terminator begins is read lane by
  lane without an end, when the State before it does not begin one that the characters
  complete (`GoesOn`).  The lanes that are dots to drop (`DotsFound`) and the ones
  that are escaped are then those of the reference, what is compacted is what it
  appends (`CompactedReads`), and `esc` and `dots` at the end of the block are what
  the State there makes them (`BlockStep`).  At a block in which an end begins the
  kernel stops.
* *The kernel.*  `KernelReads`: it stops where the reference stands before any end,
  with the `next` that the State there makes (`DotCode`), although that was looked up
  before the first block (`Straddling`).
* *Out of the kernel.*  `StateBehind` makes a State of `escFirst` and `nextMask`
  again, which is not always the reference's: `StateNone` for a `StateCRLF` with no
  dot ahead, say.  `SameSoon`: with the four characters that the kernel leaves, and
  no end of the data among them, readings from both are the same within three.
* *Around it.*  A part of the text has a reading of its own, from the State a call
  begins with, that joins the text's from the first character on (`PartJoins`):
  this carries `CallAgrees` to the head and the tail, and `KernelReads` to
  the blocks.  `AlignedReturns` is `DecodeAligned`, where `length` may be smaller
  than what is left by a line end the head has not consumed; `VectorAgrees` is a
  whole call.

The inductive invariant, `VInv`, is that the last call's result is what the
reference has (`Reaches`), the types, and that the bound on the calls is met only
with all of the body shown.  That no more is produced than consumed is not
inductive: it follows from the agreement, as the reference has never produced more
than it has read (`TraceBounds`).  `ImplementsReader` follows too: a call that
has not met the end reads on to what is shown, one that has reads on to where the end
is, which is behind all that was shown before as no end was there.  Assumptions:
`SIMDAssumption`, that a block's width is even and each kernel looks four characters
ahead at least, `TraceAssumption` and `VectorAssumption`.

**The composed decoder implements the read buffer.**  `ImplementsReadBuffer` is
`Spec => RBSpec`, the refinement that run `decoder` checks, now of every parser
constant (`Text`), stream and size.  With it,
`WindowIsTheStream`: what `feed` sees is the part of the stream delivered and not
consumed; `DataFits`: whatever headers declare, and whatever buffer the caller's
pool returns, the kernel is never given room beyond the data buffer; `TypeOK`; and
`BodyIsRead`.  The invariant, `DInv`, has the one of the read buffer
(`IInv`), what goes with each stage of a call (`Places`), and that lines of a
yEnc response are read only outside of its body: the header that begins a body is
a line of its own, whose characters `decodeYenc` cannot give back.  `Sound`, its
part about the Response, has what that needs of `State`: it is never `StateCRLFEQ`
between calls, as an `=` that ends a piece is given back, and it is plain when a body
begins.  The subtraction in `decodeYenc` (see 5) stays an
integer here and its panic a state of the model, so nothing is assumed of streams
but their types (`DecoderAssumption`).

`BodyIsReadHolds` takes `CallAgrees`, about one call of the kernel, to the stream.
`ReadingsMeet` is why it can be done piece by piece: a reading that starts in the
middle, with what another has there, comes to what the other does.  `PieceGoesOn`
and `PieceEnds` are one call: what `decodeYenc` does not give back has been read, and
what it gives back (`=`, `=y`, `.\r\n`) is where the reference finds the end or, for
an `=`, where it reads on as at the beginning of the line.  `PieceStep` is a step with a piece, wherever in the window it begins;
`BodyWaits` one that decodes nothing, and `BodyBegins` the header's: of a window there
is only one first line end (`OneCut`), so no other action can take that line.  Of
the end of an article that is given back though an earlier call has consumed it
(see 5) nothing is claimed: that step panics.

`NeverPanicsElsewhere` says that this step and one more are the only ones that do.
`CutsTerminator` is a window that begins with the rest of a `.\r\n` of which a call
before it has consumed the beginning, in a body; `TriesBlankLine` is the indented line
of section 5.  While the stream has neither, `[]NeverPanics`: what else is given back
is in the piece (`IsCutEnd` in `PieceEnds`), so no slice begins below the window.
Run `decoder` has streams with neither, and run `decoder_no_yend` one with the first.

**What the encoder writes decodes to the data.**  `IntactUnlessReported`,
`BufferSuffices` and `TypeOK` for builds with the portable kernel, for every data,
cut into calls, failing writer, line length and batch.
`EncodeReads` is about one call: behind a text that reads as data, what a call
makes of a slice reads as that slice.  `Encodes(u, d, st)` says that the
reference, reading the text `u`, has decoded `d` and is in State `st`, and that a
blank at the end of `u` stands for the last byte of `d` by itself, so that it may
be replaced by an escape, which `Close` does with the byte held back.
The loop's invariant, `Valid`, holds of a batch that may be taken back as well:
with the text up to where it began (`CanTakeBack`).  How much is stored is
counted with the number of line ends (`Counts`): all but the first are
`LineLength` characters apart at least, so that what is written stays within
`2n + 2 + 2 * (2n div LineLength)`, which `maxLength` covers with two bytes of padding
(`EncoderAssumption`; the code has 66).  `EInv` carries this through calls.  A
finished article ends with a line end and `=y` where the reference finds the end
of the data (`FinishedText`), and `DecodeIsReference` says that the decoder
finds it there too.  `EncoderInvariance` is `Spec => []EInv`; its theorems are of the
form `[](kernel = "generic" => P)`, as the vector kernels are other code.

**The lines of what the encoder writes.**  `NoBlankUnlessFlushed` and
`SingleWriteFits`, for the same builds.  A call keeps its column but not what it
has put on the line, and a line may be the work of several calls, so the invariant is
about the text: `Neat` (no line begins with a blank or a dot, no finished one ends
with a blank), `Near` (how long the line that goes on is) and `Fit` (that no other
is too long).  `Tidy` says of each part of the kernel's loop which of them it can rely
on.  The hard case is the last character of a line: that a blank is escaped there
when the line is filled by one (`LastTidy`), that the line cannot be filled by a
blank in the middle of it (`ScalarTidy`: only a pair gets that far), and that a batch
kept is followed by room for one more character, or taken back (`BatchTidy`).
`EncodeLays` is the result for a whole call.  When the call ends, a blank on the
last character may still become a pair: `LineFits` leaves room for it, and so does
`Near` in the invariant of the encoder, `LInv`.  `LInv` is in two parts,
as the two properties have two exceptions: after an empty `Write` has
flushed a blank nothing is known of the ends of lines, and after a second `Write`
nothing of their lengths, because the column does not count the last character of a
line and the next call adds another behind it.  It is inductive only with `EInv`,
because `EncodeLays` needs that the text reads as data; `LayoutInvariance` is
`Spec => []LInv`.

Only model-checked:

* liveness (`DecodesAll`, `CallsReturn`), which is out of the prover's reach;
* what depends on the content of the streams (`AnswersAreDue`,
  `ResponsesKeptApart`, `WaitsOnlyForItsResponse`, `AllocatedOnce`): the answers due
  are written down stream by stream in `MCDecoder`, and the findings of section 5
  are streams for which they do not hold.  `NeverPanics` is proved of the streams
  that `NeverPanicsElsewhere` names; that those of run `decoder` are such is left to
  TLC;
* the vector encoder kernels (`SameUnlessLineEnd`, and the properties of the encoder
  with them);
* `CrcIsOfData`, as a register is a set of bits and the argument is an induction
  over the length of the data.

## 5. Findings

Each is a counterexample TLC finds in the run named, and the runs' streams do
not depend on the small bounds.  Those of the decoder were found with the
portable kernel (builds without cgo and without `goexperiment.simd`); a kernel
that consumes a line end at the end of a slice would not show `decoder_oversize`.

| run | what the code does |
|---|---|
| `decoder_no_yend` | An article that ends without `=yend`, its terminator cut by a read: `decodeYenc` takes three bytes back (`response.go:382`) though an earlier call has consumed some of them; `decode` then slices with a negative index and panics. |
| `decoder_uu_cut` | Once a UU body is under way, `decode` does nothing (`response.go:72` and `85`): a UU response that takes two reads is never finished. |
| `decoder_oversize` | An article with more data than its headers say: with two bytes of room left, the kernel may be shown just a line end, consumes nothing, and the decoder waits though it has the whole response. |
| `decoder_end_with_data` | A reader that returns its last bytes with `io.EOF` (`readBuffer.go:97`, `125`): they are not parsed, and the response they complete is answered with `io.ErrUnexpectedEOF`. |
| `encoder_line_end` | The vector encoders "must produce identical output and leave the column in the same place" (`encoder_simd_diff_test.go:11`). When the last byte of a `Write` is the last of a line that the AVX2 loop ends, the loop has written the line end and leaves column 0 (`encoder_simd_amd64.go:398-414`), where the portable kernel leaves both to the next call; 130 plain bytes in lines of 65 are such a `Write`. What follows decodes to the same data, and an article that ends there has an empty line before its `=yend`. |
| `encoder_lines` | The last column does not move `col` (`encoder_generic.go:101`): a `Write` that ends there lets the next one put one more character on the line, and so on. |
| `encoder_empty_write` | A `Write` of no bytes flushes the byte held back (`encoder.go:112`), and `Close` no longer escapes it. |

The slice that cuts the terminator in `decoder_no_yend` may also end there because
the data buffer has no room for more, in an article that comes in one read.

The passing runs keep clear of these: `decoder` has no article that holds more than
the room its header makes; its UU responses and its article without `=yend` come
whole, the latter with a header that declares more data than it has; and its readers
end with a read of their own.  `SingleWriteFits` speaks of one call,
`NoBlankUnlessFlushed` of articles in which no empty call has flushed a byte, and
`SameUnlessLineEnd` not of AVX2 calls that end with a line.

Four more, which have no run of their own.  A stream that ends within an article is
answered with `io.ErrUnexpectedEOF` and no response (`decoder.go:64`), whatever has
been decoded.  The comment at `decoder.go:52` promises `ErrDataCorruption` for
"io.EOF or `.\r\n` reached before =yend", and `README.md:75` of the repository that a
"response is also returned even when there is an err".  No property takes a side:
`AnswersAreDue` asks for some error.

A text response (220 or 222) with an indented line panics.  `detectFormat` tries
whether such a line is UU with two lengths; for a line whose first character is a
blank, and which is not all blanks, the second one is 0, and `line[1:length]`
(`response.go:225`) slices from 1 to 0.  Replace the line `!hi` of `TextLines` by
` hi` (32 for 33) in `MCDecoder`, and `NeverPanics` is violated in run `decoder`.

The words of a header are looked for in the file's name too.  A single-part file
named `x part=2 y` is taken for a part of several: the parser waits for a `=ypart`
line, and answers `ErrDataCorruption` for an intact article.  With `Word("part", 2)` in
`Named`, run `decoder` shows it.

The workaround of `decodeUU` for broken encoders (`response.go:431`) never applies:
it gives a larger number of bytes than the first character does, and is tried
only when that is too large already (`Lengths`).

## 6. What is not modelled, and why

* How a word of a header is parsed as a number (`strconv.ParseInt`, `hex.Decode`, the
  padding of a short CRC), and the mode of a `begin` line: inputs, as `Text` says.
* Metadata that nothing depends on: names, messages, part numbers, byte counts.
* The rounding of a grown buffer's capacity to one of the allocator's sizes: the
  model's buffer has the capacity `grow` asks for.
* Line lengths of zero.
* What a caller may do with a `Decoder` after the reader has failed: the package
  does not say.
* Vector instructions: that the tables of `compactLUT`, `shufExpand`, `encShufLUT`
  and the like move bytes where their comments say, and the order of lanes in a
  mask.
* The vector form of `clmul32`, and `hash/crc32`, which is taken to compute a CRC.
* The C library, of which the repository has the header and the archives only, and
  platform names, which have no state.

## 7. Plan

Modules in the order of their importance to the system, all but the last done:

1. `ReadBuffer` with its proofs; 2. `DecodeGeneric` and `DecodeStream`, with the
   proof of the bounds; 3. `Response` with `UULine`, and `Decoder`; 4. `EncodeGeneric` and
   `Encoder`; 5. `DecodeSIMD` and `VectorStream`, which implements `BodyReader`,
   with `CrcCombine`; 6. `EncodeSIMD`, in `Encoder`.
7. The proofs of section 4.
8. Next, in the modules of proofs that there are: that `EncodeVector` is `Encode`, of
   which the line ends and the two ways of taking back are the parts.
