----------------------------- MODULE ReadBuffer -----------------------------
(***************************************************************************)
(* The read buffer of the decoder (readBuffer.go) and the loop that drives *)
(* it, feedUntilDone.  Bytes are identified by their position in the       *)
(* stream the reader delivers (1, 2, 3, ...), so the content of the buffer *)
(* says which byte of the stream sits in which slot; 0 is the zero memory  *)
(* of a fresh slice.  The parser (Response.feed) is left arbitrary here:   *)
(* it may consume any prefix of the window it is shown and may stop the    *)
(* loop.  Module Decoder supplies the real one.                            *)
(***************************************************************************)
EXTENDS Integers

CONSTANTS
  OptionSize,          \* length of the buffer made by WithBufferSize, 0: none
  DefaultReadBufSize,  \* defaultReadBufSize
  MaxReadBufSize,      \* maxReadBufSize
  StreamLen            \* bound: bytes the reader can deliver

ASSUME SizesAssumption ==
  /\ OptionSize \in Nat
  /\ DefaultReadBufSize \in Nat \ {0}
  /\ MaxReadBufSize \in Nat
  /\ StreamLen \in Nat

VARIABLES
  rb,         \* the readBuffer: buf (a function on 0..len-1), len, start, end
  received,   \* bytes the reader has delivered so far
  delivered,  \* bytes the parser has consumed so far
  pc,         \* where feedUntilDone is, "idle" outside of a call
  outcome     \* how the last call ended

rbVars == <<rb, received, delivered, pc, outcome>>

ReadLocs == {"fillRead", "moreRead"}
Locs == {"idle", "loop", "fill", "feed", "more"} \cup ReadLocs
Outcomes == {"none", "done", "parseError", "tooBig", "EOF", "readError"}

-----------------------------------------------------------------------------
(* The methods of readBuffer, on the record they work on.                  *)

Fresh(n) == [buf |-> [i \in 0..n-1 |-> 0], len |-> n, start |-> 0, end |-> 0]

\* init: the first call allocates the default size unless an option gave one.
InitBuffer(b) == IF b.len = 0 THEN Fresh(DefaultReadBufSize) ELSE b

Pending(b) == b.end - b.start
HasRoom(b) == b.end < b.len

\* The reset of both cursors when the window is exhausted.
Reset(b) == [buf |-> b.buf, len |-> b.len, start |-> 0, end |-> 0]

\* advance: the parser is done with the first n bytes of the window.
Advance(b, n) ==
  IF n <= 0 THEN b
  ELSE IF b.start + n >= b.end THEN Reset(b)
  ELSE [b EXCEPT !.start = @ + n]

\* Mutant of Compact: start is reset before it is subtracted from end.
CompactStartFirst(b) ==
  IF b.start = 0 \/ b.start = b.end THEN b
  ELSE [b EXCEPT
         !.buf = [i \in 0..b.len-1 |->
                    IF i < Pending(b) THEN b.buf[b.start + i] ELSE b.buf[i]],
         !.start = 0]

\* Mutant of Compact: the window is moved only if half of the buffer is free.
CompactWhenHalfFree(b) ==
  IF 2 * b.start < b.len \/ b.start = b.end THEN b
  ELSE [b EXCEPT
         !.buf = [i \in 0..b.len-1 |->
                    IF i < Pending(b) THEN b.buf[b.start + i] ELSE b.buf[i]],
         !.start = 0,
         !.end = Pending(b)]

\* compact: move the window to the front of the buffer.
Compact(b) ==
  IF b.start = 0 \/ b.start = b.end THEN b
  ELSE [b EXCEPT
         !.buf = [i \in 0..b.len-1 |->
                    IF i < Pending(b) THEN b.buf[b.start + i] ELSE b.buf[i]],
         !.start = 0,
         !.end = Pending(b)]

\* The length a full buffer grows to, capped at the limit.
GrownLen(b) ==
  LET cur == IF b.len = 0 THEN DefaultReadBufSize ELSE b.len
  IN  IF 2 * cur > MaxReadBufSize THEN MaxReadBufSize ELSE 2 * cur

Grow(b) ==
  [buf   |-> [i \in 0..GrownLen(b)-1 |->
                IF i < Pending(b) THEN b.buf[b.start + i] ELSE 0],
   len   |-> GrownLen(b),
   start |-> 0,
   end   |-> Pending(b)]

\* Mutant of TooBig: a buffer that cannot double does not grow to the limit.
TooBigToDouble(b) == ~HasRoom(b) /\ 2 * b.len > MaxReadBufSize

\* Mutant of WithSpace: a buffer that cannot be compacted does not grow.
NeverGrown(b) == IF HasRoom(b) THEN b ELSE Compact(b)

\* ensureWriteSpace, in two parts: the buffer once the reclaimable space has
\* been reclaimed, and the buffer the reader may write to.
Reclaimed(b) == IF ~HasRoom(b) /\ b.start > 0 THEN Compact(b) ELSE b
TooBig(b) == ~HasRoom(Reclaimed(b)) /\ GrownLen(Reclaimed(b)) <= b.len
WithSpace(b) ==
  IF HasRoom(Reclaimed(b)) THEN Reclaimed(b) ELSE Grow(Reclaimed(b))

\* r.Read stores the next n bytes of the stream behind the window.
Store(b, n, from) ==
  [b EXCEPT !.buf = [i \in 0..b.len-1 |->
                       IF i \in b.end..(b.end + n - 1)
                         THEN from + (i - b.end) + 1 ELSE b.buf[i]],
            !.end = @ + n]

-----------------------------------------------------------------------------
(* feedUntilDone                                                           *)

RBInit ==
  /\ rb = Fresh(OptionSize)
  /\ received = 0
  /\ delivered = 0
  /\ pc = "idle"
  /\ outcome = "none"

Return(how) == pc' = "idle" /\ outcome' = how

\* A call of feedUntilDone.
Call ==
  /\ pc = "idle"
  /\ rb' = InitBuffer(rb)
  /\ pc' = "loop"
  /\ outcome' = "none"
  /\ UNCHANGED <<received, delivered>>

\* Loop head: with nothing pending the buffer is reset and filled first.
LoopHead ==
  /\ pc = "loop"
  /\ \/ /\ rb.start = rb.end
        /\ rb' = Reset(rb)
        /\ pc' = "fill"
     \/ /\ rb.start # rb.end
        /\ pc' = "feed"
        /\ UNCHANGED rb
  /\ UNCHANGED <<received, delivered, outcome>>

\* readMore makes room before it blocks in the reader, or gives up.
EnsureWriteSpace(at, then) ==
  /\ pc = at
  /\ \/ /\ TooBig(rb)
        /\ rb' = Reclaimed(rb)
        /\ Return("tooBig")
     \/ /\ ~TooBig(rb)
        /\ rb' = WithSpace(rb)
        /\ pc' = then
        /\ UNCHANGED outcome
  /\ UNCHANGED <<received, delivered>>

\* Mutant of Read: the reader is given buf[start:].
ReadFromStart(at, then, n, err) ==
  /\ pc = at
  /\ n <= rb.len - rb.start
  /\ received + n <= StreamLen
  /\ rb' = Store(rb, n, received)
  /\ received' = received + n
  /\ IF err = "none" THEN pc' = then /\ UNCHANGED outcome ELSE Return(err)
  /\ UNCHANGED delivered

\* The reader delivers n bytes and an error or none: what it delivered is
\* kept either way, and an error ends the call at once.
Read(at, then, n, err) ==
  /\ pc = at
  /\ n <= rb.len - rb.end
  /\ received + n <= StreamLen
  /\ rb' = Store(rb, n, received)
  /\ received' = received + n
  /\ IF err = "none" THEN pc' = then /\ UNCHANGED outcome ELSE Return(err)
  /\ UNCHANGED delivered

\* Mutant of Fed: the loop goes on with what is buffered without progress.
FedWithoutProgress(n, result) ==
  /\ pc = "feed"
  /\ delivered' = delivered + n
  /\ rb' = Advance(rb, n)
  /\ IF result # "none" THEN Return(result)
     ELSE /\ pc' = IF rb'.start < rb'.end THEN "loop" ELSE "more"
          /\ UNCHANGED outcome
  /\ UNCHANGED received

\* The parser returns: it consumed n bytes of the window, and either wants
\* more, or is done, or failed.
Fed(n, result) ==
  /\ pc = "feed"
  /\ delivered' = delivered + n
  /\ LET b == Advance(rb, n) IN
     \/ /\ result # "none"
        /\ rb' = b
        /\ Return(result)
     \/ /\ result = "none"
        /\ n > 0 /\ b.start < b.end
        /\ rb' = b
        /\ pc' = "loop"
        /\ UNCHANGED outcome
     \/ /\ result = "none"
        /\ ~(n > 0 /\ b.start < b.end)
        /\ rb' = IF n = 0 /\ Pending(b) > 0 THEN Compact(b) ELSE b
        /\ pc' = "more"
        /\ UNCHANGED outcome
  /\ UNCHANGED received

ReadAny(at, then) ==
  \E n \in 0..StreamLen, err \in {"none", "EOF", "readError"} :
    Read(at, then, n, err)

FedAny ==
  \E n \in 0..Pending(rb), result \in {"none", "done", "parseError"} :
    Fed(n, result)

RBNext ==
  \/ Call
  \/ LoopHead
  \/ EnsureWriteSpace("fill", "fillRead")
  \/ EnsureWriteSpace("more", "moreRead")
  \/ ReadAny("fillRead", "feed")
  \/ ReadAny("moreRead", "loop")
  \/ FedAny

RBSpec == RBInit /\ [][RBNext]_rbVars

-----------------------------------------------------------------------------
\* A buffer: its length, its slots and two cursors in order.
IsBuffer(b) ==
  /\ b.len \in Nat /\ b.start \in Nat /\ b.end \in Nat
  /\ b = [buf |-> b.buf, len |-> b.len, start |-> b.start, end |-> b.end]
  /\ b.buf \in [0..b.len-1 -> Nat]
  /\ b.start <= b.end /\ b.end <= b.len

\* The window of b holds the bytes of the stream that follow the first n.
HoldsFrom(b, n) == \A i \in 0..Pending(b)-1 : b.buf[b.start + i] = n + i + 1

\* The types of the variables and the order of the two cursors.
RBTypeOK ==
  /\ IsBuffer(rb)
  /\ received \in Nat /\ delivered \in Nat
  /\ pc \in Locs
  /\ outcome \in Outcomes

\* The window (readBuffer.window) is exactly the part of the stream that has
\* been received and not yet consumed, in order: compaction, growth and the
\* reset of the cursors neither lose, repeat nor move a byte.
WindowIsStream ==
  /\ received = delivered + Pending(rb)
  /\ HoldsFrom(rb, delivered)

\* The reader is never called with an empty slice, which io.Reader answers
\* with (0, nil) and the loop would answer by calling it again for ever.
ReaderHasRoom == pc \in ReadLocs => HasRoom(rb)

\* ensureWriteSpace gives up only when undelivered bytes fill the whole
\* buffer and the buffer cannot grow: never while space could be reclaimed.
GivesUpOnlyWhenFull ==
  outcome = "tooBig" => Pending(rb) = rb.len /\ rb.len >= MaxReadBufSize

\* The buffer grows only when its whole length is taken by bytes the parser
\* still needs, at most to double its length, and never beyond the limit
\* unless WithBufferSize asked for it.
GrowsOnlyWhenFull ==
  [][rb'.len # rb.len /\ rb.len > 0 =>
       Pending(rb) = rb.len /\ rb'.len <= 2 * rb.len
                            /\ rb'.len <= MaxReadBufSize]_rbVars
=============================================================================
