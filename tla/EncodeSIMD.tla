----------------------------- MODULE EncodeSIMD -----------------------------
(***************************************************************************)
(* The vector encoders (encoder_simd*.go): encodeSIMD gives the kernel of  *)
(* the machine as much of src as that takes, and what is behind it to      *)
(* encodeGeneric.  A kernel encodes chunks of two vectors without a look   *)
(* at the line's end, and takes back what has run over it.                 *)
(*                                                                         *)
(* In a configuration of a kernel, pos, out and need are as those of       *)
(* encodeGeneric; col is the code's biased column, 0 where the next        *)
(* character is the last of the line; fresh says that the next chunk       *)
(* begins a line, and stop that the kernel has given up.                   *)
(***************************************************************************)
EXTENDS EncodeGeneric, SequencesExt

CONSTANTS
  Vector,    \* bytes of a vector: 32 with AVX2, 16 with NEON
  MinLine,   \* shortest line the AVX2 kernel takes, 16
  ShortSrc   \* a shorter src is for encodeGeneric, 12

ASSUME EncodeSIMDAssumption ==
  /\ Vector \in Nat \ {0} /\ Vector % 2 = 0
  /\ MinLine \in Nat /\ MinLine >= 3 /\ ShortSrc \in Nat

Chunk == 2 * Vector
Lanes == 0..Vector-1

Biased(col) == col - LineLength + 1
Unbiased(col) == col + LineLength - 1

VConfig ==
  [pos : Nat, out : Seq(0..255), col : Int, need : Nat, fresh : BOOLEAN, stop : BOOLEAN]

Larger(m, n) == IF m > n THEN m ELSE n

\* The next n bytes of src have become e, of which line is what is on the line
\* that goes on; stores have reached the end-th byte of dest.
Stored(k, n, e, col, reach) ==
  [k EXCEPT !.pos = @ + n, !.out = @ \o e, !.col = col,
            !.need = Larger(@, Larger(reach, Len(k.out) + Len(e)))]

One(k, e) == Stored(k, 1, e, k.col + Len(e), 0)

-----------------------------------------------------------------------------
(* A chunk.                                                                *)

EncodedLane(src, k, i) ==
  IF i = 0 /\ k.fresh THEN FirstOfLine(src[k.pos + 1]) ELSE InLine(src[k.pos + 1 + i])

\* The lanes of a vector that are escaped, when it begins at lane first.
Escapes(src, k, first) == {i \in Lanes : Len(EncodedLane(src, k, first + i)) = 2}

\* Where the '=' of a vector with these escapes are in what it is encoded to.
Markers(escapes) == {i + Cardinality({j \in escapes : j < i}) : i \in escapes}

ChunkEncoded(src, k) ==
  LET e[n \in 0..Chunk] ==
        IF n = 0 THEN <<>> ELSE e[n-1] \o EncodedLane(src, k, n - 1)
  IN  e[Chunk]

\* Length of the first half of a vector's encoding.
FirstHalf(escapes) == Vector \div 2 + Cardinality({i \in escapes : i < Vector \div 2})

\* The encoding of a chunk has run over the last but one character of the line
\* by k.col: n bytes of out and of src are given back, and markers with them.
TakenBack(k, n, markers) ==
  [k EXCEPT !.out = SubSeq(@, 1, Len(@) - n), !.pos = @ - (n - markers)]

\* Mutant of TakeBackExpanded: the '=' of a pair cut in two stays.
TakeBackExpandedCut(k, a, b) ==
  LET shift == Vector + Cardinality(b) - 1 - k.col
      at == IF shift < 0 THEN shift + Vector + Cardinality(a) ELSE shift
      behind == {m \in (IF shift < 0 THEN Markers(a) ELSE Markers(b)) : m >= at}
  IN  TakenBack(k, k.col, Cardinality(behind) + (IF shift < 0 THEN Cardinality(b) ELSE 0))

\* With a and b the escapes of the two vectors: the '=' behind what is kept are
\* counted in a mask, and one that is the last byte kept goes too.
TakeBackExpanded(k, a, b) ==
  LET shift == Vector + Cardinality(b) - 1 - k.col
      at == IF shift < 0 THEN shift + Vector + Cardinality(a) ELSE shift
      behind == {m \in (IF shift < 0 THEN Markers(a) ELSE Markers(b)) : m >= at}
  IN  TakenBack(k, IF at \in behind THEN k.col + 1 ELSE k.col,
                Cardinality(behind) + (IF shift < 0 THEN Cardinality(b) ELSE 0))

\* Leading zeros of the mask of n lanes with these escapes.
LeadingZeros(escapes, n) ==
  IF escapes = {} THEN n ELSE n - 1 - (CHOOSE i \in escapes : \A j \in escapes : j <= i)

\* With one escape at most, index bytes from the end of what is encoded; others
\* is the number of escapes behind it that are given back whole.
TakeBackAt(k, index, others) ==
  CASE k.col = index -> TakenBack(k, k.col + 1, others + 1)
    [] k.col > index -> TakenBack(k, k.col, others + 1)
    [] k.col < index -> TakenBack(k, k.col, others)

-----------------------------------------------------------------------------
(* The beginning of a call.                                                *)

NextByte(src, k) == src[k.pos + 1]

FirstByte(src, k) ==
  IF k.col = Biased(0) THEN One(k, FirstOfLine(NextByte(src, k))) ELSE k

\* Some character beyond the last of the line waits for its line end.
OverflowedLine(src, k) ==
  LET e == FirstOfLine(NextByte(src, k)) IN
  Stored(k, 1, LineEnd \o e, Biased(Len(e)), 0)

StartAt(col) ==
  [pos |-> 0, out |-> <<>>, col |-> Biased(col), need |-> 0,
   fresh |-> FALSE, stop |-> FALSE]

-----------------------------------------------------------------------------
(* encodeSIMDAVX2.                                                         *)

LastAVX2(src, k) ==
  Stored(k, 1, LastOfLine(NextByte(src, k)) \o LineEnd, Biased(0), Len(k.out) + 4)

\* At least one byte before the loop, which looks at the one before a chunk.
BeforeAVX2(src, k) ==
  LET inside == IF k.col < 0 /\ k.col # Biased(0) THEN One(k, InLine(NextByte(src, k))) ELSE k
      behind == CASE inside.col < 0 -> inside
                  [] inside.col = 0 -> LastAVX2(src, inside)
                  [] OTHER          -> OverflowedLine(src, inside)
  IN  FirstByte(src, behind)

EndAVX2(src) == Len(src) - Chunk - 1

\* encodeEOLHandle: unless it is too near the end of src the next chunk is
\* loaded at once.
LineEndAVX2(src, k) ==
  [LastAVX2(src, k) EXCEPT !.fresh = k.pos < EndAVX2(src), !.stop = k.pos >= EndAVX2(src)]

TakeBackAVX2(k, a, b) ==
  LET lengthB == Vector + Cardinality(b) IN
  CASE Cardinality(a) > 1 \/ Cardinality(b) > 1 -> TakeBackExpanded(k, a, b)
    [] OTHER -> IF k.col > lengthB
                  THEN TakeBackAt(k, LeadingZeros(a, Vector) + 1 + lengthB, Cardinality(b))
                  ELSE TakeBackAt(k, LeadingZeros(b, Vector) + 1, 0)

ReachAVX2(k, a, b) ==
  Len(k.out) + 2 * Vector + Cardinality(a)
    + (IF Cardinality(a) > 1 \/ Cardinality(b) > 1 THEN FirstHalf(b) ELSE 1)

ChunkAVX2(src, k) ==
  LET a == Escapes(src, k, 0)
      b == Escapes(src, k, Vector)
      e == ChunkEncoded(src, k)
      next == [Stored(k, Chunk, e, k.col + Len(e), ReachAVX2(k, a, b)) EXCEPT !.fresh = FALSE]
  IN  IF next.col < 0 THEN next ELSE LineEndAVX2(src, TakeBackAVX2(next, a, b))

encodeSIMDAVX2(src, col) ==
  LET run[s \in Seq(0..255), k \in VConfig] ==
        IF k.fresh \/ (~k.stop /\ k.pos + Chunk <= EndAVX2(s))
          THEN run[s, ChunkAVX2(s, k)] ELSE k
  IN  IF Len(src) <= Chunk + 1 \/ LineLength < MinLine
        THEN StartAt(col) ELSE run[src, BeforeAVX2(src, StartAt(col))]

-----------------------------------------------------------------------------
(* encodeNEON.                                                             *)

\* encodeEOLHandlePre: the last character of the line, the line end, and the
\* characters behind it that were loaded with it.
LineEndNEON(src, k) ==
  LET at == [k EXCEPT !.pos = @ + 1, !.fresh = TRUE]
      last == LastOfLine(NextByte(src, k)) \o LineEnd
      lanes == [n \in 1..Chunk-1 |-> EncodedLane(src, at, n - 1)]
      line == FlattenSeq(lanes)
      a == {n \in 1..Vector-1 : Len(lanes[n]) = 2}
      b == {n \in Vector..Chunk-1 : Len(lanes[n]) = 2}
      reach == Len(k.out) + Len(last) + 2 * Vector
                 + (IF Cardinality(a) + Cardinality(b) > 1
                      THEN Cardinality(a) - 1 + FirstHalf({n - Vector : n \in b}) ELSE 0)
  IN  Stored(k, Chunk, last \o line, Biased(Len(line)), Larger(reach, Len(k.out) + 4))

BeforeNEON(src, k) ==
  LET first == FirstByte(src, k) IN
  CASE first.col < 0 -> first
    [] first.col = 0 -> LineEndNEON(src, first)
    [] OTHER         -> OverflowedLine(src, first)

TakeBackNEON(k, a, b) ==
  IF Cardinality(a) + Cardinality(b) > 1 THEN TakeBackExpanded(k, a, b)
  ELSE TakeBackAt(k, LeadingZeros(a \cup {i + Vector : i \in b}, Chunk) + 1, 0)

ReachNEON(k, a, b) ==
  Len(k.out) + 2 * Vector
    + (IF Cardinality(a) + Cardinality(b) > 1 THEN Cardinality(a) + FirstHalf(b) ELSE 1)

ChunkNEON(src, k) ==
  LET a == Escapes(src, k, 0)
      b == Escapes(src, k, Vector)
      e == ChunkEncoded(src, k)
      next == Stored(k, Chunk, e, k.col + Len(e), ReachNEON(k, a, b))
  IN  IF next.col < 0 THEN next ELSE LineEndNEON(src, TakeBackNEON(next, a, b))

EndNEON(src) == Len(src) - (2 * Chunk - 1)

encodeNEON(src, col) ==
  LET run[s \in Seq(0..255), k \in VConfig] ==
        IF k.pos < EndNEON(s) THEN run[s, ChunkNEON(s, k)] ELSE k
  IN  IF Len(src) <= 2 * Chunk - 1 \/ LineLength < 2 * Chunk
        THEN StartAt(col) ELSE run[src, BeforeNEON(src, StartAt(col))]

-----------------------------------------------------------------------------
(* encodeSIMD.                                                             *)

Kernel(kernel, src, col) ==
  IF kernel = "AVX2" THEN encodeSIMDAVX2(src, col) ELSE encodeNEON(src, col)

\* Mutant of WithRest: the rest begins on the column the call began on.
WithRestColumn(src, k, col) ==
  LET rest == Encode(SubSeq(src, k.pos + 1, Len(src)), col) IN
  [rest EXCEPT !.pos = @ + k.pos, !.out = k.out \o @,
               !.need = Larger(k.need, Len(k.out) + @)]

\* What encodeGeneric makes of what the kernel has left.
WithRest(src, k, col) ==
  LET rest == Encode(SubSeq(src, k.pos + 1, Len(src)), Unbiased(k.col)) IN
  [rest EXCEPT !.pos = @ + k.pos, !.out = k.out \o @,
               !.need = Larger(k.need, Len(k.out) + @)]

EncodeVector(kernel, src, col) ==
  IF Len(src) < ShortSrc THEN Encode(src, col)
  ELSE LET k == Kernel(kernel, src, col) IN
       IF k.pos < Len(src) THEN WithRest(src, k, col)
       ELSE [at |-> "done", pos |-> k.pos, out |-> k.out, col |-> Unbiased(k.col),
             sp |-> -1, need |-> k.need]

encodeIncremental(kernel, src, col) ==
  IF kernel = "generic" THEN Encode(src, col) ELSE EncodeVector(kernel, src, col)
=============================================================================
