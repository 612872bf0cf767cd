--------------------------- MODULE EncodeGeneric ---------------------------
(***************************************************************************)
(* The portable yEnc encoder (encoder_generic.go): encodeGeneric encodes   *)
(* src behind what earlier calls have put on the line, col characters.     *)
(*                                                                         *)
(* A run is a sequence of configurations, as in DecodeGeneric: `at' is the *)
(* part of the loop to be executed next, pos the bytes consumed, out what  *)
(* they were encoded to, col the column, sp the length of out before the   *)
(* last batch (-1: none in this line), need how much of dest has been      *)
(* written to, which can be more than out.                                 *)
(***************************************************************************)
EXTENDS Integers, Sequences

CONSTANTS
  LineLength,  \* lineSize
  Batch        \* bytes encoded at a time where the line has room, 8

ASSUME EncodeAssumption ==
  LineLength \in Nat \ {0} /\ Batch \in Nat \ {0}

\* Encoded characters that are escaped: everywhere, at the edges of a line,
\* and at its beginning only.
Critical == {0, 10, 13, 61}
Blank == {9, 32}
Dot == 46
LineEnd == <<13, 10>>

Shifted(c) == (c + 42) % 256
Pair(c) == <<61, (c + 106) % 256>>
EncodedUnless(c, special) == IF Shifted(c) \in special THEN Pair(c) ELSE <<Shifted(c)>>

InLine(c) == EncodedUnless(c, Critical)
FirstOfLine(c) == EncodedUnless(c, Critical \cup Blank \cup {Dot})

LastOfLine(c) == EncodedUnless(c, Critical \cup Blank)

\* The next Batch bytes of src, one after the other: n of them have become e.
Batches == [n : 0..Batch, e : Seq(0..255)]
NextOfBatch(src, k, b) == [n |-> b.n + 1, e |-> b.e \o InLine(src[k.pos + b.n + 1])]

Batched(src, k) ==
  LET run[b \in Batches] == IF b.n = Batch THEN b ELSE run[NextOfBatch(src, k, b)]
  IN  run[[n |-> 0, e |-> <<>>]].e

-----------------------------------------------------------------------------
\* The next n characters of src become e, and the loop goes on at `at'.
Put(k, n, e, col, at) ==
  LET out == k.out \o e IN
  [k EXCEPT !.pos = @ + n, !.out = out, !.col = col, !.at = at,
            !.need = IF Len(out) > @ THEN Len(out) ELSE @]

Next1(src, k) == src[k.pos + 1]

\* An empty line begins.
EncodeFirst(src, k) ==
  LET e == FirstOfLine(Next1(src, k)) IN
  IF k.col = 0 THEN Put(k, 1, e, Len(e), "batch") ELSE [k EXCEPT !.at = "batch"]

\* Mutant of EncodeBatch: the batch that ran over the line is kept.
EncodeBatchKept(src, k) ==
  LET e == Batched(src, k) IN
  CASE k.pos >= Len(src) -> [k EXCEPT !.at = "done"]
    [] k.pos + Batch < Len(src) /\ LineLength - k.col - 1 > Batch ->
         [Put(k, Batch, e, k.col + Len(e), "batch") EXCEPT !.sp = Len(k.out)]
    [] OTHER -> [k EXCEPT !.at = "scalar"]

\* Batches are encoded without a look at the line's end; the one that ran over
\* it is taken back.
EncodeBatch(src, k) ==
  LET e == Batched(src, k) IN
  CASE k.pos >= Len(src) -> [k EXCEPT !.at = "done"]
    [] k.pos + Batch < Len(src) /\ LineLength - k.col - 1 > Batch ->
         [Put(k, Batch, e, k.col + Len(e), "batch") EXCEPT !.sp = Len(k.out)]
    [] k.sp >= 0 /\ k.col >= LineLength - 1 ->
         [k EXCEPT !.at = "scalar", !.col = @ - (Len(k.out) - k.sp),
                   !.out = SubSeq(@, 1, k.sp), !.pos = @ - Batch]
    [] OTHER -> [k EXCEPT !.at = "scalar"]

EncodeScalar(src, k) ==
  LET e == InLine(Next1(src, k)) IN
  IF k.col < LineLength - 1
    THEN Put(k, 1, e, k.col + Len(e),
             IF k.pos + 1 >= Len(src) THEN "done" ELSE "scalar")
    ELSE [k EXCEPT !.at = "last"]

\* The last character of the line does not move the column.
EncodeLast(src, k) ==
  IF k.col < LineLength
    THEN Put(k, 1, LastOfLine(Next1(src, k)), k.col,
             IF k.pos + 1 >= Len(src) THEN "done" ELSE "newline")
    ELSE [k EXCEPT !.at = "newline"]

\* The line end and the character behind it, stored as four bytes.
EncodeNewline(src, k) ==
  LET e == FirstOfLine(Next1(src, k))
      next == Put(k, 1, LineEnd \o e, Len(e), "batch")
  IN  [next EXCEPT !.sp = -1,
                   !.need = IF Len(k.out) + 4 > @ THEN Len(k.out) + 4 ELSE @]

-----------------------------------------------------------------------------
EncodeStep(src, k) ==
  CASE k.at = "first"   -> EncodeFirst(src, k)
    [] k.at = "batch"   -> EncodeBatch(src, k)
    [] k.at = "scalar"  -> EncodeScalar(src, k)
    [] k.at = "last"    -> EncodeLast(src, k)
    [] k.at = "newline" -> EncodeNewline(src, k)

EncodeConfig ==
  [at : {"first", "batch", "scalar", "last", "newline", "done"},
   pos : Nat, out : Seq(0..255), col : Nat, sp : Nat \cup {-1}, need : Nat]

\* The configurations of a call on src: parts that look at the next byte have
\* one, and a batch that may be taken back is in out and on the line.
EncodeCalls(src) ==
  {k \in EncodeConfig :
     /\ k.pos <= Len(src)
     /\ k.at \notin {"batch", "done"} => k.pos < Len(src)
     /\ k.at = "first" => k.sp = -1
     /\ k.at = "batch" /\ k.sp >= 0 =>
          /\ Batch <= k.pos /\ k.pos < Len(src)
          /\ k.sp <= Len(k.out) /\ Len(k.out) - k.sp <= k.col}

\* The whole call, on a src that is not empty.
EncodeRun(src) ==
  LET run[k \in EncodeCalls(src)] ==
        IF k.at = "done" THEN k ELSE run[EncodeStep(src, k)]
  IN  run

EncodeEnter(col) ==
  [at |-> "first", pos |-> 0, out |-> <<>>, col |-> col, sp |-> -1, need |-> 0]

Encode(src, col) == EncodeRun(src)[EncodeEnter(col)]
=============================================================================
