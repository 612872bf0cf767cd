---------------------------- MODULE DecodeSIMD ----------------------------
(***************************************************************************)
(* The vector kernels (decoder_simd*.go): decodeSIMD leaves the characters *)
(* before the first aligned one, and those behind the last whole block, to *)
(* decodeGeneric, and the blocks between to a kernel, which is told what   *)
(* the characters before may mean for the first ones of its own, and says  *)
(* the same of what it leaves.                                             *)
(*                                                                         *)
(* A mask is the set of lanes whose bits are set, lane 0 the lowest.       *)
(***************************************************************************)
EXTENDS DecodeGeneric

CONSTANTS
  Width,      \* lanes of a block, 64
  AheadAVX2,  \* characters behind a block that the AVX2 kernel looks at, 4
  AheadNEON   \* those the NEON kernel loads, 16

ASSUME SIMDAssumption ==
  /\ Width \in Nat \ {0} /\ Width % 2 = 0
  /\ AheadAVX2 \in Nat /\ AheadAVX2 >= 4
  /\ AheadNEON \in Nat /\ AheadNEON >= 4

Lanes == 0..Width-1

NewLine == <<CR, LF>>
DotLine == <<CR, LF, DOT>>
Terminators == {<<CR, LF, DOT, CR, LF>>, <<CR, LF, DOT, EQ, Y>>, <<CR, LF, EQ, Y>>}

\* What src has at index i, counted from 0 as in the code.
HasAt(src, i, pattern) == \A j \in 1..Len(pattern) : src[i + j] = pattern[j]

\* The same where src may end.
Shows(src, i, pattern) == i + Len(pattern) <= Len(src) /\ HasAt(src, i, pattern)

-----------------------------------------------------------------------------
(* A block.  b says where the kernel is: pos and out what it has consumed  *)
(* and produced, esc whether the first lane follows a '=', dots the lanes  *)
(* with a dot that begins a line begun in the block before, next what is   *)
(* known of the characters behind the last block: 1 if they are a dot that *)
(* begins a line, 2 if they are the LF before it and the dot.              *)

\* A mask as a number, from its highest lane down, and the lanes of a number.
Value(mask) ==
  LET top[n \in 0..Width] ==
        IF n = 0 THEN 0 ELSE 2 * top[n - 1] + (IF Width - n \in mask THEN 1 ELSE 0)
  IN  top[Width]
Bits(number) ==
  LET above[n \in 0..Width] == IF n = 0 THEN number ELSE above[n - 1] \div 2
  IN  {i \in Lanes : above[i] % 2 = 1}

Shifted1(mask) == {i + 1 : i \in mask} \cap Lanes

EvenLanes == {i \in Lanes : i % 2 = 0}

\* Mutant of FixEqMask: a '=' behind a '=' escapes too.
FixEqMaskNot(maskEq, shift1) == maskEq

\* fixEqMask: the '=' that escape, of a mask with runs of them, by a carry
\* through the runs that begin on an even lane.
FixEqMask(maskEq, shift1) ==
  LET oddGroups == Bits(Value(maskEq) + Value((maskEq \ shift1) \cap EvenLanes))
  IN  {i \in maskEq : i \in oddGroups <=> i \notin EvenLanes}

LaneOf(src, b, i) == src[b.pos + 1 + i]
MaskEq(src, b) == {i \in Lanes : LaneOf(src, b, i) = EQ}
SpecialLanes(src, b) ==
  {i \in Lanes : LaneOf(src, b, i) \in {CR, LF, EQ}} \cup b.dots

\* Lanes that begin a line end with a dot behind it.
DotLines(src, b) == {i \in Lanes : HasAt(src, b.pos + i, DotLine)}

\* Mutant of EndsIn: a terminator must lie within the block.
EndsWithin(src, b) ==
  \E i \in Lanes, t \in Terminators : i + Len(t) <= Width /\ HasAt(src, b.pos + i, t)

\* Some end of the data begins in the block.
EndsIn(src, b) == \E i \in Lanes, t \in Terminators : HasAt(src, b.pos + i, t)

\* setNextMask: what the block means for decodeGeneric, which goes on with it.
NextMask(src, b) ==
  CASE LaneOf(src, b, 0) = DOT -> IF 0 \in b.dots THEN 1 ELSE 0
    [] LaneOf(src, b, 0) # DOT /\ LaneOf(src, b, 1) = DOT -> IF 1 \in b.dots THEN 2 ELSE 0
    [] OTHER -> 0

\* The lanes that are kept, decoded.
Compacted(src, b, dropped, escaped) ==
  LET lane(i) == LET c == LaneOf(src, b, i) IN
                 IF i \in escaped THEN Escaped(c) ELSE Plain(c)
      kept[n \in 0..Width] ==
        IF n = 0 THEN <<>>
        ELSE kept[n - 1] \o (IF n - 1 \in dropped THEN <<>> ELSE <<lane(n - 1)>>)
  IN  kept[Width]

NextBlock(src, b, dropped, escaped, esc, dots) ==
  [b EXCEPT !.pos = @ + Width, !.esc = esc, !.dots = dots,
            !.out = @ \o Compacted(src, b, dropped, escaped)]

First(esc) == IF esc THEN {0} ELSE {}

\* A block with special characters, when no end of the data begins in it: mask
\* has the lanes to be dropped if they are not escaped.
MaskedBlock(src, b, mask, dots) ==
  LET maskEq == MaskEq(src, b)
      shift1 == Shifted1(maskEq) \cup First(b.esc)
      runs == mask \cap shift1 # {}
      escaping == IF runs THEN FixEqMask(maskEq, shift1) ELSE maskEq
      escaped == Shifted1(escaping) \cup First(b.esc)
  IN  NextBlock(src, b, IF runs THEN mask \ escaped ELSE mask, escaped,
                Width - 1 \in escaping, dots)

\* Mutant of DotsBehind: the dot behind the block is forgotten.
DotsBehindForgotten(lineDots) == {}

\* The dots of the next block that are to be dropped.
DotsBehind(lineDots) == {i - Width : i \in {j \in lineDots : j >= Width}}

Block(src, b) ==
  LET mask == SpecialLanes(src, b)
      lineDots == {i + 2 : i \in DotLines(src, b)}
  IN  CASE mask = {} -> NextBlock(src, b, {}, First(b.esc), FALSE, b.dots)
        [] mask # {} /\ mask = MaskEq(src, b) -> MaskedBlock(src, b, mask, b.dots)
        [] mask # {} /\ mask # MaskEq(src, b) /\ EndsIn(src, b) ->
             [b EXCEPT !.stop = TRUE, !.next = NextMask(src, b)]
        [] OTHER ->
             MaskedBlock(src, b, mask \cup (lineDots \cap Lanes), DotsBehind(lineDots))

-----------------------------------------------------------------------------
(* The kernels.                                                            *)

\* A line that begins where the blocks end, at e, is only visible from inside.
Straddling(src, e) ==
  CASE HasAt(src, e - 2, DotLine) -> 1
    [] HasAt(src, e - 1, DotLine) -> 2
    [] OTHER -> 0

BlockConfig ==
  [pos : Nat, out : Seq(Byte), esc : BOOLEAN, dots : SUBSET {0, 1},
   next : 0..2, stop : BOOLEAN]

EnterKernel(ahead, src, esc, next) ==
  LET n == Len(src)
      blocks == IF n >= Width + ahead THEN (n - ahead) \div Width ELSE 0
  IN  [pos |-> 0, out |-> <<>>, esc |-> esc, stop |-> FALSE,
       dots |-> CASE next = 1 -> {0} [] next = 2 -> {1} [] OTHER -> {},
       next |-> IF blocks > 0 THEN Straddling(src, Width * blocks) ELSE next]

KernelStops(ahead, src, b) == b.stop \/ b.pos + Width + ahead > Len(src)

KernelRun(ahead, src) ==
  LET run[b \in BlockConfig] ==
        IF KernelStops(ahead, src, b) THEN b ELSE run[Block(src, b)]
  IN  run

Kernel(ahead, src, esc, next) == KernelRun(ahead, src)[EnterKernel(ahead, src, esc, next)]

decodeSIMDAVX2(src, esc, next) == Kernel(AheadAVX2, src, esc, next)
decodeNEON(src, esc, next) == Kernel(AheadNEON, src, esc, next)

KernelOf(kernel, src, esc, next) ==
  IF kernel = "AVX2" THEN decodeSIMDAVX2(src, esc, next) ELSE decodeNEON(src, esc, next)

-----------------------------------------------------------------------------
(* decodeSIMD.                                                             *)

Behind(prefix, patterns) == {prefix \o p : p \in patterns}

LineEnds == {<<DOT, CR, LF>>, <<DOT, EQ, Y>>, <<EQ, Y>>}

\* The ends of the data that a State has begun, by what is missing of them.
EndsBegun(state) ==
  CASE state = "CRLF"     -> LineEnds
    [] state = "CR"       -> Behind(<<LF>>, LineEnds)
    [] state = "CRLFDT"   -> {<<CR, LF>>, <<EQ, Y>>}
    [] state = "CRLFDTCR" -> {<<LF>>}
    [] state = "CRLFEQ"   -> {<<Y>>}
    [] OTHER              -> {}

\* Mutant of DotAhead: a dot is dropped only directly behind the line end.
DotAheadOfCRLF(src, state) ==
  IF state = "CRLF" /\ Shows(src, 0, <<DOT>>) THEN 1 ELSE 0

\* The dot at the beginning of a line that a State has begun.
DotAhead(src, state) ==
  CASE state = "CRLF" /\ Shows(src, 0, <<DOT>>)   -> 1
    [] state = "CR" /\ Shows(src, 0, <<LF, DOT>>) -> 2
    [] OTHER -> 0

\* The State the kernel leaves.
StateBehind(b) ==
  CASE b.esc -> "EQ"
    [] ~b.esc /\ b.next = 1 -> "CRLF"
    [] ~b.esc /\ b.next = 2 -> "CR"
    [] OTHER -> "NONE"

Result(pos, out, state, end) == [pos |-> pos, out |-> out, state |-> state, end |-> end]

\* Mutant of WithTail: the result says what the tail alone has consumed.
WithTailOnly(src, r) ==
  LET k == Decode(SubSeq(src, r.pos + 1, Len(src)), r.state)
  IN  Result(k.pos, r.out \o k.out, k.state, k.end)

\* r, and behind it what decodeGeneric makes of the rest of src.
WithTail(src, r) ==
  LET k == Decode(SubSeq(src, r.pos + 1, Len(src)), r.state)
  IN  Result(r.pos + k.pos, r.out \o k.out, k.state, k.end)

\* Characters before the first aligned one.
Unaligned(address) == (Width - (address % Width)) % Width

\* The blocks of src behind r, and what is behind them.
WithBlocks(kernel, src, r) ==
  LET rest == SubSeq(src, r.pos + 1, Len(src))
      b == KernelOf(kernel, rest, r.state \in {"EQ", "CRLFEQ"}, DotAhead(rest, r.state))
  IN  WithTail(src, Result(r.pos + b.pos, r.out \o b.out, StateBehind(b), "none"))

\* Mutant of DecodeAligned: what the head has left unread is cut off the end.
DecodeAlignedByLength(kernel, src, r, length) ==
  LET cut == SubSeq(src, 1, r.pos + length) IN
  IF length <= Width + 3 THEN WithTail(cut, r) ELSE WithBlocks(kernel, cut, r)

\* The rest of src behind its unaligned head, when r is what came of that and
\* length what the code takes to be left: a line end that the head has left
\* unread is not counted.
DecodeAligned(kernel, src, r, length) ==
  LET ends == {p \in EndsBegun(r.state) : Shows(src, r.pos, p)}
  IN  CASE length <= Width + 3 -> WithTail(src, r)
        [] length > Width + 3 /\ ends # {} ->
             LET p == CHOOSE q \in ends : TRUE IN
             IF p[Len(p)] = LF THEN Result(r.pos + Len(p), r.out, "CRLF", "article")
                               ELSE Result(r.pos + Len(p), r.out, "NONE", "control")
        [] OTHER -> WithBlocks(kernel, src, r)

DecodeVector(kernel, src, state, address) ==
  LET a == Unaligned(address)
      head == IF a = 0 THEN Enter(<<>>, state) ELSE Decode(SubSeq(src, 1, a), state)
      r == Result(head.pos, head.out, head.state, head.end)
  IN  CASE Len(src) <= 2 * Width -> Decode(src, state)
        [] Len(src) > 2 * Width /\ r.end # "none" -> r
        [] OTHER -> DecodeAligned(kernel, src, r, Len(src) - a)
=============================================================================
