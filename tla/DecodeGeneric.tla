--------------------------- MODULE DecodeGeneric ---------------------------
(***************************************************************************)
(* The portable yEnc kernel (decoder_generic.go): decodeGeneric takes the  *)
(* next bytes of a body, src, and the State the bytes before them left,    *)
(* and returns how many it consumed, what they decode to, the new State    *)
(* and whether it met the end of the data.                                 *)
(*                                                                         *)
(* A run of the kernel is a sequence of configurations: `at' is the label  *)
(* it is about to execute (a State, "NONE" being the label done with its   *)
(* loop, then the two last characters), pos the bytes consumed, out the    *)
(* bytes produced.  Step executes a label or one iteration of the loop.    *)
(***************************************************************************)
EXTENDS Integers, Sequences

CR == 13
LF == 10
DOT == 46
EQ == 61
Y == 121

\* State and End of decoder.go.
States == {"CRLF", "EQ", "CR", "NONE", "CRLFDT", "CRLFDTCR", "CRLFEQ"}
Ends == {"none", "control", "article"}
Labels == States \cup {"secondLast", "last", "done"}

Byte == 0..255
\* Mutant of Plain: the subtraction does not wrap.
PlainUnwrapped(c) == c - 42

Plain(c) == (c - 42) % 256
Escaped(c) == (c - 42 - 64) % 256

-----------------------------------------------------------------------------
\* The byte i places ahead of the cursor.
Peek(src, k, i) == src[k.pos + 1 + i]

Skip(k, n) == [k EXCEPT !.pos = @ + n]
Emit(k, c) == [k EXCEPT !.out = Append(@, c)]
Finish(k, state, end) ==
  [k EXCEPT !.at = "done", !.state = state, !.end = end]

\* checkEnd: at the end of src the label to jump to is the State to return.
Goto(src, k, label) ==
  IF k.pos >= Len(src) THEN Finish(k, label, "none")
                       ELSE [k EXCEPT !.at = label]

\* Mutant of EscapedPair: a character too many is skipped.
EscapedTriple(src, k) ==
  LET c == Peek(src, k, 1) IN
  Emit(Skip(k, IF c = CR THEN 1 ELSE 3), Escaped(c))

\* The character after '=' is consumed with it, unless it is a CR, which may
\* begin a line end and is read again.
EscapedPair(src, k) ==
  LET c == Peek(src, k, 1) IN
  Emit(Skip(k, IF c = CR THEN 1 ELSE 2), Escaped(c))

\* One character, or an escaped pair, that begins no line.
OneChar(src, k) ==
  LET c == Peek(src, k, 0) IN
  IF c \in {CR, LF} THEN Skip(k, 1)
  ELSE IF c = EQ THEN EscapedPair(src, k)
  ELSE Emit(Skip(k, 1), Plain(c))

-----------------------------------------------------------------------------
(* The labels of the characters at the start of src.                       *)

AtCRLFEQ(src, k) ==
  IF Peek(src, k, 0) = Y THEN Finish(Skip(k, 1), "NONE", "control")
                         ELSE [k EXCEPT !.at = "EQ"]

AtEQ(src, k) ==
  LET c == Peek(src, k, 0)
      next == Emit(Skip(k, 1), Escaped(c))
  IN  IF c = CR THEN Goto(src, next, "CR") ELSE [next EXCEPT !.at = "NONE"]

AtCR(src, k) ==
  IF Peek(src, k, 0) = LF THEN Goto(src, Skip(k, 1), "CRLF")
                          ELSE [k EXCEPT !.at = "NONE"]

AtCRLF(src, k) ==
  CASE Peek(src, k, 0) = DOT -> Goto(src, Skip(k, 1), "CRLFDT")
    [] Peek(src, k, 0) = EQ  -> Goto(src, Skip(k, 1), "CRLFEQ")
    [] OTHER -> [k EXCEPT !.at = "NONE"]

\* Mutant of AtCRLFDT: a stuffed dot hides the "=y" behind it.
AtCRLFDTNoEQ(src, k) ==
  IF Peek(src, k, 0) = CR THEN Goto(src, Skip(k, 1), "CRLFDTCR")
                          ELSE [k EXCEPT !.at = "NONE"]

AtCRLFDT(src, k) ==
  CASE Peek(src, k, 0) = CR -> Goto(src, Skip(k, 1), "CRLFDTCR")
    [] Peek(src, k, 0) = EQ -> Goto(src, Skip(k, 1), "CRLFEQ")
    [] OTHER -> [k EXCEPT !.at = "NONE"]

\* Mutant of AtCRLFDTCR: the terminator is taken for a line end.
AtCRLFDTCRGoesOn(src, k) ==
  IF Peek(src, k, 0) = LF THEN Goto(src, Skip(k, 1), "CRLF")
                          ELSE [k EXCEPT !.at = "NONE"]

AtCRLFDTCR(src, k) ==
  IF Peek(src, k, 0) = LF THEN Finish(Skip(k, 1), "CRLF", "article")
                          ELSE [k EXCEPT !.at = "NONE"]

-----------------------------------------------------------------------------
(* The loop, on the characters with at least two more behind them.         *)

\* The cursor is behind a '=' that begins a line.
AfterLineEQ(src, k) ==
  IF k.pos >= Len(src) THEN Finish(k, "CRLFEQ", "none")
  ELSE LET c == Peek(src, k, 0) IN
       IF c = Y THEN Finish(Skip(k, 1), "NONE", "control")
       ELSE Emit(Skip(k, IF c = CR THEN 0 ELSE 1), Escaped(c))

\* The cursor is behind a CR that follows a '.' that begins a line.
AfterLineDotCR(src, k) ==
  IF k.pos >= Len(src) THEN Finish(k, "CRLFDTCR", "none")
  ELSE IF Peek(src, k, 0) = LF THEN Finish(Skip(k, 1), "CRLF", "article")
  ELSE k

\* The cursor is behind a '.' that begins a line: the dot is dropped.
AfterLineDot(src, k) ==
  IF k.pos >= Len(src) THEN Finish(k, "CRLFDT", "none")
  ELSE IF Peek(src, k, 0) = CR THEN AfterLineDotCR(src, Skip(k, 1))
  ELSE IF Peek(src, k, 0) = EQ THEN AfterLineEQ(src, Skip(k, 1))
  ELSE k

AtLineEnd(src, k) == Peek(src, k, 0) = CR /\ Peek(src, k, 1) = LF

AtNONE(src, k) ==
  CASE k.pos > Len(src) - 3 -> [k EXCEPT !.at = "secondLast"]
    [] k.pos <= Len(src) - 3 /\ AtLineEnd(src, k) /\ Peek(src, k, 2) = DOT ->
         AfterLineDot(src, Skip(k, 3))
    [] k.pos <= Len(src) - 3 /\ AtLineEnd(src, k) /\ Peek(src, k, 2) = EQ ->
         AfterLineEQ(src, Skip(k, 3))
    [] OTHER -> OneChar(src, k)

(* The last two characters: a line end is left for the next call.          *)

\* Mutant of AtSecondLast: a CR is left to the next call whatever follows it.
AtSecondLastAnyCR(src, k) ==
  CASE k.pos # Len(src) - 2 -> [k EXCEPT !.at = "last"]
    [] k.pos = Len(src) - 2 /\ Peek(src, k, 0) = CR -> Finish(k, "CRLF", "none")
    [] OTHER -> [OneChar(src, k) EXCEPT !.at = "last"]

AtSecondLast(src, k) ==
  CASE k.pos # Len(src) - 2 -> [k EXCEPT !.at = "last"]
    [] k.pos = Len(src) - 2 /\ AtLineEnd(src, k) -> Finish(k, "CRLF", "none")
    [] OTHER -> [OneChar(src, k) EXCEPT !.at = "last"]

\* Mutant of AtLast: a '=' is left to the next call.
AtLastKeepsEQ(src, k) ==
  IF k.pos # Len(src) - 1 THEN Finish(k, "NONE", "none")
  ELSE LET c == Peek(src, k, 0)
           next == Skip(k, 1)
       IN  CASE c = EQ -> Finish(k, "NONE", "none")
             [] c = CR -> Finish(next, "CR", "none")
             [] c = LF -> Finish(next, "NONE", "none")
             [] OTHER  -> Finish(Emit(next, Plain(c)), "NONE", "none")

AtLast(src, k) ==
  IF k.pos # Len(src) - 1 THEN Finish(k, "NONE", "none")
  ELSE LET c == Peek(src, k, 0)
           next == Skip(k, 1)
       IN  CASE c = EQ -> Finish(next, "EQ", "none")
             [] c = CR -> Finish(next, "CR", "none")
             [] c = LF -> Finish(next, "NONE", "none")
             [] OTHER  -> Finish(Emit(next, Plain(c)), "NONE", "none")

-----------------------------------------------------------------------------
Enter(src, state) ==
  [at |-> IF src = <<>> THEN "done" ELSE state, pos |-> 0, out |-> <<>>,
   state |-> state, end |-> "none"]

Step(src, k) ==
  CASE k.at = "CRLFEQ"     -> AtCRLFEQ(src, k)
    [] k.at = "EQ"         -> AtEQ(src, k)
    [] k.at = "CR"         -> AtCR(src, k)
    [] k.at = "CRLF"       -> AtCRLF(src, k)
    [] k.at = "CRLFDT"     -> AtCRLFDT(src, k)
    [] k.at = "CRLFDTCR"   -> AtCRLFDTCR(src, k)
    [] k.at = "NONE"       -> AtNONE(src, k)
    [] k.at = "secondLast" -> AtSecondLast(src, k)
    [] k.at = "last"       -> AtLast(src, k)

Config ==
  [at : Labels, pos : Nat, out : Seq(Byte), state : States, end : Ends]

\* The configurations of a call on src: the cursor is in src, and a label of the
\* characters at its start has one to look at.
Calls(src) ==
  {k \in Config : /\ k.pos <= Len(src)
                  /\ k.at \in States \ {"NONE"} => k.pos < Len(src)}

\* The whole call, from a configuration of it to the end.
Run(src) ==
  LET run[k \in Calls(src)] ==
        IF k.at = "done" THEN k ELSE run[Step(src, k)]
  IN  run

Decode(src, state) == Run(src)[Enter(src, state)]
=============================================================================
