------------------------------- MODULE UULine -------------------------------
(***************************************************************************)
(* A line of a UU body (response.go): whether detectFormat takes a line    *)
(* for one, and what decodeUU makes of it.  The first character of a UU    *)
(* line is the number of bytes it holds, each group of four behind it is   *)
(* three of them, six bits in a character.                                 *)
(***************************************************************************)
EXTENDS DecodeGeneric

SP == 32
Backtick == 96

decodeUUChar(c) == IF c = Backtick THEN 0 ELSE (c - SP) % 64

\* As many characters as a line of that many bytes should have, itself counted.
decodeUUCharWorkaround(c) == (((c - SP) % 64) * 4 + 5) \div 3

\* Mutant of Unstuffed: the dot that NNTP puts before a dot is left alone.
StillStuffed(line) == line

Unstuffed(line) ==
  IF Len(line) > 1 /\ line[1] = DOT /\ line[2] = DOT THEN Tail(line) ELSE line

-----------------------------------------------------------------------------
(* detectFormat                                                            *)

IsFullLine(line) == Len(line) \in {60, 61} /\ line[1] = 77  \* 'M'

\* Whether the line is a UU one of n characters and padding.  n = 0 slices the
\* line from 1 to 0.
Test(line, n) ==
  CASE n > Len(line) -> "no"
    [] n = 0 -> "panic"
    [] n \in 1..Len(line) ->
         IF /\ \A i \in 2..n : line[i] \in SP..Backtick
            /\ \A i \in n+1..Len(line) : line[i] \in {SP, Backtick}
         THEN "uu" ELSE "no"

\* Mutant of LooksLikeUU: only the number of bytes is tried.
LooksLikeUUExactly(line) == Test(line, decodeUUChar(line[1]))

LooksLikeUU(line) ==
  IF Test(line, decodeUUCharWorkaround(line[1])) = "uu" THEN "uu"
  ELSE Test(line, decodeUUChar(line[1]))

-----------------------------------------------------------------------------
(* decodeUU                                                                *)

\* The bytes the line is taken to hold: what its first character says, or else
\* what the workaround says, if there are as many characters behind it.
Lengths(line) ==
  LET n == decodeUUChar(line[1])
      w == decodeUUCharWorkaround(line[1])
  IN  IF n < Len(line) THEN {n} ELSE {w} \cap 0..Len(line)-1

\* Byte j, from 0, of the groups behind the first character.
ByteAt(line, j) ==
  LET c(i) == decodeUUChar(line[4 * (j \div 3) + 1 + i])
  IN  CASE j % 3 = 0 -> (c(1) * 4 + c(2) \div 16) % 256
        [] j % 3 = 1 -> ((c(2) * 16) % 256) + c(3) \div 4
        [] j % 3 = 2 -> ((c(3) * 64) % 256) + c(4)

\* Bytes are taken from whole groups only; a line with fewer than it says, or of
\* an impossible length, is bad.
UUDecoded(line) ==
  LET whole == 3 * ((Len(line) - 1) \div 4)
      taken(n) == IF n < whole THEN n ELSE whole
  IN  CASE Lengths(line) = {} -> [bytes |-> <<>>, bad |-> TRUE]
        [] OTHER -> LET n == CHOOSE n \in Lengths(line) : TRUE IN
             [bytes |-> [j \in 1..taken(n) |-> ByteAt(line, j - 1)], bad |-> n > whole]
=============================================================================
