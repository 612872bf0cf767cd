----------------------------- MODULE MCEncoder -----------------------------
(***************************************************************************)
(* Encoder on short writes over the bytes it tells apart.                  *)
(***************************************************************************)
EXTENDS Encoder

CONSTANTS MaxPiece

PlainByte == 30
Tab == 223
Space == 246
EncodedDot == 4
EncodedEQ == 19

SeqsOf(S, lens) == UNION {[1..n -> S] : n \in lens}

\* Short writes, several of which make an article, and articles in one write.
SomePieces ==
  SeqsOf({Tab, Space, EncodedDot, EncodedEQ}, 0..1)
    \cup SeqsOf({PlainByte, Tab, EncodedEQ}, 1..2)
    \cup SeqsOf({PlainByte, Tab, EncodedEQ}, {MaxPiece})

\* Writes that may be empty.
AnyPieces == SeqsOf({PlainByte, Tab}, 0..MaxPiece)

Plains(n) == [i \in 1..n |-> PlainByte]

\* An article for a vector kernel: a start that brings the column to any place of
\* a line, and all the rest, of plain characters around a window of others.
Starts == {Plains(n) : n \in 1..LineLength-1} \cup {Plains(LineLength - 2) \o <<EncodedEQ>>}

WithWindow(n, first, w) ==
  [i \in 1..n |-> IF i \in first..first+Len(w)-1 THEN w[i - first + 1] ELSE PlainByte]

Rests(n) ==
  {WithWindow(n, first, w) : first \in {2, 6}, w \in SeqsOf({PlainByte, EncodedEQ}, {8})}
    \cup {WithWindow(n, first, w) : first \in 1..n, w \in SeqsOf({Tab, EncodedDot, EncodedEQ}, {2})}

PiecesFor(which) ==
  IF which = "generic"
    THEN [n \in 0..MaxData |-> {p \in SomePieces : n + Len(p) <= MaxPiece}]
    ELSE [n \in 0..MaxData |->
            CASE n = 0 -> Starts \cup Rests(MaxData)
              [] n \in 1..LineLength -> Rests(MaxData - n)
              [] OTHER -> {}]

MCPieces == [which \in Kernels |-> PiecesFor(which)]
MCPartSizes ==
  [which \in Kernels |-> IF which = "generic" THEN {2, MaxPiece} ELSE {MaxData}]

AnyPiecesAnywhere == [which \in Kernels |-> [n \in 0..MaxData |-> AnyPieces]]
NoSizes == [which \in Kernels |-> {0}]
=============================================================================
