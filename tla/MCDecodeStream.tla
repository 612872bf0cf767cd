--------------------------- MODULE MCDecodeStream ---------------------------
(***************************************************************************)
(* DecodeStream on every short body over the characters the kernel tells   *)
(* apart: all bodies up to MaxLen, and longer ones that begin with a line  *)
(* end.                                                                    *)
(***************************************************************************)
EXTENDS DecodeStream, SequencesExt

CONSTANTS MaxLen, Other, MaxTail

Alphabet == {CR, LF, DOT, EQ, Y, Other}

\* Behind a line end, the characters that continue one of its sequences.
Special == {CR, LF, DOT, EQ, Y}

MCInputs ==
  UNION {[1..n -> Alphabet] : n \in 0..MaxLen}
    \cup {<<Other, CR, LF>> \o t : t \in UNION {[1..n -> Special] : n \in 0..MaxTail}}

MCTrace ==
  [s \in MCInputs |->
     [n \in 0..Len(s) |-> FoldLeft(Transition, Start, SubSeq(s, 1, n))]]
=============================================================================
