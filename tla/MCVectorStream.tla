--------------------------- MODULE MCVectorStream ---------------------------
(***************************************************************************)
(* VectorStream on bodies a few blocks long: plain characters, and among   *)
(* them sequences of the characters the kernels look for.                  *)
(***************************************************************************)
EXTENDS VectorStream

CONSTANTS Specials, Fill

Special == {CR, LF, DOT, EQ, Y}

Plains(n) == [i \in 1..n |-> Fill]
Windows == [1..Specials -> Special]

\* The window at the beginning, where a cut leaves a State; across blocks; and
\* behind a dot that begins a line.
MCInputs ==
  {w \o Plains(9) : w \in Windows}
    \cup {Plains(3) \o w \o Plains(7) : w \in Windows}
    \cup {Plains(3) \o <<CR, LF, DOT>> \o w \o Plains(5) : w \in Windows}

MCTrace ==
  [s \in MCInputs |->
     [n \in 0..Len(s) |-> FoldLeft(Transition, Start, SubSeq(s, 1, n))]]

CRC16 == {0, 13, 15}
QuartersOf == <<2, 1>>
=============================================================================
