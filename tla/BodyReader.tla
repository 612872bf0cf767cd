---------------------------- MODULE BodyReader ----------------------------
(***************************************************************************)
(* What a decoder of bodies promises: it reads a body in steps of any      *)
(* size, after each of which it has the result of reading that much one    *)
(* character at a time, and never reads behind the first end of the data.  *)
(***************************************************************************)
EXTENDS Bodies

VARIABLES
  body,   \* what there is to read
  read,   \* how many characters of it have been read
  result  \* the State, the data and the End that has come of them

bodyVars == <<body, read, result>>

BodyInit ==
  /\ body \in Inputs
  /\ read = 0
  /\ result = Start

ReadMore(n) ==
  /\ read + n <= Len(body)
  /\ \A m \in read..read+n-1 : Trace[body][m].end = "none"
  /\ read' = read + n
  /\ result' = Trace[body][read + n]
  /\ UNCHANGED body

BodyNext == \E n \in 1..Len(body) : ReadMore(n)

BodySpec == BodyInit /\ [][BodyNext]_bodyVars
=============================================================================
