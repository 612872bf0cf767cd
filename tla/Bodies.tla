------------------------------- MODULE Bodies -------------------------------
(***************************************************************************)
(* The bodies a caller decodes, each with what reading it one character at *)
(* a time gives.                                                           *)
(***************************************************************************)
EXTENDS DecodeReference

CONSTANTS
  Inputs,  \* the bodies
  Trace    \* for each of them, what reading its first n characters gives

ASSUME TraceAssumption ==
  /\ Inputs \subseteq Seq(Byte)
  /\ \A s \in Inputs : IsTrace(s, Trace[s])
=============================================================================
