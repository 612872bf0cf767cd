-------------------------- MODULE DecodeReference --------------------------
(***************************************************************************)
(* What the kernels must compute: a body read one character at a time,     *)
(* with no lookahead.  A character is dropped, decoded or ends the data,   *)
(* depending on the characters before it that the State names.             *)
(***************************************************************************)
EXTENDS DecodeGeneric

-----------------------------------------------------------------------------
To(state, emit, end0) == [state |-> state, emit |-> emit, end |-> end0]

Classified(state, c) ==
  CASE state = "CRLFEQ" /\ c = Y -> To("NONE", <<>>, "control")
    [] state = "EQ" \/ (state = "CRLFEQ" /\ c # Y) ->
         To(IF c = CR THEN "CR" ELSE "NONE", <<Escaped(c)>>, "none")
    [] state = "CRLFDTCR" /\ c = LF -> To("CRLF", <<>>, "article")
    [] state = "CR" /\ c = LF       -> To("CRLF", <<>>, "none")
    [] state = "CRLF" /\ c = DOT    -> To("CRLFDT", <<>>, "none")
    [] state = "CRLFDT" /\ c = CR   -> To("CRLFDTCR", <<>>, "none")
    [] state \in {"CRLF", "CRLFDT"} /\ c = EQ -> To("CRLFEQ", <<>>, "none")
    [] OTHER -> CASE c = CR -> To("CR", <<>>, "none")
                  [] c = LF -> To("NONE", <<>>, "none")
                  [] c = EQ -> To("EQ", <<>>, "none")
                  [] OTHER  -> To("NONE", <<Plain(c)>>, "none")

\* Reading one more character: behind the end of the data nothing happens.
Transition(t, c) ==
  LET r == Classified(t.state, c) IN
  IF t.end # "none" THEN t
  ELSE [state |-> r.state, out |-> t.out \o r.emit, end |-> r.end]

\* A reading not at its end.
At(st, o) == [state |-> st, out |-> o, end |-> "none"]

Start == At("CRLF", <<>>)

Readings == [state : States, out : Seq(Byte), end : Ends]

\* The result of reading the first n characters of s, for every n, when what came
\* before them has given first.
Reading(s, first) ==
  LET next[p \in (1..Len(s)) \X Readings] == Transition(p[2], s[p[1]])
      t[n \in 0..Len(s)] == IF n = 0 THEN first ELSE next[<<n, t[n-1]>>]
  IN  t

\* Of reading all of them.
Outcome(s, first) == Reading(s, first)[Len(s)]

\* t gives the result of reading the first n characters of s, for every n.
IsTrace(s, t) ==
  /\ DOMAIN t = 0..Len(s)
  /\ t[0] = Start
  /\ \A n \in 1..Len(s) : t[n] = Transition(t[n-1], s[n])
=============================================================================
