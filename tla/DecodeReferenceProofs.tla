------------------------ MODULE DecodeReferenceProofs ------------------------
(***************************************************************************)
(* Proofs that the kernel of module DecodeGeneric stays in its slice and   *)
(* comes to an end, and that it computes what module DecodeReference       *)
(* defines, for every text, every part of it the kernel is called on and   *)
(* every State it is called with.                                          *)
(*                                                                         *)
(* The kernel looks up to three characters ahead and reads one of them     *)
(* again (a CR behind a '='), so that the two are not in step: while a     *)
(* call runs, Agrees says for every label how far behind the cursor the    *)
(* reference has come and in which State it is.                            *)
(***************************************************************************)
EXTENDS DecodeReference, Recursion, SequenceTheorems, TLAPS

-----------------------------------------------------------------------------
(* The helpers on configurations.                                          *)

\* Decoding maps characters to characters.
LEMMA DecodedBytes ==
  ASSUME NEW c \in Nat
  PROVE  Plain(c) \in Byte /\ Escaped(c) \in Byte
PROOF BY DEF Byte, Plain, Escaped

\* The characters the kernel looks at, and the cursor, are in the slice.
LEMMA PeekCharacter ==
  ASSUME NEW src \in Seq(Nat), NEW k0 \in Config, NEW i \in Nat,
         k0.pos + i < Len(src)
  PROVE  Peek(src, k0, i) \in Nat
PROOF BY DEF Peek, Config

\* Skip moves the cursor and nothing else.
LEMMA SkipConfig ==
  ASSUME NEW k0 \in Config, NEW n \in Nat
  PROVE  /\ Skip(k0, n) \in Config
         /\ Skip(k0, n).pos = k0.pos + n /\ Skip(k0, n).out = k0.out
         /\ Skip(k0, n).at = k0.at /\ Skip(k0, n).end = k0.end
         /\ Skip(k0, n).state = k0.state
PROOF BY DEF Skip, Config

\* Emit appends to the output and does nothing else.
LEMMA EmitConfig ==
  ASSUME NEW k0 \in Config, NEW c \in Byte
  PROVE  /\ Emit(k0, c) \in Config
         /\ Emit(k0, c).out = Append(k0.out, c)
         /\ Len(Emit(k0, c).out) = Len(k0.out) + 1
         /\ Emit(k0, c).pos = k0.pos
         /\ Emit(k0, c).at = k0.at /\ Emit(k0, c).end = k0.end
         /\ Emit(k0, c).state = k0.state
PROOF BY DEF Emit, Config

\* Finish keeps what has been consumed and produced.
LEMMA FinishConfig ==
  ASSUME NEW k0 \in Config, NEW st \in States, NEW e \in Ends
  PROVE  /\ Finish(k0, st, e) \in Config
         /\ Finish(k0, st, e).at = "done"
         /\ Finish(k0, st, e).state = st /\ Finish(k0, st, e).end = e
         /\ Finish(k0, st, e).pos = k0.pos /\ Finish(k0, st, e).out = k0.out
PROOF BY DEF Finish, Config, Labels

\* A jump changes the label only.
LEMMA LabelConfig ==
  ASSUME NEW k0 \in Config, NEW l \in Labels
  PROVE  /\ [k0 EXCEPT !.at = l] \in Config
         /\ [k0 EXCEPT !.at = l].at = l
         /\ [k0 EXCEPT !.at = l].pos = k0.pos
         /\ [k0 EXCEPT !.at = l].out = k0.out
         /\ [k0 EXCEPT !.at = l].end = k0.end
         /\ [k0 EXCEPT !.at = l].state = k0.state
PROOF BY DEF Config

-----------------------------------------------------------------------------
(***************************************************************************)
(* What holds of every configuration of a call on src: the labels at the   *)
(* start of src have a character to look at, the last two only what they   *)
(* are for, and a call that has not met the end has consumed all of src,   *)
(* or all but a line end.                                                  *)
(***************************************************************************)
Bounded(src, c) ==
  /\ c \in Config
  /\ c.pos <= Len(src) /\ Len(c.out) <= c.pos
  /\ c.at \in States \ {"NONE"} => c.pos < Len(src)
  /\ c.at = "secondLast" => c.pos >= Len(src) - 2
  /\ c.at = "last" => c.pos >= Len(src) - 1
  /\ c.at # "done" => c.end = "none"
  /\ c.at = "done" /\ c.end = "none" =>
       \/ c.pos = Len(src)
       \/ /\ c.pos = Len(src) - 2 /\ c.state = "CRLF"
          /\ Peek(src, c, 0) = CR /\ Peek(src, c, 1) = LF

\* A jump with checkEnd.
LEMMA GotoBounded ==
  ASSUME NEW src \in Seq(Nat), NEW c \in Config, NEW l \in States \ {"NONE"},
         c.pos <= Len(src), Len(c.out) <= c.pos, c.end = "none"
  PROVE  Bounded(src, Goto(src, c, l))
PROOF
  <1>1. CASE c.pos >= Len(src)
    <2>1. Goto(src, c, l) = Finish(c, l, "none")
      BY <1>1 DEF Goto
    <2>2. l \in States /\ "none" \in Ends
      BY DEF Ends
    <2> QED
      BY <1>1, <2>1, <2>2, FinishConfig DEF Bounded, Config, States
  <1>2. CASE c.pos < Len(src)
    <2>1. Goto(src, c, l) = [c EXCEPT !.at = l]
      BY <1>2 DEF Goto, Config
    <2>2. l \in Labels /\ l \notin {"done", "secondLast", "last"}
      BY DEF Labels, States
    <2> QED
      BY <1>2, <2>1, <2>2, LabelConfig DEF Bounded
  <1> QED BY <1>1, <1>2 DEF Config

\* The jump to the loop.
LEMMA LoopBounded ==
  ASSUME NEW src \in Seq(Nat), NEW c \in Config,
         c.pos <= Len(src), Len(c.out) <= c.pos, c.end = "none"
  PROVE  Bounded(src, [c EXCEPT !.at = "NONE"])
PROOF
  <1>1. "NONE" \in Labels /\ "NONE" \notin {"done", "secondLast", "last"}
    BY DEF Labels, States
  <1> QED BY <1>1, LabelConfig DEF Bounded

\* An end is returned wherever the cursor is.
LEMMA EndBounded ==
  ASSUME NEW src \in Seq(Nat), NEW c \in Config, NEW st \in States,
         NEW e \in {"control", "article"},
         c.pos <= Len(src), Len(c.out) <= c.pos
  PROVE  Bounded(src, Finish(c, st, e))
PROOF
  <1> DEFINE r == Finish(c, st, e)
  <1>1. e \in Ends /\ e # "none"
    BY DEF Ends
  <1>2. /\ r \in Config /\ r.at = "done" /\ r.end = e
        /\ r.pos = c.pos /\ r.out = c.out
    BY <1>1, FinishConfig
  <1> HIDE DEF r
  <1>3. Bounded(src, r)
    BY <1>1, <1>2 DEF Bounded, States
  <1> QED BY <1>3 DEF r

\* So is "no end yet" once all of src has been consumed.
LEMMA StopBounded ==
  ASSUME NEW src \in Seq(Nat), NEW c \in Config, NEW st \in States,
         c.pos = Len(src), Len(c.out) <= c.pos
  PROVE  Bounded(src, Finish(c, st, "none"))
PROOF
  <1> DEFINE r == Finish(c, st, "none")
  <1>1. "none" \in Ends
    BY DEF Ends
  <1>2. /\ r \in Config /\ r.at = "done" /\ r.end = "none"
        /\ r.pos = c.pos /\ r.out = c.out
    BY <1>1, FinishConfig
  <1> HIDE DEF r
  <1>3. Bounded(src, r)
    BY <1>2 DEF Bounded, States, Config
  <1> QED BY <1>3 DEF r

\* The labels at the start of src.
LEMMA LabelsBounded ==
  ASSUME NEW src \in Seq(Nat), NEW c, Bounded(src, c),
         c.at \in States \ {"NONE"}
  PROVE  Bounded(src, Step(src, c))
PROOF
  <1>1. /\ c \in Config /\ c.pos \in Nat /\ c.pos < Len(src) /\ c.end = "none"
        /\ Len(c.out) <= c.pos /\ Len(c.out) \in Nat /\ Len(src) \in Nat
    BY DEF Bounded, Config, States
  <1>2. Peek(src, c, 0) \in Nat
    BY <1>1, PeekCharacter
  <1> DEFINE s == Skip(c, 1)
  <1>a. /\ s \in Config /\ s.pos = c.pos + 1 /\ s.out = c.out /\ s.end = c.end
    BY ZenonT(30), <1>1, SkipConfig
  <1>3. /\ s \in Config /\ s.pos = c.pos + 1 /\ s.pos <= Len(src)
        /\ s.out = c.out /\ Len(s.out) <= s.pos /\ s.end = "none"
    <2> HIDE DEF s
    <2> QED BY <1>1, <1>a
  <1> HIDE DEF s
  <1>4. CASE c.at = "CRLFEQ"
    <2>1. Step(src, c) = AtCRLFEQ(src, c)
      BY <1>4 DEF Step
    <2>2. CASE Peek(src, c, 0) = Y
      BY <1>3, <2>1, <2>2, EndBounded DEF AtCRLFEQ, s, States
    <2>3. CASE Peek(src, c, 0) # Y
      <3>1. "EQ" \in Labels /\ "EQ" \notin {"done", "secondLast", "last"}
        BY DEF Labels, States
      <3> QED
        BY <1>1, <2>1, <2>3, <3>1, LabelConfig DEF AtCRLFEQ, Bounded
    <2> QED BY <2>2, <2>3
  <1>5. CASE c.at = "EQ"
    <2> DEFINE n == Emit(s, Escaped(Peek(src, c, 0)))
    <2>1. Step(src, c) = IF Peek(src, c, 0) = CR THEN Goto(src, n, "CR")
                         ELSE [n EXCEPT !.at = "NONE"]
      BY <1>5 DEF Step, AtEQ, s
    <2>a. Escaped(Peek(src, c, 0)) \in Byte
      BY <1>2, DecodedBytes
    <2>b. /\ n \in Config /\ n.pos = s.pos /\ n.end = s.end
          /\ Len(n.out) = Len(s.out) + 1
      BY <1>3, <2>a, EmitConfig
    <2> HIDE DEF n
    <2>2. n \in Config /\ n.pos <= Len(src) /\ Len(n.out) <= n.pos
          /\ n.end = "none"
      BY <1>1, <1>3, <2>b
    <2>3. "CR" \in States \ {"NONE"}
      BY DEF States
    <2> QED BY <2>1, <2>2, <2>3, GotoBounded, LoopBounded
  <1>6. CASE c.at = "CR"
    <2>1. Step(src, c) = IF Peek(src, c, 0) = LF THEN Goto(src, s, "CRLF")
                         ELSE [c EXCEPT !.at = "NONE"]
      BY <1>6 DEF Step, AtCR, s
    <2>2. "CRLF" \in States \ {"NONE"}
      BY DEF States
    <2> QED BY <1>1, <1>3, <2>1, <2>2, GotoBounded, LoopBounded
  <1>7. CASE c.at = "CRLF"
    <2>1. Step(src, c) = CASE Peek(src, c, 0) = DOT -> Goto(src, s, "CRLFDT")
                           [] Peek(src, c, 0) = EQ  -> Goto(src, s, "CRLFEQ")
                           [] OTHER -> [c EXCEPT !.at = "NONE"]
      BY <1>7 DEF Step, AtCRLF, s
    <2>2. {"CRLFDT", "CRLFEQ"} \subseteq States \ {"NONE"}
      BY DEF States
    <2> QED BY <1>1, <1>3, <2>1, <2>2, GotoBounded, LoopBounded
  <1>8. CASE c.at = "CRLFDT"
    <2>1. Step(src, c) = CASE Peek(src, c, 0) = CR -> Goto(src, s, "CRLFDTCR")
                           [] Peek(src, c, 0) = EQ -> Goto(src, s, "CRLFEQ")
                           [] OTHER -> [c EXCEPT !.at = "NONE"]
      BY <1>8 DEF Step, AtCRLFDT, s
    <2>2. {"CRLFDTCR", "CRLFEQ"} \subseteq States \ {"NONE"}
      BY DEF States
    <2> QED BY <1>1, <1>3, <2>1, <2>2, GotoBounded, LoopBounded
  <1>9. CASE c.at = "CRLFDTCR"
    <2>1. Step(src, c) = IF Peek(src, c, 0) = LF THEN Finish(s, "CRLF", "article")
                         ELSE [c EXCEPT !.at = "NONE"]
      BY <1>9 DEF Step, AtCRLFDTCR, s
    <2>2. "CRLF" \in States
      BY DEF States
    <2> QED BY <1>1, <1>3, <2>1, <2>2, EndBounded, LoopBounded
  <1> QED BY <1>4, <1>5, <1>6, <1>7, <1>8, <1>9 DEF States

\* One character or an escaped pair: the cursor moves by as much as is produced
\* or more, and stays in src.
LEMMA OneCharMoves ==
  ASSUME NEW src \in Seq(Nat), NEW c \in Config, c.pos + 1 < Len(src)
  PROVE  LET n == OneChar(src, c) IN
         /\ n \in Config /\ n.at = c.at /\ n.end = c.end /\ n.state = c.state
         /\ n.pos \in {c.pos + 1, c.pos + 2}
         /\ Len(n.out) <= Len(c.out) + 1
PROOF
  <1> DEFINE p == Peek(src, c, 0)
             q == Peek(src, c, 1)
             m == IF q = CR THEN 1 ELSE 2
  <1>1. c.pos \in Nat /\ Len(c.out) \in Nat /\ Len(src) \in Nat
    BY DEF Config
  <1>2. p \in Nat /\ q \in Nat
    BY <1>1, PeekCharacter
  <1>3. Plain(p) \in Byte /\ Escaped(q) \in Byte
    BY <1>2, DecodedBytes
  <1>4. m \in {1, 2}
    OBVIOUS
  <1> HIDE DEF p, q, m
  <1>5. \A n \in {1, 2} :
           /\ Skip(c, n) \in Config /\ Skip(c, n).pos = c.pos + n
           /\ Skip(c, n).out = c.out /\ Skip(c, n).at = c.at
           /\ Skip(c, n).end = c.end /\ Skip(c, n).state = c.state
    BY SMTT(30), SkipConfig
  <1>6. CASE p \in {CR, LF}
    <2>1. OneChar(src, c) = Skip(c, 1)
      BY <1>6 DEF OneChar, p
    <2> QED BY SMTT(30), <1>1, <1>5, <2>1
  <1>7. CASE p \notin {CR, LF} /\ p = EQ
    <2>1. OneChar(src, c) = Emit(Skip(c, m), Escaped(q))
      BY <1>7 DEF OneChar, EscapedPair, p, q, m
    <2> DEFINE s == Skip(c, m)
    <2>a. /\ s \in Config /\ s.pos = c.pos + m /\ s.out = c.out /\ s.at = c.at
          /\ s.end = c.end /\ s.state = c.state
      BY <1>4, <1>5
    <2> HIDE DEF s
    <2> DEFINE e == Emit(s, Escaped(q))
    <2>b. /\ e \in Config /\ e.pos = s.pos /\ Len(e.out) = Len(s.out) + 1
          /\ e.at = s.at /\ e.end = s.end /\ e.state = s.state
      BY <1>3, <2>a, EmitConfig
    <2> HIDE DEF e
    <2>2. /\ e \in Config /\ e.pos = c.pos + m /\ Len(e.out) = Len(c.out) + 1
          /\ e.at = c.at /\ e.end = c.end /\ e.state = c.state
      BY <2>a, <2>b
    <2>3. OneChar(src, c) = e
      BY <2>1 DEF e, s
    <2> QED BY SMTT(30), <1>1, <1>4, <2>2, <2>3
  <1>8. CASE p \notin {CR, LF} /\ p # EQ
    <2>1. OneChar(src, c) = Emit(Skip(c, 1), Plain(p))
      BY <1>8 DEF OneChar, p
    <2> DEFINE s == Skip(c, 1)
    <2>a. /\ s \in Config /\ s.pos = c.pos + 1 /\ s.out = c.out /\ s.at = c.at
          /\ s.end = c.end /\ s.state = c.state
      BY <1>5
    <2> HIDE DEF s
    <2> DEFINE e == Emit(s, Plain(p))
    <2>b. /\ e \in Config /\ e.pos = s.pos /\ Len(e.out) = Len(s.out) + 1
          /\ e.at = s.at /\ e.end = s.end /\ e.state = s.state
      BY <1>3, <2>a, EmitConfig
    <2> HIDE DEF e
    <2>2. /\ e \in Config /\ e.pos = c.pos + 1 /\ Len(e.out) = Len(c.out) + 1
          /\ e.at = c.at /\ e.end = c.end /\ e.state = c.state
      BY <2>a, <2>b
    <2>3. OneChar(src, c) = e
      BY <2>1 DEF e, s
    <2> QED BY <1>1, <2>2, <2>3
  <1> QED BY <1>6, <1>7, <1>8

\* Behind a '=' that begins a line.
LEMMA AfterLineEQBounded ==
  ASSUME NEW src \in Seq(Nat), NEW c \in Config, c.pos <= Len(src),
         Len(c.out) + 1 <= c.pos, c.at = "NONE", c.end = "none"
  PROVE  Bounded(src, AfterLineEQ(src, c))
PROOF
  <1>1. c.pos \in Nat /\ Len(c.out) \in Nat /\ Len(src) \in Nat
    BY DEF Config
  <1>2. {"NONE", "CRLFEQ"} \subseteq States /\ "none" \in Ends
        /\ "NONE" \notin {"done", "secondLast", "last"}
    BY DEF States, Ends
  <1>3. CASE c.pos >= Len(src)
    <2>1. AfterLineEQ(src, c) = Finish(c, "CRLFEQ", "none")
      BY <1>3 DEF AfterLineEQ
    <2>2. c.pos = Len(src) /\ Len(c.out) <= c.pos
      BY <1>1, <1>3
    <2> QED BY <1>2, <2>1, <2>2, StopBounded
  <1>4. CASE c.pos < Len(src)
    <2> DEFINE p == Peek(src, c, 0)
               m == IF p = CR THEN 0 ELSE 1
               n == Emit(Skip(c, m), Escaped(p))
    <2>1. AfterLineEQ(src, c) = IF p = Y THEN Finish(Skip(c, 1), "NONE", "control")
                                ELSE n
      BY <1>1, <1>4 DEF AfterLineEQ
    <2>2. p \in Nat
      BY <1>1, <1>4, PeekCharacter
    <2>3. Escaped(p) \in Byte
      BY <2>2, DecodedBytes
    <2>4. m \in {0, 1}
      OBVIOUS
    <2>5. \A i \in {0, 1} :
             /\ Skip(c, i) \in Config /\ Skip(c, i).pos = c.pos + i
             /\ Skip(c, i).out = c.out /\ Skip(c, i).at = c.at
             /\ Skip(c, i).end = c.end
      <3>1. \A i \in {0, 1} : i \in Nat
        OBVIOUS
      <3> HIDE DEF m, p
      <3> QED BY <3>1, SkipConfig
    <2> HIDE DEF p, m
    <2>6. /\ n \in Config /\ n.pos = c.pos + m /\ Len(n.out) = Len(c.out) + 1
          /\ n.at = c.at /\ n.end = c.end
      <3> DEFINE s == Skip(c, m)
      <3>1. /\ s \in Config /\ s.pos = c.pos + m /\ s.out = c.out
            /\ s.at = c.at /\ s.end = c.end
        BY <2>4, <2>5
      <3> HIDE DEF s
      <3>2. LET e == Emit(s, Escaped(p)) IN
            /\ e \in Config /\ e.pos = s.pos /\ Len(e.out) = Len(s.out) + 1
            /\ e.at = s.at /\ e.end = s.end
        BY <2>3, <3>1, EmitConfig
      <3> QED BY <3>1, <3>2 DEF s
    <2> HIDE DEF n
    <2>7. Bounded(src, n)
      BY <1>1, <1>2, <1>4, <2>4, <2>6 DEF Bounded
    <2>8. Bounded(src, Finish(Skip(c, 1), "NONE", "control"))
      BY SMTT(30), <1>1, <1>2, <1>4, <2>5, EndBounded
    <2> QED BY <2>1, <2>7, <2>8
  <1> QED BY <1>1, <1>3, <1>4

\* Behind a '.' that begins a line.
LEMMA AfterLineDotBounded ==
  ASSUME NEW src \in Seq(Nat), NEW c \in Config, c.pos <= Len(src),
         Len(c.out) + 1 <= c.pos, c.at = "NONE", c.end = "none"
  PROVE  Bounded(src, AfterLineDot(src, c))
PROOF
  <1>1. c.pos \in Nat /\ Len(c.out) \in Nat /\ Len(src) \in Nat
    BY DEF Config
  <1>2. {"CRLFDT", "CRLFDTCR", "CRLF"} \subseteq States /\ "none" \in Ends
        /\ "NONE" \notin {"done", "secondLast", "last"}
    BY DEF States, Ends
  <1>3. Bounded(src, c)
    BY <1>1, <1>2 DEF Bounded
  <1>4. CASE c.pos >= Len(src)
    <2>1. AfterLineDot(src, c) = Finish(c, "CRLFDT", "none")
      BY <1>4 DEF AfterLineDot
    <2>2. c.pos = Len(src) /\ Len(c.out) <= c.pos
      BY <1>1, <1>4
    <2> QED BY <1>2, <2>1, <2>2, StopBounded
  <1>5. CASE c.pos < Len(src)
    <2> DEFINE s == Skip(c, 1)
    <2>1. /\ s \in Config /\ s.pos = c.pos + 1 /\ s.out = c.out
          /\ s.at = "NONE" /\ s.end = "none"
      BY SkipConfig
    <2>2. AfterLineDot(src, c) = IF Peek(src, c, 0) = CR THEN AfterLineDotCR(src, s)
                                 ELSE IF Peek(src, c, 0) = EQ THEN AfterLineEQ(src, s)
                                 ELSE c
      BY <1>1, <1>5 DEF AfterLineDot
    <2> HIDE DEF s
    <2>3. Bounded(src, AfterLineEQ(src, s))
      BY SMTT(30), <1>1, <1>5, <2>1, AfterLineEQBounded
    <2>4. Bounded(src, s)
      BY <1>1, <1>2, <1>5, <2>1 DEF Bounded
    <2>5. CASE s.pos >= Len(src)
      <3>1. AfterLineDotCR(src, s) = Finish(s, "CRLFDTCR", "none")
        BY <2>5 DEF AfterLineDotCR
      <3>2. Bounded(src, AfterLineDotCR(src, s))
        <4>1. s.pos = Len(src) /\ Len(s.out) <= s.pos
          BY <1>1, <1>5, <2>1, <2>5
        <4> QED BY <1>2, <2>1, <3>1, <4>1, StopBounded
      <3> QED BY <1>3, <2>2, <2>3, <3>2
    <2>6. CASE s.pos < Len(src)
      <3> DEFINE d == Skip(s, 1)
      <3>1. /\ d \in Config /\ d.pos = s.pos + 1 /\ d.out = c.out
        BY <2>1, SkipConfig
      <3>2. AfterLineDotCR(src, s) = IF Peek(src, s, 0) = LF
                                     THEN Finish(d, "CRLF", "article") ELSE s
        BY <1>1, <2>1, <2>6 DEF AfterLineDotCR
      <3> HIDE DEF d
      <3>3. Bounded(src, Finish(d, "CRLF", "article"))
        BY SMTT(30), <1>1, <1>2, <2>1, <2>6, <3>1, EndBounded
      <3> QED BY <1>3, <2>2, <2>3, <2>4, <3>2, <3>3
    <2> QED BY <1>1, <2>1, <2>5, <2>6
  <1> QED BY <1>1, <1>4, <1>5

\* An iteration of the loop.
LEMMA NONEBounded ==
  ASSUME NEW src \in Seq(Nat), NEW c, Bounded(src, c), c.at = "NONE"
  PROVE  Bounded(src, Step(src, c))
PROOF
  <1>1. /\ c \in Config /\ c.pos \in Nat /\ c.pos <= Len(src) /\ c.end = "none"
        /\ Len(c.out) <= c.pos /\ Len(c.out) \in Nat /\ Len(src) \in Nat
    BY DEF Bounded, Config
  <1>2. Step(src, c) = AtNONE(src, c)
    BY DEF Step
  <1>3. CASE c.pos > Len(src) - 3
    <2>0. ~(c.pos <= Len(src) - 3)
      BY <1>1, <1>3
    <2>1. Step(src, c) = [c EXCEPT !.at = "secondLast"]
      BY <1>2, <1>3, <2>0 DEF AtNONE
    <2>2. "secondLast" \in Labels /\ "secondLast" \notin States
      BY DEF Labels, States
    <2> QED BY <1>1, <1>3, <2>1, <2>2, LabelConfig DEF Bounded
  <1>4. CASE c.pos <= Len(src) - 3
    <2> DEFINE s == Skip(c, 3)
               n == OneChar(src, c)
    <2>1. /\ s \in Config /\ s.pos = c.pos + 3 /\ s.out = c.out
          /\ s.at = "NONE" /\ s.end = "none"
      BY <1>1, SkipConfig
    <2>2. Bounded(src, AfterLineDot(src, s)) /\ Bounded(src, AfterLineEQ(src, s))
      <3> HIDE DEF s
      <3> QED BY SMTT(30), <1>1, <1>4, <2>1, AfterLineDotBounded, AfterLineEQBounded
    <2>3. /\ n \in Config /\ n.at = "NONE" /\ n.end = "none"
          /\ n.pos \in {c.pos + 1, c.pos + 2} /\ Len(n.out) <= Len(c.out) + 1
      BY <1>1, <1>4, OneCharMoves
    <2>4. Bounded(src, n)
      <3> HIDE DEF n
      <3>1. "NONE" \notin {"done", "secondLast", "last"}
        OBVIOUS
      <3> QED BY SMTT(30), <1>1, <1>4, <2>3, <3>1 DEF Bounded
    <2>5. Step(src, c) \in {AfterLineDot(src, s), AfterLineEQ(src, s), n}
      <3>1. ~(c.pos > Len(src) - 3)
        BY <1>1, <1>4
      <3> QED BY <1>2, <1>4, <3>1 DEF AtNONE
    <2> QED BY <2>2, <2>4, <2>5
  <1> QED BY <1>1, <1>3, <1>4

\* The last two characters.
LEMMA TailBounded ==
  ASSUME NEW src \in Seq(Nat), NEW c, Bounded(src, c),
         c.at \in {"secondLast", "last"}
  PROVE  Bounded(src, Step(src, c))
PROOF
  <1>1. /\ c \in Config /\ c.pos \in Nat /\ c.pos <= Len(src) /\ c.end = "none"
        /\ Len(c.out) <= c.pos /\ Len(c.out) \in Nat /\ Len(src) \in Nat
    BY DEF Bounded, Config
  <1>2. {"CRLF", "EQ", "CR", "NONE"} \subseteq States /\ "none" \in Ends
        /\ "last" \in Labels /\ "last" \notin States \cup {"done", "secondLast"}
        /\ "done" \notin States
    BY DEF States, Ends, Labels
  <1>3. CASE c.at = "secondLast"
    <2>0. Step(src, c) = AtSecondLast(src, c)
      BY <1>3 DEF Step
    <2>1. CASE c.pos # Len(src) - 2
      <3>1. Step(src, c) = [c EXCEPT !.at = "last"]
        BY <2>0, <2>1 DEF AtSecondLast
      <3>2. c.pos >= Len(src) - 1
        BY <1>1, <1>3, <2>1 DEF Bounded
      <3> QED BY <1>1, <1>2, <3>1, <3>2, LabelConfig DEF Bounded
    <2>2. CASE c.pos = Len(src) - 2 /\ AtLineEnd(src, c)
      <3>1. Step(src, c) = Finish(c, "CRLF", "none")
        BY <2>0, <2>2 DEF AtSecondLast
      <3>2. LET r == Finish(c, "CRLF", "none") IN
            /\ r \in Config /\ r.at = "done" /\ r.state = "CRLF"
            /\ r.end = "none" /\ r.pos = c.pos /\ r.out = c.out
            /\ Peek(src, r, 0) = CR /\ Peek(src, r, 1) = LF
        BY SMTT(30), <1>1, <1>2, <2>2, FinishConfig DEF AtLineEnd, Peek
      <3> QED BY <1>1, <1>2, <2>2, <3>1, <3>2 DEF Bounded
    <2>3. CASE c.pos = Len(src) - 2 /\ ~AtLineEnd(src, c)
      <3> DEFINE n == OneChar(src, c)
      <3>1. Step(src, c) = [n EXCEPT !.at = "last"]
        BY <2>0, <2>3 DEF AtSecondLast
      <3>a. c.pos + 1 < Len(src)
        BY <1>1, <2>3
      <3>2. /\ n \in Config /\ n.end = "none" /\ Len(n.out) <= Len(c.out) + 1
            /\ n.pos \in {c.pos + 1, c.pos + 2}
        BY <1>1, <3>a, OneCharMoves
      <3> HIDE DEF n
      <3>3. Len(n.out) \in Nat /\ Len(n.out) <= n.pos
        BY <1>1, <3>2 DEF Config
      <3> QED
        BY SMTT(30), <1>1, <1>2, <2>3, <3>1, <3>2, <3>3, LabelConfig DEF Bounded
    <2> QED BY <2>1, <2>2, <2>3
  <1>4. CASE c.at = "last"
    <2>0. Step(src, c) = AtLast(src, c)
      BY <1>4 DEF Step
    <2>1. CASE c.pos # Len(src) - 1
      <3>1. Step(src, c) = Finish(c, "NONE", "none")
        BY <2>0, <2>1 DEF AtLast
      <3>2. c.pos = Len(src)
        BY <1>1, <1>4, <2>1 DEF Bounded
      <3> QED BY <1>1, <1>2, <3>1, <3>2, StopBounded
    <2>2. CASE c.pos = Len(src) - 1
      <3> DEFINE p == Peek(src, c, 0)
                 s == Skip(c, 1)
                 e == Emit(s, Plain(p))
      <3>1. p \in Nat
        BY <1>1, <2>2, PeekCharacter
      <3>2. /\ s \in Config /\ s.pos = c.pos + 1 /\ s.out = c.out
            /\ s.end = "none"
        BY <1>1, SkipConfig
      <3>3. Plain(p) \in Byte
        BY <3>1, DecodedBytes
      <3>4. \/ \E st \in {"EQ", "CR", "NONE"} : Step(src, c) = Finish(s, st, "none")
            \/ Step(src, c) = Finish(e, "NONE", "none")
        BY <2>0, <2>2 DEF AtLast
      <3> HIDE DEF p, s
      <3>5. /\ e \in Config /\ e.pos = s.pos /\ e.end = "none"
            /\ Len(e.out) = Len(s.out) + 1
        BY <3>2, <3>3, EmitConfig
      <3> HIDE DEF e
      <3>6. s.pos = Len(src) /\ Len(s.out) <= s.pos
            /\ e.pos = Len(src) /\ Len(e.out) <= e.pos
        BY <1>1, <2>2, <3>2, <3>5
      <3>7. \A st \in {"EQ", "CR", "NONE"} : Bounded(src, Finish(s, st, "none"))
        BY <1>2, <3>2, <3>6, StopBounded
      <3>8. Bounded(src, Finish(e, "NONE", "none"))
        BY <1>2, <3>5, <3>6, StopBounded
      <3> QED BY <3>4, <3>7, <3>8
    <2> QED BY <2>1, <2>2
  <1> QED BY <1>3, <1>4

\* A call starts, and every step of it stays, within bounds.
LEMMA StepBounded ==
  ASSUME NEW src \in Seq(Nat), NEW c, Bounded(src, c), c.at # "done"
  PROVE  Bounded(src, Step(src, c))
PROOF
  <1>1. c.at \in Labels
    BY DEF Bounded, Config
  <1> QED
    BY <1>1, LabelsBounded, NONEBounded, TailBounded DEF Labels

\* A call begins within its bounds.
LEMMA EnterBounded ==
  ASSUME NEW src \in Seq(Nat), NEW st \in States
  PROVE  Bounded(src, Enter(src, st))
PROOF
  <1>1. st \in Labels /\ "done" \in Labels /\ "none" \in Ends
        /\ st \notin {"done", "secondLast", "last"}
    BY DEF Labels, Ends, States
  <1>2. Enter(src, st) \in Config
    BY <1>1 DEF Enter, Config
  <1>3. src # <<>> => Len(src) > 0
    OBVIOUS
  <1> QED BY <1>1, <1>2, <1>3 DEF Enter, Bounded, States

-----------------------------------------------------------------------------
(***************************************************************************)
(* A call comes to its end: a step of it consumes a character, or comes to *)
(* a label that is nearer to the end.                                      *)
(***************************************************************************)
LabelRank(l) ==
  CASE l = "done"       -> 0
    [] l = "last"       -> 1
    [] l = "secondLast" -> 2
    [] l = "NONE"       -> 3
    [] l = "CRLFEQ"     -> 5
    [] OTHER            -> 4

Rank(src, c) == 6 * (Len(src) - c.pos) + LabelRank(c.at)

Advances(src, c, n) ==
  /\ n \in Calls(src)
  /\ c.pos <= n.pos
  /\ c.pos = n.pos => LabelRank(n.at) < LabelRank(c.at)

\* A step that advances lowers the rank.
LEMMA RankIsNat ==
  ASSUME NEW src \in Seq(Nat), NEW c \in Calls(src)
  PROVE  Rank(src, c) \in Nat /\ LabelRank(c.at) \in 0..5
PROOF
  <1>1. c.pos \in Nat /\ Len(src) \in Nat /\ c.pos <= Len(src)
    BY DEF Calls, Config
  <1>2. LabelRank(c.at) \in 0..5
    BY DEF LabelRank
  <1> QED BY <1>1, <1>2 DEF Rank

\* A step that moves on, or stays and reaches a label of lower rank, lowers
\* the rank of the call.
LEMMA AdvancesLowers ==
  ASSUME NEW src \in Seq(Nat), NEW c \in Calls(src), NEW n, Advances(src, c, n)
  PROVE  Rank(src, n) < Rank(src, c)
PROOF
  <1>1. /\ c.pos \in Nat /\ n.pos \in Nat /\ Len(src) \in Nat
        /\ c.pos <= n.pos /\ n.pos <= Len(src) /\ n \in Calls(src)
    BY DEF Advances, Calls, Config
  <1>2. LabelRank(c.at) \in 0..5 /\ LabelRank(n.at) \in 0..5
    BY <1>1, RankIsNat
  <1>3. c.pos = n.pos => LabelRank(n.at) < LabelRank(c.at)
    BY DEF Advances
  <1>4. \A p, q, m \in Nat, i, j \in 0..5 :
           p <= q /\ (p = q => j < i) => 6 * (m - q) + j < 6 * (m - p) + i
    OBVIOUS
  <1>5. 6 * (Len(src) - n.pos) + LabelRank(n.at)
          < 6 * (Len(src) - c.pos) + LabelRank(c.at)
    BY <1>1, <1>2, <1>3, <1>4
  <1> QED BY <1>5 DEF Rank

\* The configurations of a call: those that finish, those behind a jump.
LEMMA FinishCalls ==
  ASSUME NEW src \in Seq(Nat), NEW c \in Config, c.pos <= Len(src),
         NEW st \in States, NEW e \in Ends
  PROVE  /\ Finish(c, st, e) \in Calls(src) /\ Finish(c, st, e).pos = c.pos
         /\ LabelRank(Finish(c, st, e).at) = 0
PROOF
  <1> DEFINE r == Finish(c, st, e)
  <1>1. r \in Config /\ r.at = "done" /\ r.pos = c.pos
    BY FinishConfig
  <1> HIDE DEF r
  <1>2. r \in Calls(src) /\ r.pos = c.pos /\ LabelRank(r.at) = 0
    BY <1>1 DEF Calls, States, LabelRank
  <1> QED BY <1>2 DEF r

\* Going to a label inside the slice stays among the calls.
LEMMA JumpCalls ==
  ASSUME NEW src \in Seq(Nat), NEW c \in Config, c.pos <= Len(src),
         NEW l \in Labels, l \in States \ {"NONE"} => c.pos < Len(src)
  PROVE  LET r == [c EXCEPT !.at = l] IN
         r \in Calls(src) /\ r.pos = c.pos /\ r.at = l
PROOF
  <1> DEFINE r == [c EXCEPT !.at = l]
  <1>1. r \in Config /\ r.at = l /\ r.pos = c.pos
    BY LabelConfig
  <1> HIDE DEF r
  <1>2. r \in Calls(src)
    BY <1>1 DEF Calls
  <1> QED BY <1>1, <1>2 DEF r

\* What goto does at the end of the slice, or inside it, stays among the
\* calls.
LEMMA GotoCalls ==
  ASSUME NEW src \in Seq(Nat), NEW c \in Config, c.pos <= Len(src),
         NEW l \in States \ {"NONE"}
  PROVE  Goto(src, c, l) \in Calls(src) /\ Goto(src, c, l).pos = c.pos
PROOF
  <1>1. l \in States /\ l \in Labels /\ "none" \in Ends
    BY DEF Labels, Ends
  <1>2. c.pos \in Nat /\ Len(src) \in Nat
    BY DEF Config
  <1>3. CASE c.pos >= Len(src)
    BY <1>1, <1>3, FinishCalls DEF Goto
  <1>4. CASE c.pos < Len(src)
    <2>1. Goto(src, c, l) = [c EXCEPT !.at = l]
      BY <1>2, <1>4 DEF Goto
    <2> QED BY <1>1, <1>4, <2>1, JumpCalls
  <1> QED BY <1>2, <1>3, <1>4

\* Returning to a loop stays among the calls.
LEMMA LoopCalls ==
  ASSUME NEW src \in Seq(Nat), NEW c \in Config, c.pos <= Len(src),
         c.at \in {"NONE", "secondLast", "last"}
  PROVE  c \in Calls(src)
PROOF BY DEF Calls, States

\* A step to any configuration further on.
LEMMA FurtherAdvances ==
  ASSUME NEW src \in Seq(Nat), NEW c \in Config, NEW n \in Calls(src),
         c.pos < n.pos
  PROVE  Advances(src, c, n)
PROOF
  <1>1. c.pos \in Nat /\ n.pos \in Nat
    BY DEF Calls, Config
  <1> QED BY <1>1 DEF Advances

\* The labels at the start of src.
LEMMA LabelsAdvance ==
  ASSUME NEW src \in Seq(Nat), NEW c \in Calls(src), c.at \in States \ {"NONE"}
  PROVE  Advances(src, c, Step(src, c))
PROOF
  <1> DEFINE p == Peek(src, c, 0)
             s == Skip(c, 1)
             m == Emit(s, Escaped(p))
  <1>1. /\ c \in Config /\ c.pos \in Nat /\ c.pos < Len(src) /\ Len(src) \in Nat
    BY DEF Calls, Config
  <1>2. Escaped(p) \in Byte
    BY <1>1, PeekCharacter, DecodedBytes
  <1>3. s \in Config /\ s.pos = c.pos + 1
    BY <1>1, SkipConfig
  <1> HIDE DEF p, s
  <1>4. m \in Config /\ m.pos = c.pos + 1
    BY <1>2, <1>3, EmitConfig
  <1> HIDE DEF m
  <1>5. /\ {"EQ", "CR", "CRLF", "CRLFDT", "CRLFDTCR", "CRLFEQ"}
             \subseteq States \ {"NONE"}
        /\ "NONE" \in States /\ "NONE" \in Labels /\ "EQ" \in Labels
        /\ {"none", "control", "article"} \subseteq Ends
        /\ "NONE" \notin States \ {"NONE"}
    BY DEF States, Labels, Ends
  <1>6. s.pos <= Len(src) /\ m.pos <= Len(src) /\ c.pos < s.pos /\ c.pos < m.pos
        /\ c.pos <= Len(src)
    BY <1>1, <1>3, <1>4
  <1>7. \A l \in States \ {"NONE"} : Advances(src, c, Goto(src, s, l))
    BY <1>1, <1>3, <1>6, GotoCalls, FurtherAdvances
  <1>8. \A st \in States, e \in Ends : Advances(src, c, Finish(s, st, e))
    BY <1>1, <1>3, <1>6, FinishCalls, FurtherAdvances
  <1>9. Advances(src, c, Goto(src, m, "CR"))
    BY <1>1, <1>4, <1>5, <1>6, GotoCalls, FurtherAdvances
  <1>10. Advances(src, c, [m EXCEPT !.at = "NONE"])
    <2> DEFINE r == [m EXCEPT !.at = "NONE"]
    <2>1. r \in Calls(src) /\ r.pos = m.pos
      BY <1>4, <1>5, <1>6, JumpCalls
    <2> HIDE DEF r
    <2>2. Advances(src, c, r)
      BY <1>1, <1>6, <2>1, FurtherAdvances
    <2> QED BY <2>2 DEF r
  <1>11. Advances(src, c, [c EXCEPT !.at = "NONE"])
    <2> DEFINE r == [c EXCEPT !.at = "NONE"]
    <2>1. r \in Calls(src) /\ r.pos = c.pos /\ r.at = "NONE"
      BY <1>1, <1>5, <1>6, JumpCalls
    <2> HIDE DEF r
    <2>2. LabelRank(r.at) = 3 /\ LabelRank(c.at) > 3
      BY <2>1 DEF LabelRank, States
    <2>3. Advances(src, c, r)
      BY <1>1, <2>1, <2>2 DEF Advances
    <2> QED BY <2>3 DEF r
  <1>12. c.at = "CRLFEQ" => Advances(src, c, [c EXCEPT !.at = "EQ"])
    <2> SUFFICES ASSUME c.at = "CRLFEQ"
                 PROVE  Advances(src, c, [c EXCEPT !.at = "EQ"])
      OBVIOUS
    <2> DEFINE r == [c EXCEPT !.at = "EQ"]
    <2>1. r \in Calls(src) /\ r.pos = c.pos /\ r.at = "EQ"
      BY <1>1, <1>5, <1>6, JumpCalls
    <2> HIDE DEF r
    <2>2. LabelRank(r.at) = 4 /\ LabelRank(c.at) = 5
      BY <2>1 DEF LabelRank
    <2>3. Advances(src, c, r)
      BY <1>1, <2>1, <2>2 DEF Advances
    <2> QED BY <2>3 DEF r
  <1>13. CASE c.at = "CRLFEQ"
    <2>1. Step(src, c) \in {Finish(s, "NONE", "control"), [c EXCEPT !.at = "EQ"]}
      BY <1>13 DEF Step, AtCRLFEQ, p, s
    <2> QED BY <1>5, <1>8, <1>12, <1>13, <2>1
  <1>14. CASE c.at = "EQ"
    <2>1. Step(src, c) \in {Goto(src, m, "CR"), [m EXCEPT !.at = "NONE"]}
      BY <1>14 DEF Step, AtEQ, p, s, m
    <2> QED BY <1>9, <1>10, <2>1
  <1>15. CASE c.at = "CR"
    <2>1. Step(src, c) \in {Goto(src, s, "CRLF"), [c EXCEPT !.at = "NONE"]}
      BY <1>15 DEF Step, AtCR, p, s
    <2> QED BY <1>5, <1>7, <1>11, <2>1
  <1>16. CASE c.at = "CRLF"
    <2>1. Step(src, c) \in {Goto(src, s, "CRLFDT"), Goto(src, s, "CRLFEQ"), [c EXCEPT !.at = "NONE"]}
      BY <1>16 DEF Step, AtCRLF, p, s
    <2> QED BY <1>5, <1>7, <1>11, <2>1
  <1>17. CASE c.at = "CRLFDT"
    <2>1. Step(src, c) \in {Goto(src, s, "CRLFDTCR"), Goto(src, s, "CRLFEQ"), [c EXCEPT !.at = "NONE"]}
      BY <1>17 DEF Step, AtCRLFDT, p, s
    <2> QED BY <1>5, <1>7, <1>11, <2>1
  <1>18. CASE c.at = "CRLFDTCR"
    <2>1. Step(src, c) \in {Finish(s, "CRLF", "article"), [c EXCEPT !.at = "NONE"]}
      BY <1>18 DEF Step, AtCRLFDTCR, p, s
    <2> QED BY <1>5, <1>8, <1>11, <2>1
  <1> QED BY <1>13, <1>14, <1>15, <1>16, <1>17, <1>18 DEF States

\* Behind a '=', or a '.', that begins a line: the cursor moves on or stays.
LEMMA AfterLineEQAdvances ==
  ASSUME NEW src \in Seq(Nat), NEW c \in Config, c.pos <= Len(src), c.at = "NONE"
  PROVE  AfterLineEQ(src, c) \in Calls(src) /\ c.pos <= AfterLineEQ(src, c).pos
PROOF
  <1>1. c.pos \in Nat /\ Len(src) \in Nat
    BY DEF Config
  <1>2. {"NONE", "CRLFEQ"} \subseteq States /\ {"none", "control"} \subseteq Ends
    BY DEF States, Ends
  <1>3. CASE c.pos >= Len(src)
    <2>1. AfterLineEQ(src, c) = Finish(c, "CRLFEQ", "none")
      BY <1>3 DEF AfterLineEQ
    <2> QED BY <1>1, <1>2, <2>1, FinishCalls
  <1>4. CASE c.pos < Len(src)
    <2> DEFINE p == Peek(src, c, 0)
               d == IF p = CR THEN 0 ELSE 1
               s == Skip(c, d)
               m == Emit(s, Escaped(p))
               t == Skip(c, 1)
    <2>1. AfterLineEQ(src, c) \in {Finish(t, "NONE", "control"), m}
      BY <1>1, <1>4 DEF AfterLineEQ
    <2>2. Escaped(p) \in Byte
      BY <1>1, <1>4, PeekCharacter, DecodedBytes
    <2>3. d \in Nat /\ d <= 1
      OBVIOUS
    <2> HIDE DEF p, d
    <2>4. s \in Config /\ s.pos = c.pos + d /\ s.at = "NONE"
      BY <2>3, SkipConfig
    <2>5. t \in Config /\ t.pos = c.pos + 1
      BY SkipConfig
    <2> HIDE DEF s, t
    <2>6. m \in Config /\ m.pos = s.pos /\ m.at = s.at
      BY <2>2, <2>4, EmitConfig
    <2> HIDE DEF m
    <2>7. m \in Calls(src) /\ c.pos <= m.pos
      <3>1. m.pos <= Len(src) /\ c.pos <= m.pos /\ m.at = "NONE"
        BY <1>1, <1>4, <2>3, <2>4, <2>6
      <3> QED BY <2>6, <3>1, LoopCalls
    <2> DEFINE r == Finish(t, "NONE", "control")
    <2>8. r \in Calls(src) /\ c.pos <= r.pos
      <3>1. t.pos <= Len(src) /\ c.pos <= t.pos
        BY <1>1, <1>4, <2>5
      <3>2. r \in Calls(src) /\ r.pos = t.pos
        BY <1>2, <2>5, <3>1, FinishCalls
      <3> HIDE DEF r
      <3> QED BY <3>1, <3>2
    <2> HIDE DEF r
    <2>9. AfterLineEQ(src, c) \in {r, m}
      BY <2>1 DEF r
    <2> QED BY <2>7, <2>8, <2>9
  <1> QED BY <1>1, <1>3, <1>4

\* Behind a line's dot the kernel moves on.
LEMMA AfterLineDotAdvances ==
  ASSUME NEW src \in Seq(Nat), NEW c \in Config, c.pos <= Len(src), c.at = "NONE"
  PROVE  AfterLineDot(src, c) \in Calls(src) /\ c.pos <= AfterLineDot(src, c).pos
PROOF
  <1>1. c.pos \in Nat /\ Len(src) \in Nat
    BY DEF Config
  <1>2. /\ {"CRLFDT", "CRLFDTCR", "CRLF"} \subseteq States
        /\ {"none", "article"} \subseteq Ends
    BY DEF States, Ends
  <1>3. CASE c.pos >= Len(src)
    <2>1. AfterLineDot(src, c) = Finish(c, "CRLFDT", "none")
      BY <1>3 DEF AfterLineDot
    <2> QED BY <1>1, <1>2, <2>1, FinishCalls
  <1>4. CASE c.pos < Len(src)
    <2> DEFINE s == Skip(c, 1)
               d == AfterLineDotCR(src, s)
               q == AfterLineEQ(src, s)
    <2>1. AfterLineDot(src, c) \in {d, q, c}
      BY <1>1, <1>4 DEF AfterLineDot
    <2>2. s \in Config /\ s.pos = c.pos + 1 /\ s.at = "NONE"
      BY SkipConfig
    <2> HIDE DEF s
    <2>3. s.pos \in Nat /\ s.pos <= Len(src) /\ c.pos <= s.pos
      BY <1>1, <1>4, <2>2
    <2>4. q \in Calls(src) /\ s.pos <= q.pos
      BY <2>2, <2>3, AfterLineEQAdvances
    <2>5. d \in Calls(src) /\ s.pos <= d.pos
      <3>1. CASE s.pos >= Len(src)
        <4>1. d = Finish(s, "CRLFDTCR", "none")
          BY <3>1 DEF AfterLineDotCR
        <4> QED BY <1>2, <2>2, <2>3, <4>1, FinishCalls
      <3>2. CASE s.pos < Len(src)
        <4> DEFINE u == Skip(s, 1)
                   r == Finish(u, "CRLF", "article")
        <4>1. d \in {r, s}
          BY <1>1, <2>3, <3>2 DEF AfterLineDotCR
        <4>2. u \in Config /\ u.pos = s.pos + 1
          BY <2>2, SkipConfig
        <4> HIDE DEF u, d
        <4>3. u.pos <= Len(src) /\ s.pos <= u.pos
          BY <1>1, <2>3, <3>2, <4>2
        <4>4. r \in Calls(src) /\ r.pos = u.pos
          BY <1>2, <4>2, <4>3, FinishCalls
        <4> HIDE DEF r
        <4>5. s \in Calls(src)
          BY <2>2, <2>3, LoopCalls
        <4> QED BY <2>3, <4>1, <4>3, <4>4, <4>5
      <3> QED BY <1>1, <2>3, <3>1, <3>2
    <2> HIDE DEF d, q
    <2>6. c \in Calls(src) /\ d.pos \in Nat /\ q.pos \in Nat
      BY <1>4, <2>4, <2>5, LoopCalls DEF Calls, Config
    <2> QED BY <1>1, <2>1, <2>3, <2>4, <2>5, <2>6
  <1> QED BY <1>1, <1>3, <1>4

\* An iteration of the loop, and the last two characters.
LEMMA LoopAdvances ==
  ASSUME NEW src \in Seq(Nat), NEW c \in Calls(src),
         c.at \in {"NONE", "secondLast", "last"}
  PROVE  Advances(src, c, Step(src, c))
PROOF
  <1>1. /\ c \in Config /\ c.pos \in Nat /\ c.pos <= Len(src) /\ Len(src) \in Nat
    BY DEF Calls, Config
  <1>2. /\ {"CRLF", "EQ", "CR", "NONE"} \subseteq States /\ "none" \in Ends
        /\ {"last", "secondLast"} \subseteq Labels
        /\ "last" \notin States /\ "secondLast" \notin States
    BY DEF States, Ends, Labels
  <1>3. ASSUME NEW n \in Config, n.pos > c.pos, n.pos <= Len(src), n.at = c.at
        PROVE  Advances(src, c, n)
    BY <1>1, <1>3, LoopCalls, FurtherAdvances
  <1>4. ASSUME NEW n \in Config, n.pos >= c.pos, n.pos <= Len(src),
               NEW l \in {"secondLast", "last"}, LabelRank(l) < LabelRank(c.at)
        PROVE  Advances(src, c, [n EXCEPT !.at = l])
    <2> DEFINE r == [n EXCEPT !.at = l]
    <2>1. r \in Calls(src) /\ r.pos = n.pos /\ r.at = l
      BY <1>2, <1>4, JumpCalls
    <2> HIDE DEF r
    <2>2. Advances(src, c, r)
      BY <1>4, <2>1 DEF Advances
    <2> QED BY <2>2 DEF r
  <1>5. ASSUME NEW n \in Config, n.pos >= c.pos, n.pos <= Len(src),
               NEW st \in States
        PROVE  Advances(src, c, Finish(n, st, "none"))
    <2> DEFINE r == Finish(n, st, "none")
    <2>1. r \in Calls(src) /\ r.pos = n.pos /\ LabelRank(r.at) = 0
      BY <1>2, <1>5, FinishCalls
    <2>2. LabelRank(c.at) > 0
      BY DEF LabelRank
    <2> HIDE DEF r
    <2>3. Advances(src, c, r)
      BY <1>5, <2>1, <2>2 DEF Advances
    <2> QED BY <2>3 DEF r
  <1> DEFINE n == OneChar(src, c)
  <1>6. c.pos + 1 < Len(src) =>
          n \in Config /\ n.at = c.at /\ n.pos > c.pos /\ n.pos <= Len(src)
    <2>1. c.pos + 1 < Len(src) =>
            n \in Config /\ n.at = c.at /\ n.pos \in {c.pos + 1, c.pos + 2}
      BY <1>1, OneCharMoves
    <2> HIDE DEF n
    <2> QED BY <1>1, <2>1
  <1>7. CASE c.at = "NONE"
    <2>1. Step(src, c) = AtNONE(src, c)
      BY <1>7 DEF Step
    <2>2. CASE c.pos > Len(src) - 3
      <3>1. ~(c.pos <= Len(src) - 3)
        BY <1>1, <2>2
      <3>2. Step(src, c) = [c EXCEPT !.at = "secondLast"]
        BY <2>1, <2>2, <3>1 DEF AtNONE
      <3>3. LabelRank("secondLast") < LabelRank(c.at)
        BY <1>7 DEF LabelRank
      <3>4. Advances(src, c, [c EXCEPT !.at = "secondLast"])
        <4>1. c.pos >= c.pos
          BY <1>1
        <4> HIDE DEF n
        <4> QED BY <1>1, <1>4, <3>3, <4>1
      <3> QED BY <3>2, <3>4
    <2>3. CASE c.pos <= Len(src) - 3
      <3> DEFINE s == Skip(c, 3)
                 d == AfterLineDot(src, s)
                 q == AfterLineEQ(src, s)
      <3>1. ~(c.pos > Len(src) - 3)
        BY <1>1, <2>3
      <3>2. Step(src, c) \in {d, q, n}
        BY <2>1, <2>3, <3>1 DEF AtNONE
      <3>3. s \in Config /\ s.pos = c.pos + 3 /\ s.at = "NONE"
        BY <1>1, <1>7, SkipConfig
      <3> HIDE DEF s
      <3>4. s.pos <= Len(src) /\ s.pos \in Nat /\ c.pos < s.pos
        BY <1>1, <2>3, <3>3
      <3>5. d \in Calls(src) /\ s.pos <= d.pos /\ q \in Calls(src) /\ s.pos <= q.pos
        BY <3>3, <3>4, AfterLineDotAdvances, AfterLineEQAdvances
      <3> HIDE DEF d, q, n
      <3>6. c.pos < d.pos /\ c.pos < q.pos
        <4>1. d.pos \in Nat /\ q.pos \in Nat
          BY <3>5 DEF Calls, Config
        <4> QED BY <1>1, <3>4, <3>5, <4>1
      <3>7. Advances(src, c, d) /\ Advances(src, c, q)
        BY <1>1, <3>5, <3>6, FurtherAdvances
      <3>8. Advances(src, c, n)
        <4>1. c.pos + 1 < Len(src)
          BY <1>1, <2>3
        <4> QED BY <1>3, <1>6, <4>1
      <3> QED BY <3>2, <3>7, <3>8
    <2> QED BY <1>1, <2>2, <2>3
  <1>8. CASE c.at = "secondLast"
    <2>1. Step(src, c) = AtSecondLast(src, c)
      BY <1>8 DEF Step
    <2>2. LabelRank("last") < LabelRank(c.at)
      BY <1>8 DEF LabelRank
    <2>3. Advances(src, c, [c EXCEPT !.at = "last"])
      <3>1. c.pos >= c.pos
        BY <1>1
      <3> HIDE DEF n
      <3> QED BY <1>1, <1>4, <2>2, <3>1
    <2>4. Advances(src, c, Finish(c, "CRLF", "none"))
      BY <1>1, <1>2, <1>5
    <2>5. CASE c.pos = Len(src) - 2
      <3>1. c.pos + 1 < Len(src)
        BY <1>1, <2>5
      <3>2. n \in Config /\ n.pos >= c.pos /\ n.pos <= Len(src)
        BY <1>1, <1>6, <3>1 DEF Config
      <3>3. Step(src, c) \in {Finish(c, "CRLF", "none"), [n EXCEPT !.at = "last"]}
        BY <2>1, <2>5 DEF AtSecondLast
      <3> HIDE DEF n
      <3>4. Advances(src, c, [n EXCEPT !.at = "last"])
        BY <1>4, <2>2, <3>2
      <3> QED BY <2>4, <3>3, <3>4
    <2>6. CASE c.pos # Len(src) - 2
      <3>1. Step(src, c) = [c EXCEPT !.at = "last"]
        BY <2>1, <2>6 DEF AtSecondLast
      <3> QED BY <2>3, <3>1
    <2> QED BY <2>5, <2>6
  <1>9. CASE c.at = "last"
    <2>1. Step(src, c) = AtLast(src, c)
      BY <1>9 DEF Step
    <2>2. CASE c.pos # Len(src) - 1
      <3>1. Step(src, c) = Finish(c, "NONE", "none")
        BY <2>1, <2>2 DEF AtLast
      <3> QED BY <1>1, <1>2, <1>5, <3>1
    <2>3. CASE c.pos = Len(src) - 1
      <3> DEFINE p == Peek(src, c, 0)
                 s == Skip(c, 1)
                 m == Emit(s, Plain(p))
      <3>1. \/ \E st \in {"EQ", "CR", "NONE"} : Step(src, c) = Finish(s, st, "none")
            \/ Step(src, c) = Finish(m, "NONE", "none")
        BY <2>1, <2>3 DEF AtLast
      <3>2. Plain(p) \in Byte
        <4>1. c.pos + 0 < Len(src)
          BY <1>1, <2>3
        <4> QED BY <1>1, <4>1, PeekCharacter, DecodedBytes
      <3>3. s \in Config /\ s.pos = c.pos + 1
        BY <1>1, SkipConfig
      <3> HIDE DEF s, p
      <3>4. m \in Config /\ m.pos = c.pos + 1
        BY <3>2, <3>3, EmitConfig
      <3> HIDE DEF m
      <3>5. s.pos >= c.pos /\ s.pos <= Len(src) /\ m.pos >= c.pos /\ m.pos <= Len(src)
        BY <1>1, <2>3, <3>3, <3>4
      <3>6. \A st \in States : /\ Advances(src, c, Finish(s, st, "none"))
                               /\ Advances(src, c, Finish(m, st, "none"))
        BY <1>5, <3>3, <3>4, <3>5
      <3> QED BY <1>2, <3>1, <3>6
    <2> QED BY <2>2, <2>3
  <1> QED BY <1>7, <1>8, <1>9

\* Every step of a call lowers its rank.
LEMMA StepAdvances ==
  ASSUME NEW src \in Seq(Nat), NEW c \in Calls(src), c.at # "done"
  PROVE  Step(src, c) \in Calls(src) /\ Rank(src, Step(src, c)) < Rank(src, c)
PROOF
  <1>1. c.at \in Labels
    BY DEF Calls, Config
  <1>2. Advances(src, c, Step(src, c))
    BY <1>1, LabelsAdvance, LoopAdvances DEF Labels
  <1> QED BY <1>2, AdvancesLowers DEF Advances

\* What is within bounds is a configuration of the call.
LEMMA BoundedCalls ==
  ASSUME NEW src \in Seq(Nat), NEW c, Bounded(src, c)
  PROVE  c \in Calls(src)
PROOF BY DEF Bounded, Calls

-----------------------------------------------------------------------------
(* The whole call.                                                         *)

\* Run is what its equation says, and has the properties its steps preserve.
LEMMA RunEnds ==
  ASSUME NEW src \in Seq(Nat), NEW I, I \subseteq Calls(src),
         \A c \in I : c.at # "done" => Step(src, c) \in I
  PROVE  \A c \in I : Run(src)[c] \in I /\ Run(src)[c].at = "done"
PROOF
  <1> DEFINE S == Calls(src)
             stop == {c \in S : c.at = "done"}
             next == [c \in S |-> IF c \in stop THEN c ELSE Step(src, c)]
             rank == [c \in S |-> Rank(src, c)]
             run[c \in S] == IF c.at = "done" THEN c ELSE run[Step(src, c)]
  <1>1. next \in [S -> S]
    BY StepAdvances
  <1>2. rank \in [S -> Nat]
    BY RankIsNat
  <1>3. \A c \in S : c \notin stop => rank[next[c]] < rank[c]
    <2> SUFFICES ASSUME NEW c \in S, c \notin stop
                 PROVE  rank[next[c]] < rank[c]
      OBVIOUS
    <2>1. next[c] = Step(src, c) /\ next[c] \in S
      BY StepAdvances
    <2> QED BY <2>1, StepAdvances
  <1>4. \A c \in S : next[c] = IF c \in stop THEN c ELSE Step(src, c)
    OBVIOUS
  <1>5. \A c \in S : c \in stop <=> c.at = "done"
    OBVIOUS
  <1> HIDE DEF next, rank, stop
  <1>6. PICK f : Repeats(f, S, next, stop)
    <2>1. Descends(S, next, stop, rank)
      BY <1>1, <1>2, <1>3 DEF Descends
    <2> QED BY <2>1, RepeatExists
  <1>7. f = [c \in S |-> IF c.at = "done" THEN c ELSE f[Step(src, c)]]
    BY <1>4, <1>5, <1>6 DEF Repeats
  <1>8. run = [c \in S |-> IF c.at = "done" THEN c ELSE run[Step(src, c)]]
    <2> HIDE DEF S
    <2> QED BY <1>7
  <1>9. Run(src) = run
    BY DEF Run
  <1> HIDE DEF run
  <1>10. Repeats(run, S, next, stop)
    BY <1>4, <1>5, <1>8 DEF Repeats
  <1>11. \A c \in I : c \notin stop => next[c] \in I
    BY <1>4, <1>5
  <1>12. I \subseteq S
    OBVIOUS
  <1>13. \A c \in I : run[c] \in I /\ run[c] \in stop
    <2> HIDE DEF S
    <2>1. Descends(S, next, stop, rank)
      BY <1>1, <1>2, <1>3 DEF Descends
    <2>2. Preserves(I, S, next, stop)
      BY <1>11, <1>12 DEF Preserves
    <2> QED BY <1>10, <2>1, <2>2, RepeatResult
  <1> QED BY <1>5, <1>9, <1>13

\* The kernel returns, whatever the slice and the State: within the bounds of
\* the slice, and with nothing unread but a line end unless it has met the end
\* of the data.
THEOREM DecodeEnds ==
  ASSUME NEW src \in Seq(Nat), NEW st \in States
  PROVE  Decode(src, st).at = "done" /\ Bounded(src, Decode(src, st))
PROOF
  <1> DEFINE I == {c \in Calls(src) : Bounded(src, c)}
             e == Enter(src, st)
  <1>1. I \subseteq Calls(src)
    OBVIOUS
  <1>2. \A c \in I : c.at # "done" => Step(src, c) \in I
    BY StepBounded, BoundedCalls
  <1>3. e \in I
    BY EnterBounded, BoundedCalls
  <1>4. \A c \in I : Bounded(src, c)
    OBVIOUS
  <1> HIDE DEF I, e
  <1>5. Run(src)[e] \in I /\ Run(src)[e].at = "done"
    BY <1>1, <1>2, <1>3, RunEnds
  <1> QED BY <1>4, <1>5 DEF Decode, e

-----------------------------------------------------------------------------
(* The call and the invariant of its steps.                                *)

\* t gives the result of reading the first n characters of s, for every n, from
\* some State and behind what has been decoded before.
IsReading(s, t) ==
  /\ DOMAIN t = 0..Len(s)
  /\ \E st \in States, o \in Seq(Byte) : t[0] = At(st, o)
  /\ \A n \in 1..Len(s) : t[n] = Transition(t[n-1], s[n])

(***************************************************************************)
(* The context cx of a call: the whole text, what reading its first n      *)
(* characters gives, how many of them the calls before have consumed and   *)
(* what these decoded to, and how many are shown to the kernel.            *)
(***************************************************************************)
Context(cx) ==
  /\ cx.text \in Seq(Nat)
  /\ IsReading(cx.text, cx.reads)
  /\ cx.from \in Nat /\ cx.upto \in Nat
  /\ cx.from <= cx.upto /\ cx.upto <= Len(cx.text)
  /\ cx.before \in Seq(Byte)

\* The slice the kernel works on.
Slice(cx) == SubSeq(cx.text, cx.from + 1, cx.upto)

\* What reading the first n characters gives.
ReadTo(cx, n) == cx.reads[n]

\* No end of the data among the first n characters.
Open(cx, n) == \A j \in 0..n : ReadTo(cx, j).end = "none"

\* A further character is read as if what came before had left State st.
Continues(cx, st, n, o) ==
  n < cx.upto /\ ReadTo(cx, n + 1) = Transition(At(st, o), cx.text[n + 1])

\* Within a line end that nothing special follows: the CR has been consumed.
MidLineEnd(cx, n, o) ==
  /\ n + 1 < cx.upto
  /\ cx.text[n + 1] = LF /\ cx.text[n + 2] \notin {DOT, EQ}
  /\ ReadTo(cx, n + 1) = At("CRLF", o)

WithinLine(cx, n, o) ==
  \/ Continues(cx, "NONE", n, o)
  \/ n = cx.upto /\ ReadTo(cx, n) = At("NONE", o)
  \/ MidLineEnd(cx, n, o)

\* A line end the kernel has looked at and left to the next call.
LineEndUnread(cx, n, o) ==
  /\ n + 2 = cx.upto
  /\ cx.text[n + 1] = CR /\ cx.text[n + 2] = LF
  /\ ReadTo(cx, n + 1) = At("CR", o)

\* What a call returns: n characters consumed, o decoded, State st and End e.
Reaches(cx, n, st, o, e) ==
  IF e = "none"
  THEN /\ Open(cx, n)
       /\ \/ n = cx.upto /\ ReadTo(cx, n) = At(st, o)
          \/ st = "CRLF" /\ LineEndUnread(cx, n, o)
  ELSE /\ n > 0 /\ Open(cx, n - 1)
       /\ ReadTo(cx, n) = [state |-> st, out |-> o, end |-> e]

\* The characters consumed and produced when a call has come to c.
Pos(cx, c) == cx.from + c.pos
Out(cx, c) == cx.before \o c.out

InLoop == {"NONE", "secondLast", "last"}

Agrees(cx, c) ==
  /\ c.at = "done" => Reaches(cx, Pos(cx, c), c.state, Out(cx, c), c.end)
  /\ c.at # "done" => Open(cx, Pos(cx, c))
  /\ c.at \in InLoop => WithinLine(cx, Pos(cx, c), Out(cx, c))
  /\ c.at \in States \ {"NONE"} => Continues(cx, c.at, Pos(cx, c), Out(cx, c))

-----------------------------------------------------------------------------
(* What the reference does with a character.                               *)

\* A reading that has not met the end goes on as the character classifies:
\* it is dropped, or decoded, or treated as it is elsewhere.
LEMMA ReadsDropped ==
  ASSUME NEW o \in Seq(Byte), NEW st \in States, NEW c \in Nat,
         NEW st2 \in States, NEW e \in Ends,
         Classified(st, c) = To(st2, <<>>, e)
  PROVE  Transition(At(st, o), c) = [state |-> st2, out |-> o, end |-> e]
PROOF
  <1>1. o \o <<>> = o
    BY ConcatEmptySeq
  <1> QED BY <1>1 DEF Transition, At, To

\* A character that stands for a byte adds that byte.
LEMMA ReadsDecoded ==
  ASSUME NEW o \in Seq(Byte), NEW st \in States, NEW c \in Nat,
         NEW st2 \in States, NEW x \in Byte,
         Classified(st, c) = To(st2, <<x>>, "none")
  PROVE  Transition(At(st, o), c) = At(st2, Append(o, x))
PROOF
  <1> DEFINE r == Classified(st, c)
             t == At(st, o)
  <1>1. o \o <<x>> = Append(o, x)
    BY AppendIsConcat
  <1>2. r.state = st2 /\ r.emit = <<x>> /\ r.end = "none"
    BY DEF To
  <1>3. t.state = st /\ t.out = o /\ t.end = "none"
    BY DEF At
  <1> HIDE DEF t
  <1>4. Transition(t, c) =
          [state |-> r.state, out |-> o \o r.emit, end |-> r.end]
    BY <1>3 DEF Transition
  <1> HIDE DEF r
  <1>5. Transition(t, c) = [state |-> st2, out |-> Append(o, x), end |-> "none"]
    BY <1>1, <1>2, <1>4
  <1> QED BY <1>5 DEF At, t

\* Two states that read a character alike step alike on it.
LEMMA ReadsSame ==
  ASSUME NEW o \in Seq(Byte), NEW st \in States, NEW st2 \in States,
         NEW c \in Nat, Classified(st, c) = Classified(st2, c)
  PROVE  Transition(At(st, o), c) = Transition(At(st2, o), c)
PROOF BY DEF Transition, At

\* Behind a '=', and behind one that begins a line.
LEMMA ReadsEscaped ==
  ASSUME NEW o \in Seq(Byte), NEW c \in Nat
  PROVE  /\ c = CR => Transition(At("EQ", o), c) = At("CR", Append(o, Escaped(c)))
         /\ c # CR => Transition(At("EQ", o), c) = At("NONE", Append(o, Escaped(c)))
         /\ c # Y => Transition(At("CRLFEQ", o), c) = Transition(At("EQ", o), c)
         /\ c = Y => Transition(At("CRLFEQ", o), c) =
                      [state |-> "NONE", out |-> o, end |-> "control"]
PROOF
  <1>1. {"EQ", "CRLFEQ", "CR", "NONE"} \subseteq States /\ "control" \in Ends
        /\ Escaped(c) \in Byte
    BY DecodedBytes DEF States, Ends
  <1>2. c = CR => Classified("EQ", c) = To("CR", <<Escaped(c)>>, "none")
    BY DEF Classified
  <1>3. c # CR => Classified("EQ", c) = To("NONE", <<Escaped(c)>>, "none")
    BY DEF Classified
  <1>4. c # Y => Classified("CRLFEQ", c) = Classified("EQ", c)
    BY DEF Classified
  <1>5. c = Y => Classified("CRLFEQ", c) = To("NONE", <<>>, "control")
    BY DEF Classified
  <1>6. c = CR => Transition(At("EQ", o), c) = At("CR", Append(o, Escaped(c)))
    BY <1>1, <1>2, ReadsDecoded
  <1>7. c # CR => Transition(At("EQ", o), c) = At("NONE", Append(o, Escaped(c)))
    BY <1>1, <1>3, ReadsDecoded
  <1>8. c # Y => Transition(At("CRLFEQ", o), c) = Transition(At("EQ", o), c)
    BY <1>1, <1>4, ReadsSame
  <1>9. c = Y => Transition(At("CRLFEQ", o), c) =
                 [state |-> "NONE", out |-> o, end |-> "control"]
    BY <1>1, <1>5, ReadsDropped
  <1> QED BY <1>6, <1>7, <1>8, <1>9

\* Behind a CR, and behind a line end and the '.' that begins the next line.
LEMMA ReadsLineEnd ==
  ASSUME NEW o \in Seq(Byte), NEW c \in Nat
  PROVE  /\ c = LF => Transition(At("CR", o), c) = At("CRLF", o)
         /\ c = DOT => Transition(At("CRLF", o), c) = At("CRLFDT", o)
         /\ c = EQ => Transition(At("CRLF", o), c) = At("CRLFEQ", o)
         /\ c = EQ => Transition(At("CRLFDT", o), c) = At("CRLFEQ", o)
         /\ c = CR => Transition(At("CRLFDT", o), c) = At("CRLFDTCR", o)
         /\ c = LF => Transition(At("CRLFDTCR", o), c) =
                        [state |-> "CRLF", out |-> o, end |-> "article"]
PROOF
  <1>1. /\ {"CR", "CRLF", "CRLFDT", "CRLFEQ", "CRLFDTCR"} \subseteq States
        /\ {"none", "article"} \subseteq Ends
    BY DEF States, Ends
  <1>2. c = LF => Classified("CR", c) = To("CRLF", <<>>, "none")
    BY DEF Classified, CR, LF, DOT, EQ
  <1>3. c = DOT => Classified("CRLF", c) = To("CRLFDT", <<>>, "none")
    BY DEF Classified, CR, LF, DOT, EQ
  <1>4. c = EQ => Classified("CRLF", c) = To("CRLFEQ", <<>>, "none")
    BY DEF Classified, CR, LF, DOT, EQ
  <1>5. c = EQ => Classified("CRLFDT", c) = To("CRLFEQ", <<>>, "none")
    BY DEF Classified, CR, LF, DOT, EQ
  <1>6. c = CR => Classified("CRLFDT", c) = To("CRLFDTCR", <<>>, "none")
    BY DEF Classified, CR, LF, DOT, EQ
  <1>7. c = LF => Classified("CRLFDTCR", c) = To("CRLF", <<>>, "article")
    BY DEF Classified, CR, LF, DOT, EQ
  <1>8. c = LF => Transition(At("CR", o), c) = At("CRLF", o)
    BY <1>1, <1>2, ReadsDropped DEF At
  <1>9. c = DOT => Transition(At("CRLF", o), c) = At("CRLFDT", o)
    BY <1>1, <1>3, ReadsDropped DEF At
  <1>10. c = EQ => Transition(At("CRLF", o), c) = At("CRLFEQ", o)
    BY <1>1, <1>4, ReadsDropped DEF At
  <1>11. c = EQ => Transition(At("CRLFDT", o), c) = At("CRLFEQ", o)
    BY <1>1, <1>5, ReadsDropped DEF At
  <1>12. c = CR => Transition(At("CRLFDT", o), c) = At("CRLFDTCR", o)
    BY <1>1, <1>6, ReadsDropped DEF At
  <1>13. c = LF => Transition(At("CRLFDTCR", o), c) =
                     [state |-> "CRLF", out |-> o, end |-> "article"]
    BY <1>1, <1>7, ReadsDropped
  <1> QED BY <1>8, <1>9, <1>10, <1>11, <1>12, <1>13

\* Within a line.
LEMMA ReadsInLine ==
  ASSUME NEW o \in Seq(Byte), NEW c \in Nat
  PROVE  /\ c = CR => Transition(At("NONE", o), c) = At("CR", o)
         /\ c = LF => Transition(At("NONE", o), c) = At("NONE", o)
         /\ c = EQ => Transition(At("NONE", o), c) = At("EQ", o)
         /\ c \notin {CR, LF, EQ} =>
              Transition(At("NONE", o), c) = At("NONE", Append(o, Plain(c)))
PROOF
  <1>1. /\ {"CR", "NONE", "EQ"} \subseteq States /\ "none" \in Ends
        /\ Plain(c) \in Byte
    BY DecodedBytes DEF States, Ends
  <1>2. c = CR => Classified("NONE", c) = To("CR", <<>>, "none")
    BY DEF Classified, CR, LF, DOT, EQ
  <1>3. c = LF => Classified("NONE", c) = To("NONE", <<>>, "none")
    BY DEF Classified, CR, LF, DOT, EQ
  <1>4. c = EQ => Classified("NONE", c) = To("EQ", <<>>, "none")
    BY DEF Classified, CR, LF, DOT, EQ
  <1>5. c \notin {CR, LF, EQ} =>
          Classified("NONE", c) = To("NONE", <<Plain(c)>>, "none")
    BY DEF Classified, CR, LF, DOT, EQ
  <1>6. c = CR => Transition(At("NONE", o), c) = At("CR", o)
    BY <1>1, <1>2, ReadsDropped DEF At
  <1>7. c = LF => Transition(At("NONE", o), c) = At("NONE", o)
    BY <1>1, <1>3, ReadsDropped DEF At
  <1>8. c = EQ => Transition(At("NONE", o), c) = At("EQ", o)
    BY <1>1, <1>4, ReadsDropped DEF At
  <1>9. c \notin {CR, LF, EQ} =>
          Transition(At("NONE", o), c) = At("NONE", Append(o, Plain(c)))
    BY <1>1, <1>5, ReadsDecoded
  <1> QED BY <1>6, <1>7, <1>8, <1>9

\* A State whose own sequence does not go on is like the middle of a line.
LEMMA ReadsAsInLine ==
  ASSUME NEW o \in Seq(Byte), NEW c \in Nat
  PROVE  /\ c # LF => Transition(At("CR", o), c) = Transition(At("NONE", o), c)
         /\ c # LF =>
              Transition(At("CRLFDTCR", o), c) = Transition(At("NONE", o), c)
         /\ c \notin {DOT, EQ} =>
              Transition(At("CRLF", o), c) = Transition(At("NONE", o), c)
         /\ c \notin {CR, EQ} =>
              Transition(At("CRLFDT", o), c) = Transition(At("NONE", o), c)
PROOF
  <1>1. {"CR", "CRLFDTCR", "CRLF", "CRLFDT", "NONE"} \subseteq States
    BY DEF States
  <1>2. c # LF => Classified("CR", c) = Classified("NONE", c)
    BY DEF Classified, CR, LF, DOT, EQ
  <1>3. c # LF => Classified("CRLFDTCR", c) = Classified("NONE", c)
    BY DEF Classified, CR, LF, DOT, EQ
  <1>4. c \notin {DOT, EQ} => Classified("CRLF", c) = Classified("NONE", c)
    BY DEF Classified, CR, LF, DOT, EQ
  <1>5. c \notin {CR, EQ} => Classified("CRLFDT", c) = Classified("NONE", c)
    BY DEF Classified, CR, LF, DOT, EQ
  <1>6. c # LF => Transition(At("CR", o), c) = Transition(At("NONE", o), c)
    BY <1>1, <1>2, ReadsSame
  <1>7. c # LF =>
          Transition(At("CRLFDTCR", o), c) = Transition(At("NONE", o), c)
    BY <1>1, <1>3, ReadsSame
  <1>8. c \notin {DOT, EQ} =>
          Transition(At("CRLF", o), c) = Transition(At("NONE", o), c)
    BY <1>1, <1>4, ReadsSame
  <1>9. c \notin {CR, EQ} =>
          Transition(At("CRLFDT", o), c) = Transition(At("NONE", o), c)
    BY <1>1, <1>5, ReadsSame
  <1> QED BY <1>6, <1>7, <1>8, <1>9

-----------------------------------------------------------------------------
(* Positions, characters and readings of the text.                         *)

\* A trace is a reading from the beginning of a line.
LEMMA TraceIsReading ==
  ASSUME NEW s, NEW t, IsTrace(s, t)
  PROVE  IsReading(s, t) /\ t[0] = At("CRLF", <<>>)
PROOF
  <1>1. t[0] = At("CRLF", <<>>)
    BY DEF IsTrace, Start, At
  <1>2. "CRLF" \in States /\ <<>> \in Seq(Byte)
    BY DEF States
  <1> QED BY <1>1, <1>2 DEF IsTrace, IsReading

\* The types of the context, and what the trace of the text says.
LEMMA ContextFacts ==
  ASSUME NEW cx, Context(cx)
  PROVE  /\ cx.text \in Seq(Nat) /\ Len(cx.text) \in Nat
         /\ cx.from \in Nat /\ cx.upto \in Nat
         /\ cx.from <= cx.upto /\ cx.upto <= Len(cx.text)
         /\ cx.before \in Seq(Byte)
         /\ \E st \in States, o \in Seq(Byte) : ReadTo(cx, 0) = At(st, o)
         /\ \A n \in Nat : n < cx.upto =>
              /\ cx.text[n + 1] \in Nat
              /\ ReadTo(cx, n + 1) = Transition(ReadTo(cx, n), cx.text[n + 1])
PROOF
  <1>1. /\ cx.text \in Seq(Nat) /\ Len(cx.text) \in Nat
        /\ cx.from \in Nat /\ cx.upto \in Nat
        /\ cx.from <= cx.upto /\ cx.upto <= Len(cx.text)
        /\ cx.before \in Seq(Byte)
    BY DEF Context
  <1>2. IsReading(cx.text, cx.reads)
    BY DEF Context
  <1>3. \E st \in States, o \in Seq(Byte) : ReadTo(cx, 0) = At(st, o)
    BY <1>2 DEF IsReading, ReadTo
  <1>4. ASSUME NEW n \in Nat, n < cx.upto
        PROVE  /\ cx.text[n + 1] \in Nat
               /\ ReadTo(cx, n + 1) = Transition(ReadTo(cx, n), cx.text[n + 1])
    <2>1. n + 1 \in 1..Len(cx.text) /\ (n + 1) - 1 = n
      BY <1>1, <1>4
    <2>2. cx.text[n + 1] \in Nat
      BY <1>1, <2>1, ElementOfSeq
    <2>3. cx.reads[n + 1] = Transition(cx.reads[(n + 1) - 1], cx.text[n + 1])
      BY <1>2, <2>1 DEF IsReading
    <2> QED BY <2>1, <2>2, <2>3 DEF ReadTo
  <1> QED BY <1>1, <1>3, <1>4

\* Bytes are characters.
LEMMA BytesAreCharacters == Seq(Byte) \subseteq Seq(Nat)
PROOF
  <1> SUFFICES ASSUME NEW s \in Seq(Byte) PROVE s \in Seq(Nat)
    OBVIOUS
  <1>1. \A i \in 1..Len(s) : s[i] \in Nat
    <2>1. \A i \in 1..Len(s) : s[i] \in Byte
      BY ElementOfSeq
    <2>2. Byte \subseteq Nat
      BY DEF Byte
    <2> QED BY <2>1, <2>2
  <1> QED BY <1>1

\* A body of bytes, what reading it gives, and the part of it that a call is shown
\* are a context.
LEMMA TextContext ==
  ASSUME NEW s \in Seq(Byte), NEW t, IsTrace(s, t), NEW f \in 0..Len(s),
         NEW u \in f..Len(s), NEW b \in Seq(Byte)
  PROVE  LET cx == [text |-> s, reads |-> t, from |-> f, upto |-> u, before |-> b] IN
         /\ Context(cx) /\ cx.text = s /\ cx.reads = t
         /\ cx.from = f /\ cx.upto = u /\ cx.before = b
PROOF
  <1> DEFINE cx == [text |-> s, reads |-> t, from |-> f, upto |-> u, before |-> b]
  <1>1. s \in Seq(Nat) /\ Len(s) \in Nat
    BY BytesAreCharacters
  <1>2. f \in Nat /\ u \in Nat /\ f <= u /\ u <= Len(s)
    BY <1>1
  <1>3. /\ cx.text = s /\ cx.reads = t
        /\ cx.from = f /\ cx.upto = u /\ cx.before = b
    OBVIOUS
  <1> HIDE DEF cx
  <1>4. Context(cx)
    BY <1>1, <1>2, <1>3, TraceIsReading DEF Context
  <1> QED BY <1>3, <1>4 DEF cx

\* A slice of a sequence of characters is one, of that length.
LEMMA SliceIsSeq ==
  ASSUME NEW s \in Seq(Nat), NEW a \in Nat, NEW b \in Nat, a <= b, b <= Len(s)
  PROVE  /\ SubSeq(s, a + 1, b) \in Seq(Nat)
         /\ Len(SubSeq(s, a + 1, b)) = b - a
         /\ \A i \in 1..(b - a) : SubSeq(s, a + 1, b)[i] = s[a + i]
PROOF
  <1>1. \A i \in (a + 1)..b : s[i] \in Nat
    OBVIOUS
  <1> QED BY <1>1, SubSeqProperties

\* What the kernel sees is the text from where the last call stopped.
LEMMA SliceOfText ==
  ASSUME NEW cx, Context(cx)
  PROVE  /\ Slice(cx) \in Seq(Nat) /\ Len(Slice(cx)) = cx.upto - cx.from
         /\ \A i \in 1..(cx.upto - cx.from) : Slice(cx)[i] = cx.text[cx.from + i]
PROOF
  <1>1. /\ cx.text \in Seq(Nat) /\ cx.from \in Nat /\ cx.upto \in Nat
        /\ cx.from <= cx.upto /\ cx.upto <= Len(cx.text)
    BY ContextFacts
  <1> QED BY <1>1, SliceIsSeq DEF Slice

\* What a kernel peeks at is the body's own character.
LEMMA PeekIsText ==
  ASSUME NEW cx, Context(cx), NEW c \in Config, NEW i \in Nat,
         c.pos + i < Len(Slice(cx))
  PROVE  /\ Peek(Slice(cx), c, i) = cx.text[Pos(cx, c) + i + 1]
         /\ Peek(Slice(cx), c, i) \in Nat
         /\ Pos(cx, c) + i < cx.upto
PROOF
  <1>1. /\ cx.from \in Nat /\ cx.upto \in Nat /\ cx.from <= cx.upto
        /\ Slice(cx) \in Seq(Nat) /\ Len(Slice(cx)) = cx.upto - cx.from
        /\ c.pos \in Nat
    BY ContextFacts, SliceOfText DEF Config
  <1>2. Peek(Slice(cx), c, i) \in Nat
    BY <1>1, PeekCharacter
  <1>3. c.pos + 1 + i \in 1..(cx.upto - cx.from)
    BY SMTT(30), <1>1
  <1>4. Slice(cx)[c.pos + 1 + i] = cx.text[cx.from + (c.pos + 1 + i)]
    BY <1>3, SliceOfText
  <1>5. cx.from + (c.pos + 1 + i) = Pos(cx, c) + i + 1
    BY SMTT(30), <1>1 DEF Pos
  <1> QED BY SMTT(30), <1>1, <1>2, <1>4, <1>5 DEF Peek, Pos

\* Where a configuration is in the cx.text.
LEMMA PosOut ==
  ASSUME NEW cx, Context(cx), NEW c \in Config
  PROVE  /\ Pos(cx, c) \in Nat /\ Out(cx, c) \in Seq(Byte)
         /\ c.pos <= Len(Slice(cx)) => Pos(cx, c) <= cx.upto
         /\ c.pos < Len(Slice(cx)) => Pos(cx, c) < cx.upto
         /\ c.pos >= Len(Slice(cx)) => Pos(cx, c) >= cx.upto
PROOF
  <1>1. c.pos \in Nat /\ c.out \in Seq(Byte)
    BY DEF Config
  <1>2. Out(cx, c) \in Seq(Byte)
    BY <1>1, ContextFacts, ConcatProperties DEF Out
  <1> QED BY SMTT(30), <1>1, <1>2, ContextFacts, SliceOfText DEF Pos

\* What is appended to the second part is appended to the whole.
LEMMA AppendBehind ==
  ASSUME NEW a \in Seq(Byte), NEW b \in Seq(Byte), NEW x \in Byte
  PROVE  a \o Append(b, x) = Append(a \o b, x)
PROOF OBVIOUS

\* Skip and Emit in the terms of the text.
LEMMA SkipMoves ==
  ASSUME NEW cx, Context(cx), NEW c \in Config, NEW n \in Nat
  PROVE  /\ Skip(c, n) \in Config
         /\ Pos(cx, Skip(c, n)) = Pos(cx, c) + n
         /\ Out(cx, Skip(c, n)) = Out(cx, c)
         /\ Skip(c, n).at = c.at /\ Skip(c, n).pos = c.pos + n
PROOF
  <1> DEFINE r == Skip(c, n)
  <1>1. c.pos \in Nat /\ cx.from \in Nat
    BY ContextFacts DEF Config
  <1>2. r \in Config /\ r.pos = c.pos + n /\ r.out = c.out /\ r.at = c.at
    BY SkipConfig
  <1> HIDE DEF r
  <1>3. r \in Config /\ Pos(cx, r) = Pos(cx, c) + n /\ Out(cx, r) = Out(cx, c)
        /\ r.at = c.at /\ r.pos = c.pos + n
    BY <1>1, <1>2 DEF Pos, Out
  <1> QED BY <1>3 DEF r

\* Storing a byte adds it to what the call has decoded.
LEMMA EmitMoves ==
  ASSUME NEW cx, Context(cx), NEW c \in Config, NEW x \in Byte
  PROVE  /\ Emit(c, x) \in Config
         /\ Pos(cx, Emit(c, x)) = Pos(cx, c)
         /\ Out(cx, Emit(c, x)) = Append(Out(cx, c), x)
         /\ Emit(c, x).at = c.at /\ Emit(c, x).pos = c.pos
PROOF
  <1>1. c.out \in Seq(Byte) /\ cx.before \in Seq(Byte)
    BY ContextFacts DEF Config
  <1>2. /\ Emit(c, x) \in Config /\ Emit(c, x).out = Append(c.out, x)
        /\ Emit(c, x).pos = c.pos /\ Emit(c, x).at = c.at
    BY EmitConfig
  <1>3. cx.before \o Append(c.out, x) = Append(cx.before \o c.out, x)
    BY <1>1, AppendBehind
  <1> QED BY <1>2, <1>3 DEF Pos, Out

-----------------------------------------------------------------------------
(* The reference goes on.                                                  *)

\* One more character without the end of the data.
LEMMA OpenGrows ==
  ASSUME NEW cx, NEW n \in Nat, Open(cx, n), ReadTo(cx, n + 1).end = "none"
  PROVE  Open(cx, n + 1)
PROOF
  <1>1. \A j \in 0..(n + 1) : j \in 0..n \/ j = n + 1
    OBVIOUS
  <1> QED BY <1>1 DEF Open

\* A State the reference is in is one it continues from.
LEMMA ContinuesFrom ==
  ASSUME NEW cx, Context(cx), NEW n \in Nat, n < cx.upto, NEW st, NEW o,
         ReadTo(cx, n) = At(st, o)
  PROVE  Continues(cx, st, n, o)
PROOF BY ContextFacts DEF Continues

\* The reference is in the middle of a line where the kernel is.
LEMMA InLineAt ==
  ASSUME NEW cx, Context(cx), NEW n \in Nat, n <= cx.upto, NEW o,
         ReadTo(cx, n) = At("NONE", o)
  PROVE  WithinLine(cx, n, o)
PROOF
  <1>1. n < cx.upto \/ n = cx.upto
    BY ContextFacts
  <1> QED BY <1>1, ContinuesFrom DEF WithinLine

\* The reading of a character that leaves the data open.
LEMMA ReadsOn ==
  ASSUME NEW cx, Context(cx), NEW n \in Nat, Open(cx, n), NEW st, NEW o,
         NEW st2, NEW o2,
         Continues(cx, st, n, o),
         Transition(At(st, o), cx.text[n + 1]) = At(st2, o2)
  PROVE  n + 1 <= cx.upto /\ ReadTo(cx, n + 1) = At(st2, o2) /\ Open(cx, n + 1)
PROOF
  <1>1. ReadTo(cx, n + 1) = At(st2, o2) /\ n < cx.upto
    BY DEF Continues
  <1>2. ReadTo(cx, n + 1).end = "none"
    BY <1>1 DEF At
  <1> QED BY <1>1, <1>2, OpenGrows, ContextFacts

-----------------------------------------------------------------------------
(* The ways in which a step ends.                                          *)

\* A jump to a label with its State: the reference is in that State.
LEMMA LabelAgrees ==
  ASSUME NEW cx, Context(cx), NEW c \in Config, NEW l \in States \ {"NONE"},
         Open(cx, Pos(cx, c)), Continues(cx, l, Pos(cx, c), Out(cx, c))
  PROVE  Agrees(cx, [c EXCEPT !.at = l])
PROOF
  <1> DEFINE r == [c EXCEPT !.at = l]
  <1>1. l \in Labels /\ l \notin InLoop /\ l # "done"
    BY DEF Labels, States, InLoop
  <1>2. r.at = l /\ r.pos = c.pos /\ r.out = c.out
    BY <1>1, LabelConfig
  <1> HIDE DEF r
  <1>3. Pos(cx, r) = Pos(cx, c) /\ Out(cx, r) = Out(cx, c)
    BY <1>2 DEF Pos, Out
  <1>4. Agrees(cx, r)
    BY <1>1, <1>2, <1>3 DEF Agrees
  <1> QED BY <1>4 DEF r

\* A return at the end of the slice, in the State of the reference.
LEMMA StopAgrees ==
  ASSUME NEW cx, Context(cx), NEW c \in Config, NEW st \in States,
         Open(cx, Pos(cx, c)), Pos(cx, c) = cx.upto,
         ReadTo(cx, Pos(cx, c)) = At(st, Out(cx, c))
  PROVE  Agrees(cx, Finish(c, st, "none"))
PROOF
  <1> DEFINE r == Finish(c, st, "none")
  <1>1. "none" \in Ends /\ "done" \notin InLoop /\ "done" \notin States
    BY DEF Ends, InLoop, States
  <1>2. /\ r.at = "done" /\ r.state = st /\ r.end = "none"
        /\ r.pos = c.pos /\ r.out = c.out
    BY <1>1, FinishConfig
  <1> HIDE DEF r
  <1>3. Pos(cx, r) = Pos(cx, c) /\ Out(cx, r) = Out(cx, c)
    BY <1>2 DEF Pos, Out
  <1>4. Reaches(cx, Pos(cx, r), r.state, Out(cx, r), r.end)
    BY <1>2, <1>3 DEF Reaches
  <1>5. Agrees(cx, r)
    BY <1>1, <1>2, <1>4 DEF Agrees
  <1> QED BY <1>5 DEF r

\* A return with a line end left.
LEMMA LeaveAgrees ==
  ASSUME NEW cx, Context(cx), NEW c \in Config,
         Open(cx, Pos(cx, c)), LineEndUnread(cx, Pos(cx, c), Out(cx, c))
  PROVE  Agrees(cx, Finish(c, "CRLF", "none"))
PROOF
  <1> DEFINE r == Finish(c, "CRLF", "none")
  <1>1. "none" \in Ends /\ "done" \notin InLoop /\ "done" \notin States
        /\ "CRLF" \in States
    BY DEF Ends, InLoop, States
  <1>2. /\ r.at = "done" /\ r.state = "CRLF" /\ r.end = "none"
        /\ r.pos = c.pos /\ r.out = c.out
    BY <1>1, FinishConfig
  <1> HIDE DEF r
  <1>3. Pos(cx, r) = Pos(cx, c) /\ Out(cx, r) = Out(cx, c)
    BY <1>2 DEF Pos, Out
  <1>4. Reaches(cx, Pos(cx, r), r.state, Out(cx, r), r.end)
    BY <1>2, <1>3 DEF Reaches
  <1>5. Agrees(cx, r)
    BY <1>1, <1>2, <1>4 DEF Agrees
  <1> QED BY <1>5 DEF r

\* A return with the end of the data, one character ahead of c.
LEMMA EndAgrees ==
  ASSUME NEW cx, Context(cx), NEW c \in Config, NEW st \in States,
         NEW e \in {"control", "article"},
         Open(cx, Pos(cx, c)),
         ReadTo(cx, Pos(cx, c) + 1) = [state |-> st, out |-> Out(cx, c), end |-> e]
  PROVE  Agrees(cx, Finish(Skip(c, 1), st, e))
PROOF
  <1> DEFINE s == Skip(c, 1)
             r == Finish(s, st, e)
  <1>1. e \in Ends /\ e # "none" /\ "done" \notin InLoop /\ "done" \notin States
    BY DEF Ends, InLoop, States
  <1>2. s \in Config /\ Pos(cx, s) = Pos(cx, c) + 1 /\ Out(cx, s) = Out(cx, c)
    BY SkipMoves
  <1> HIDE DEF s
  <1>3. /\ r.at = "done" /\ r.state = st /\ r.end = e
        /\ r.pos = s.pos /\ r.out = s.out
    BY <1>1, <1>2, FinishConfig
  <1> HIDE DEF r
  <1>4. Pos(cx, r) = Pos(cx, s) /\ Out(cx, r) = Out(cx, s)
    BY <1>3 DEF Pos, Out
  <1>5. Pos(cx, c) \in Nat
    BY PosOut
  <1>6. Pos(cx, r) > 0 /\ Pos(cx, r) - 1 = Pos(cx, c)
    BY <1>2, <1>4, <1>5
  <1>7. Reaches(cx, Pos(cx, r), r.state, Out(cx, r), r.end)
    BY <1>1, <1>2, <1>3, <1>4, <1>6 DEF Reaches
  <1>8. Agrees(cx, r)
    BY <1>1, <1>3, <1>7 DEF Agrees
  <1> QED BY <1>8 DEF r, s

\* A jump with checkEnd: to the label, or back to the caller with its State.
LEMMA GotoAgrees ==
  ASSUME NEW cx, Context(cx), NEW c \in Config, NEW l \in States \ {"NONE"},
         c.pos <= Len(Slice(cx)), Open(cx, Pos(cx, c)),
         ReadTo(cx, Pos(cx, c)) = At(l, Out(cx, c))
  PROVE  Agrees(cx, Goto(Slice(cx), c, l))
PROOF
  <1>1. /\ c.pos \in Nat /\ Len(Slice(cx)) \in Nat /\ cx.upto \in Nat
        /\ Pos(cx, c) \in Nat /\ Pos(cx, c) <= cx.upto
    BY ContextFacts, SliceOfText, PosOut DEF Config
  <1>2. CASE c.pos >= Len(Slice(cx))
    <2>1. Pos(cx, c) = cx.upto
      BY <1>1, <1>2, PosOut
    <2> QED BY <1>2, <2>1, StopAgrees DEF Goto
  <1>3. CASE c.pos < Len(Slice(cx))
    <2>1. Goto(Slice(cx), c, l) = [c EXCEPT !.at = l]
      BY <1>1, <1>3 DEF Goto
    <2>2. Pos(cx, c) < cx.upto
      BY <1>3, PosOut
    <2> QED BY <1>1, <2>1, <2>2, ContinuesFrom, LabelAgrees
  <1> QED BY <1>1, <1>2, <1>3

\* A jump to, or within, the loop.
LEMMA LoopAgrees ==
  ASSUME NEW cx, Context(cx), NEW c \in Config, NEW l \in InLoop,
         Open(cx, Pos(cx, c)), WithinLine(cx, Pos(cx, c), Out(cx, c))
  PROVE  Agrees(cx, [c EXCEPT !.at = l])
PROOF
  <1> DEFINE r == [c EXCEPT !.at = l]
  <1>1. l \in Labels /\ l \notin States \ {"NONE"} /\ l # "done"
    BY DEF Labels, States, InLoop
  <1>2. r.at = l /\ r.pos = c.pos /\ r.out = c.out
    BY <1>1, LabelConfig
  <1> HIDE DEF r
  <1>3. Pos(cx, r) = Pos(cx, c) /\ Out(cx, r) = Out(cx, c)
    BY <1>2 DEF Pos, Out
  <1>4. Agrees(cx, r)
    BY <1>1, <1>2, <1>3 DEF Agrees
  <1> QED BY <1>4 DEF r

\* A configuration in the loop agrees when the reference is in the line.
LEMMA InLoopAgrees ==
  ASSUME NEW cx, NEW c, c.at \in InLoop, Open(cx, Pos(cx, c)),
         WithinLine(cx, Pos(cx, c), Out(cx, c))
  PROVE  Agrees(cx, c)
PROOF
  <1>1. c.at # "done" /\ c.at \notin States \ {"NONE"}
    BY DEF InLoop, States
  <1> QED BY <1>1 DEF Agrees

-----------------------------------------------------------------------------
(* Every step of the kernel keeps the two in agreement.                    *)

\* The labels at the start of the slice.
LEMMA LabelsAgree ==
  ASSUME NEW cx, Context(cx), NEW c, Bounded(Slice(cx), c), Agrees(cx, c),
         c.at \in States \ {"NONE"}
  PROVE  Agrees(cx, Step(Slice(cx), c))
PROOF
  <1> DEFINE n == Pos(cx, c)
             o == Out(cx, c)
             p == Peek(Slice(cx), c, 0)
             s == Skip(c, 1)
  <1>1. /\ c \in Config /\ c.pos \in Nat /\ c.pos < Len(Slice(cx)) /\ Len(Slice(cx)) \in Nat
    BY SliceOfText DEF Bounded, Config
  <1>2. n \in Nat /\ o \in Seq(Byte) /\ n < cx.upto /\ cx.upto \in Nat
    BY <1>1, PosOut, ContextFacts
  <1>3. p = cx.text[n + 1] /\ p \in Nat
    <2>1. /\ Peek(Slice(cx), c, 0) = cx.text[Pos(cx, c) + 0 + 1]
          /\ Peek(Slice(cx), c, 0) \in Nat
      BY <1>1, PeekIsText
    <2>2. Pos(cx, c) + 0 + 1 = Pos(cx, c) + 1
      BY <1>2
    <2> QED BY <2>1, <2>2
  <1>4. Open(cx, n) /\ Continues(cx, c.at, n, o)
    <2>1. c.at # "done"
      BY DEF States
    <2> QED BY <2>1 DEF Agrees
  <1>5. /\ s \in Config /\ Pos(cx, s) = n + 1 /\ Out(cx, s) = o
        /\ s.pos = c.pos + 1 /\ s.pos <= Len(Slice(cx))
    <2>1. s \in Config /\ Pos(cx, s) = n + 1 /\ Out(cx, s) = o /\ s.pos = c.pos + 1
      BY <1>1, SkipMoves
    <2> HIDE DEF s
    <2> QED BY <1>1, <2>1
  <1> HIDE DEF n, o, p, s
  <1>6. /\ {"EQ", "CR", "CRLF", "CRLFDT", "CRLFDTCR", "CRLFEQ"}
             \subseteq States \ {"NONE"}
        /\ "NONE" \in States /\ "NONE" \in InLoop
    BY DEF States, InLoop
  \* The State's own sequence does not go on: p is left to the loop.
  <1>7. ASSUME Transition(At(c.at, o), p) = Transition(At("NONE", o), p)
        PROVE  Agrees(cx, [c EXCEPT !.at = "NONE"])
    <2>1. WithinLine(cx, n, o)
      BY <1>3, <1>4, <1>7 DEF Continues, WithinLine
    <2> QED BY <1>1, <1>4, <1>6, <2>1, LoopAgrees DEF n, o
  \* It goes on to State l: p is consumed.
  <1>8. ASSUME NEW l \in States \ {"NONE"},
               Transition(At(c.at, o), p) = At(l, o)
        PROVE  Agrees(cx, Goto(Slice(cx), s, l))
    <2>1. ReadTo(cx, n + 1) = At(l, o) /\ Open(cx, n + 1)
      BY <1>2, <1>3, <1>4, <1>8, ReadsOn
    <2> QED BY <1>5, <2>1, GotoAgrees
  \* It ends the data.
  <1>9. ASSUME NEW st \in States, NEW e \in {"control", "article"},
               Transition(At(c.at, o), p) = [state |-> st, out |-> o, end |-> e]
        PROVE  Agrees(cx, Finish(s, st, e))
    <2>1. ReadTo(cx, n + 1) = [state |-> st, out |-> o, end |-> e]
      BY <1>3, <1>4, <1>9 DEF Continues
    <2> QED BY <1>1, <1>4, <2>1, EndAgrees DEF s, n, o
  <1>10. CASE c.at = "CRLFEQ"
    <2>1. Step(Slice(cx), c) = IF p = Y THEN Finish(s, "NONE", "control")
                                  ELSE [c EXCEPT !.at = "EQ"]
      BY <1>10 DEF Step, AtCRLFEQ, p, s
    <2>2. CASE p = Y
      BY <1>2, <1>3, <1>6, <1>9, <1>10, <2>1, <2>2, ReadsEscaped
    <2>3. CASE p # Y
      <3>1. Transition(At("CRLFEQ", o), p) = Transition(At("EQ", o), p)
        BY <1>2, <1>3, <2>3, ReadsEscaped
      <3>2. Continues(cx, "EQ", n, o)
        BY <1>3, <1>4, <1>10, <3>1 DEF Continues
      <3> QED BY <1>1, <1>4, <1>6, <2>1, <2>3, <3>2, LabelAgrees DEF n, o
    <2> QED BY <2>2, <2>3
  <1>11. CASE c.at = "EQ"
    <2> DEFINE x == Escaped(p)
               m == Emit(s, x)
    <2>1. Step(Slice(cx), c) = IF p = CR THEN Goto(Slice(cx), m, "CR")
                                   ELSE [m EXCEPT !.at = "NONE"]
      BY <1>11 DEF Step, AtEQ, p, s
    <2>2. x \in Byte
      BY <1>3, DecodedBytes
    <2>3. /\ m \in Config /\ Pos(cx, m) = n + 1 /\ Out(cx, m) = Append(o, x)
          /\ m.pos <= Len(Slice(cx))
      <3>1. /\ m \in Config /\ Pos(cx, m) = Pos(cx, s) /\ Out(cx, m) = Append(Out(cx, s), x)
            /\ m.pos = s.pos
        BY <1>5, <2>2, EmitMoves
      <3> HIDE DEF m, x
      <3> QED BY <1>5, <3>1
    <2> HIDE DEF m
    <2>4. CASE p = CR
      <3>1. Transition(At("EQ", o), p) = At("CR", Append(o, x))
        BY <1>2, <1>3, <2>4, ReadsEscaped
      <3>2. ReadTo(cx, n + 1) = At("CR", Append(o, x)) /\ Open(cx, n + 1)
        BY <1>2, <1>3, <1>4, <1>11, <3>1, ReadsOn
      <3> QED BY <1>6, <2>1, <2>3, <2>4, <3>2, GotoAgrees
    <2>5. CASE p # CR
      <3>1. Transition(At("EQ", o), p) = At("NONE", Append(o, x))
        BY <1>2, <1>3, <2>5, ReadsEscaped
      <3>2. /\ ReadTo(cx, n + 1) = At("NONE", Append(o, x)) /\ Open(cx, n + 1)
            /\ n + 1 <= cx.upto
        BY <1>2, <1>3, <1>4, <1>11, <3>1, ReadsOn
      <3>3. WithinLine(cx, n + 1, Append(o, x))
        BY <1>2, <3>2, InLineAt
      <3>4. Step(Slice(cx), c) = [m EXCEPT !.at = "NONE"]
        BY <2>1, <2>5
      <3> HIDE DEF x
      <3>5. Agrees(cx, [m EXCEPT !.at = "NONE"])
        BY <1>6, <2>3, <3>2, <3>3, LoopAgrees
      <3> QED BY <3>4, <3>5
    <2> QED BY <2>4, <2>5
  <1>12. CASE c.at = "CR"
    <2>1. Step(Slice(cx), c) = IF p = LF THEN Goto(Slice(cx), s, "CRLF")
                                   ELSE [c EXCEPT !.at = "NONE"]
      BY <1>12 DEF Step, AtCR, p, s
    <2>2. p = LF => Transition(At("CR", o), p) = At("CRLF", o)
      BY <1>2, <1>3, ReadsLineEnd
    <2>3. p # LF => Transition(At("CR", o), p) = Transition(At("NONE", o), p)
      BY <1>2, <1>3, ReadsAsInLine
    <2> QED BY <1>6, <1>7, <1>8, <1>12, <2>1, <2>2, <2>3
  <1>13. CASE c.at = "CRLF"
    <2>1. /\ p = DOT => Step(Slice(cx), c) = Goto(Slice(cx), s, "CRLFDT")
          /\ p = EQ => Step(Slice(cx), c) = Goto(Slice(cx), s, "CRLFEQ")
          /\ p \notin {DOT, EQ} => Step(Slice(cx), c) = [c EXCEPT !.at = "NONE"]
      BY <1>13 DEF Step, AtCRLF, p, s, DOT, EQ
    <2>2. /\ p = DOT => Transition(At("CRLF", o), p) = At("CRLFDT", o)
          /\ p = EQ => Transition(At("CRLF", o), p) = At("CRLFEQ", o)
      BY <1>2, <1>3, ReadsLineEnd
    <2>3. p \notin {DOT, EQ} =>
            Transition(At("CRLF", o), p) = Transition(At("NONE", o), p)
      BY <1>2, <1>3, ReadsAsInLine
    <2> QED BY <1>6, <1>7, <1>8, <1>13, <2>1, <2>2, <2>3
  <1>14. CASE c.at = "CRLFDT"
    <2>1. /\ p = CR => Step(Slice(cx), c) = Goto(Slice(cx), s, "CRLFDTCR")
          /\ p = EQ => Step(Slice(cx), c) = Goto(Slice(cx), s, "CRLFEQ")
          /\ p \notin {CR, EQ} => Step(Slice(cx), c) = [c EXCEPT !.at = "NONE"]
      BY <1>14 DEF Step, AtCRLFDT, p, s, CR, EQ
    <2>2. /\ p = CR => Transition(At("CRLFDT", o), p) = At("CRLFDTCR", o)
          /\ p = EQ => Transition(At("CRLFDT", o), p) = At("CRLFEQ", o)
      BY <1>2, <1>3, ReadsLineEnd
    <2>3. p \notin {CR, EQ} =>
            Transition(At("CRLFDT", o), p) = Transition(At("NONE", o), p)
      BY <1>2, <1>3, ReadsAsInLine
    <2> QED BY <1>6, <1>7, <1>8, <1>14, <2>1, <2>2, <2>3
  <1>15. CASE c.at = "CRLFDTCR"
    <2>1. Step(Slice(cx), c) = IF p = LF THEN Finish(s, "CRLF", "article")
                                   ELSE [c EXCEPT !.at = "NONE"]
      BY <1>15 DEF Step, AtCRLFDTCR, p, s
    <2>2. p = LF => Transition(At("CRLFDTCR", o), p) =
                      [state |-> "CRLF", out |-> o, end |-> "article"]
      BY <1>2, <1>3, ReadsLineEnd
    <2>3. p # LF =>
            Transition(At("CRLFDTCR", o), p) = Transition(At("NONE", o), p)
      BY <1>2, <1>3, ReadsAsInLine
    <2> QED BY <1>6, <1>7, <1>9, <1>15, <2>1, <2>2, <2>3
  <1> QED BY <1>10, <1>11, <1>12, <1>13, <1>14, <1>15 DEF States

\* One character, or an escaped pair, in the loop: when it is the CR of a line
\* end, nothing special begins the next line.
LEMMA OneCharAgrees ==
  ASSUME NEW cx, Context(cx), NEW c \in Config, c.pos + 1 < Len(Slice(cx)),
         Open(cx, Pos(cx, c)), WithinLine(cx, Pos(cx, c), Out(cx, c)),
         AtLineEnd(Slice(cx), c) =>
           c.pos + 2 < Len(Slice(cx)) /\ Peek(Slice(cx), c, 2) \notin {DOT, EQ}
  PROVE  LET r == OneChar(Slice(cx), c) IN
         r \in Config /\ Open(cx, Pos(cx, r)) /\ WithinLine(cx, Pos(cx, r), Out(cx, r))
PROOF
  <1> DEFINE n == Pos(cx, c)
             o == Out(cx, c)
             p == Peek(Slice(cx), c, 0)
             q == Peek(Slice(cx), c, 1)
             r == OneChar(Slice(cx), c)
             s == Skip(c, 1)
  <1> SUFFICES r \in Config /\ Open(cx, Pos(cx, r)) /\ WithinLine(cx, Pos(cx, r), Out(cx, r))
    OBVIOUS
  <1>1. /\ c.pos \in Nat /\ Len(Slice(cx)) \in Nat /\ cx.upto \in Nat
        /\ n \in Nat /\ o \in Seq(Byte)
    BY ContextFacts, SliceOfText, PosOut DEF Config
  <1>2. /\ p = cx.text[n + 1] /\ p \in Nat
        /\ q = cx.text[n + 2] /\ q \in Nat /\ n + 1 < cx.upto
    <2>1. /\ p = cx.text[n + 0 + 1] /\ p \in Nat
          /\ q = cx.text[n + 1 + 1] /\ q \in Nat /\ n + 1 < cx.upto
      <3>1. c.pos + 0 < Len(Slice(cx)) /\ 0 \in Nat /\ 1 \in Nat
        BY <1>1
      <3> QED BY <3>1, PeekIsText
    <2>2. n + 0 + 1 = n + 1 /\ n + 1 + 1 = n + 2
      BY <1>1
    <2> QED BY <2>1, <2>2
  <1>3. p = CR /\ q = LF =>
          n + 2 < cx.upto /\ cx.text[n + 3] \notin {DOT, EQ}
    <2> SUFFICES ASSUME p = CR, q = LF
                 PROVE  n + 2 < cx.upto /\ cx.text[n + 3] \notin {DOT, EQ}
      OBVIOUS
    <2>1. c.pos + 2 < Len(Slice(cx)) /\ Peek(Slice(cx), c, 2) \notin {DOT, EQ}
      BY DEF AtLineEnd
    <2>2. Peek(Slice(cx), c, 2) = cx.text[n + 2 + 1] /\ n + 2 < cx.upto
      BY <2>1, PeekIsText
    <2>3. n + 2 + 1 = n + 3
      BY <1>1
    <2> QED BY <2>1, <2>2, <2>3
  <1>4. s \in Config /\ Pos(cx, s) = n + 1 /\ Out(cx, s) = o
    BY SkipMoves
  <1>5. /\ p \in {CR, LF} => r = s
        /\ p = EQ => r = Emit(Skip(c, IF q = CR THEN 1 ELSE 2), Escaped(q))
        /\ p \notin {CR, LF, EQ} => r = Emit(s, Plain(p))
    BY DEF OneChar, EscapedPair, CR, LF, EQ
  <1>6. Plain(p) \in Byte /\ Escaped(q) \in Byte
    BY <1>2, DecodedBytes
  <1>7. Open(cx, n) /\ WithinLine(cx, n, o)
    OBVIOUS
  <1> HIDE DEF n, o, p, q, r, s
  <1>8. CASE MidLineEnd(cx, n, o)
    <2>1. p = LF /\ q \notin {DOT, EQ} /\ ReadTo(cx, n + 1) = At("CRLF", o)
      BY <1>2, <1>8 DEF MidLineEnd
    <2>2. ReadTo(cx, n + 1).end = "none"
      BY <2>1 DEF At
    <2>3. Open(cx, n + 1)
      BY <1>1, <1>7, <2>2, OpenGrows
    <2>4. Continues(cx, "CRLF", n + 1, o)
      BY <1>1, <1>2, <2>1, ContinuesFrom
    <2>5. Transition(At("CRLF", o), q) = Transition(At("NONE", o), q)
      BY <1>1, <1>2, <2>1, ReadsAsInLine
    <2>6. (n + 1) + 1 = n + 2
      BY <1>1
    <2>7. WithinLine(cx, n + 1, o)
      BY <1>2, <2>4, <2>5, <2>6 DEF Continues, WithinLine
    <2>8. r = s
      BY <1>5, <2>1
    <2> QED BY <1>4, <2>3, <2>7, <2>8
  <1>9. CASE Continues(cx, "NONE", n, o)
    <2>0. (n + 1) + 1 = n + 2 /\ n + 1 \in Nat /\ n + 1 <= cx.upto
      BY <1>1, <1>2
    <2>1. CASE p = CR
      <3>1. Transition(At("NONE", o), p) = At("CR", o)
        BY <1>1, <1>2, <2>1, ReadsInLine
      <3>2. ReadTo(cx, n + 1) = At("CR", o) /\ Open(cx, n + 1)
        BY <1>1, <1>2, <1>7, <1>9, <3>1, ReadsOn
      <3>3. Continues(cx, "CR", n + 1, o)
        BY <1>2, <2>0, <3>2, ContinuesFrom
      <3>4. CASE q = LF
        <4>1. Transition(At("CR", o), q) = At("CRLF", o)
          BY <1>1, <1>2, <3>4, ReadsLineEnd
        <4>2. ReadTo(cx, n + 2) = At("CRLF", o)
          BY <1>2, <2>0, <3>3, <4>1 DEF Continues
        <4>3. MidLineEnd(cx, n + 1, o)
          <5>1. (n + 1) + 2 = n + 3
            BY <1>1
          <5> QED BY <1>2, <1>3, <2>0, <2>1, <3>4, <4>2, <5>1 DEF MidLineEnd
        <4>4. WithinLine(cx, n + 1, o)
          BY <4>3 DEF WithinLine
        <4> QED BY <1>4, <1>5, <2>1, <3>2, <4>4
      <3>5. CASE q # LF
        <4>1. Transition(At("CR", o), q) = Transition(At("NONE", o), q)
          BY <1>1, <1>2, <3>5, ReadsAsInLine
        <4>2. WithinLine(cx, n + 1, o)
          BY <1>2, <2>0, <3>3, <4>1 DEF Continues, WithinLine
        <4> QED BY <1>4, <1>5, <2>1, <3>2, <4>2
      <3> QED BY <3>4, <3>5
    <2>2. CASE p = LF
      <3>1. Transition(At("NONE", o), p) = At("NONE", o)
        BY <1>1, <1>2, <2>2, ReadsInLine
      <3>2. ReadTo(cx, n + 1) = At("NONE", o) /\ Open(cx, n + 1)
        BY <1>1, <1>2, <1>7, <1>9, <3>1, ReadsOn
      <3>3. WithinLine(cx, n + 1, o)
        BY <2>0, <3>2, InLineAt
      <3> QED BY <1>4, <1>5, <2>2, <3>2, <3>3
    <2>3. CASE p = EQ
      <3> DEFINE x == Escaped(q)
                 o2 == Append(o, x)
      <3>1. Transition(At("NONE", o), p) = At("EQ", o)
        BY <1>1, <1>2, <2>3, ReadsInLine
      <3>2. ReadTo(cx, n + 1) = At("EQ", o) /\ Open(cx, n + 1)
        BY <1>1, <1>2, <1>7, <1>9, <3>1, ReadsOn
      <3>3. Continues(cx, "EQ", n + 1, o)
        BY <1>2, <2>0, <3>2, ContinuesFrom
      <3>4. o2 \in Seq(Byte)
        BY <1>1, <1>6
      <3>5. CASE q = CR
        <4>1. r = Emit(s, x)
          BY <1>5, <2>3, <3>5 DEF s
        <4>2. r \in Config /\ Pos(cx, r) = n + 1 /\ Out(cx, r) = o2
          BY <1>4, <1>6, <4>1, EmitMoves
        <4>3. Transition(At("EQ", o), q) = At("CR", o2)
          BY <1>1, <1>2, <3>5, ReadsEscaped
        <4>4. Transition(At("NONE", o2), q) = At("CR", o2)
          BY <1>2, <3>4, <3>5, ReadsInLine
        <4> HIDE DEF o2
        <4>5. WithinLine(cx, n + 1, o2)
          BY <1>2, <2>0, <3>3, <4>3, <4>4 DEF Continues, WithinLine
        <4> QED BY <3>2, <4>2, <4>5
      <3>6. CASE q # CR
        <4> DEFINE s2 == Skip(c, 2)
        <4>1. s2 \in Config /\ Pos(cx, s2) = n + 2 /\ Out(cx, s2) = o
          BY SkipMoves DEF n, o
        <4>2. r = Emit(s2, x)
          BY <1>5, <2>3, <3>6
        <4> HIDE DEF s2
        <4>3. r \in Config /\ Pos(cx, r) = n + 2 /\ Out(cx, r) = o2
          BY <1>6, <4>1, <4>2, EmitMoves
        <4>4. Transition(At("EQ", o), q) = At("NONE", o2)
          BY <1>1, <1>2, <3>6, ReadsEscaped
        <4> HIDE DEF o2
        <4>5. ReadTo(cx, n + 2) = At("NONE", o2) /\ Open(cx, n + 2) /\ n + 2 <= cx.upto
          BY <1>2, <2>0, <3>2, <3>3, <4>4, ReadsOn
        <4>6. WithinLine(cx, n + 2, o2)
          BY <1>1, <4>5, InLineAt
        <4> QED BY <4>3, <4>5, <4>6
      <3> QED BY <3>5, <3>6
    <2>4. CASE p \notin {CR, LF, EQ}
      <3> DEFINE o2 == Append(o, Plain(p))
      <3>1. r \in Config /\ Pos(cx, r) = n + 1 /\ Out(cx, r) = o2
        BY SMTT(30), <1>4, <1>5, <1>6, <2>4, EmitMoves
      <3>2. Transition(At("NONE", o), p) = At("NONE", o2)
        BY <1>1, <1>2, <2>4, ReadsInLine
      <3> HIDE DEF o2
      <3>3. ReadTo(cx, n + 1) = At("NONE", o2) /\ Open(cx, n + 1)
        BY <1>1, <1>2, <1>7, <1>9, <3>2, ReadsOn
      <3>4. WithinLine(cx, n + 1, o2)
        BY <2>0, <3>3, InLineAt
      <3> QED BY <3>1, <3>3, <3>4
    <2> QED BY <2>1, <2>2, <2>3, <2>4
  <1>10. n # cx.upto
    BY <1>1, <1>2
  <1> QED BY <1>7, <1>8, <1>9, <1>10 DEF WithinLine

\* Behind a '=' that begins a line.
LEMMA AfterLineEQAgrees ==
  ASSUME NEW cx, Context(cx), NEW c \in Config, c.at = "NONE",
         c.pos <= Len(Slice(cx)),
         Open(cx, Pos(cx, c)), ReadTo(cx, Pos(cx, c)) = At("CRLFEQ", Out(cx, c))
  PROVE  Agrees(cx, AfterLineEQ(Slice(cx), c))
PROOF
  <1> DEFINE n == Pos(cx, c)
             o == Out(cx, c)
             p == Peek(Slice(cx), c, 0)
  <1>1. /\ c.pos \in Nat /\ Len(Slice(cx)) \in Nat /\ cx.upto \in Nat
        /\ n \in Nat /\ o \in Seq(Byte) /\ n <= cx.upto
    BY ContextFacts, SliceOfText, PosOut DEF Config
  <1>2. CASE c.pos >= Len(Slice(cx))
    <2>1. AfterLineEQ(Slice(cx), c) = Finish(c, "CRLFEQ", "none")
      BY <1>2 DEF AfterLineEQ
    <2>2. n = cx.upto /\ "CRLFEQ" \in States
      BY <1>1, <1>2, PosOut DEF States
    <2> QED BY <2>1, <2>2, StopAgrees
  <1>3. CASE c.pos < Len(Slice(cx))
    <2> DEFINE x == Escaped(p)
               s == Skip(c, IF p = CR THEN 0 ELSE 1)
               m == Emit(s, x)
               o2 == Append(o, x)
    <2>1. /\ p = Y => AfterLineEQ(Slice(cx), c) = Finish(Skip(c, 1), "NONE", "control")
          /\ p # Y => AfterLineEQ(Slice(cx), c) = m
      BY <1>1, <1>3 DEF AfterLineEQ
    <2>2. p = cx.text[n + 1] /\ p \in Nat /\ n < cx.upto
      <3>1. c.pos + 0 < Len(Slice(cx)) /\ 0 \in Nat /\ n + 0 + 1 = n + 1 /\ n + 0 = n
        BY <1>1, <1>3
      <3>2. p = cx.text[n + 0 + 1] /\ p \in Nat /\ n + 0 < cx.upto
        BY <3>1, PeekIsText
      <3> QED BY <3>1, <3>2
    <2>3. Continues(cx, "CRLFEQ", n, o)
      BY <1>1, <2>2, ContinuesFrom
    <2>4. CASE p = Y
      <3>1. Transition(At("CRLFEQ", o), p) =
              [state |-> "NONE", out |-> o, end |-> "control"]
        BY <1>1, <2>2, <2>4, ReadsEscaped
      <3>2. ReadTo(cx, n + 1) = [state |-> "NONE", out |-> o, end |-> "control"]
        BY <2>2, <2>3, <3>1 DEF Continues
      <3>3. "NONE" \in States
        BY DEF States
      <3> QED BY <2>1, <2>4, <3>2, <3>3, EndAgrees
    <2>5. CASE p # Y
      <3>1. x \in Byte /\ o2 \in Seq(Byte)
        BY <1>1, <2>2, DecodedBytes
      <3>2. Transition(At("CRLFEQ", o), p) = Transition(At("EQ", o), p)
        BY <1>1, <2>2, <2>5, ReadsEscaped
      <3>3. AfterLineEQ(Slice(cx), c) = m
        BY <2>1, <2>5
      <3>4. "NONE" \in InLoop
        BY DEF InLoop
      <3>5. CASE p = CR
        <4> DEFINE s0 == Skip(c, 0)
        <4>1. s0 \in Config /\ Pos(cx, s0) = n + 0 /\ Out(cx, s0) = o /\ s0.at = c.at
          BY SkipMoves
        <4>2. m = Emit(s0, x) /\ n + 0 = n
          BY <1>1, <3>5
        <4> HIDE DEF s0, m
        <4>3. m \in Config /\ Pos(cx, m) = n /\ Out(cx, m) = o2 /\ m.at = "NONE"
          <5>1. /\ m \in Config /\ Pos(cx, m) = Pos(cx, s0)
                /\ Out(cx, m) = Append(Out(cx, s0), x) /\ m.at = s0.at
            BY <3>1, <4>1, <4>2, EmitMoves
          <5> HIDE DEF n, o, x
          <5> QED BY <4>1, <4>2, <5>1
        <4>4. Transition(At("EQ", o), p) = At("CR", o2)
          BY <1>1, <2>2, <3>5, ReadsEscaped
        <4>5. Transition(At("NONE", o2), p) = At("CR", o2)
          BY <2>2, <3>1, <3>5, ReadsInLine
        <4> HIDE DEF n, o, p, o2
        <4>6. WithinLine(cx, n, o2)
          BY <2>2, <2>3, <3>2, <4>4, <4>5 DEF Continues, WithinLine
        <4>7. Open(cx, n)
          BY DEF n
        <4> QED BY <3>3, <3>4, <4>3, <4>6, <4>7, InLoopAgrees
      <3>6. CASE p # CR
        <4> DEFINE s1 == Skip(c, 1)
        <4>1. s1 \in Config /\ Pos(cx, s1) = n + 1 /\ Out(cx, s1) = o /\ s1.at = c.at
          BY SkipMoves
        <4>2. m = Emit(s1, x)
          BY <3>6
        <4> HIDE DEF s1, m
        <4>3. m \in Config /\ Pos(cx, m) = n + 1 /\ Out(cx, m) = o2 /\ m.at = "NONE"
          <5>1. /\ m \in Config /\ Pos(cx, m) = Pos(cx, s1)
                /\ Out(cx, m) = Append(Out(cx, s1), x) /\ m.at = s1.at
            BY <3>1, <4>1, <4>2, EmitMoves
          <5> HIDE DEF n, o, x
          <5> QED BY <4>1, <5>1
        <4>4. Transition(At("EQ", o), p) = At("NONE", o2)
          BY <1>1, <2>2, <3>6, ReadsEscaped
        <4>5. Open(cx, n)
          OBVIOUS
        <4> HIDE DEF n, o, p, o2
        <4>6. Transition(At("CRLFEQ", o), cx.text[n + 1]) = At("NONE", o2)
          BY <2>2, <3>2, <4>4
        <4>7. n + 1 <= cx.upto /\ ReadTo(cx, n + 1) = At("NONE", o2) /\ Open(cx, n + 1)
          BY <1>1, <2>3, <4>5, <4>6, ReadsOn
        <4>8. WithinLine(cx, n + 1, o2)
          BY <1>1, <4>7, InLineAt
        <4> QED BY <3>3, <3>4, <4>3, <4>7, <4>8, InLoopAgrees
      <3> QED BY <3>5, <3>6
    <2> QED BY <2>4, <2>5
  <1> QED BY <1>1, <1>2, <1>3

\* Behind a '.' that begins a line.
LEMMA AfterLineDotAgrees ==
  ASSUME NEW cx, Context(cx), NEW c \in Config, c.at = "NONE",
         c.pos <= Len(Slice(cx)),
         Open(cx, Pos(cx, c)), ReadTo(cx, Pos(cx, c)) = At("CRLFDT", Out(cx, c))
  PROVE  Agrees(cx, AfterLineDot(Slice(cx), c))
PROOF
  <1> DEFINE n == Pos(cx, c)
             o == Out(cx, c)
             p == Peek(Slice(cx), c, 0)
             s == Skip(c, 1)
  <1>1. /\ c.pos \in Nat /\ Len(Slice(cx)) \in Nat /\ cx.upto \in Nat
        /\ n \in Nat /\ o \in Seq(Byte) /\ n <= cx.upto
    BY ContextFacts, SliceOfText, PosOut DEF Config
  <1>2. {"CRLFDT", "CRLFDTCR", "CRLF"} \subseteq States /\ "NONE" \in InLoop
    BY DEF States, InLoop
  <1>3. CASE c.pos >= Len(Slice(cx))
    <2>1. AfterLineDot(Slice(cx), c) = Finish(c, "CRLFDT", "none")
      BY <1>3 DEF AfterLineDot
    <2>2. n = cx.upto
      BY <1>1, <1>3, PosOut
    <2> QED BY <1>2, <2>1, <2>2, StopAgrees
  <1>4. CASE c.pos < Len(Slice(cx))
    <2>1. /\ p = CR => AfterLineDot(Slice(cx), c) = AfterLineDotCR(Slice(cx), s)
          /\ p = EQ => AfterLineDot(Slice(cx), c) = AfterLineEQ(Slice(cx), s)
          /\ p \notin {CR, EQ} => AfterLineDot(Slice(cx), c) = c
      BY <1>1, <1>4 DEF AfterLineDot, CR, EQ
    <2>2. p = cx.text[n + 1] /\ p \in Nat /\ n < cx.upto
      <3>1. c.pos + 0 < Len(Slice(cx)) /\ 0 \in Nat /\ n + 0 + 1 = n + 1 /\ n + 0 = n
        BY <1>1, <1>4
      <3>2. p = cx.text[n + 0 + 1] /\ p \in Nat /\ n + 0 < cx.upto
        BY <3>1, PeekIsText
      <3> QED BY <3>1, <3>2
    <2>3. /\ s \in Config /\ Pos(cx, s) = n + 1 /\ Out(cx, s) = o
          /\ s.at = "NONE" /\ s.pos = c.pos + 1
      BY SkipMoves
    <2>4. s.pos <= Len(Slice(cx)) /\ s.pos \in Nat
      <3> HIDE DEF s
      <3> QED BY <1>1, <1>4, <2>3
    <2>5. Open(cx, n) /\ Continues(cx, "CRLFDT", n, o)
      BY <1>1, <2>2, ContinuesFrom
    <2> HIDE DEF n, o, p, s
    <2>6. CASE p = EQ
      <3>1. Transition(At("CRLFDT", o), p) = At("CRLFEQ", o)
        BY <1>1, <2>2, <2>6, ReadsLineEnd
      <3>2. ReadTo(cx, n + 1) = At("CRLFEQ", o) /\ Open(cx, n + 1)
        BY <1>1, <2>2, <2>5, <3>1, ReadsOn
      <3> QED BY <2>1, <2>3, <2>4, <2>6, <3>2, AfterLineEQAgrees
    <2>7. CASE p \notin {CR, EQ}
      <3>1. Transition(At("CRLFDT", o), p) = Transition(At("NONE", o), p)
        BY <1>1, <2>2, <2>7, ReadsAsInLine
      <3>2. WithinLine(cx, n, o)
        BY <2>2, <2>5, <3>1 DEF Continues, WithinLine
      <3>3. AfterLineDot(Slice(cx), c) = c
        BY <2>1, <2>7
      <3> QED BY <1>2, <2>5, <3>2, <3>3, InLoopAgrees DEF n, o
    <2>8. CASE p = CR
      <3> DEFINE q == Peek(Slice(cx), s, 0)
      <3>1. Transition(At("CRLFDT", o), p) = At("CRLFDTCR", o)
        BY <1>1, <2>2, <2>8, ReadsLineEnd
      <3>2. ReadTo(cx, n + 1) = At("CRLFDTCR", o) /\ Open(cx, n + 1)
        BY <1>1, <2>2, <2>5, <3>1, ReadsOn
      <3>3. AfterLineDot(Slice(cx), c) = AfterLineDotCR(Slice(cx), s)
        BY <2>1, <2>8
      <3>4. CASE s.pos >= Len(Slice(cx))
        <4>1. AfterLineDotCR(Slice(cx), s) = Finish(s, "CRLFDTCR", "none")
          BY <3>4 DEF AfterLineDotCR
        <4>2. Pos(cx, s) = cx.upto
          BY <1>1, <2>2, <2>3, <3>4, PosOut
        <4> QED BY <1>2, <2>3, <3>2, <3>3, <4>1, <4>2, StopAgrees
      <3>5. CASE s.pos < Len(Slice(cx))
        <4>1. AfterLineDotCR(Slice(cx), s) = IF q = LF
                THEN Finish(Skip(s, 1), "CRLF", "article") ELSE s
          BY <1>1, <2>4, <3>5 DEF AfterLineDotCR
        <4>2. q = cx.text[(n + 1) + 1] /\ q \in Nat /\ n + 1 < cx.upto
          <5>1. s.pos + 0 < Len(Slice(cx)) /\ 0 \in Nat
                /\ (n + 1) + 0 + 1 = (n + 1) + 1 /\ (n + 1) + 0 = n + 1
            BY <1>1, <2>4, <3>5
          <5>2. q = cx.text[Pos(cx, s) + 0 + 1] /\ q \in Nat /\ Pos(cx, s) + 0 < cx.upto
            BY <2>3, <5>1, PeekIsText
          <5> QED BY <2>3, <5>1, <5>2
        <4>3. Continues(cx, "CRLFDTCR", n + 1, o)
          BY <1>1, <3>2, <4>2, ContinuesFrom
        <4> HIDE DEF q
        <4>4. CASE q = LF
          <5>1. Transition(At("CRLFDTCR", o), q) =
                  [state |-> "CRLF", out |-> o, end |-> "article"]
            BY <1>1, <4>2, <4>4, ReadsLineEnd
          <5>2. ReadTo(cx, (n + 1) + 1) = [state |-> "CRLF", out |-> o,
                end |-> "article"]
            BY <4>2, <4>3, <5>1 DEF Continues
          <5>3. Agrees(cx, Finish(Skip(s, 1), "CRLF", "article"))
            BY <1>2, <2>3, <3>2, <5>2, EndAgrees
          <5> QED BY <3>3, <4>1, <4>4, <5>3
        <4>5. CASE q # LF
          <5>1. Transition(At("CRLFDTCR", o), q) = Transition(At("NONE", o), q)
            BY <1>1, <4>2, <4>5, ReadsAsInLine
          <5>2. WithinLine(cx, n + 1, o)
            BY <4>2, <4>3, <5>1 DEF Continues, WithinLine
          <5>3. Agrees(cx, s)
            BY <1>2, <2>3, <3>2, <5>2, InLoopAgrees
          <5> QED BY <3>3, <4>1, <4>5, <5>3
        <4> QED BY <4>4, <4>5
      <3> QED BY <1>1, <2>4, <3>4, <3>5
    <2> QED BY <2>6, <2>7, <2>8
  <1> QED BY <1>1, <1>3, <1>4

\* A line end in the loop: the reference has read it when it is behind it.
LEMMA LineEndRead ==
  ASSUME NEW cx, Context(cx), NEW c \in Config, c.pos + 1 < Len(Slice(cx)),
         AtLineEnd(Slice(cx), c),
         Open(cx, Pos(cx, c)), WithinLine(cx, Pos(cx, c), Out(cx, c))
  PROVE  /\ ReadTo(cx, Pos(cx, c) + 1) = At("CR", Out(cx, c)) /\ Open(cx, Pos(cx, c) + 1)
         /\ ReadTo(cx, Pos(cx, c) + 2) = At("CRLF", Out(cx, c))
         /\ Open(cx, Pos(cx, c) + 2)
         /\ Pos(cx, c) + 2 <= cx.upto
         /\ cx.text[Pos(cx, c) + 1] = CR /\ cx.text[Pos(cx, c) + 2] = LF
PROOF
  <1> DEFINE n == Pos(cx, c)
             o == Out(cx, c)
  <1>1. /\ c.pos \in Nat /\ Len(Slice(cx)) \in Nat /\ cx.upto \in Nat
        /\ n \in Nat /\ o \in Seq(Byte)
    BY ContextFacts, SliceOfText, PosOut DEF Config
  <1>2. /\ cx.text[n + 1] = CR /\ cx.text[n + 2] = LF /\ n + 1 < cx.upto
        /\ CR \in Nat /\ LF \in Nat
    <2>1. /\ c.pos + 0 < Len(Slice(cx)) /\ 0 \in Nat /\ 1 \in Nat
          /\ n + 0 + 1 = n + 1 /\ n + 1 + 1 = n + 2
      BY <1>1
    <2>2. /\ Peek(Slice(cx), c, 0) = cx.text[n + 0 + 1]
          /\ Peek(Slice(cx), c, 0) \in Nat
          /\ Peek(Slice(cx), c, 1) = cx.text[n + 1 + 1]
          /\ Peek(Slice(cx), c, 1) \in Nat
          /\ n + 1 < cx.upto
      BY <2>1, PeekIsText
    <2> QED BY <2>1, <2>2 DEF AtLineEnd
  <1>3. Open(cx, n) /\ WithinLine(cx, n, o)
    OBVIOUS
  <1> HIDE DEF n, o
  <1>4. Continues(cx, "NONE", n, o)
    <2>1. n # cx.upto
      BY <1>1, <1>2
    <2>2. ~MidLineEnd(cx, n, o)
      BY <1>2 DEF MidLineEnd, CR, LF
    <2> QED BY <1>3, <2>1, <2>2 DEF WithinLine
  <1>5. Transition(At("NONE", o), cx.text[n + 1]) = At("CR", o)
    BY <1>1, <1>2, ReadsInLine
  <1>6. ReadTo(cx, n + 1) = At("CR", o) /\ Open(cx, n + 1)
    BY <1>1, <1>3, <1>4, <1>5, ReadsOn
  <1>7. n + 1 \in Nat /\ (n + 1) + 1 = n + 2
    BY <1>1
  <1>8. Continues(cx, "CR", n + 1, o)
    BY <1>2, <1>6, <1>7, ContinuesFrom
  <1>9. Transition(At("CR", o), cx.text[n + 2]) = At("CRLF", o)
    BY <1>1, <1>2, ReadsLineEnd
  <1>10. ReadTo(cx, n + 2) = At("CRLF", o) /\ Open(cx, n + 2) /\ n + 2 <= cx.upto
    BY <1>6, <1>7, <1>8, <1>9, ReadsOn
  <1> QED BY <1>2, <1>6, <1>10 DEF n, o

\* An iteration of the loop.
LEMMA NONEAgrees ==
  ASSUME NEW cx, Context(cx), NEW c, Bounded(Slice(cx), c), Agrees(cx, c),
         c.at = "NONE"
  PROVE  Agrees(cx, Step(Slice(cx), c))
PROOF
  <1> DEFINE n == Pos(cx, c)
             o == Out(cx, c)
             s == Skip(c, 3)
             d == Peek(Slice(cx), c, 2)
             r == OneChar(Slice(cx), c)
  <1>1. /\ c \in Config /\ c.pos \in Nat /\ Len(Slice(cx)) \in Nat /\ cx.upto \in Nat
        /\ n \in Nat /\ o \in Seq(Byte) /\ Len(c.out) <= c.pos
        /\ Slice(cx) \in Seq(Nat)
    BY ContextFacts, SliceOfText, PosOut DEF Bounded, Config
  <1>2. "NONE" \in InLoop /\ "secondLast" \in InLoop /\ "NONE" # "done"
    BY DEF InLoop
  <1>3. Open(cx, n) /\ WithinLine(cx, n, o)
    BY <1>2 DEF Agrees
  <1>4. Step(Slice(cx), c) = AtNONE(Slice(cx), c)
    BY DEF Step
  <1>5. CASE c.pos > Len(Slice(cx)) - 3
    <2>0. ~(c.pos <= Len(Slice(cx)) - 3)
      BY <1>1, <1>5
    <2>1. Step(Slice(cx), c) = [c EXCEPT !.at = "secondLast"]
      BY <1>4, <1>5, <2>0 DEF AtNONE
    <2> QED BY <1>1, <1>2, <1>3, <2>1, LoopAgrees
  <1>6. CASE c.pos <= Len(Slice(cx)) - 3
    <2>0. ~(c.pos > Len(Slice(cx)) - 3) /\ c.pos + 1 < Len(Slice(cx)) /\ c.pos + 2 < Len(Slice(cx))
      BY <1>1, <1>6
    <2>1. /\ AtLineEnd(Slice(cx), c) /\ d = DOT => Step(Slice(cx), c) = AfterLineDot(Slice(cx), s)
          /\ AtLineEnd(Slice(cx), c) /\ d = EQ => Step(Slice(cx), c) = AfterLineEQ(Slice(cx), s)
          /\ ~(AtLineEnd(Slice(cx), c) /\ d \in {DOT, EQ}) => Step(Slice(cx), c) = r
      BY <1>4, <1>6, <2>0 DEF AtNONE, DOT, EQ
    <2>2. CASE AtLineEnd(Slice(cx), c) /\ d \in {DOT, EQ}
      <3>1. /\ ReadTo(cx, n + 2) = At("CRLF", o) /\ Open(cx, n + 2)
        BY <1>1, <1>3, <2>0, <2>2, LineEndRead
      <3>2. d = cx.text[(n + 2) + 1] /\ d \in Nat /\ n + 2 < cx.upto
        <4>1. 2 \in Nat
          OBVIOUS
        <4> QED BY <1>1, <2>0, <4>1, PeekIsText
      <3>3. /\ s \in Config /\ Pos(cx, s) = n + 3 /\ Out(cx, s) = o
            /\ s.at = "NONE" /\ s.pos = c.pos + 3
        <4>1. 3 \in Nat /\ c \in Config
          BY <1>1
        <4>2. /\ s \in Config /\ Pos(cx, s) = Pos(cx, c) + 3
              /\ Out(cx, s) = Out(cx, c) /\ s.at = c.at /\ s.pos = c.pos + 3
          BY <4>1, SkipMoves
        <4> HIDE DEF s
        <4> QED BY <4>2
      <3>4. s.pos <= Len(Slice(cx))
        <4> HIDE DEF s
        <4> QED BY <1>1, <2>0, <3>3
      <3> HIDE DEF n, o, s, d
      <3>5. n + 2 \in Nat /\ (n + 2) + 1 = n + 3
        BY <1>1
      <3>6. Continues(cx, "CRLF", n + 2, o)
        BY <3>1, <3>2, <3>5, ContinuesFrom
      <3>7. CASE d = DOT
        <4>1. Transition(At("CRLF", o), d) = At("CRLFDT", o)
          BY <1>1, <3>2, <3>7, ReadsLineEnd
        <4>2. ReadTo(cx, n + 3) = At("CRLFDT", o) /\ Open(cx, n + 3)
          BY <3>1, <3>2, <3>5, <3>6, <4>1, ReadsOn
        <4> QED BY <2>1, <2>2, <3>3, <3>4, <3>7, <4>2, AfterLineDotAgrees
      <3>8. CASE d = EQ
        <4>1. Transition(At("CRLF", o), d) = At("CRLFEQ", o)
          BY <1>1, <3>2, <3>8, ReadsLineEnd
        <4>2. ReadTo(cx, n + 3) = At("CRLFEQ", o) /\ Open(cx, n + 3)
          BY <3>1, <3>2, <3>5, <3>6, <4>1, ReadsOn
        <4> QED BY <2>1, <2>2, <3>3, <3>4, <3>8, <4>2, AfterLineEQAgrees
      <3> QED BY <2>2, <3>7, <3>8
    <2>3. CASE ~(AtLineEnd(Slice(cx), c) /\ d \in {DOT, EQ})
      <3>1. r \in Config /\ Open(cx, Pos(cx, r)) /\ WithinLine(cx, Pos(cx, r), Out(cx, r))
        BY <1>1, <1>3, <2>0, <2>3, OneCharAgrees
      <3>2. r.at = "NONE"
        BY <1>1, <2>0, OneCharMoves
      <3> HIDE DEF r
      <3> QED BY <1>2, <2>1, <2>3, <3>1, <3>2, InLoopAgrees
    <2> QED BY <2>2, <2>3
  <1> QED BY <1>1, <1>5, <1>6

\* The last two characters.
LEMMA TailAgrees ==
  ASSUME NEW cx, Context(cx), NEW c, Bounded(Slice(cx), c), Agrees(cx, c),
         c.at \in {"secondLast", "last"}
  PROVE  Agrees(cx, Step(Slice(cx), c))
PROOF
  <1> DEFINE n == Pos(cx, c)
             o == Out(cx, c)
  <1>1. /\ c \in Config /\ c.pos \in Nat /\ Len(Slice(cx)) \in Nat
        /\ cx.upto \in Nat /\ cx.from \in Nat
        /\ Len(Slice(cx)) = cx.upto - cx.from
        /\ n \in Nat /\ o \in Seq(Byte) /\ Len(c.out) <= c.pos
        /\ Slice(cx) \in Seq(Nat) /\ n = cx.from + c.pos
        /\ c.pos <= Len(Slice(cx))
    BY ContextFacts, SliceOfText, PosOut DEF Bounded, Config, Pos
  <1>2. "last" \in InLoop /\ c.at \in InLoop /\ c.at # "done"
    BY DEF InLoop
  <1>3. Open(cx, n) /\ WithinLine(cx, n, o)
    BY <1>2 DEF Agrees
  <1>4. {"CRLF", "NONE", "EQ", "CR"} \subseteq States
    BY DEF States
  <1> HIDE DEF n, o
  <1>5. CASE c.at = "secondLast"
    <2>0. Step(Slice(cx), c) = AtSecondLast(Slice(cx), c)
      BY <1>5 DEF Step
    <2>1. CASE c.pos # Len(Slice(cx)) - 2
      <3>1. Step(Slice(cx), c) = [c EXCEPT !.at = "last"]
        BY <2>0, <2>1 DEF AtSecondLast
      <3> QED BY <1>1, <1>2, <1>3, <3>1, LoopAgrees DEF n, o
    <2>2. CASE c.pos = Len(Slice(cx)) - 2 /\ AtLineEnd(Slice(cx), c)
      <3>1. Step(Slice(cx), c) = Finish(c, "CRLF", "none")
        BY <2>0, <2>2 DEF AtSecondLast
      <3>2. /\ ReadTo(cx, n + 1) = At("CR", o)
            /\ cx.text[n + 1] = CR /\ cx.text[n + 2] = LF
        <4>1. c.pos + 1 < Len(Slice(cx))
          BY <1>1, <2>2
        <4> QED BY <1>1, <1>3, <2>2, <4>1, LineEndRead DEF n, o
      <3>3. n + 2 = cx.upto
        BY SMTT(30), <1>1, <2>2
      <3>4. LineEndUnread(cx, n, o)
        BY <3>2, <3>3 DEF LineEndUnread
      <3> QED BY <1>1, <1>3, <3>1, <3>4, LeaveAgrees DEF n, o
    <2>3. CASE c.pos = Len(Slice(cx)) - 2 /\ ~AtLineEnd(Slice(cx), c)
      <3> DEFINE r == OneChar(Slice(cx), c)
      <3>1. Step(Slice(cx), c) = [r EXCEPT !.at = "last"]
        BY <2>0, <2>3 DEF AtSecondLast
      <3>2. r \in Config /\ Open(cx, Pos(cx, r)) /\ WithinLine(cx, Pos(cx, r), Out(cx, r))
        BY SMTT(30), <1>1, <1>3, <2>3, OneCharAgrees DEF n, o
      <3> HIDE DEF r
      <3> QED BY <1>2, <3>1, <3>2, LoopAgrees
    <2> QED BY <2>1, <2>2, <2>3
  <1>6. CASE c.at = "last"
    <2>0. Step(Slice(cx), c) = AtLast(Slice(cx), c)
      BY <1>6 DEF Step
    <2>1. ~MidLineEnd(cx, n, o)
      <3>1. c.pos >= Len(Slice(cx)) - 1
        BY <1>6 DEF Bounded
      <3>2. ~(n + 1 < cx.upto)
        BY <1>1, <3>1
      <3> QED BY <3>2 DEF MidLineEnd
    <2>2. CASE c.pos # Len(Slice(cx)) - 1
      <3>1. Step(Slice(cx), c) = Finish(c, "NONE", "none")
        BY <2>0, <2>2 DEF AtLast
      <3>2. c.pos >= Len(Slice(cx)) - 1
        BY <1>6 DEF Bounded
      <3>3. n = cx.upto
        BY SMTT(30), <1>1, <2>2, <3>2
      <3>4. ReadTo(cx, n) = At("NONE", o)
        BY <1>1, <1>3, <2>1, <3>3 DEF WithinLine, Continues
      <3> QED BY <1>1, <1>3, <1>4, <3>1, <3>3, <3>4, StopAgrees DEF n, o
    <2>3. CASE c.pos = Len(Slice(cx)) - 1
      <3> DEFINE p == Peek(Slice(cx), c, 0)
                 s == Skip(c, 1)
                 m == Emit(s, Plain(p))
                 o2 == Append(o, Plain(p))
      <3>1. n < cx.upto /\ n + 1 = cx.upto
        BY SMTT(30), <1>1, <2>3
      <3>2. p = cx.text[n + 1] /\ p \in Nat
        <4>1. c.pos + 0 < Len(Slice(cx)) /\ 0 \in Nat /\ n + 0 + 1 = n + 1
          BY SMTT(30), <1>1, <2>3
        <4>2. p = cx.text[n + 0 + 1] /\ p \in Nat
          BY <1>1, <4>1, PeekIsText DEF n
        <4> QED BY <4>1, <4>2
      <3>3. Continues(cx, "NONE", n, o)
        BY <1>1, <1>3, <2>1, <3>1 DEF WithinLine
      <3>4. s \in Config /\ Pos(cx, s) = n + 1 /\ Out(cx, s) = o
        BY <1>1, SkipMoves DEF n, o
      <3>5. /\ p = EQ => Step(Slice(cx), c) = Finish(s, "EQ", "none")
            /\ p = CR => Step(Slice(cx), c) = Finish(s, "CR", "none")
            /\ p = LF => Step(Slice(cx), c) = Finish(s, "NONE", "none")
            /\ p \notin {CR, LF, EQ} => Step(Slice(cx), c) = Finish(m, "NONE", "none")
        BY <2>0, <2>3 DEF AtLast, CR, LF, EQ
      <3>6. Plain(p) \in Byte
        BY <3>2, DecodedBytes
      <3> HIDE DEF p, s
      <3>7. m \in Config /\ Pos(cx, m) = n + 1 /\ Out(cx, m) = o2
        BY <3>4, <3>6, EmitMoves
      <3> HIDE DEF m
      <3>8. /\ p = CR => Transition(At("NONE", o), p) = At("CR", o)
            /\ p = LF => Transition(At("NONE", o), p) = At("NONE", o)
            /\ p = EQ => Transition(At("NONE", o), p) = At("EQ", o)
            /\ p \notin {CR, LF, EQ} => Transition(At("NONE", o), p) = At("NONE", o2)
        BY <1>1, <3>2, ReadsInLine
      <3> HIDE DEF o2
      <3>9. ASSUME NEW st \in States,
                   Transition(At("NONE", o), p) = At(st, o)
            PROVE  Agrees(cx, Finish(s, st, "none"))
        <4>1. ReadTo(cx, n + 1) = At(st, o) /\ Open(cx, n + 1)
          BY <1>1, <1>3, <3>2, <3>3, <3>9, ReadsOn
        <4> QED BY <3>1, <3>4, <4>1, StopAgrees
      <3>10. CASE p = EQ
        BY <1>4, <3>5, <3>8, <3>9, <3>10
      <3>11. CASE p = CR
        BY <1>4, <3>5, <3>8, <3>9, <3>11
      <3>12. CASE p = LF
        BY <1>4, <3>5, <3>8, <3>9, <3>12
      <3>13. CASE p \notin {CR, LF, EQ}
        <4>1. ReadTo(cx, n + 1) = At("NONE", o2) /\ Open(cx, n + 1)
          BY <1>1, <1>3, <3>2, <3>3, <3>8, <3>13, ReadsOn
        <4>2. Step(Slice(cx), c) = Finish(m, "NONE", "none")
          BY <3>5, <3>13
        <4> QED BY <1>4, <3>1, <3>7, <4>1, <4>2, StopAgrees
      <3> QED BY <3>10, <3>11, <3>12, <3>13
    <2> QED BY <2>2, <2>3
  <1> QED BY <1>5, <1>6

\* Every step.
LEMMA StepAgrees ==
  ASSUME NEW cx, Context(cx), NEW c, Bounded(Slice(cx), c), Agrees(cx, c),
         c.at # "done"
  PROVE  Agrees(cx, Step(Slice(cx), c))
PROOF
  <1>1. c.at \in Labels
    BY DEF Bounded, Config
  <1> QED BY <1>1, LabelsAgree, NONEAgrees, TailAgrees DEF Labels

-----------------------------------------------------------------------------
(* What a call returns.                                                    *)

\* The reading of all that was shown, when it has not met the end: a line end
\* left to the next call is two dropped characters.
LEMMA ResultReads ==
  ASSUME NEW cx, Context(cx), NEW n \in Nat, NEW st \in States,
         NEW o \in Seq(Byte), Reaches(cx, n, st, o, "none")
  PROVE  ReadTo(cx, cx.upto) = At(st, o)
PROOF
  <1>1. CASE n = cx.upto /\ ReadTo(cx, n) = At(st, o)
    BY <1>1
  <1>2. CASE st = "CRLF" /\ LineEndUnread(cx, n, o)
    <2>1. /\ n + 2 = cx.upto /\ cx.text[n + 2] = LF
          /\ ReadTo(cx, n + 1) = At("CR", o)
      BY <1>2 DEF LineEndUnread
    <2>2. n + 1 \in Nat /\ n + 1 < cx.upto /\ (n + 1) + 1 = n + 2
      BY <2>1, ContextFacts
    <2>3. ReadTo(cx, n + 2) = Transition(At("CR", o), LF)
      BY <2>1, <2>2, ContextFacts
    <2>4. Transition(At("CR", o), LF) = At("CRLF", o)
      <3>1. LF \in Nat
        BY DEF LF
      <3> QED BY <3>1, ReadsLineEnd
    <2> QED BY <1>2, <2>1, <2>3, <2>4
  <1> QED BY <1>1, <1>2 DEF Reaches

\* No end of the data is among what was shown then.
LEMMA ResultOpen ==
  ASSUME NEW cx, Context(cx), NEW n \in Nat, NEW st \in States,
         NEW o \in Seq(Byte), Reaches(cx, n, st, o, "none")
  PROVE  Open(cx, cx.upto)
PROOF
  <1>1. Open(cx, n)
    BY DEF Reaches
  <1>2. CASE n = cx.upto
    BY <1>1, <1>2
  <1>3. CASE n # cx.upto
    <2>1. n + 2 = cx.upto /\ ReadTo(cx, n + 1) = At("CR", o)
      BY <1>3 DEF Reaches, LineEndUnread
    <2>2. ReadTo(cx, cx.upto) = At(st, o)
      BY ResultReads
    <2>3. ReadTo(cx, n + 1).end = "none" /\ ReadTo(cx, cx.upto).end = "none"
      BY <2>1, <2>2 DEF At
    <2>4. \A j \in 0..cx.upto : j \in 0..n \/ j = n + 1 \/ j = cx.upto
      BY <2>1
    <2> QED BY <1>1, <2>3, <2>4 DEF Open
  <1> QED BY <1>2, <1>3

\* What is left then is that line end.
LEMMA LineEndLeft ==
  ASSUME NEW cx, Context(cx), NEW o, LineEndUnread(cx, cx.from, o)
  PROVE  Slice(cx) = <<CR, LF>>
PROOF
  <1> DEFINE u == Slice(cx)
             v == <<CR, LF>>
  <1>1. cx.from \in Nat /\ cx.upto = cx.from + 2
    BY ContextFacts DEF LineEndUnread
  <1>2. u \in Seq(Nat) /\ Len(u) = 2
    <2>1. u \in Seq(Nat) /\ Len(u) = cx.upto - cx.from
      BY SliceOfText
    <2> HIDE DEF u
    <2> QED BY <1>1, <2>1
  <1>3. u[1] = CR /\ u[2] = LF
    <2>1. 1 \in 1..(cx.upto - cx.from) /\ 2 \in 1..(cx.upto - cx.from)
      BY <1>1
    <2>2. u[1] = cx.text[cx.from + 1] /\ u[2] = cx.text[cx.from + 2]
      BY <2>1, SliceOfText
    <2> QED BY <2>2 DEF LineEndUnread
  <1>4. v \in Seq(Nat) /\ Len(v) = 2 /\ v[1] = CR /\ v[2] = LF
    BY DEF CR, LF
  <1> HIDE DEF u, v
  <1>5. \A i \in 1..Len(u) : u[i] = v[i]
    BY <1>2, <1>3, <1>4
  <1>6. u = v
    BY <1>2, <1>4, <1>5, SeqEqual
  <1> QED BY <1>6 DEF u, v

-----------------------------------------------------------------------------
(* The whole call.                                                         *)

(***************************************************************************)
(* Where a call may begin, in State st and behind what o has been decoded: *)
(* where the reference has come to, or before a line end left unread.      *)
(***************************************************************************)
Begins(cx, n, st, o) ==
  /\ Open(cx, n)
  /\ \/ ReadTo(cx, n) = At(st, o)
     \/ st = "CRLF" /\ cx.text[n + 1] = CR /\ ReadTo(cx, n + 1) = At("CR", o)

\* There a call has left the text, however much of it the next one is shown.
LEMMA ReachesBegins ==
  ASSUME NEW cx, NEW cx2, cx2.text = cx.text, cx2.reads = cx.reads,
         NEW n, NEW st, NEW o, Reaches(cx, n, st, o, "none")
  PROVE  Begins(cx2, n, st, o)
PROOF
  <1>1. \A j : ReadTo(cx2, j) = ReadTo(cx, j)
    BY DEF ReadTo
  <1> QED BY <1>1 DEF Reaches, Begins, Open, LineEndUnread

\* A call that begins there agrees with the reference.
LEMMA EnterAgrees ==
  ASSUME NEW cx, Context(cx), NEW st \in States, cx.from < cx.upto,
         Begins(cx, cx.from, st, cx.before)
  PROVE  Agrees(cx, Enter(Slice(cx), st))
PROOF
  <1> DEFINE n == cx.from
             o == cx.before
             r == Enter(Slice(cx), st)
  <1>1. /\ n \in Nat /\ cx.upto \in Nat /\ n < cx.upto /\ o \in Seq(Byte)
        /\ cx.from = n /\ cx.before = o
    BY ContextFacts
  <1>2. /\ cx.text[n + 1] \in Nat
        /\ ReadTo(cx, n + 1) = Transition(ReadTo(cx, n), cx.text[n + 1])
    BY <1>1, ContextFacts
  <1>3. Slice(cx) # <<>>
    <2> DEFINE w == Slice(cx)
    <2>1. Len(w) = cx.upto - n
      BY <1>1, SliceOfText
    <2> HIDE DEF w, n
    <2>2. w # <<>>
      BY <1>1, <2>1, EmptySeq
    <2> QED BY <2>2 DEF w
  <1>4. r.at = st /\ r.pos = 0 /\ r.out = <<>>
    BY <1>3 DEF Enter
  <1>6. /\ Open(cx, n)
        /\ \/ ReadTo(cx, n) = At(st, o)
           \/ st = "CRLF" /\ cx.text[n + 1] = CR /\ ReadTo(cx, n + 1) = At("CR", o)
    BY DEF Begins
  <1>8. st # "done" /\ (st \in InLoop => st = "NONE")
    BY DEF States, InLoop
  <1> HIDE DEF n, o, r
  <1>9. ReadTo(cx, n + 1) = Transition(At(st, o), cx.text[n + 1])
    <2>1. CASE ReadTo(cx, n) = At(st, o)
      BY <1>2, <2>1
    <2>2. CASE st = "CRLF" /\ cx.text[n + 1] = CR /\ ReadTo(cx, n + 1) = At("CR", o)
      <3>1. CR \in Nat /\ CR \notin {DOT, EQ}
        BY DEF CR, DOT, EQ
      <3>2. Transition(At("CRLF", o), CR) = At("CR", o)
        BY <1>1, <3>1, ReadsAsInLine, ReadsInLine
      <3> QED BY <2>2, <3>2
    <2> QED BY <1>6, <2>1, <2>2
  <1>10. Continues(cx, st, n, o)
    BY <1>1, <1>9 DEF Continues
  <1>11. Pos(cx, r) = n /\ Out(cx, r) = o
    <2>1. n + 0 = n /\ o \o <<>> = o
      BY <1>1, ConcatEmptySeq
    <2> QED BY <1>1, <1>4, <2>1 DEF Pos, Out
  <1>12. st = "NONE" => WithinLine(cx, n, o)
    BY <1>10 DEF WithinLine
  <1>13. Agrees(cx, r)
    BY <1>4, <1>6, <1>8, <1>10, <1>11, <1>12 DEF Agrees
  <1> QED BY <1>13 DEF r

\* A call that begins where the one before has stopped agrees with the
\* reference where it ends.
THEOREM CallAgrees ==
  ASSUME NEW cx, Context(cx), NEW st \in States, cx.from < cx.upto,
         Begins(cx, cx.from, st, cx.before)
  PROVE  LET r == Decode(Slice(cx), st) IN
         Reaches(cx, Pos(cx, r), r.state, Out(cx, r), r.end)
PROOF
  <1> DEFINE src == Slice(cx)
             I == {c \in Calls(src) : Bounded(src, c) /\ Agrees(cx, c)}
             e == Enter(src, st)
             r == Decode(src, st)
  <1>1. src \in Seq(Nat)
    BY SliceOfText
  <1>2. I \subseteq Calls(src)
    OBVIOUS
  <1>3. \A c \in I : c.at # "done" => Step(src, c) \in I
    BY <1>1, StepBounded, StepAgrees, BoundedCalls
  <1>4. e \in I
    BY <1>1, EnterBounded, EnterAgrees, BoundedCalls
  <1>5. \A c \in I : Agrees(cx, c)
    OBVIOUS
  <1> HIDE DEF I, src, e, r
  <1>6. r \in I /\ r.at = "done"
    <2>1. Run(src)[e] \in I /\ Run(src)[e].at = "done"
      BY <1>1, <1>2, <1>3, <1>4, RunEnds
    <2> QED BY <2>1 DEF r, e, Decode
  <1>7. Reaches(cx, Pos(cx, r), r.state, Out(cx, r), r.end)
    BY <1>5, <1>6 DEF Agrees
  <1> QED BY <1>7 DEF r, src

-----------------------------------------------------------------------------
(* Readings, from any beginning.                                           *)

\* A character leads from a reading to a reading.
LEMMA TransitionType ==
  ASSUME NEW r \in Readings, NEW c \in Nat
  PROVE  Transition(r, c) \in Readings
PROOF
  <1> DEFINE d == Classified(r.state, c)
  <1>1. d.state \in States /\ d.emit \in Seq(Byte) /\ d.end \in Ends
    <2>1. Escaped(c) \in Byte /\ Plain(c) \in Byte
      BY DecodedBytes
    <2>2. /\ <<>> \in Seq(Byte) /\ <<Escaped(c)>> \in Seq(Byte)
          /\ <<Plain(c)>> \in Seq(Byte)
      BY <2>1
    <2>3. /\ {"NONE", "CR", "CRLF", "CRLFDT", "CRLFDTCR", "CRLFEQ", "EQ"} \subseteq States
          /\ {"none", "control", "article"} \subseteq Ends
      BY DEF States, Ends
    <2>4. d.state \in States /\ d.end \in Ends
      BY SMTT(20), <2>3 DEF Classified, To
    <2>5. d.emit \in {<<>>, <<Escaped(c)>>, <<Plain(c)>>}
      BY SMTT(20) DEF Classified, To
    <2> HIDE DEF d
    <2> QED BY <2>2, <2>4, <2>5
  <1>2. r.out \in Seq(Byte)
    BY DEF Readings
  <1> HIDE DEF d
  <1>3. r.out \o d.emit \in Seq(Byte)
    BY <1>1, <1>2, ConcatProperties
  <1>4. [state |-> d.state, out |-> r.out \o d.emit, end |-> d.end] \in Readings
    BY <1>1, <1>3 DEF Readings
  <1> QED BY <1>4 DEF Transition, d

\* A reading of s begins with first and goes on character by character.
LEMMA ReadingFacts ==
  ASSUME NEW s \in Seq(Nat), NEW first \in Readings, NEW t, t = Reading(s, first)
  PROVE  /\ DOMAIN t = 0..Len(s) /\ t[0] = first
         /\ \A n \in 0..Len(s) : t[n] \in Readings
         /\ \A n \in 1..Len(s) : t[n] = Transition(t[n-1], s[n])
PROOF
  <1> DEFINE N == Len(s)
             next == [p \in (1..N) \X Readings |-> Transition(p[2], s[p[1]])]
             Eq(f) == f = [n \in 0..N |-> IF n = 0 THEN first ELSE next[<<n, f[n-1]>>]]
             g == CHOOSE f : Eq(f)
  <1>1. N \in Nat /\ \A n \in 1..N : s[n] \in Nat
    OBVIOUS
  <1>2. next \in [(1..N) \X Readings -> Readings]
    <2>1. \A n \in 1..N, r \in Readings : Transition(r, s[n]) \in Readings
      BY <1>1, TransitionType
    <2> HIDE DEF N
    <2> QED BY <2>1
  <1>3. \A n \in 1..N, r \in Readings : next[<<n, r>>] = Transition(r, s[n])
    OBVIOUS
  <1>4. t = g
    BY DEF Reading
  <1> HIDE DEF next, N
  <1>5. \E f : Eq(f)
    <2>1. PICK f : CountsUp(f, N, first, next)
      BY <1>1, <1>2, CountExists
    <2> QED BY <2>1 DEF CountsUp
  <1>6. CountsUp(g, N, first, next)
    <2>1. Eq(g)
      BY <1>5
    <2> HIDE DEF g
    <2> QED BY <2>1 DEF CountsUp
  <1> HIDE DEF g
  <1>7. /\ t \in [0..N -> Readings] /\ t[0] = first
        /\ \A n \in 1..N : t[n] = next[<<n, t[n-1]>>]
    <2>1. N \in Nat /\ first \in Readings
      BY <1>1
    <2>2. g \in [0..N -> Readings]
      BY <1>2, <1>6, <2>1, CountType
    <2>3. \A n \in 0..N : g[n] = IF n = 0 THEN first ELSE next[<<n, g[n-1]>>]
      BY <1>6 DEF CountsUp
    <2>4. 0 \in 0..N /\ \A n \in 1..N : n \in 0..N /\ n # 0
      BY <2>1
    <2> QED BY <1>4, <2>2, <2>3, <2>4
  <1>8. \A n \in 1..N : t[n-1] \in Readings
    <2>1. \A n \in 1..N : n - 1 \in 0..N
      BY <1>1
    <2> QED BY <1>7, <2>1
  <1>9. \A n \in 1..N : t[n] = Transition(t[n-1], s[n])
    BY <1>3, <1>7, <1>8
  <1> QED BY <1>7, <1>9 DEF N

\* It is one, and the one of those in use when it begins at At(st, o).
LEMMA ReadingIsReading ==
  ASSUME NEW s \in Seq(Nat), NEW st \in States, NEW o \in Seq(Byte)
  PROVE  IsReading(s, Reading(s, At(st, o))) /\ Reading(s, At(st, o))[0] = At(st, o)
PROOF
  <1>1. At(st, o) \in Readings
    BY DEF At, Readings, Ends
  <1> QED BY <1>1, ReadingFacts DEF IsReading

\* Readings of the end of a text that agree at one place agree at its end.
LEMMA ReadingsMeet ==
  ASSUME NEW s \in Seq(Nat), NEW first \in Readings, NEW n \in 0..Len(s),
         NEW other \in Readings, NEW j \in 0..Len(s)-n,
         Reading(SubSeq(s, n + 1, Len(s)), other)[j] = Reading(s, first)[n + j]
  PROVE  Outcome(SubSeq(s, n + 1, Len(s)), other) = Outcome(s, first)
PROOF
  <1> DEFINE u == SubSeq(s, n + 1, Len(s))
             t == Reading(s, first)
             f == Reading(u, other)
             N == Len(s) - n
             I == {i \in 0..(N - j) : f[j + i] = t[n + j + i]}
  <1>1. Len(s) \in Nat /\ n \in Nat /\ n <= Len(s) /\ N \in Nat /\ j \in 0..N
    OBVIOUS
  <1>2. /\ u \in Seq(Nat) /\ Len(u) = N
        /\ \A i \in 1..N : u[i] = s[n + i]
    BY <1>1, SliceIsSeq
  <1>3. \A i \in 1..Len(s) : t[i] = Transition(t[i-1], s[i])
    BY ReadingFacts
  <1> HIDE DEF u
  <1>4. \A i \in 1..N : f[i] = Transition(f[i-1], u[i])
    BY <1>2, ReadingFacts
  <1>0. f[j] = t[n + j]
    BY DEF u
  <1> HIDE DEF t, f
  <1>5. 0 \in I
    <2>1. j + 0 = j /\ n + j + 0 = n + j /\ 0 \in 0..(N - j)
      BY <1>1
    <2> QED BY <1>0, <2>1
  <1>6. ASSUME NEW i \in 0..(N - j - 1), i \in I
        PROVE  i + 1 \in I
    <2>1. /\ j + i + 1 \in 1..N /\ (j + i + 1) - 1 = j + i
          /\ n + j + i + 1 \in 1..Len(s) /\ (n + j + i + 1) - 1 = n + j + i
          /\ n + (j + i + 1) = n + j + i + 1 /\ j + (i + 1) = j + i + 1
          /\ n + j + (i + 1) = n + j + i + 1
          /\ i + 1 \in 0..(N - j)
      BY <1>1
    <2>2. f[j + i + 1] = Transition(f[j + i], u[j + i + 1])
      BY <1>4, <2>1
    <2>3. t[n + j + i + 1] = Transition(t[n + j + i], s[n + j + i + 1])
      BY <1>3, <2>1
    <2>4. u[j + i + 1] = s[n + j + i + 1]
      <3>1. u[j + i + 1] = s[n + (j + i + 1)]
        BY <1>2, <2>1
      <3> QED BY <2>1, <3>1
    <2>5. f[j + i] = t[n + j + i]
      BY <1>6
    <2> QED BY <2>1, <2>2, <2>3, <2>4, <2>5
  <1>7. N - j \in I
    <2>1. N - j \in Nat
      BY <1>1
    <2> HIDE DEF I, N
    <2>2. 0..(N - j) \subseteq I
      BY <1>5, <1>6, <2>1, UpTo
    <2> QED BY <2>1, <2>2
  <1>8. f[N] = t[Len(s)]
    <2>1. j + (N - j) = N /\ n + j + (N - j) = Len(s)
      BY <1>1
    <2> QED BY <1>7, <2>1
  <1> QED BY <1>2, <1>8 DEF Outcome, u, t, f

\* What a character must be, and what must come before it, to lead where the end
\* of the data is or may be next.
LEMMA LeadsToEnd ==
  ASSUME NEW r \in Readings, r.end = "none", NEW c \in Nat,
         NEW q, q = Transition(r, c)
  PROVE  /\ q.end = "control" =>
              c = Y /\ r.state = "CRLFEQ" /\ q.state = "NONE" /\ q.out = r.out
         /\ q.end = "article" =>
              c = LF /\ r.state = "CRLFDTCR" /\ q.state = "CRLF" /\ q.out = r.out
         /\ q.state = "CRLFEQ" => c = EQ /\ q.out = r.out
         /\ q.state = "CRLFDTCR" => c = CR /\ r.state = "CRLFDT"
         /\ q.state = "CRLFDT" => c = DOT
PROOF
  <1> DEFINE d == Classified(r.state, c)
  <1>1. /\ d.end = "control" =>
             c = Y /\ r.state = "CRLFEQ" /\ d.state = "NONE" /\ d.emit = <<>>
        /\ d.end = "article" =>
             c = LF /\ r.state = "CRLFDTCR" /\ d.state = "CRLF" /\ d.emit = <<>>
    BY SMTT(20) DEF Classified, To
  <1>2. /\ d.state = "CRLFEQ" => c = EQ /\ d.emit = <<>>
        /\ d.state = "CRLFDTCR" => c = CR /\ r.state = "CRLFDT"
        /\ d.state = "CRLFDT" => c = DOT
    BY SMTT(20) DEF Classified, To
  <1>3. r.out \in Seq(Byte)
    BY DEF Readings
  <1>4. r.out \o <<>> = r.out
    BY <1>3, ConcatEmptySeq
  <1> HIDE DEF d
  <1>5. q = [state |-> d.state, out |-> r.out \o d.emit, end |-> d.end]
    BY DEF Transition, d
  <1>6. q.state = d.state /\ q.out = r.out \o d.emit /\ q.end = d.end
    <2> DEFINE out == r.out \o d.emit
    <2> HIDE DEF out
    <2>1. q = [state |-> d.state, out |-> out, end |-> d.end]
      BY <1>5 DEF out
    <2>2. q.state = d.state /\ q.out = out /\ q.end = d.end
      BY <2>1
    <2> QED BY <2>2 DEF out
  <1>7. d.emit = <<>> => q.out = r.out
    BY <1>4, <1>6
  <1> QED BY <1>1, <1>2, <1>6, <1>7

\* The first end of the data in a text is "=y" or ".\r\n", as far as it lies in the
\* text.
LEMMA EndInText ==
  ASSUME NEW s \in Seq(Nat), NEW first \in Readings, NEW t, t = Reading(s, first),
         NEW m \in 1..Len(s), \A j \in 0..m-1 : t[j].end = "none"
  PROVE  /\ t[m].end = "control" =>
              /\ s[m] = Y /\ t[m].state = "NONE"
              /\ m = 1 => first.state = "CRLFEQ"
              /\ m > 1 => s[m - 1] = EQ
         /\ t[m].end = "article" =>
              /\ s[m] = LF /\ t[m].state = "CRLF"
              /\ m = 1 => first.state = "CRLFDTCR"
              /\ m > 1 => s[m - 1] = CR
              /\ m = 2 => first.state = "CRLFDT"
              /\ m > 2 => s[m - 2] = DOT
PROOF
  <1>1. /\ t[0] = first
        /\ \A n \in 0..Len(s) : t[n] \in Readings
        /\ \A n \in 1..Len(s) : t[n] = Transition(t[n-1], s[n])
        /\ \A n \in 1..Len(s) : s[n] \in Nat
    BY ReadingFacts, ElementOfSeq
  <1>2. m \in Nat /\ Len(s) \in Nat /\ m <= Len(s) /\ m >= 1
    OBVIOUS
  <1>3. ASSUME NEW n \in 1..m
        PROVE  /\ n \in 1..Len(s) /\ n - 1 \in 0..Len(s) /\ n - 1 \in 0..m-1
               /\ t[n-1] \in Readings /\ t[n-1].end = "none" /\ s[n] \in Nat
               /\ t[n] = Transition(t[n-1], s[n])
    <2>1. n \in 1..Len(s) /\ n - 1 \in 0..Len(s) /\ n - 1 \in 0..m-1
      BY <1>2
    <2> QED BY <1>1, <2>1
  <1>4. ASSUME NEW n \in 1..m
        PROVE  /\ t[n].end = "control" =>
                    s[n] = Y /\ t[n-1].state = "CRLFEQ" /\ t[n].state = "NONE"
               /\ t[n].end = "article" =>
                    s[n] = LF /\ t[n-1].state = "CRLFDTCR" /\ t[n].state = "CRLF"
               /\ t[n].state = "CRLFEQ" => s[n] = EQ
               /\ t[n].state = "CRLFDTCR" => s[n] = CR /\ t[n-1].state = "CRLFDT"
               /\ t[n].state = "CRLFDT" => s[n] = DOT
    <2>1. /\ t[n-1] \in Readings /\ t[n-1].end = "none" /\ s[n] \in Nat
          /\ t[n] = Transition(t[n-1], s[n])
      BY <1>3
    <2> HIDE DEF Y, LF, CR, EQ, DOT
    <2> QED BY <2>1, LeadsToEnd
  <1>5. m \in 1..m
    BY <1>2
  <1>6. m = 1 => t[m-1] = first
    BY <1>1
  <1>7. m > 1 => m - 1 \in 1..m /\ (m - 1) - 1 = m - 2
    BY <1>2
  <1>8. m = 2 => t[m-2] = first
    BY <1>1
  <1>9. m > 2 => m - 2 \in 1..m
    BY <1>2
  <1>10. m = 1 \/ m > 1
    BY <1>2
  <1>12. CASE t[m].end = "control"
    <2>1. s[m] = Y /\ t[m-1].state = "CRLFEQ" /\ t[m].state = "NONE"
      BY <1>4, <1>5, <1>12
    <2>2. m > 1 => s[m-1] = EQ
      BY <1>4, <1>7, <2>1
    <2> QED BY <1>6, <1>12, <2>1, <2>2
  <1>13. CASE t[m].end = "article"
    <2>1. s[m] = LF /\ t[m-1].state = "CRLFDTCR" /\ t[m].state = "CRLF"
      BY <1>4, <1>5, <1>13
    <2>2. m > 1 => s[m-1] = CR /\ t[m-2].state = "CRLFDT"
      BY <1>4, <1>7, <2>1
    <2>3. m = 2 => m > 1
      OBVIOUS
    <2>4. m = 2 => first.state = "CRLFDT"
      BY <1>8, <2>2, <2>3
    <2>5. m > 2 => m > 1
      BY <1>2
    <2>6. m > 2 => s[m-2] = DOT
      BY <1>4, <1>9, <2>2, <2>5
    <2> QED BY <1>6, <1>13, <2>1, <2>2, <2>4, <2>6
  <1> QED BY <1>12, <1>13

-----------------------------------------------------------------------------
(* The trace of a whole text.                                              *)

\* Every text has a reading, one character at a time, from any beginning.
LEMMA ReadingExists ==
  ASSUME NEW s \in Seq(Nat), NEW st \in States, NEW o \in Seq(Byte)
  PROVE  \E t : IsReading(s, t) /\ t[0] = At(st, o)
PROOF BY ReadingIsReading

\* That from the beginning of a line is its trace.
LEMMA TraceExists ==
  ASSUME NEW s \in Seq(Nat)
  PROVE  \E t : IsTrace(s, t)
PROOF
  <1>1. "CRLF" \in States /\ <<>> \in Seq(Byte) /\ Start = At("CRLF", <<>>)
    BY DEF States, Start, At
  <1>2. PICK t : IsReading(s, t) /\ t[0] = Start
    BY <1>1, ReadingExists
  <1> QED BY <1>2 DEF IsTrace, IsReading

\* A whole text in one call: the kernel stops at the first end of the data, or
\* behind the text, with what reading it one character at a time gives.
THEOREM DecodeIsReference ==
  ASSUME NEW s \in Seq(Nat), NEW t, IsTrace(s, t), s # <<>>
  PROVE  LET r == Decode(s, "CRLF") IN
         IF r.end = "none"
         THEN t[Len(s)] = At(r.state, r.out)
         ELSE /\ t[r.pos] = [state |-> r.state, out |-> r.out, end |-> r.end]
              /\ r.pos > 0 /\ \A j \in 0..(r.pos - 1) : t[j].end = "none"
PROOF
  <1> DEFINE cx == [text |-> s, reads |-> t, from |-> 0, upto |-> Len(s), before |-> <<>>]
             r == Decode(s, "CRLF")
  <1>2. /\ cx.text = s /\ cx.reads = t /\ cx.from = 0 /\ cx.upto = Len(s)
        /\ cx.before = <<>>
    OBVIOUS
  <1>3. Len(s) \in Nat /\ Len(s) > 0 /\ <<>> \in Seq(Byte)
    OBVIOUS
  <1> HIDE DEF cx
  <1>4. Context(cx)
    BY <1>2, <1>3, TraceIsReading DEF Context
  <1>5. Slice(cx) = s
    <2> DEFINE u == Slice(cx)
    <2>1. /\ u \in Seq(Nat) /\ Len(u) = Len(s) - 0
          /\ \A i \in 1..(Len(s) - 0) : u[i] = s[0 + i]
      BY <1>2, <1>4, SliceOfText
    <2> HIDE DEF u
    <2>2. Len(u) = Len(s) /\ \A i \in 1..Len(u) : u[i] = s[i]
      BY <1>3, <2>1
    <2>3. u = s
      BY <2>1, <2>2, SeqEqual
    <2> QED BY <2>3 DEF u
  <1>6. Begins(cx, cx.from, "CRLF", cx.before)
    <2>1. ReadTo(cx, 0) = At("CRLF", <<>>)
      BY <1>2, TraceIsReading DEF ReadTo
    <2>2. Open(cx, 0)
      <3>1. ReadTo(cx, 0).end = "none"
        BY <2>1 DEF At
      <3>2. \A j \in 0..0 : j = 0
        OBVIOUS
      <3> QED BY <3>1, <3>2 DEF Open
    <2> QED BY <1>2, <2>1, <2>2 DEF Begins
  <1>7. "CRLF" \in States
    BY DEF States
  <1>8. Reaches(cx, Pos(cx, r), r.state, Out(cx, r), r.end)
    BY <1>2, <1>3, <1>4, <1>5, <1>6, <1>7, CallAgrees
  <1>9. r \in Config
    BY <1>7, DecodeEnds DEF Bounded
  <1> HIDE DEF r
  <1>10. r.pos \in Nat /\ r.out \in Seq(Byte) /\ r.state \in States
    BY <1>9 DEF Config
  <1>11. Pos(cx, r) = r.pos /\ Out(cx, r) = r.out
    <2>1. 0 + r.pos = r.pos /\ <<>> \o r.out = r.out
      BY <1>10, ConcatEmptySeq
    <2> QED BY <1>2, <2>1 DEF Pos, Out
  <1>12. CASE r.end = "none"
    <2>1. ReadTo(cx, cx.upto) = At(r.state, r.out)
      BY <1>4, <1>8, <1>10, <1>11, <1>12, ResultReads
    <2> QED BY <1>2, <1>12, <2>1 DEF ReadTo, r
  <1>13. CASE r.end # "none"
    <2>1. /\ r.pos > 0 /\ Open(cx, r.pos - 1)
          /\ ReadTo(cx, r.pos) = [state |-> r.state, out |-> r.out, end |-> r.end]
      BY <1>8, <1>11, <1>13 DEF Reaches
    <2> QED BY <1>2, <1>13, <2>1 DEF ReadTo, Open, r
  <1> QED BY <1>12, <1>13
=============================================================================
