------------------------- MODULE DecodeStreamProofs -------------------------
(***************************************************************************)
(* Proofs about module DecodeStream, for every body and every way of       *)
(* cutting it into pieces.                                                 *)
(***************************************************************************)
EXTENDS DecodeStream, DecodeReferenceProofs

-----------------------------------------------------------------------------
(* The caller and its kernel: types and bounds.                            *)

\* The inductive invariant of type correctness: while a call runs it is within
\* the bounds of its slice.
TInv ==
  /\ TypeOK
  /\ running => Bounded(Src, k)

\* The caller begins with its types and no call running.
LEMMA InitTInv == Init => TInv
PROOF
  <1> SUFFICES ASSUME Init PROVE TInv
    OBVIOUS
  <1>1. "CRLF" \in States /\ "none" \in Ends /\ "done" \in Labels
    BY DEF States, Ends, Labels
  <1>2. k \in Config
    BY <1>1 DEF Init, Enter, Config
  <1>3. input \in Inputs /\ input \in Seq(Byte)
    BY TraceAssumption DEF Init
  <1>4. consumed \in 0..shown /\ shown \in 0..Len(input)
    BY <1>3 DEF Init
  <1>5. decoded \in Seq(Byte)
    BY DEF Init
  <1>7. running \in BOOLEAN /\ ~running
    BY Zenon DEF Init
  <1>6. pState \in States /\ end \in Ends
    BY <1>1 DEF Init
  <1> QED BY <1>2, <1>3, <1>4, <1>5, <1>6, <1>7 DEF TInv, TypeOK

\* Every step of the caller or of a kernel keeps them.
LEMMA NextTInv == TInv /\ [Next]_vars => TInv'
PROOF
  <1> SUFFICES ASSUME TInv, [Next]_vars PROVE TInv'
    OBVIOUS
  <1>1. /\ input \in Seq(Byte) /\ consumed \in Nat /\ shown \in Nat
        /\ consumed <= shown /\ shown <= Len(input)
        /\ pState \in States /\ Len(input) \in Nat
    BY TraceAssumption DEF TInv, TypeOK
  <1>2. input \in Seq(Nat)
    BY <1>1, BytesAreCharacters
  <1>7. Src \in Seq(Nat) /\ Len(Src) = shown - consumed
    BY <1>1, <1>2, SliceIsSeq DEF Src
  <1>3. ASSUME NEW n \in 1..Len(input), Show(n) PROVE TInv'
    <2>1. /\ shown' = shown + n /\ shown + n <= Len(input) /\ running' = TRUE
          /\ k' = Enter(SubSeq(input, consumed + 1, shown + n), pState)
          /\ UNCHANGED <<input, consumed, pState, decoded, end>>
      BY <1>3 DEF Show
    <2>2. Src' = SubSeq(input, consumed + 1, shown + n)
      BY <2>1 DEF Src
    <2>3. Src' \in Seq(Nat)
      BY <1>1, <1>2, <1>3, <2>1, <2>2, SliceIsSeq
    <2>4. Bounded(Src, k)'
      BY <1>1, <2>1, <2>2, <2>3, EnterBounded
    <2>5. k' \in Config
      BY <2>4 DEF Bounded
    <2>6. TypeOK'
      BY <1>1, <1>3, <2>1, <2>5 DEF TInv, TypeOK
    <2> QED BY <2>4, <2>6 DEF TInv
  <1>4. CASE KernelStep
    <2>1. /\ Bounded(Src, k) /\ k.at # "done" /\ k' = Step(Src, k)
          /\ Src' = Src
      BY <1>4 DEF KernelStep, TInv, Src
    <2>2. Bounded(Src, k)'
      BY <1>7, <2>1, StepBounded
    <2>3. k' \in Config
      BY <2>2 DEF Bounded
    <2>4. TypeOK'
      BY <1>4, <2>3 DEF KernelStep, TInv, TypeOK
    <2> QED BY <2>2, <2>4 DEF TInv
  <1>5. CASE KernelReturn
    <2>1. /\ k \in Config /\ k.pos <= Len(Src)
      BY <1>5 DEF KernelReturn, TInv, Bounded
    <2>2. /\ k.pos \in Nat /\ k.out \in Seq(Byte) /\ k.state \in States
          /\ k.end \in Ends
      BY <2>1 DEF Config
    <2>3. /\ consumed' \in 0..shown' /\ shown' = shown /\ input' = input
      BY <1>1, <1>5, <1>7, <2>1, <2>2 DEF KernelReturn
    <2>4. decoded' \in Seq(Byte)
      BY <1>5, <2>2, ConcatProperties DEF KernelReturn, TInv, TypeOK
    <2>5. k' \in Config
      <3>1. "none" \in Ends /\ "done" \in Labels
        BY DEF Ends, Labels
      <3> QED BY <1>5, <2>2, <3>1 DEF KernelReturn, Enter, Config
    <2> QED
      BY <1>1, <1>5, <2>2, <2>3, <2>4, <2>5 DEF KernelReturn, TInv, TypeOK
  <1>6. CASE UNCHANGED vars
    BY <1>6 DEF vars, TInv, TypeOK, Src
  <1> QED BY <1>3, <1>4, <1>5, <1>6 DEF Next

\* Spec => []TInv: whatever the slices, the variables keep their types and a
\* running call (decodeGeneric in decoder_generic.go) stays inside its slice.
THEOREM TypeInvariance == Spec => []TInv
PROOF BY InitTInv, NextTInv, PTL DEF Spec

\* The variables keep their types.
THEOREM TypeCorrect == Spec => []TypeOK
PROOF
  <1>1. TInv => TypeOK
    BY DEF TInv
  <1> QED BY <1>1, TypeInvariance, PTL

\* The kernel never produces more than it consumes and stays in its slice.
THEOREM BoundsCorrect == Spec => []StaysInBounds
PROOF
  <1>1. TInv => StaysInBounds
    BY DEF TInv, Bounded, StaysInBounds
  <1> QED BY <1>1, TypeInvariance, PTL

-----------------------------------------------------------------------------
(***************************************************************************)
(* The kernel and the reference.  The context of the call under way is the *)
(* caller's state; between calls what the last one returned agrees with    *)
(* the reference, while one runs its configuration does.                   *)
(***************************************************************************)
Cx == [text |-> input, reads |-> Trace[input], from |-> consumed,
       upto |-> shown, before |-> decoded]

RInv ==
  /\ TInv
  /\ ~running => Reaches(Cx, consumed, pState, decoded, end)
  /\ running => Agrees(Cx, k)

\* The running call, seen as one of the calls DecodeReferenceProofs is about.
LEMMA CallerContext ==
  ASSUME TypeOK
  PROVE  /\ Context(Cx) /\ Slice(Cx) = Src
         /\ Cx.text = input /\ Cx.reads = Trace[input]
         /\ Cx.from = consumed /\ Cx.upto = shown /\ Cx.before = decoded
         /\ \A n : ReadTo(Cx, n) = Trace[input][n]
PROOF
  <1>1. input \in Inputs /\ input \in Seq(Byte) /\ decoded \in Seq(Byte)
    BY TraceAssumption DEF TypeOK
  <1>2. consumed \in 0..Len(input) /\ shown \in consumed..Len(input)
    BY <1>1 DEF TypeOK
  <1>3. /\ Context(Cx) /\ Cx.text = input /\ Cx.reads = Trace[input]
        /\ Cx.from = consumed /\ Cx.upto = shown /\ Cx.before = decoded
    <2>1. IsTrace(input, Trace[input])
      BY <1>1, TraceAssumption
    <2> QED BY <1>1, <1>2, <2>1, TextContext DEF Cx
  <1> QED BY <1>3 DEF Slice, Src, ReadTo

\* Nothing has been read and nothing consumed.
LEMMA InitRInv == Init => RInv
PROOF
  <1> SUFFICES ASSUME Init PROVE RInv
    OBVIOUS
  <1>1. TInv /\ TypeOK
    BY InitTInv DEF TInv
  <1>2. consumed = 0 /\ shown = 0 /\ pState = "CRLF" /\ decoded = <<>>
        /\ end = "none" /\ ~running
    BY Zenon DEF Init
  <1>3. Context(Cx) /\ Cx.upto = 0
    BY <1>1, <1>2, CallerContext
  <1>4. ReadTo(Cx, 0) = At("CRLF", <<>>)
    <2>1. input \in Inputs /\ Cx.reads = Trace[input]
      BY <1>1, CallerContext DEF TypeOK
    <2>2. IsTrace(input, Trace[input])
      BY <2>1, TraceAssumption
    <2> QED BY <2>1, <2>2, TraceIsReading DEF ReadTo
  <1>5. Open(Cx, 0)
    <2>1. ReadTo(Cx, 0).end = "none"
      BY <1>4 DEF At
    <2>2. \A j \in 0..0 : j = 0
      OBVIOUS
    <2> QED BY <2>1, <2>2 DEF Open
  <1>6. Reaches(Cx, consumed, pState, decoded, end)
    BY <1>2, <1>3, <1>4, <1>5 DEF Reaches
  <1> QED BY <1>1, <1>2, <1>6 DEF RInv

\* Every step of the caller and of the kernel keeps the two in agreement.
LEMMA NextRInv == RInv /\ [Next]_vars => RInv'
PROOF
  <1> SUFFICES ASSUME RInv, [Next]_vars PROVE RInv'
    OBVIOUS
  <1>1. TInv /\ TInv' /\ TypeOK /\ TypeOK'
    BY NextTInv DEF RInv, TInv
  <1>2. /\ Context(Cx) /\ Slice(Cx) = Src /\ Cx.text = input
        /\ Cx.reads = Trace[input] /\ Cx.from = consumed /\ Cx.upto = shown
        /\ Cx.before = decoded
    BY <1>1, CallerContext
  <1>3. ASSUME NEW n \in 1..Len(input), Show(n) PROVE RInv'
    <2>1. /\ shown' = shown + n /\ shown' > shown /\ end = "none"
          /\ input' = input /\ consumed' = consumed /\ decoded' = decoded
          /\ pState \in States
      BY <1>1, <1>3 DEF Show, TypeOK
    <2>2. ~running /\ running'
      BY <1>3, Zenon DEF Show
    <2>3. /\ Context(Cx') /\ Slice(Cx') = Src' /\ Cx'.text = input'
          /\ Cx'.reads = Trace[input'] /\ Cx'.from = consumed'
          /\ Cx'.upto = shown' /\ Cx'.before = decoded'
      <3>1. input' \in Inputs /\ input' \in Seq(Byte) /\ decoded' \in Seq(Byte)
        BY <1>1, TraceAssumption DEF TypeOK
      <3>2. consumed' \in 0..Len(input') /\ shown' \in consumed'..Len(input')
        BY <1>1, <3>1 DEF TypeOK
      <3>3. /\ Context(Cx') /\ Cx'.text = input' /\ Cx'.reads = Trace[input']
            /\ Cx'.from = consumed' /\ Cx'.upto = shown' /\ Cx'.before = decoded'
        <4>1. IsTrace(input', Trace[input'])
          BY <3>1, TraceAssumption
        <4> QED BY <3>1, <3>2, <4>1, TextContext DEF Cx
      <3> QED BY <3>3 DEF Slice, Src
    <2>4. Begins(Cx', Cx'.from, pState, Cx'.before)
      <3>1. Reaches(Cx, consumed, pState, decoded, "none")
        BY <2>1, <2>2 DEF RInv
      <3> QED BY <1>2, <2>1, <2>3, <3>1, ReachesBegins
    <2>5. Agrees(Cx', Enter(Slice(Cx'), pState))
      <3>1. Cx'.from < Cx'.upto
        BY <1>1, <2>1, <2>3 DEF TypeOK
      <3> QED BY <2>1, <2>3, <2>4, <3>1, EnterAgrees
    <2>6. k' = Enter(Slice(Cx'), pState)
      BY <1>3, <2>1, <2>3 DEF Show, Src
    <2>7. Agrees(Cx, k)'
      BY <2>5, <2>6
    <2> QED BY <1>1, <2>2, <2>7 DEF RInv
  <1>4. CASE KernelStep
    <2>1. /\ running /\ running' = running /\ k.at # "done" /\ k' = Step(Src, k)
          /\ Cx' = Cx
      BY <1>4 DEF KernelStep, Cx
    <2>2. Bounded(Src, k) /\ Agrees(Cx, k)
      BY <1>1, <2>1 DEF RInv, TInv
    <2>3. Agrees(Cx, Step(Src, k))
      BY <1>2, <2>1, <2>2, StepAgrees
    <2>4. Agrees(Cx, k)'
      BY <2>1, <2>3
    <2> QED BY <1>1, <2>1, <2>4 DEF RInv
  <1>5. CASE KernelReturn
    <2>1. /\ running /\ ~running' /\ k.at = "done"
          /\ consumed' = Pos(Cx, k) /\ decoded' = Out(Cx, k)
          /\ pState' = k.state /\ end' = k.end
          /\ input' = input /\ shown' = shown
      BY <1>2, <1>5, Zenon DEF KernelReturn, Pos, Out
    <2>2. Reaches(Cx, Pos(Cx, k), k.state, Out(Cx, k), k.end)
      BY <2>1 DEF RInv, Agrees
    <2>3. Cx'.text = Cx.text /\ Cx'.reads = Cx.reads /\ Cx'.upto = Cx.upto
      BY <2>1 DEF Cx
    <2>4. Reaches(Cx', consumed', pState', decoded', end')
      BY <2>1, <2>2, <2>3 DEF Reaches, Open, LineEndUnread, ReadTo
    <2> QED BY <1>1, <2>1, <2>4 DEF RInv
  <1>6. CASE UNCHANGED vars
    <2>1. Cx' = Cx
      BY <1>6 DEF vars, Cx
    <2> QED BY <1>1, <1>6, <2>1 DEF vars, RInv
  <1> QED BY <1>3, <1>4, <1>5, <1>6 DEF Next

\* The kernel and the reference agree whenever the program is.
THEOREM Agreement == Spec => []RInv
PROOF BY InitRInv, NextRInv, PTL DEF Spec

\* Between calls the result is that of reading character by character what has
\* been shown, wherever the body was cut: a line end left unread counts as
\* read.
THEOREM SameAsReferenceHolds == Spec => []SameAsReference
PROOF
  <1>1. RInv => SameAsReference
    <2> SUFFICES ASSUME RInv, ~running PROVE SameAsReference
      BY DEF SameAsReference
    <2>1. TypeOK /\ Reaches(Cx, consumed, pState, decoded, end)
      BY DEF RInv, TInv
    <2>4. /\ Context(Cx) /\ Cx.text = input /\ Cx.upto = shown
          /\ consumed \in Nat /\ decoded \in Seq(Byte)
          /\ \A n : ReadTo(Cx, n) = Trace[input][n]
      BY <2>1, CallerContext DEF TypeOK
    <2>2. CASE end = "none"
      <3>1. ReadTo(Cx, shown) = At(pState, decoded)
        <4>1. Reaches(Cx, consumed, pState, decoded, "none") /\ pState \in States
          BY <2>1, <2>2 DEF TypeOK
        <4> QED BY <2>4, <4>1, ResultReads
      <3>2. Trace[input][shown] = At(pState, decoded)
        BY <2>4, <3>1
      <3> QED BY <2>2, <3>2 DEF SameAsReference, At
    <2>3. CASE end # "none"
      <3>1. ReadTo(Cx, consumed) = [state |-> pState, out |-> decoded, end |-> end]
        BY <2>1, <2>3 DEF Reaches
      <3>2. Trace[input][consumed] =
              [state |-> pState, out |-> decoded, end |-> end]
        BY <2>4, <3>1
      <3> QED BY <2>3, <3>2 DEF SameAsReference
    <2> QED BY <2>2, <2>3
  <1> QED BY <1>1, Agreement, PTL

\* No character behind the first end of the data is consumed.
THEOREM StopsAtTheEndHolds == Spec => []StopsAtTheEnd
PROOF
  <1>1. RInv => StopsAtTheEnd
    <2> SUFFICES ASSUME RInv, ~running, NEW n \in 0..(consumed - 1)
                 PROVE  Trace[input][n].end = "none"
      BY DEF StopsAtTheEnd
    <2>1. TypeOK /\ Reaches(Cx, consumed, pState, decoded, end)
      BY DEF RInv, TInv
    <2>4. consumed \in Nat /\ \A m : ReadTo(Cx, m) = Trace[input][m]
      BY <2>1, CallerContext DEF TypeOK
    <2>2. Open(Cx, consumed) \/ Open(Cx, consumed - 1)
      BY <2>1 DEF Reaches
    <2>3. n \in 0..consumed /\ n \in 0..(consumed - 1)
      BY <2>4
    <2>5. ReadTo(Cx, n).end = "none"
      BY <2>2, <2>3 DEF Open
    <2> QED BY <2>4, <2>5
  <1> QED BY <1>1, Agreement, PTL

\* What a call that has not met the end leaves is nothing, or a line end.
THEOREM UnreadIsLineEndHolds == Spec => []UnreadIsLineEnd
PROOF
  <1>1. RInv => UnreadIsLineEnd
    <2> SUFFICES ASSUME RInv, ~running, end = "none", consumed # shown
                 PROVE  /\ SubSeq(input, consumed + 1, shown) = <<CR, LF>>
                        /\ pState = "CRLF"
      BY DEF UnreadIsLineEnd
    <2>1. TypeOK /\ Reaches(Cx, consumed, pState, decoded, end)
      BY DEF RInv, TInv
    <2>2. Context(Cx) /\ Slice(Cx) = Src /\ Cx.from = consumed /\ Cx.upto = shown
      BY <2>1, CallerContext
    <2>3. pState = "CRLF" /\ LineEndUnread(Cx, consumed, decoded)
      BY <2>1, <2>2 DEF Reaches
    <2>4. Slice(Cx) = <<CR, LF>>
      BY <2>2, <2>3, LineEndLeft
    <2> QED BY <2>2, <2>3, <2>4 DEF Src
  <1> QED BY <1>1, Agreement, PTL
=============================================================================
