--------------------------- MODULE EncoderProofs ---------------------------
(***************************************************************************)
(* Proofs about module Encoder on the portable kernel: the calls of Write  *)
(* and Close, in any order and with a writer that may fail at any time,    *)
(* leave an article that decodes to the data unless one of them returned   *)
(* an error, and no call writes behind the buffer it allocates.  The lines *)
(* of the article begin and end as they should, unless an empty call has   *)
(* flushed a blank, and fit when one call has been given all of the data.  *)
(***************************************************************************)
EXTENDS Encoder, EncodeGenericProofs

-----------------------------------------------------------------------------
(* The end of an article.                                                  *)

\* Behind the end of the data a trace changes no more.
LEMMA EndStays ==
  ASSUME NEW s \in Seq(Nat), NEW t, IsTrace(s, t), NEW i \in 0..Len(s),
         t[i].end # "none", NEW j \in 0..Len(s), i <= j
  PROVE  t[j] = t[i]
PROOF
  <1> DEFINE N == 0..Len(s)
             Bad == {n \in N : i <= n /\ t[n] # t[i]}
             rank == [n \in N |-> n]
  <1>1. ASSUME Bad # {}
        PROVE  FALSE
    <2>1. rank \in [N -> Nat] /\ Bad \subseteq N
      OBVIOUS
    <2>2. PICK n \in Bad : \A m \in Bad : rank[n] <= rank[m]
      <3> HIDE DEF N, Bad, rank
      <3> QED BY <1>1, <2>1, LeastRank
    <2>3. n \in 0..Len(s) /\ i <= n /\ t[n] # t[i]
      OBVIOUS
    <2>4. n # i
      BY <2>3
    <2>5. n - 1 \in N /\ i <= n - 1 /\ ~(n <= n - 1) /\ n \in 1..Len(s)
      BY <2>3, <2>4
    <2>6. t[n-1] = t[i]
      BY <2>2, <2>5
    <2>7. t[n] = Transition(t[n-1], s[n])
      BY <2>5 DEF IsTrace
    <2> QED BY <2>3, <2>6, <2>7 DEF Transition
  <1> QED BY <1>1

\* A text that reads as d, ended by a line end and the "=y" of the trailer,
\* decodes to d and ends there.
LEMMA FinishedText ==
  ASSUME NEW u \in Seq(Byte), NEW d \in Seq(Byte), NEW st \in {"NONE", "CRLF"},
         ReadAll(u) = At(st, d)
  PROVE  LET k == Decode(u \o LineEnd \o <<EQ, Y>>, "CRLF") IN
         k.out = d /\ k.end = "control"
PROOF
  <1> DEFINE a == Append(u, CR)
             b == Append(a, LF)
             c == Append(b, EQ)
             s == Append(c, Y)
             k == Decode(s, "CRLF")
             n == Len(s)
  <1>1. u \o LineEnd \o <<EQ, Y>> = s
    BY DEF LineEnd, CR, LF
  <1>2. u \in Seq(Nat) /\ CR \in Nat /\ LF \in Nat /\ EQ \in Nat /\ Y \in Nat
    BY BytesAreNumbers DEF CR, LF, EQ, Y
  <1>3. /\ a \in Seq(Nat) /\ b \in Seq(Nat) /\ c \in Seq(Nat) /\ s \in Seq(Nat)
        /\ s # <<>> /\ Len(c) \in Nat /\ Len(s) = Len(c) + 1
        /\ \A i \in 1..Len(c) : c[i] = s[i]
    <2>1. \A w \in Seq(Nat), x \in Nat : Append(w, x) \in Seq(Nat)
      OBVIOUS
    <2>2. a \in Seq(Nat)
      BY <1>2, <2>1
    <2>3. b \in Seq(Nat)
      BY <1>2, <2>1, <2>2
    <2>4. c \in Seq(Nat)
      BY <1>2, <2>1, <2>3
    <2> HIDE DEF c
    <2>5. s \in Seq(Nat) /\ Len(c) \in Nat /\ Len(s) = Len(c) + 1
      BY <1>2, <2>1, <2>4
    <2>6. \A i \in 1..Len(c) : c[i] = s[i]
      BY <1>2, <2>4
    <2>7. s # <<>>
      <3> HIDE DEF s
      <3> QED BY <2>5
    <2> QED BY <2>2, <2>3, <2>4, <2>5, <2>6, <2>7
  <1>4. ReadAll(a) = At("CR", d)
    <2>1. Transition(At(st, d), CR) = At("CR", d)
      <3>1. CR \notin {DOT, EQ}
        BY DEF CR, DOT, EQ
      <3> QED BY <1>2, <3>1, ReadsInLine, ReadsAsInLine
    <2> QED BY <1>2, <2>1, ReadingOfAppend
  <1>5. ReadAll(b) = At("CRLF", d)
    <2>1. Transition(At("CR", d), LF) = At("CRLF", d)
      BY DEF Transition, Classified, To, At, CR, LF, EQ, Y, DOT
    <2> HIDE DEF a
    <2> QED BY <1>2, <1>3, <1>4, <2>1, ReadingOfAppend
  <1>6. ReadAll(c) = At("CRLFEQ", d)
    <2>1. Transition(At("CRLF", d), EQ) = At("CRLFEQ", d)
      BY DEF Transition, Classified, To, At, CR, LF, EQ, Y, DOT
    <2> HIDE DEF b
    <2> QED BY <1>2, <1>3, <1>5, <2>1, ReadingOfAppend
  <1>7. ReadAll(s).out = d /\ ReadAll(s).end = "control"
    <2>1. Transition(At("CRLFEQ", d), Y) = [state |-> "NONE", out |-> d, end |-> "control"]
      BY SMTT(30) DEF Transition, Classified, To, At, CR, LF, EQ, Y, DOT
    <2> HIDE DEF c
    <2> QED BY <1>2, <1>3, <1>6, <2>1, ReadingOfAppend
  <1> HIDE DEF a, b, c, s, k
  <1>8. PICK t : IsTrace(s, t)
    BY <1>3, ReadingOfTrace
  <1>9. n \in Nat /\ n > 0 /\ n - 1 = Len(c)
    BY <1>3
  <1>10. t[n].out = d /\ t[n].end = "control"
    BY <1>3, <1>7, <1>8, ReadingOfTrace
  <1>11. t[n - 1].end = "none"
    <2>1. PICK w : IsTrace(c, w)
      BY <1>3, ReadingOfTrace
    <2>2. w[Len(c)] = At("CRLFEQ", d)
      BY <1>3, <1>6, <2>1, ReadingOfTrace
    <2>3. t[Len(c)] = w[Len(c)]
      <3> DEFINE m == Len(c)
      <3>1. m \in Nat /\ m <= Len(s) /\ m <= Len(c) /\ \A i \in 1..m : s[i] = c[i]
        BY <1>3
      <3> HIDE DEF m, n
      <3>2. t[m] = w[m]
        BY SMTT(30), <1>3, <1>8, <2>1, <3>1, TraceUnique
      <3> QED BY <3>2 DEF m
    <2> QED BY <1>9, <2>2, <2>3 DEF At
  <1>12. k.end # "none"
    <2> SUFFICES ASSUME k.end = "none"
                 PROVE  FALSE
      OBVIOUS
    <2>1. t[n] = At(k.state, k.out)
      BY <1>3, <1>8, DecodeIsReference DEF k
    <2> QED BY <1>10, <2>1 DEF At
  <1>13. /\ t[k.pos] = [state |-> k.state, out |-> k.out, end |-> k.end]
         /\ k.pos > 0 /\ \A j \in 0..(k.pos - 1) : t[j].end = "none"
    BY <1>3, <1>8, <1>12, DecodeIsReference DEF k
  <1>14. k.pos \in 0..n
    <2>1. "CRLF" \in States
      BY DEF States
    <2>2. Bounded(s, k)
      BY <1>3, <2>1, DecodeEnds DEF k
    <2> QED BY <1>3, <2>2 DEF Bounded, Config
  <1>15. k.pos = n
    <2>1. ASSUME k.pos # n
          PROVE  FALSE
      <3> DEFINE i == k.pos
                 j == n - 1
      <3>1. i <= j /\ j \in 0..n /\ i \in 0..n
        BY <1>9, <1>14, <2>1
      <3>2. t[i].end # "none"
        BY <1>12, <1>13
      <3> HIDE DEF i, j
      <3>3. t[j] = t[i]
        BY <1>3, <1>8, <3>1, <3>2, EndStays
      <3>4. t[n - 1] = t[k.pos]
        BY <3>3 DEF i, j
      <3> QED BY <1>11, <1>12, <1>13, <3>4
    <2> QED BY <2>1
  <1>16. k.out = d /\ k.end = "control"
    BY <1>10, <1>13, <1>15
  <1> QED BY <1>1, <1>16 DEF k

-----------------------------------------------------------------------------
(* A call of the kernel.                                                   *)

\* Every column of a line is one that some text has.
LEMMA ColumnReached ==
  ASSUME NEW col \in 0..(LineLength + 1)
  PROVE  \E text, d \in Seq(Byte) : Encodes(text, d, LineState(col))
PROOF
  <1>1. CASE col = 0
    <2>1. Encodes(<<>>, <<>>, LineState(col))
      BY <1>1, NothingEncodes DEF LineState
    <2> QED BY <2>1 DEF Encodes
  <1>2. CASE col # 0
    <2>1. 0 \in Byte
      BY DEF Byte
    <2>2. Encodes(<<>> \o FirstOfLine(0), Append(<<>>, 0), "NONE")
      BY <2>1, NothingEncodes, FirstEncodes
    <2>3. LineState(col) = "NONE"
      BY <1>2 DEF LineState
    <2> DEFINE u == <<>> \o FirstOfLine(0)
               d == Append(<<>>, 0)
    <2>4. Encodes(u, d, LineState(col))
      BY <2>2, <2>3
    <2> HIDE DEF u, d
    <2>5. u \in Seq(Byte) /\ d \in Seq(Byte)
      BY <2>4 DEF Encodes
    <2> QED BY <2>4, <2>5, Zenon
  <1> QED BY <1>1, <1>2

\* What encodeGeneric returns fits the buffer that Write has allocated, and
\* goes on encoding whatever the body encodes.
LEMMA KernelWrites ==
  ASSUME NEW src \in Seq(Byte), src # <<>>, NEW col \in 0..(LineLength + 1)
  PROVE  LET k == Encode(src, col) IN
         /\ k.out \in Seq(Byte) /\ k.out # <<>> /\ k.col \in 1..(LineLength + 1)
         /\ k.need \in Nat /\ MaxLength(Len(src)) \in Nat /\ k.need <= MaxLength(Len(src))
         /\ \A text, d \in Seq(Byte) :
              Encodes(text, d, LineState(col)) => Encodes(text \o k.out, d \o src, "NONE")
PROOF
  <1> DEFINE k == Encode(src, col)
             n == Len(src)
             q == (2 * n) \div LineLength
  <1>1. PICK text \in Seq(Byte), d \in Seq(Byte) : Encodes(text, d, LineState(col))
    BY ColumnReached
  <1>2. /\ k.out \in Seq(Byte) /\ k.out # <<>> /\ k.col \in 1..(LineLength + 1)
        /\ k.need \in Nat /\ k.need <= 2 * n + 2 + 2 * q
    BY <1>1, EncodeReads
  <1>3. MaxLength(n) \in Nat /\ k.need <= MaxLength(n)
    <2>1. n \in Nat /\ LineLength \in Nat /\ LineLength >= 1
      BY EncodeAssumption
    <2> HIDE DEF n, k
    <2>2. q \in Nat /\ (n * 2) \div LineLength = q
      BY <2>1
    <2>3. MaxLength(n) = n * 2 + Slack + 2 * q
      BY <2>2 DEF MaxLength
    <2>4. Slack \in Nat /\ Slack >= 2
      BY EncoderAssumption
    <2> HIDE DEF q
    <2> QED BY <1>2, <2>1, <2>2, <2>3, <2>4
  <1>4. ASSUME NEW u \in Seq(Byte), NEW e \in Seq(Byte), Encodes(u, e, LineState(col))
        PROVE  Encodes(u \o k.out, e \o src, "NONE")
    BY <1>4, EncodeReads
  <1> HIDE DEF k, n, q
  <1> QED BY <1>2, <1>3, <1>4 DEF k, n

-----------------------------------------------------------------------------
(* The invariant.                                                          *)

HeldBack == {<<>>} \cup {<<b>> : b \in Blank}

Encoders ==
  [open : BOOLEAN, hWritten : BOOLEAN, crc : Seq(Byte), column : 0..(LineLength + 1),
   endByte : HeldBack, processed : Nat, partSize : PartSizes[kernel]]

Sinks == [headers : Nat, body : Seq(Byte), trailers : Seq([crc : Seq(Byte), size : Nat])]

KernelCalls ==
  [src : Seq(Byte), from : 0..(LineLength + 1), col : 0..(LineLength + 1),
   out : Seq(Byte), need : Nat, room : Nat]

Types ==
  /\ kernel \in Kernels
  /\ enc \in Encoders /\ sink \in Sinks
  /\ data \in Seq(Byte) /\ Len(data) <= MaxData /\ enc.processed <= Len(data)
  /\ writes \in 0..MaxWrites
  /\ flushed \in BOOLEAN /\ failed \in BOOLEAN
  /\ call \in KernelCalls /\ call.need <= call.room

\* The article is finished.
Finished ==
  /\ \E st \in {"NONE", "CRLF"} : ReadAll(sink.body) = At(st, data)
  /\ ~Raw => /\ enc.hWritten
             /\ sink.trailers = <<[crc |-> data, size |-> Len(data)]>>

\* As long as no call has returned an error, what the writer has been given,
\* with the byte that is held back, encodes what Write has been given.
Faithful ==
  /\ enc.crc = data /\ enc.processed = Len(data)
  /\ sink.headers = IF enc.hWritten THEN 1 ELSE 0
  /\ Raw => ~enc.hWritten
  /\ ~Raw => enc.partSize > 0 /\ (data # <<>> => enc.hWritten)
  /\ IF enc.open
     THEN /\ sink.trailers = <<>>
          /\ Encodes(sink.body \o enc.endByte, data, LineState(enc.column))
     ELSE Finished

EInv == kernel = "generic" => Types /\ (~failed => Faithful)

\* What NewEncoder and Reset leave.
Fresh ==
  /\ kernel \in Kernels
  /\ \E size \in PartSizes[kernel] : (Raw \/ size > 0) /\ enc = NewEncoder(size)
  /\ sink = NewSink /\ data = <<>> /\ writes = 0
  /\ flushed = FALSE /\ failed = FALSE /\ call = NoCall

\* A new encoder has written nothing.
LEMMA NewIsFaithful == Fresh => Types /\ Faithful
PROOF
  <1> SUFFICES ASSUME Fresh
               PROVE  Types /\ Faithful
    OBVIOUS
  <1>1. PICK size \in PartSizes[kernel] : (Raw \/ size > 0) /\ enc = NewEncoder(size)
    BY DEF Fresh
  <1>2. /\ kernel \in Kernels /\ sink = NewSink /\ data = <<>> /\ writes = 0
        /\ flushed = FALSE /\ failed = FALSE /\ call = NoCall
    BY DEF Fresh
  <1>3. /\ LineLength \in Nat /\ MaxData \in Nat /\ MaxWrites \in Nat
        /\ Raw \in BOOLEAN /\ Len(<<>>) = 0 /\ size \in Nat
    BY <1>1, <1>2, EncodeAssumption, EncoderAssumption
  <1>4. <<>> \in Seq(Byte) /\ <<>> \in Seq([crc : Seq(Byte), size : Nat]) /\ <<>> \in HeldBack
    BY DEF HeldBack
  <1>5. enc \in Encoders
    BY <1>3, <1>4, <1>1 DEF NewEncoder, Encoders
  <1>6. sink \in Sinks
    BY <1>3, <1>4, <1>2 DEF NewSink, Sinks
  <1>7. call \in KernelCalls /\ call.need <= call.room
    BY <1>3, <1>4, <1>2 DEF NoCall, KernelCalls
  <1>8. /\ enc.open /\ ~enc.hWritten /\ enc.crc = <<>> /\ enc.column = 0
        /\ enc.endByte = <<>> /\ enc.processed = 0 /\ enc.partSize = size
    BY <1>1 DEF NewEncoder
  <1>9. sink.headers = 0 /\ sink.body = <<>> /\ sink.trailers = <<>>
    BY <1>2 DEF NewSink
  <1>10. Types
    <2>1. Len(data) <= MaxData /\ enc.processed <= Len(data) /\ writes \in 0..MaxWrites
      BY <1>2, <1>3, <1>8
    <2>2. flushed \in BOOLEAN /\ failed \in BOOLEAN
      BY <1>2, Zenon
    <2> QED BY Zenon, <1>2, <1>4, <1>5, <1>6, <1>7, <2>1, <2>2 DEF Types
  <1>11. Encodes(sink.body \o enc.endByte, data, LineState(enc.column))
    <2>1. <<>> \o <<>> = <<>>
      OBVIOUS
    <2> QED BY <1>2, <1>8, <1>9, <2>1, NothingEncodes DEF LineState
  <1>12. Faithful
    BY <1>1, <1>2, <1>3, <1>8, <1>9, <1>11 DEF Faithful
  <1> QED BY <1>10, <1>12

\* A new Encoder satisfies the invariant.
LEMMA InitEInv == Init => EInv
PROOF
  <1> SUFFICES ASSUME Init
               PROVE  Types /\ Faithful
    BY DEF EInv
  <1>1. Fresh
    BY DEF Init, Fresh
  <1> QED BY <1>1, NewIsFaithful

-----------------------------------------------------------------------------
(* What Write does before it encodes.                                      *)

\* The header and the byte held back reach the writer.
LEMMA HeldBackWritten ==
  ASSUME sink \in Sinks, enc \in Encoders
  PROVE  /\ HeaderWritten \in Sinks /\ HeaderWritten.body = sink.body
         /\ EndByteWritten \in Sinks
         /\ EndByteWritten.headers = IF NeedsHeader THEN sink.headers + 1 ELSE sink.headers
         /\ EndByteWritten.body = sink.body \o enc.endByte
         /\ EndByteWritten.trailers = sink.trailers
         /\ enc.endByte \in Seq(Byte)
PROOF
  <1> DEFINE h == IF NeedsHeader THEN sink.headers + 1 ELSE sink.headers
             w == HeaderWritten
  <1>1. /\ sink.headers \in Nat /\ sink.body \in Seq(Byte) /\ enc.endByte \in HeldBack
        /\ h \in Nat
    BY DEF Sinks, Encoders
  <1>2. enc.endByte \in Seq(Byte)
    <2>1. \A b \in Blank : <<b>> \in Seq(Byte)
      BY DEF Blank, Byte
    <2>2. <<>> \in Seq(Byte)
      OBVIOUS
    <2> QED BY <1>1, <2>1, <2>2 DEF HeldBack
  <1>3. w = [sink EXCEPT !.headers = h]
    BY DEF HeaderWritten
  <1> HIDE DEF w, h
  <1>4. w \in Sinks /\ w.headers = h /\ w.body = sink.body /\ w.trailers = sink.trailers
    BY <1>1, <1>3 DEF Sinks
  <1> DEFINE b == w.body \o enc.endByte
             v == EndByteWritten
  <1>5. v = [w EXCEPT !.body = b]
    BY DEF EndByteWritten, w
  <1>6. b \in Seq(Byte)
    BY <1>1, <1>2, <1>4, ConcatProperties
  <1> HIDE DEF b, v
  <1>7. v \in Sinks /\ v.headers = w.headers /\ v.body = b /\ v.trailers = w.trailers
    BY <1>4, <1>5, <1>6 DEF Sinks
  <1> QED BY <1>2, <1>4, <1>7 DEF w, v, b, h

\* The Encoder with the CRC of p, and the header written.
LEMMA CrcUpdated ==
  ASSUME enc \in Encoders, NEW p \in Seq(Byte)
  PROVE  LET e == WithHeader(WithCRC(p)) IN
         /\ e \in Encoders /\ e.open = enc.open /\ e.hWritten = ~Raw
         /\ e.crc = enc.crc \o p /\ e.column = enc.column /\ e.endByte = enc.endByte
         /\ e.processed = enc.processed /\ e.partSize = enc.partSize
PROOF
  <1> DEFINE c == enc.crc \o p
             f == WithCRC(p)
             h == ~Raw
             e == WithHeader(f)
  <1>1. f = [enc EXCEPT !.crc = c]
    BY DEF WithCRC
  <1>2. c \in Seq(Byte) /\ h \in BOOLEAN
    BY EncoderAssumption DEF Encoders
  <1> HIDE DEF f, c
  <1>3. /\ f \in Encoders /\ f.open = enc.open /\ f.crc = c /\ f.column = enc.column
        /\ f.endByte = enc.endByte /\ f.processed = enc.processed
        /\ f.partSize = enc.partSize
    BY <1>1, <1>2 DEF Encoders
  <1>4. e = [f EXCEPT !.hWritten = h]
    BY DEF WithHeader
  <1> HIDE DEF e, h
  <1>5. /\ e \in Encoders /\ e.open = f.open /\ e.hWritten = h /\ e.crc = f.crc
        /\ e.column = f.column /\ e.endByte = f.endByte /\ e.processed = f.processed
        /\ e.partSize = f.partSize
    BY <1>2, <1>3, <1>4 DEF Encoders
  <1> QED BY <1>3, <1>5 DEF e, f, c, h

\* The data after a call of Write with p.
LEMMA CalledTypes ==
  ASSUME Types, NEW p \in Seq(Byte), Len(data) + Len(p) <= MaxData, Called(p)
  PROVE  /\ data' \in Seq(Byte) /\ Len(data') = Len(data) + Len(p)
         /\ Len(data') <= MaxData /\ Len(data) \in Nat /\ Len(p) \in Nat
         /\ writes' \in 0..MaxWrites /\ enc.open
PROOF
  <1>1. data' = data \o p /\ writes' = writes + 1 /\ writes < MaxWrites /\ enc.open
    BY DEF Called, MayWrite
  <1>2. data \in Seq(Byte) /\ writes \in 0..MaxWrites /\ MaxWrites \in Nat
    BY EncoderAssumption DEF Types
  <1>3. data' \in Seq(Byte) /\ Len(data') = Len(data) + Len(p)
    BY <1>1, <1>2, ConcatProperties
  <1>4. writes' \in 0..MaxWrites
    BY <1>1, <1>2
  <1> QED BY <1>1, <1>2, <1>3, <1>4

\* A Write that fails before it encodes keeps the types; its error has been returned.
LEMMA FailingWriteTypes ==
  ASSUME Types, kernel' = kernel, NEW p \in Seq(Byte), Len(data) + Len(p) <= MaxData,
         WriteFailsAtHeader(p) \/ WriteFailsAtEndByte(p)
  PROVE  Types' /\ failed'
PROOF
  <1> DEFINE e == WithHeader(WithCRC(p))
  <1>1. /\ Called(p) /\ failed' = TRUE /\ enc' = e /\ sink' \in {sink, HeaderWritten}
        /\ flushed' = flushed /\ call' = call
    BY DEF WriteFailsAtHeader, WriteFailsAtEndByte, WriterFailed
  <1>2. enc \in Encoders /\ sink \in Sinks
    BY DEF Types
  <1>3. e \in Encoders /\ e.processed = enc.processed
    BY <1>2, CrcUpdated
  <1> HIDE DEF e
  <1>4. sink' \in Sinks
    BY <1>1, <1>2, HeldBackWritten
  <1>5. enc' \in Encoders'
    BY <1>1, <1>3 DEF Encoders
  <1>6. /\ data' \in Seq(Byte) /\ Len(data') <= MaxData /\ writes' \in 0..MaxWrites
        /\ enc'.processed <= Len(data')
    <2>1. enc.processed \in Nat /\ enc.processed <= Len(data)
      BY DEF Types, Encoders
    <2> QED BY <1>1, <1>3, <2>1, CalledTypes
  <1>7. failed' \in BOOLEAN /\ failed'
    BY <1>1, Zenon
  <1>8. flushed' \in BOOLEAN /\ call' \in KernelCalls /\ call'.need <= call'.room
    BY Zenon, <1>1 DEF Types
  <1> QED BY Zenon, <1>4, <1>5, <1>6, <1>7, <1>8 DEF Types, Sinks, KernelCalls

\* An empty Write is faithful: the byte held back has been written by itself.
LEMMA EmptyWriteKeeps ==
  ASSUME Types, ~failed => Faithful, kernel' = kernel, WriteEmpty(<<>>)
  PROVE  Types' /\ (~failed' => Faithful')
PROOF
  <1> DEFINE p == <<>>
             f == WithHeader(WithCRC(p))
             e == [f EXCEPT !.endByte = <<>>]
  <1>1. /\ Called(p) /\ enc' = e /\ sink' = EndByteWritten /\ failed' = failed
        /\ flushed' = (flushed \/ enc.endByte # <<>>) /\ call' = call
    BY DEF WriteEmpty
  <1>2. /\ enc \in Encoders /\ sink \in Sinks /\ p \in Seq(Byte) /\ data \in Seq(Byte)
        /\ Len(p) = 0 /\ Len(data) <= MaxData /\ Raw \in BOOLEAN
    BY EncoderAssumption DEF Types
  <1>3. Len(data) + Len(p) <= MaxData
    BY <1>2
  <1>4. /\ data' \in Seq(Byte) /\ Len(data') <= MaxData /\ writes' \in 0..MaxWrites
        /\ enc.open /\ data' = data
    <2>1. data' = data
      BY <1>1, <1>2 DEF Called
    <2> QED BY <1>1, <1>2, <1>3, <2>1, CalledTypes
  <1>5. /\ f \in Encoders /\ f.open = enc.open /\ f.hWritten = ~Raw
        /\ f.crc = enc.crc \o p /\ f.column = enc.column
        /\ f.processed = enc.processed /\ f.partSize = enc.partSize
    BY <1>2, CrcUpdated
  <1> HIDE DEF f
  <1>6. /\ e \in Encoders /\ e.open = enc.open /\ e.hWritten = ~Raw /\ e.crc = enc.crc
        /\ e.column = enc.column /\ e.endByte = <<>> /\ e.processed = enc.processed
        /\ e.partSize = enc.partSize
    <2>1. enc.crc \o p = enc.crc /\ <<>> \in HeldBack
      BY <1>2 DEF Encoders, HeldBack
    <2> QED BY <1>5, <2>1 DEF Encoders
  <1> HIDE DEF e, p
  <1>7. /\ sink' \in Sinks
        /\ sink'.headers = IF NeedsHeader THEN sink.headers + 1 ELSE sink.headers
        /\ sink'.body = sink.body \o enc.endByte
        /\ sink'.trailers = sink.trailers /\ sink'.body \in Seq(Byte)
    BY <1>1, <1>2, HeldBackWritten DEF Sinks
  <1>8. Types'
    <2>1. enc' \in Encoders'
      BY <1>1, <1>6 DEF Encoders
    <2>2. enc'.processed <= Len(data')
      BY <1>1, <1>4, <1>6 DEF Types
    <2>3. failed' \in BOOLEAN
      BY <1>1, Zenon DEF Types
    <2>4. flushed' \in BOOLEAN
      BY <1>1, Zenon
    <2>5. call' \in KernelCalls /\ call'.need <= call'.room
      BY <1>1, Zenon DEF Types
    <2> QED BY Zenon, <1>4, <1>7, <2>1, <2>2, <2>3, <2>4, <2>5
            DEF Types, Sinks, KernelCalls
  <1>9. ASSUME Faithful
        PROVE  Faithful'
    <2>1. sink'.headers = IF ~Raw THEN 1 ELSE 0
      BY <1>2, <1>7, <1>9 DEF Faithful, NeedsHeader
    <2>2. Encodes(sink.body \o enc.endByte, data, LineState(enc.column))
          /\ sink.trailers = <<>> /\ enc.crc = data /\ enc.processed = Len(data)
          /\ (~Raw => enc.partSize > 0)
      BY <1>4, <1>9 DEF Faithful
    <2>3. sink'.body \o <<>> = sink'.body
      BY <1>7
    <2>4. Encodes(sink'.body \o enc'.endByte, data', LineState(enc'.column))
      BY <1>1, <1>4, <1>6, <1>7, <2>2, <2>3
    <2>5. /\ enc'.crc = data' /\ enc'.processed = Len(data') /\ enc'.hWritten = ~Raw
          /\ enc'.open /\ enc'.partSize = enc.partSize /\ sink'.trailers = <<>>
      BY <1>1, <1>4, <1>6, <1>7, <2>2
    <2> QED BY <2>1, <2>2, <2>4, <2>5 DEF Faithful
  <1> QED BY <1>1, <1>8, <1>9

\* The last character, and those before it.
LEMMA LastCharacter ==
  ASSUME NEW s \in Seq(Byte), s # <<>>
  PROVE  /\ Last(s) \in Byte /\ <<Last(s)>> \in Seq(Byte)
         /\ SubSeq(s, 1, Len(s) - 1) \in Seq(Byte)
         /\ SubSeq(s, 1, Len(s) - 1) \o <<Last(s)>> = s
PROOF
  <1> DEFINE n == Len(s)
  <1>1. n \in Nat /\ n > 0 /\ n \in 1..Len(s) /\ 1 \in 1..Len(s)
    OBVIOUS
  <1>2. Last(s) = s[n] /\ s[n] \in Byte
    BY <1>1, ElementOfSeq DEF Last
  <1>3. SubSeq(s, 1, n) = SubSeq(s, 1, n - 1) \o <<s[n]>>
    BY <1>1, SubSeqRecursiveSecond
  <1>4. SubSeq(s, 1, n) = s /\ SubSeq(s, 1, n - 1) \in Seq(Byte)
    OBVIOUS
  <1>5. <<s[n]>> \in Seq(Byte)
    <2>1. \A x \in Byte : <<x>> \in Seq(Byte)
      OBVIOUS
    <2> QED BY <1>2, <2>1
  <1> QED BY Zenon, <1>2, <1>3, <1>4, <1>5

\* A Write whose p is not empty: the Encoder and what the writer has been given.
LEMMA EncodingWriteDoes ==
  ASSUME Types, kernel = "generic",
         NEW p \in Seq(Byte), NEW fail \in BOOLEAN, WriteEncoded(p, fail)
  PROVE  LET k == Encode(p, enc.column)
             keep == HoldsBack(k.out)
             flush == IF keep THEN SubSeq(k.out, 1, Len(k.out) - 1) ELSE k.out
             held == IF keep THEN <<Last(k.out)>> ELSE <<>>
             text == sink.body \o enc.endByte
         IN
         /\ text \in Seq(Byte) /\ flush \in Seq(Byte) /\ held \in HeldBack
         /\ held \in Seq(Byte) /\ flush \o held = k.out
         /\ enc' \in Encoders /\ enc'.open /\ enc'.hWritten = ~Raw
         /\ enc'.crc = enc.crc \o p /\ enc'.column = k.col /\ enc'.endByte = held
         /\ enc'.processed = enc.processed + Len(p) /\ enc'.partSize = enc.partSize
         /\ sink' \in Sinks /\ sink'.trailers = sink.trailers
         /\ sink'.headers = IF NeedsHeader THEN sink.headers + 1 ELSE sink.headers
         /\ sink'.body = IF fail THEN text ELSE text \o flush
PROOF
  <1> DEFINE k == Encode(p, enc.column)
             keep == HoldsBack(k.out)
             flush == IF keep THEN SubSeq(k.out, 1, Len(k.out) - 1) ELSE k.out
             held == IF keep THEN <<Last(k.out)>> ELSE <<>>
             text == sink.body \o enc.endByte
             f == WithHeader(WithCRC(p))
             w == EndByteWritten
             n == enc.processed + Len(p)
             body == w.body \o flush
             e == [f EXCEPT !.processed = n, !.column = k.col, !.endByte = held]
             v == [w EXCEPT !.body = body]
  <1>1. /\ encodeIncremental(kernel, p, enc.column) = k
        /\ enc \in Encoders /\ sink \in Sinks /\ enc.column \in 0..(LineLength + 1)
        /\ enc.processed \in Nat /\ Len(p) \in Nat
    BY DEF encodeIncremental, Types, Encoders
  <1>2. /\ f \in Encoders /\ f.open = enc.open /\ f.hWritten = ~Raw
        /\ f.crc = enc.crc \o p /\ f.processed = enc.processed
        /\ f.partSize = enc.partSize
    BY <1>1, CrcUpdated
  <1>3. /\ p # <<>> /\ enc' = e /\ sink' = IF fail THEN w ELSE v
        /\ enc.open
    BY <1>1, <1>2 DEF WriteEncoded, Called, MayWrite
  <1>4. k.out \in Seq(Byte) /\ k.out # <<>> /\ k.col \in 1..(LineLength + 1)
    BY <1>1, <1>3, KernelWrites
  <1>5. /\ w \in Sinks
        /\ w.headers = IF NeedsHeader THEN sink.headers + 1 ELSE sink.headers
        /\ w.body = text /\ w.trailers = sink.trailers /\ text \in Seq(Byte)
    BY <1>1, HeldBackWritten DEF Sinks
  <1> HIDE DEF k, f, w, text
  <1>6. /\ flush \in Seq(Byte) /\ held \in Seq(Byte) /\ held \in HeldBack
        /\ flush \o held = k.out
    <2>1. CASE keep
      <3>1. Last(k.out) \in Blank
        BY <2>1 DEF HoldsBack
      <3> QED BY <1>4, <2>1, <3>1, LastCharacter DEF HeldBack
    <2>2. CASE ~keep
      <3>1. k.out \o <<>> = k.out /\ <<>> \in Seq(Byte)
        BY <1>4
      <3> QED BY <1>4, <2>2, <3>1 DEF HeldBack
    <2> QED BY <2>1, <2>2
  <1> HIDE DEF keep, flush, held
  <1>7. n \in Nat /\ k.col \in 0..(LineLength + 1)
    <2>1. LineLength \in Nat
      BY EncodeAssumption
    <2> QED BY <1>1, <1>4, <2>1
  <1> HIDE DEF n
  <1>8. /\ e \in Encoders /\ e.open = enc.open /\ e.hWritten = ~Raw
        /\ e.crc = enc.crc \o p /\ e.column = k.col /\ e.endByte = held
        /\ e.processed = n /\ e.partSize = enc.partSize
    BY <1>2, <1>6, <1>7 DEF Encoders
  <1>9. body \in Seq(Byte) /\ body = text \o flush
    BY <1>5, <1>6, ConcatProperties
  <1> HIDE DEF body
  <1>10. /\ v \in Sinks /\ v.headers = w.headers /\ v.body = body
         /\ v.trailers = w.trailers
    BY <1>5, <1>9 DEF Sinks
  <1> HIDE DEF e, v
  <1>11. /\ sink' \in Sinks /\ sink'.trailers = sink.trailers
         /\ sink'.headers = IF NeedsHeader THEN sink.headers + 1 ELSE sink.headers
         /\ sink'.body = IF fail THEN text ELSE text \o flush
    BY <1>3, <1>5, <1>9, <1>10
  <1>12. /\ enc' \in Encoders /\ enc'.open /\ enc'.hWritten = ~Raw
         /\ enc'.crc = enc.crc \o p /\ enc'.column = k.col /\ enc'.endByte = held
         /\ enc'.processed = enc.processed + Len(p) /\ enc'.partSize = enc.partSize
    BY <1>3, <1>8 DEF n
  <1> QED BY Zenon, <1>5, <1>6, <1>11, <1>12 DEF k, keep, flush, held, text

\* What is left of a Write when its p is not empty.
LEMMA EncodingWriteKeeps ==
  ASSUME Types, ~failed => Faithful, kernel' = kernel, kernel = "generic",
         NEW p \in Seq(Byte), Len(data) + Len(p) <= MaxData,
         NEW fail \in BOOLEAN, WriteEncoded(p, fail)
  PROVE  Types' /\ (~failed' => Faithful')
PROOF
  <1> DEFINE k == Encode(p, enc.column)
             keep == HoldsBack(k.out)
             flush == IF keep THEN SubSeq(k.out, 1, Len(k.out) - 1) ELSE k.out
             held == IF keep THEN <<Last(k.out)>> ELSE <<>>
             text == sink.body \o enc.endByte
             c == [src |-> p, from |-> enc.column, col |-> k.col, out |-> k.out,
                   need |-> k.need, room |-> MaxLength(Len(p))]
  <1>1. /\ encodeIncremental(kernel, p, enc.column) = k
        /\ enc \in Encoders /\ enc.column \in 0..(LineLength + 1) /\ Raw \in BOOLEAN
    BY EncoderAssumption DEF encodeIncremental, Types, Encoders
  <1>2. /\ p # <<>> /\ Called(p) /\ failed' = (failed \/ fail) /\ flushed' = flushed
        /\ call' = c
    BY <1>1 DEF WriteEncoded
  <1>3. /\ data' \in Seq(Byte) /\ Len(data') <= MaxData /\ writes' \in 0..MaxWrites
        /\ data' = data \o p /\ Len(data') = Len(data) + Len(p)
        /\ Len(p) \in Nat /\ enc.open
    BY <1>2, CalledTypes DEF Called
  <1>4. /\ k.out \in Seq(Byte) /\ k.col \in 1..(LineLength + 1)
        /\ k.need \in Nat /\ MaxLength(Len(p)) \in Nat /\ k.need <= MaxLength(Len(p))
        /\ \A u, d \in Seq(Byte) :
             Encodes(u, d, LineState(enc.column)) => Encodes(u \o k.out, d \o p, "NONE")
    BY <1>1, <1>2, KernelWrites
  <1>5. /\ text \in Seq(Byte) /\ flush \in Seq(Byte)
        /\ held \in Seq(Byte) /\ flush \o held = k.out
        /\ enc' \in Encoders /\ enc'.open /\ enc'.hWritten = ~Raw
        /\ enc'.crc = enc.crc \o p /\ enc'.column = k.col /\ enc'.endByte = held
        /\ enc'.processed = enc.processed + Len(p) /\ enc'.partSize = enc.partSize
        /\ sink' \in Sinks /\ sink'.trailers = sink.trailers
        /\ sink'.headers = IF NeedsHeader THEN sink.headers + 1 ELSE sink.headers
        /\ sink'.body = IF fail THEN text ELSE text \o flush
    BY Zenon, EncodingWriteDoes
  <1> HIDE DEF k, keep, flush, held, text
  <1>6. /\ enc'.processed <= Len(data')
        /\ enc.processed = Len(data) => enc'.processed = Len(data')
    <2>1. enc.processed \in Nat /\ enc.processed <= Len(data) /\ Len(data) \in Nat
      BY DEF Types, Encoders
    <2>2. /\ enc'.processed = enc.processed + Len(p) /\ Len(data') = Len(data) + Len(p)
          /\ Len(p) \in Nat
      BY <1>3, <1>5
    <2> DEFINE i == enc.processed
               j == Len(p)
               l == Len(data)
    <2> HIDE DEF i, j, l
    <2>3. i + j <= l + j /\ (i = l => i + j = l + j)
      BY <2>1, <2>2 DEF i, j, l
    <2> QED BY <2>2, <2>3 DEF i, j, l
  <1>7. k.col \in 0..(LineLength + 1) /\ k.col # 0
    <2>1. LineLength \in Nat
      BY EncodeAssumption
    <2> QED BY <1>4, <2>1
  <1>8. c \in KernelCalls /\ c.need <= c.room
    BY <1>1, <1>4, <1>7 DEF KernelCalls
  <1> HIDE DEF c
  <1>9. Types'
    <2>1. enc' \in Encoders' /\ sink' \in Sinks'
      BY <1>5 DEF Encoders, Sinks
    <2>2. failed' \in BOOLEAN
      BY <1>2, Zenon
    <2>3. flushed' \in BOOLEAN
      BY <1>2, Zenon DEF Types
    <2>4. call' \in KernelCalls' /\ call'.need <= call'.room
      BY <1>2, <1>8 DEF KernelCalls
    <2>5. kernel' \in Kernels
      BY DEF Types
    <2> QED BY Zenon, <1>3, <1>6, <2>1, <2>2, <2>3, <2>4, <2>5 DEF Types
  <1>10. ASSUME Faithful, ~fail
         PROVE  Faithful'
    <2>1. sink'.headers = IF ~Raw THEN 1 ELSE 0
      BY <1>1, <1>5, <1>10 DEF Faithful, NeedsHeader
    <2>2. /\ Encodes(text, data, LineState(enc.column))
          /\ sink.trailers = <<>> /\ enc.crc = data /\ enc.processed = Len(data)
          /\ ~Raw => enc.partSize > 0
      BY <1>3, <1>10 DEF Faithful, text
    <2>3. Encodes(text \o k.out, data \o p, LineState(k.col))
      <3>1. text \in Seq(Byte) /\ data \in Seq(Byte) /\ LineState(k.col) = "NONE"
        BY <1>7, <2>2 DEF Encodes, LineState
      <3> QED BY <1>4, <2>2, <3>1
    <2>4. sink'.body \o enc'.endByte = text \o k.out
      <3>1. text \in Seq(Byte) /\ flush \in Seq(Byte) /\ held \in Seq(Byte)
        BY <1>5
      <3>2. (text \o flush) \o held = text \o (flush \o held)
        BY SMTT(30), <3>1, Regroup
      <3>3. sink'.body = text \o flush /\ enc'.endByte = held /\ flush \o held = k.out
        BY <1>5, <1>10
      <3> QED BY <3>2, <3>3
    <2>5. Encodes(sink'.body \o enc'.endByte, data', LineState(enc'.column))
      BY <1>3, <1>5, <2>3, <2>4
    <2>6. /\ enc'.crc = data' /\ enc'.processed = Len(data') /\ enc'.hWritten = ~Raw
          /\ enc'.open /\ enc'.partSize = enc.partSize /\ sink'.trailers = <<>>
      BY <1>3, <1>5, <1>6, <2>2
    <2> QED BY <2>1, <2>2, <2>5, <2>6 DEF Faithful
  <1>11. ~failed' => ~failed /\ ~fail
    BY <1>2, Zenon
  <1> QED BY <1>9, <1>10, <1>11

-----------------------------------------------------------------------------
(* Close and Reset.                                                        *)

\* What Close leaves to the writer, in each of its outcomes.
LEMMA CloseKeepsTypes ==
  ASSUME Types, kernel' = kernel, NEW s \in Sinks, NEW err, CloseWith(s, err)
  PROVE  Types'
PROOF
  <1>1. /\ enc' = [enc EXCEPT !.open = FALSE] /\ sink' = s /\ failed' = (failed \/ err)
        /\ data' = data /\ writes' = writes /\ flushed' = flushed /\ call' = call
    BY DEF CloseWith
  <1>2. enc' \in Encoders /\ enc'.processed = enc.processed
    BY <1>1 DEF Types, Encoders
  <1>3. enc' \in Encoders' /\ sink' \in Sinks'
    BY <1>1, <1>2 DEF Encoders, Sinks
  <1>4. enc'.processed <= Len(data') /\ Len(data') <= MaxData
    BY <1>1, <1>2 DEF Types
  <1>5. failed' \in BOOLEAN
    BY <1>1, Zenon
  <1> QED BY Zenon, <1>1, <1>3, <1>4, <1>5 DEF Types, KernelCalls

\* The byte held back is escaped: the body reads as the data, whatever it ends with.
LEMMA EndIsEscaped ==
  ASSUME Types, Faithful, enc.open
  PROVE  /\ EndEscaped \in Sinks /\ EndEscaped.headers = sink.headers
         /\ EndEscaped.trailers = <<>>
         /\ \E st \in {"NONE", "CRLF"} : ReadAll(EndEscaped.body) = At(st, data)
PROOF
  <1> DEFINE u == sink.body
             st == LineState(enc.column)
  <1>1. /\ sink \in Sinks /\ u \in Seq(Byte) /\ enc.endByte \in HeldBack
        /\ data \in Seq(Byte) /\ sink.trailers = <<>> /\ st \in {"NONE", "CRLF"}
        /\ Encodes(u \o enc.endByte, data, st)
    BY DEF Types, Sinks, Encoders, Faithful, LineState
  <1>2. CASE enc.endByte = <<>>
    <2>1. u \o <<>> = u
      BY <1>1
    <2>2. EndEscaped = sink /\ ReadAll(u) = At(st, data)
      BY <1>1, <1>2, <2>1 DEF EndEscaped, Encodes
    <2> QED BY <1>1, <2>2
  <1>3. CASE enc.endByte # <<>>
    <2>1. PICK b \in Blank : enc.endByte = <<b>>
      BY <1>1, <1>3 DEF HeldBack
    <2>2. b \in Byte /\ b + 64 \in Byte /\ b + 64 \notin {CR, Y} \cup Blank
          /\ Escaped(b + 64) = Plain(b)
      BY DEF Blank, Byte, CR, Y, Escaped, Plain
    <2>3. u \o <<b>> = Append(u, b)
      BY <1>1, <2>2
    <2> HIDE DEF u
    <2>4. PICK e \in Seq(Byte) : data = Append(e, Plain(b)) /\ ReadAll(u) = At("NONE", e)
      BY <1>1, <2>1, <2>3 DEF Encodes
    <2>5. Encodes(u \o <<EQ, b + 64>>, data, "NONE")
      BY <1>1, <2>2, <2>4, PairEncodes
    <2> DEFINE body == u \o <<61, b + 64>>
               s == [sink EXCEPT !.body = body]
    <2>6. body = u \o <<EQ, b + 64>>
      BY DEF EQ
    <2>7. EndEscaped = s
      <3>1. enc.endByte[1] = b
        BY <2>1
      <3> QED BY <1>3, <3>1 DEF EndEscaped, u
    <2> HIDE DEF body
    <2>8. body \in Seq(Byte) /\ ReadAll(body) = At("NONE", data)
      BY <2>5, <2>6 DEF Encodes
    <2>9. s \in Sinks /\ s.headers = sink.headers /\ s.trailers = <<>> /\ s.body = body
      BY <1>1, <2>8 DEF Sinks
    <2> QED BY <2>7, <2>8, <2>9
  <1> QED BY <1>2, <1>3

\* The sink after the byte held back, and after the trailer, has the types of one.
LEMMA ClosedSinks ==
  ASSUME Types
  PROVE  /\ EndEscaped \in Sinks
         /\ [EndEscaped EXCEPT !.trailers = Append(@, Trailer)] \in Sinks
PROOF
  <1>1. sink \in Sinks /\ enc \in Encoders /\ kernel \in Kernels
    BY DEF Types
  <1>2. EndEscaped \in Sinks
    <2>1. CASE enc.endByte = <<>>
      BY <1>1, <2>1 DEF EndEscaped
    <2>2. CASE enc.endByte # <<>>
      <3> DEFINE x == enc.endByte[1] + 64
                 body == sink.body \o <<61, x>>
      <3>1. PICK b \in Blank : enc.endByte = <<b>>
        BY <1>1, <2>2 DEF Encoders, HeldBack
      <3>2. x = b + 64 /\ b + 64 \in Byte /\ 61 \in Byte
        BY <3>1 DEF Blank, Byte
      <3> HIDE DEF x
      <3>3. x \in Byte /\ sink.body \in Seq(Byte)
        BY <1>1, <3>2 DEF Sinks
      <3>4. <<61, x>> \in Seq(Byte)
        BY <3>2, <3>3
      <3>5. body \in Seq(Byte)
        BY <3>3, <3>4, ConcatProperties
      <3>6. EndEscaped = [sink EXCEPT !.body = body]
        BY <2>2 DEF EndEscaped, x
      <3> HIDE DEF body
      <3> QED BY <1>1, <3>5, <3>6 DEF Sinks
    <2> QED BY <2>1, <2>2
  <1> DEFINE s == EndEscaped
             tr == Trailer
             all == Append(s.trailers, tr)
  <1>3. tr \in [crc : Seq(Byte), size : Nat]
    <2>1. enc.partSize \in Nat /\ enc.crc \in Seq(Byte)
      BY <1>1, EncoderAssumption DEF Encoders
    <2> QED BY <2>1 DEF Trailer
  <1> HIDE DEF s, tr
  <1>4. all \in Seq([crc : Seq(Byte), size : Nat])
    <2>1. s.trailers \in Seq([crc : Seq(Byte), size : Nat])
      BY <1>2 DEF Sinks, s
    <2> QED BY <1>3, <2>1
  <1> HIDE DEF all
  <1>5. [s EXCEPT !.trailers = all] \in Sinks
    BY <1>2, <1>4 DEF Sinks, s
  <1> QED BY <1>2, <1>5 DEF s, tr, all

\* A Close that fails keeps the types; its error has been returned.
LEMMA FailingCloseKeeps ==
  ASSUME Types, kernel' = kernel, CloseFailsAtEndByte \/ CloseFailsAtTrailer
  PROVE  Types' /\ failed'
PROOF
  <1>1. CASE CloseFailsAtEndByte
    <2>1. CloseWith(sink, TRUE) /\ sink \in Sinks
      BY <1>1 DEF CloseFailsAtEndByte, Types
    <2> QED BY <2>1, CloseKeepsTypes, Zenon DEF CloseWith
  <1>2. CASE CloseFailsAtTrailer
    <2>1. CloseWith(EndEscaped, TRUE) /\ EndEscaped \in Sinks
      BY <1>2, ClosedSinks DEF CloseFailsAtTrailer
    <2> QED BY <2>1, CloseKeepsTypes, Zenon DEF CloseWith
  <1> QED BY <1>1, <1>2

\* A Close finishes the article, or returns an error when its size is not the part's.
LEMMA CloseKeeps ==
  ASSUME Types, ~failed => Faithful, kernel' = kernel, Close
  PROVE  Types' /\ (~failed' => Faithful')
PROOF
  <1> DEFINE all == [EndEscaped EXCEPT !.trailers = Append(@, Trailer)]
             s == IF Raw THEN EndEscaped ELSE all
             err == ~Raw /\ enc.processed # enc.partSize
  <1>1. CloseWith(s, err)
    BY DEF Close
  <1>2. s \in Sinks
    BY ClosedSinks
  <1>3. /\ enc.open /\ enc' = [enc EXCEPT !.open = FALSE] /\ sink' = s
        /\ failed' = (failed \/ err) /\ data' = data
    BY <1>1 DEF CloseWith
  <1>4. Types'
    <2> HIDE DEF s, err
    <2> QED BY <1>1, <1>2, CloseKeepsTypes
  <1>5. ASSUME Faithful, ~err
        PROVE  Faithful'
    <2>1. /\ EndEscaped \in Sinks /\ EndEscaped.headers = sink.headers
          /\ EndEscaped.trailers = <<>>
          /\ \E st \in {"NONE", "CRLF"} : ReadAll(EndEscaped.body) = At(st, data)
      BY <1>3, <1>5, EndIsEscaped
    <2>2. /\ ~enc'.open /\ enc'.hWritten = enc.hWritten /\ enc'.crc = enc.crc
          /\ enc'.processed = enc.processed /\ enc'.partSize = enc.partSize
      BY <1>3 DEF Types, Encoders
    <2>3. sink'.headers = sink.headers /\ sink'.body = EndEscaped.body
      BY <1>3, <2>1 DEF Sinks
    <2>4. /\ enc.crc = data /\ enc.processed = Len(data) /\ (Raw => ~enc.hWritten)
          /\ sink.headers = IF enc.hWritten THEN 1 ELSE 0
          /\ ~Raw => enc.partSize > 0 /\ (data # <<>> => enc.hWritten)
      BY <1>5 DEF Faithful
    <2>5. ~Raw => /\ enc'.hWritten
                  /\ sink'.trailers = <<[crc |-> data, size |-> Len(data)]>>
      <3> SUFFICES ASSUME ~Raw
                   PROVE  /\ enc'.hWritten
                          /\ sink'.trailers = <<[crc |-> data, size |-> Len(data)]>>
        OBVIOUS
      <3>1. enc.partSize = Len(data) /\ Len(data) > 0
        BY <1>5, <2>4
      <3>2. data # <<>>
        BY <3>1
      <3>3. sink' = all
        BY <1>3
      <3>4. all.trailers = Append(EndEscaped.trailers, Trailer)
        BY <2>1 DEF Sinks
      <3>5. Append(<<>>, Trailer) = <<[crc |-> data, size |-> Len(data)]>>
        BY <2>4, <3>1 DEF Trailer
      <3> QED BY <2>1, <2>2, <2>4, <3>2, <3>3, <3>4, <3>5
    <2>6. Finished'
      BY <1>3, <2>1, <2>3, <2>5 DEF Finished
    <2> HIDE DEF s, all, err
    <2> QED BY <1>3, <2>2, <2>3, <2>4, <2>6 DEF Faithful
  <1>6. ~failed' => ~failed /\ ~err
    BY <1>3, Zenon
  <1> QED BY <1>4, <1>5, <1>6

\* Reset leaves nothing of the article before.
LEMMA ResetKeeps ==
  ASSUME Types, kernel' = kernel, NEW size \in PartSizes[kernel], Reset(size)
  PROVE  Types' /\ Faithful'
PROOF
  <1>1. Fresh'
    BY DEF Reset, Types, Fresh
  <1>2. Fresh' => Types' /\ Faithful'
    BY NewIsFaithful, PTL
  <1> QED BY <1>1, <1>2

\* No outcome of a Write breaks the invariant.
LEMMA WriteKeeps ==
  ASSUME Types, ~failed => Faithful, kernel' = kernel, kernel = "generic", Write
  PROVE  Types' /\ (~failed' => Faithful')
PROOF
  <1>1. PICK p \in {q \in Pieces[kernel][Len(data)] : Len(data) + Len(q) <= MaxData} :
          \/ WriteFailsAtHeader(p) \/ WriteFailsAtEndByte(p)
          \/ WriteEmpty(p)
          \/ \E fail \in BOOLEAN : WriteEncoded(p, fail)
    BY DEF Write
  <1>2. p \in Seq(Byte) /\ Len(data) + Len(p) <= MaxData
    <2>1. Len(data) \in 0..MaxData /\ kernel \in Kernels
      BY EncoderAssumption DEF Types
    <2> QED BY <2>1, EncoderAssumption DEF Byte
  <1>3. CASE WriteFailsAtHeader(p) \/ WriteFailsAtEndByte(p)
    BY <1>2, <1>3, FailingWriteTypes
  <1>4. CASE WriteEmpty(p)
    <2>1. p = <<>>
      BY <1>4 DEF WriteEmpty
    <2> QED BY <1>4, <2>1, EmptyWriteKeeps
  <1>5. CASE \E fail \in BOOLEAN : WriteEncoded(p, fail)
    BY <1>2, <1>5, EncodingWriteKeeps
  <1> QED BY <1>1, <1>3, <1>4, <1>5

\* No step breaks the invariant.
LEMMA NextEInv == EInv /\ [Next]_vars => EInv'
PROOF
  <1> SUFFICES ASSUME EInv, [Next]_vars, kernel' = "generic"
               PROVE  Types' /\ (~failed' => Faithful')
    BY DEF EInv
  <1>1. kernel' = kernel
    BY DEF Next, vars
  <1>2. Types /\ (~failed => Faithful) /\ kernel = "generic"
    BY <1>1 DEF EInv
  <1>3. CASE Write
    BY <1>1, <1>2, <1>3, WriteKeeps
  <1>4. CASE Close
    BY <1>1, <1>2, <1>4, CloseKeeps
  <1>5. CASE CloseFailsAtEndByte \/ CloseFailsAtTrailer
    BY <1>1, <1>2, <1>5, FailingCloseKeeps
  <1>6. CASE \E size \in PartSizes[kernel] : Reset(size)
    BY <1>1, <1>2, <1>6, ResetKeeps
  <1>7. CASE UNCHANGED vars
    BY <1>1, <1>2, <1>7
       DEF vars, Types, Faithful, Finished, Encoders, Sinks, KernelCalls
  <1> QED BY <1>3, <1>4, <1>5, <1>6, <1>7 DEF Next

\* The calls of an Encoder, whatever is written and whenever the writer fails,
\* keep the invariant.
THEOREM EncoderInvariance == Spec => []EInv
PROOF
  <1> QED BY InitEInv, NextEInv, PTL DEF Spec

-----------------------------------------------------------------------------
\* The variables keep their types; enc.column in encoder.go never leaves the
\* line by more than the character behind an escape.
THEOREM EncoderTypeCorrect == Spec => [](kernel = "generic" => TypeOK)
PROOF
  <1>1. EInv => (kernel = "generic" => TypeOK)
    <2> SUFFICES ASSUME Types
                 PROVE  TypeOK
      BY DEF EInv
    <2>1. /\ enc.open \in BOOLEAN /\ enc.hWritten \in BOOLEAN
          /\ enc.column \in 0..LineLength+1
          /\ enc.endByte \in {<<>>} \cup {<<b>> : b \in Blank}
          /\ enc.partSize \in PartSizes[kernel]
      BY DEF Types, Encoders, HeldBack
    <2>2. enc.processed \in 0..MaxData
      BY EncoderAssumption DEF Types, Encoders
    <2>3. sink.body \in Seq(0..255) /\ sink.headers \in Nat
      BY DEF Types, Sinks, Byte
    <2> QED BY Zenon, <2>1, <2>2, <2>3 DEF Types, TypeOK, KernelCalls, Byte
  <1> QED BY <1>1, EncoderInvariance, PTL

\* Write never stores behind what maxLength in encoder.go makes it allocate, for
\* every line length and whatever is to be escaped.
THEOREM BufferSufficesHolds == Spec => [](kernel = "generic" => BufferSuffices)
PROOF
  <1>1. EInv => (kernel = "generic" => BufferSuffices)
    BY DEF EInv, Types, BufferSuffices
  <1> QED BY <1>1, EncoderInvariance, PTL

\* An article that was written and closed without an error (Write and Close in
\* encoder.go) decodes to what Write was given, however it was cut into calls and
\* with empty calls between them, and its trailer has the size and the CRC of that.
THEOREM IntactUnlessReportedHolds ==
  Spec => [](kernel = "generic" => IntactUnlessReported)
PROOF
  <1>1. EInv => (kernel = "generic" => IntactUnlessReported)
    <2> SUFFICES ASSUME Types, Faithful, ~enc.open
                 PROVE  LET k == Decode(sink.body \o LineEnd \o <<EQ, Y>>, "CRLF") IN
                        /\ k.out = data /\ k.end = "control"
                        /\ ~Raw =>
                             /\ sink.headers = 1
                             /\ sink.trailers = <<[crc |-> data, size |-> Len(data)]>>
      BY Zenon DEF EInv, IntactUnlessReported, Closed
    <2>1. PICK st \in {"NONE", "CRLF"} : ReadAll(sink.body) = At(st, data)
      BY DEF Faithful, Finished
    <2>2. sink.body \in Seq(Byte) /\ data \in Seq(Byte)
      BY DEF Types, Sinks
    <2>3. LET k == Decode(sink.body \o LineEnd \o <<EQ, Y>>, "CRLF") IN
          k.out = data /\ k.end = "control"
      BY <2>1, <2>2, FinishedText
    <2>4. ~Raw => /\ sink.headers = 1
                  /\ sink.trailers = <<[crc |-> data, size |-> Len(data)]>>
      BY DEF Faithful, Finished
    <2> QED BY <2>3, <2>4
  <1> QED BY <1>1, EncoderInvariance, PTL

-----------------------------------------------------------------------------
(***************************************************************************)
(* The layout of the body.  Behind an empty Write that has flushed a blank *)
(* nothing is said of the ends of lines, behind a second Write nothing of  *)
(* their lengths: the invariant is in two parts.                           *)
(***************************************************************************)

\* What has been encoded, the byte held back included.
SoFar == sink.body \o enc.endByte

\* The next call enters on what has been encoded; only what is held back can
\* be a blank.
LaidOut ==
  IF enc.open
  THEN /\ EntersOn(SoFar, enc.column)
       /\ enc.endByte = <<>> => ~EndsWith(SoFar, Blank)
  ELSE Neat(sink.body) /\ ~EndsWith(sink.body, Blank)

\* The lines of the body fit, and with the pair for the byte held back.
FitsSoFar ==
  /\ Fit(sink.body)
  /\ enc.open /\ writes = 0 => SoFar = <<>> /\ enc.column = 0
  /\ enc.open /\ enc.endByte # <<>> => Near(sink.body, LineLength - 1)

Layout == (~failed /\ ~flushed => LaidOut) /\ (writes <= 1 => FitsSoFar)

LInv == kernel = "generic" => Layout

\* Nothing has been laid out.
LEMMA NewIsLaidOut == Fresh => LaidOut /\ FitsSoFar
PROOF
  <1> SUFFICES ASSUME Fresh
               PROVE  LaidOut /\ FitsSoFar
    OBVIOUS
  <1>1. /\ enc.open /\ enc.column = 0 /\ enc.endByte = <<>> /\ sink.body = <<>>
    BY DEF Fresh, NewEncoder, NewSink
  <1>2. SoFar = <<>> /\ ~EndsWith(<<>>, Blank)
    BY <1>1 DEF SoFar, EndsWith
  <1>3. Fit(<<>>)
    <2>1. 0 <= LineLength + 1
      BY EncodeAssumption
    <2> QED BY <2>1, NothingFits DEF Lines
  <1> QED BY <1>1, <1>2, <1>3 DEF LaidOut, FitsSoFar, EntersOn

\* Nothing has been encoded before the first Write.
LEMMA NothingSoFar ==
  ASSUME Types, Layout, NEW p, Called(p), writes' <= 1
  PROVE  /\ writes = 0 /\ sink.body = <<>> /\ enc.endByte = <<>> /\ enc.column = 0
         /\ writes' = 1
PROOF
  <1>1. enc.open /\ writes' = writes + 1
    BY DEF Called, MayWrite
  <1>2. writes \in Nat /\ enc \in Encoders /\ sink \in Sinks
    BY EncoderAssumption DEF Types
  <1>3. writes = 0 /\ writes <= 1 /\ writes' = 1
    BY <1>1, <1>2
  <1>4. SoFar = <<>> /\ enc.column = 0
    BY <1>1, <1>3 DEF Layout, FitsSoFar
  <1>5. sink.body \in Seq(Byte) /\ enc.endByte \in Seq(Byte)
    BY <1>2, HeldBackWritten DEF Sinks
  <1>6. \A u, v \in Seq(Byte) : u \o v = <<>> => u = <<>> /\ v = <<>>
    OBVIOUS
  <1> QED BY <1>3, <1>4, <1>5, <1>6 DEF SoFar

\* A Write that encodes nothing.
LEMMA IdleWriteLays ==
  ASSUME Types, Layout, NEW p, Called(p),
         sink'.body \in {sink.body, SoFar}, enc'.open, enc'.column = enc.column,
         enc'.endByte \in {<<>>, enc.endByte},
         failed' \/ flushed' \/ (enc.endByte = <<>> /\ failed' = failed /\ flushed' = flushed)
  PROVE  Layout'
PROOF
  <1>1. sink \in Sinks /\ enc \in Encoders /\ enc.open
    BY DEF Types, Called, MayWrite
  <1>2. sink.body \in Seq(Byte) /\ sink.body \o <<>> = sink.body
    BY <1>1 DEF Sinks
  <1>3. ASSUME ~failed', ~flushed'
        PROVE  LaidOut'
    <2>1. enc.endByte = <<>> /\ ~failed /\ ~flushed
      BY <1>3
    <2>2. LaidOut
      BY <2>1 DEF Layout
    <2>3. sink'.body = sink.body /\ enc'.endByte = enc.endByte
      BY <1>2, <2>1 DEF SoFar
    <2>4. SoFar' = SoFar
      BY <2>3 DEF SoFar
    <2> QED BY <1>1, <2>2, <2>3, <2>4 DEF LaidOut
  <1>4. ASSUME writes' <= 1
        PROVE  FitsSoFar'
    <2>1. sink.body = <<>> /\ enc.endByte = <<>> /\ writes' = 1 /\ writes = 0
      BY <1>4, NothingSoFar
    <2>2. sink'.body = <<>> /\ enc'.endByte = <<>>
      BY <1>2, <2>1 DEF SoFar
    <2>3. Fit(<<>>)
      BY <2>1 DEF Layout, FitsSoFar
    <2> QED BY <2>1, <2>2, <2>3 DEF FitsSoFar
  <1> QED BY <1>3, <1>4 DEF Layout

\* What the last byte of a Write is held back for: the rest fits, with its pair.
LEMMA HeldBackFits ==
  ASSUME NEW o \in Seq(Byte), o # <<>>, NEW m \in Nat, LineFits(o, m)
  PROVE  LET flush == IF HoldsBack(o) THEN SubSeq(o, 1, Len(o) - 1) ELSE o IN
         Fit(flush) /\ (HoldsBack(o) => Near(flush, LineLength - 1))
PROOF
  <1> DEFINE v == SubSeq(o, 1, Len(o) - 1)
             x == Last(o)
  <1>1. Fit(o) /\ Near(o, m) /\ (EndsWith(o, Blank) => m <= LineLength)
    BY DEF LineFits, Lines
  <1>2. v \in Seq(Byte) /\ x \in Byte /\ v \o <<x>> = o
    BY LastCharacter
  <1>3. HoldsBack(o) <=> EndsWith(o, Blank)
    BY DEF HoldsBack, EndsWith, Last
  <1>4. HoldsBack(o) => x \in Blank
    BY DEF HoldsBack
  <1> HIDE DEF v, x
  <1>5. o = Append(v, x)
    BY <1>2
  <1>6. x \in Blank => x \notin Breaks
    BY DEF Blank, Breaks, CR, LF
  <1>7. m <= LineLength => m \in 0..LineLength
    BY EncodeAssumption
  <1>8. HoldsBack(o) => Fit(v) /\ Near(v, LineLength - 1)
    BY <1>1, <1>2, <1>3, <1>4, <1>5, <1>6, <1>7, LinesShrink
  <1> QED BY <1>1, <1>8 DEF v

\* A Write that encodes goes on from what has been encoded.
LEMMA EncodingWriteLays ==
  ASSUME Types, ~failed => Faithful, Layout, kernel = "generic",
         NEW p \in Seq(Byte), NEW fail \in BOOLEAN, WriteEncoded(p, fail)
  PROVE  Layout'
PROOF
  <1> DEFINE k == Encode(p, enc.column)
             keep == HoldsBack(k.out)
             flush == IF keep THEN SubSeq(k.out, 1, Len(k.out) - 1) ELSE k.out
             held == IF keep THEN <<Last(k.out)>> ELSE <<>>
             text == sink.body \o enc.endByte
  <1>1. /\ p # <<>> /\ Called(p) /\ failed' = (failed \/ fail) /\ flushed' = flushed
        /\ enc \in Encoders /\ sink \in Sinks /\ enc.column \in 0..(LineLength + 1)
        /\ data \in Seq(Byte)
    BY DEF WriteEncoded, Types, Encoders
  <1>2. /\ text \in Seq(Byte) /\ flush \in Seq(Byte)
        /\ held \in Seq(Byte) /\ flush \o held = k.out
        /\ enc'.open /\ enc'.column = k.col /\ enc'.endByte = held
        /\ sink'.body = IF fail THEN text ELSE text \o flush
    BY Zenon, EncodingWriteDoes
  <1>3. k.out \in Seq(Byte) /\ k.out # <<>> /\ k.col \in 1..(LineLength + 1)
    BY <1>1, KernelWrites
  <1>4. k.col # 0 /\ enc.open
    <2>1. LineLength \in Nat
      BY EncodeAssumption
    <2> QED BY <1>1, <1>3, <2>1 DEF Called, MayWrite
  <1>5. ASSUME ~failed', ~flushed'
        PROVE  LaidOut'
    <2>1. ~failed /\ ~fail /\ ~flushed
      BY <1>1, <1>5, Zenon
    <2>2. Faithful /\ LaidOut
      BY <2>1 DEF Layout
    <2>3. Encodes(text, data, LineState(enc.column))
      BY <1>4, <2>2 DEF Faithful
    <2>4. EntersOn(text, enc.column)
      BY <1>4, <2>2 DEF LaidOut, SoFar
    <2>5. /\ OnALine(text \o k.out)
          /\ k.col >= LineLength => ~EndsWith(text \o k.out, Blank)
      BY <1>1, <1>2, <2>3, <2>4, EncodeLays
    <2>6. ~keep => ~EndsWith(k.out, Blank)
      BY DEF HoldsBack, EndsWith, Last
    <2> HIDE DEF k, keep, flush, text
    <2>7. sink'.body \o enc'.endByte = text \o k.out
      <3>1. text \in Seq(Byte) /\ flush \in Seq(Byte) /\ held \in Seq(Byte)
        BY <1>2
      <3> HIDE DEF held
      <3>2. (text \o flush) \o held = text \o (flush \o held)
        BY SMTT(30), <3>1, Regroup
      <3>3. sink'.body = text \o flush /\ enc'.endByte = held /\ flush \o held = k.out
        BY <1>2, <2>1
      <3> QED BY <3>2, <3>3
    <2>8. ~keep => ~EndsWith(text \o k.out, Blank)
      BY <1>2, <1>3, <2>6, EndOfConcat
    <2>9. enc'.endByte = <<>> => ~keep
      <3>1. <<Last(k.out)>> # <<>>
        OBVIOUS
      <3>2. enc'.endByte = IF keep THEN <<Last(k.out)>> ELSE <<>>
        BY <1>2
      <3> QED BY <3>1, <3>2
    <2>10. EntersOn(text \o k.out, enc'.column)
      BY <1>2, <1>4, <2>5 DEF EntersOn, OnALine
    <2> QED BY <1>2, <2>7, <2>8, <2>9, <2>10 DEF LaidOut, SoFar
  <1>6. ASSUME writes' <= 1
        PROVE  FitsSoFar'
    <2>1. /\ sink.body = <<>> /\ enc.endByte = <<>> /\ enc.column = 0 /\ writes' = 1
          /\ writes = 0
      BY <1>1, <1>6, NothingSoFar
    <2>2. text = <<>> /\ Fit(<<>>)
      BY <2>1 DEF Layout, FitsSoFar
    <2>3. PICK m \in Nat : LineFits(k.out, m)
      <3> DEFINE z == <<>>
                 col == enc.column
      <3>1. z \in Seq(Byte) /\ Encodes(z, z, LineState(col)) /\ EntersOn(z, col)
        BY <2>1, NothingEncodes DEF LineState, EntersOn
      <3>2. col \in 0..(LineLength + 1)
        BY <1>1
      <3>3. z = <<>> => \E m \in Nat : LineFits(Encode(p, col).out, m)
        <4> HIDE DEF z, col
        <4> QED BY <1>1, <3>1, <3>2, EncodeLays
      <3> QED BY <3>3
    <2>4. Fit(flush) /\ (keep => Near(flush, LineLength - 1))
      <3> DEFINE o == k.out
      <3>1. o \in Seq(Byte) /\ o # <<>> /\ LineFits(o, m)
        BY <1>3, <2>3
      <3> HIDE DEF o
      <3>2. LET g == IF HoldsBack(o) THEN SubSeq(o, 1, Len(o) - 1) ELSE o IN
            Fit(g) /\ (HoldsBack(o) => Near(g, LineLength - 1))
        BY <3>1, HeldBackFits
      <3> QED BY <3>2 DEF o
    <2> HIDE DEF k, keep, flush, text
    <2>5. Near(<<>>, LineLength - 1)
      <3>1. Len(<<>>) <= LineLength - 1
        BY EncodeAssumption
      <3> QED BY <3>1 DEF Near
    <2>6. <<>> \o flush = flush
      BY <1>2
    <2>7. sink'.body \in {<<>>, flush}
      BY <1>2, <2>2, <2>6
    <2>8. enc'.endByte # <<>> => keep
      BY <1>2
    <2> QED BY <2>1, <2>2, <2>4, <2>5, <2>7, <2>8 DEF FitsSoFar
  <1> QED BY <1>5, <1>6 DEF Layout

\* The pair for the byte held back: it is no blank where a line ends, and leaves
\* the line within its length.
LEMMA EndEscapedLays ==
  ASSUME Types, enc.open
  PROVE  /\ LaidOut => Neat(EndEscaped.body) /\ ~EndsWith(EndEscaped.body, Blank)
         /\ FitsSoFar => Fit(EndEscaped.body)
PROOF
  <1> DEFINE u == sink.body
  <1>1. /\ sink \in Sinks /\ u \in Seq(Byte) /\ enc.endByte \in HeldBack
        /\ LineLength \in Nat /\ LineLength >= 1
    BY EncodeAssumption DEF Types, Sinks, Encoders
  <1>2. CASE enc.endByte = <<>>
    <2>1. EndEscaped = sink /\ SoFar = u
      BY <1>1, <1>2 DEF EndEscaped, SoFar
    <2>2. ASSUME LaidOut
          PROVE  Neat(u) /\ ~EndsWith(u, Blank)
      BY <1>2, <2>1, <2>2, NothingFits DEF LaidOut, EntersOn, OnALine
    <2> QED BY <2>1, <2>2 DEF FitsSoFar
  <1>3. CASE enc.endByte # <<>>
    <2>1. PICK b \in Blank : enc.endByte = <<b>>
      BY <1>1, <1>3 DEF HeldBack
    <2> DEFINE y == b + 64
               v == Append(u, EQ)
               w == Append(v, y)
               body == u \o <<61, y>>
    <2>2. /\ b \in Byte /\ EQ \in Byte /\ y \in Byte
          /\ EQ \notin Breaks \cup Blank \cup {Dot} /\ y \notin Breaks \cup Blank \cup {Dot}
      BY DEF Blank, Byte, EQ, Breaks, CR, LF, Dot
    <2> HIDE DEF y, u
    <2>3. EndEscaped.body = body
      <3>1. enc.endByte[1] = b
        BY <2>1
      <3>2. EndEscaped = [sink EXCEPT !.body = body]
        BY <1>3, <3>1 DEF EndEscaped, u, y
      <3> HIDE DEF body
      <3> QED BY <1>1, <3>2 DEF Sinks
    <2>4. body = w /\ v \in Seq(Byte) /\ SoFar = Append(u, b)
      <3>1. EQ = 61
        BY DEF EQ
      <3>2. SoFar = u \o <<b>>
        BY <2>1 DEF SoFar, u
      <3> QED BY <1>1, <2>2, <3>1, <3>2
    <2> HIDE DEF w, body
    <2>5. ASSUME LaidOut
          PROVE  Neat(w) /\ ~EndsWith(w, Blank)
      <3>1. SoFar # <<>>
        BY <1>1, <2>2, <2>4
      <3>2. Neat(SoFar)
        BY <2>5, <3>1 DEF LaidOut, EntersOn, OnALine
      <3>3. Neat(u)
        BY <1>1, <2>2, <2>4, <3>2, LinesShrink
      <3>4. OnALine(v)
        BY <1>1, <2>2, <3>3, CharLaid
      <3> HIDE DEF v
      <3>5. Neat(v)
        BY <3>4 DEF OnALine
      <3>6. OnALine(Append(v, y)) /\ (EndsWith(Append(v, y), Blank) <=> y \in Blank)
        BY <2>2, <2>4, <3>5, CharLaid
      <3> QED BY <2>2, <3>6 DEF OnALine, w
    <2>6. ASSUME FitsSoFar
          PROVE  Fit(w)
      <3> DEFINE l == LineLength - 1
      <3>1. l \in Nat /\ l + 1 \in Nat /\ l + 1 + 1 \in Nat /\ l + 1 + 1 <= LineLength + 1
        BY <1>1
      <3>2. Lines(u, l)
        BY <1>3, <2>6 DEF FitsSoFar, Lines, u
      <3> HIDE DEF l
      <3>3. Lines(v, l + 1)
        BY <1>1, <2>2, <3>1, <3>2, LinesGrow
      <3> HIDE DEF v
      <3>4. Lines(Append(v, y), l + 1 + 1)
        BY <2>2, <2>4, <3>1, <3>3, LinesGrow
      <3> QED BY <3>1, <3>4 DEF Lines, w
    <2> QED BY <2>3, <2>4, <2>5, <2>6
  <1> QED BY <1>2, <1>3

\* Close, whether or not the writer takes the rest.
LEMMA CloseLays ==
  ASSUME Types, Layout, Close \/ CloseFailsAtEndByte \/ CloseFailsAtTrailer
  PROVE  Layout'
PROOF
  <1>1. PICK s, err : CloseWith(s, err)
    BY DEF Close, CloseFailsAtEndByte, CloseFailsAtTrailer
  <1>2. /\ enc.open /\ ~enc'.open /\ writes' = writes /\ flushed' = flushed
        /\ failed' = (failed \/ err)
    BY <1>1 DEF CloseWith, Types, Encoders
  <1>3. sink'.body = EndEscaped.body \/ (failed' /\ sink'.body = sink.body)
    <2>1. EndEscaped \in Sinks
      BY ClosedSinks
    <2>2. CASE Close
      <3> DEFINE all == Append(EndEscaped.trailers, Trailer)
      <3>1. sink' = EndEscaped \/ sink' = [EndEscaped EXCEPT !.trailers = all]
        BY <2>2 DEF Close, CloseWith
      <3> HIDE DEF all
      <3> QED BY <2>1, <3>1 DEF Sinks
    <2>3. CASE CloseFailsAtEndByte
      BY <2>3, Zenon DEF CloseFailsAtEndByte, CloseWith
    <2>4. CASE CloseFailsAtTrailer
      BY <2>4 DEF CloseFailsAtTrailer, CloseWith
    <2> QED BY <2>2, <2>3, <2>4
  <1>4. ASSUME ~failed', ~flushed'
        PROVE  LaidOut'
    <2>1. ~failed /\ ~flushed
      BY <1>2, <1>4, Zenon
    <2>2. Neat(EndEscaped.body) /\ ~EndsWith(EndEscaped.body, Blank)
      BY <1>2, <2>1, EndEscapedLays DEF Layout
    <2> QED BY <1>2, <1>3, <1>4, <2>2 DEF LaidOut
  <1>5. ASSUME writes' <= 1
        PROVE  FitsSoFar'
    <2>1. FitsSoFar
      BY <1>2, <1>5 DEF Layout
    <2>2. Fit(sink.body) /\ Fit(EndEscaped.body)
      BY <1>2, <2>1, EndEscapedLays DEF FitsSoFar
    <2> QED BY <1>2, <1>3, <2>2 DEF FitsSoFar
  <1> QED BY <1>4, <1>5 DEF Layout

\* No outcome of a Write breaks the layout.
LEMMA WriteLays ==
  ASSUME Types, ~failed => Faithful, Layout, kernel = "generic", Write
  PROVE  Layout'
PROOF
  <1>1. PICK p \in {q \in Pieces[kernel][Len(data)] : Len(data) + Len(q) <= MaxData} :
          \/ WriteFailsAtHeader(p) \/ WriteFailsAtEndByte(p)
          \/ WriteEmpty(p)
          \/ \E fail \in BOOLEAN : WriteEncoded(p, fail)
    BY DEF Write
  <1>2. p \in Seq(Byte) /\ enc \in Encoders /\ sink \in Sinks /\ kernel \in Kernels
    <2>1. Len(data) \in 0..MaxData /\ kernel \in Kernels
      BY EncoderAssumption DEF Types
    <2> QED BY <2>1, EncoderAssumption DEF Types, Byte
  <1> DEFINE f == WithHeader(WithCRC(p))
  <1>3. f \in Encoders /\ f.open = enc.open /\ f.column = enc.column /\ f.endByte = enc.endByte
    BY <1>2, CrcUpdated
  <1> HIDE DEF f
  <1>4. HeaderWritten.body = sink.body /\ EndByteWritten.body = SoFar
    BY <1>2, HeldBackWritten DEF SoFar
  <1>5. CASE WriteFailsAtHeader(p) \/ WriteFailsAtEndByte(p)
    <2>1. Called(p) /\ failed' /\ enc' = f /\ sink' \in {sink, HeaderWritten} /\ enc.open
      BY <1>5, Zenon
         DEF WriteFailsAtHeader, WriteFailsAtEndByte, WriterFailed, Called, MayWrite, f
    <2> QED BY <1>3, <1>4, <2>1, IdleWriteLays
  <1>6. CASE WriteEmpty(p)
    <2> DEFINE e == [f EXCEPT !.endByte = <<>>]
    <2>1. /\ Called(p) /\ enc' = e /\ sink' = EndByteWritten /\ enc.open
          /\ failed' = failed /\ flushed' = (flushed \/ enc.endByte # <<>>)
      BY <1>6 DEF WriteEmpty, Called, MayWrite, f
    <2>2. e.open = f.open /\ e.column = f.column /\ e.endByte = <<>>
      BY <1>3 DEF Encoders
    <2> HIDE DEF e
    <2>3. flushed' \/ (enc.endByte = <<>> /\ failed' = failed /\ flushed' = flushed)
      BY <1>2, <2>1, Zenon DEF Types
    <2> QED BY <1>3, <1>4, <2>1, <2>2, <2>3, IdleWriteLays
  <1>7. CASE \E fail \in BOOLEAN : WriteEncoded(p, fail)
    BY <1>2, <1>7, EncodingWriteLays
  <1> QED BY <1>1, <1>5, <1>6, <1>7

\* No step breaks the layout.
LEMMA NextLInv == EInv /\ LInv /\ [Next]_vars => LInv'
PROOF
  <1> SUFFICES ASSUME EInv, LInv, [Next]_vars, kernel' = "generic"
               PROVE  Layout'
    BY DEF LInv
  <1>1. kernel' = kernel
    BY DEF Next, vars
  <1>2. Types /\ (~failed => Faithful) /\ Layout /\ kernel = "generic"
    BY <1>1 DEF EInv, LInv
  <1>3. CASE Write
    BY <1>2, <1>3, WriteLays
  <1>4. CASE Close \/ CloseFailsAtEndByte \/ CloseFailsAtTrailer
    BY <1>2, <1>4, CloseLays
  <1>5. CASE \E size \in PartSizes[kernel] : Reset(size)
    <2>1. Fresh'
      BY <1>1, <1>2, <1>5 DEF Reset, Types, Fresh
    <2>2. Fresh' => LaidOut' /\ FitsSoFar'
      BY NewIsLaidOut, PTL
    <2> QED BY <2>1, <2>2 DEF Layout
  <1>6. CASE UNCHANGED vars
    BY <1>2, <1>6 DEF vars, Layout, LaidOut, FitsSoFar, SoFar
  <1> QED BY <1>3, <1>4, <1>5, <1>6 DEF Next

\* The calls of an Encoder keep the layout of the body.
THEOREM LayoutInvariance == Spec => []LInv
PROOF
  <1>1. Init => LInv
    <2>1. Init => Fresh
      BY DEF Init, Fresh
    <2> QED BY <2>1, NewIsLaidOut DEF LInv, Layout
  <1> QED BY <1>1, NextLInv, EncoderInvariance, PTL DEF Spec

-----------------------------------------------------------------------------
\* What a line end in a text is.
LEMMA LineEndIs ==
  ASSUME NEW s \in Seq(Byte), NEW i \in 1..Len(s), i < Len(s), SubSeq(s, i, i + 1) = LineEnd
  PROVE  s[i] = CR /\ s[i + 1] = LF
PROOF
  <1> DEFINE t == SubSeq(s, i, i + 1)
             n == Len(s)
  <1>1. n \in Nat /\ i \in 1..n /\ i + 1 \in 1..n
    OBVIOUS
  <1>2. t[1] = s[i] /\ t[2] = s[i + 1]
    <2>1. /\ Len(t) = IF i <= i + 1 THEN i + 1 - i + 1 ELSE 0
          /\ \A j \in 1..(i + 1 - i + 1) : t[j] = s[i + j - 1]
      BY <1>1, SubSeqProperties
    <2>2. 1 \in 1..(i + 1 - i + 1) /\ 2 \in 1..(i + 1 - i + 1)
          /\ i + 1 - 1 = i /\ i + 2 - 1 = i + 1
      BY <1>1
    <2> HIDE DEF t
    <2> QED BY <2>1, <2>2
  <1>3. t = <<13, 10>>
    BY DEF LineEnd
  <1> HIDE DEF t
  <1> QED BY <1>2, <1>3 DEF CR, LF

\* A finished body has no blank at the edges of its lines, however Write was cut
\* into calls, unless an empty call of Write in encoder.go has flushed the one
\* held back.
THEOREM NoBlankUnlessFlushedHolds ==
  Spec => [](kernel = "generic" => NoBlankUnlessFlushed)
PROOF
  <1>1. EInv /\ LInv => (kernel = "generic" => NoBlankUnlessFlushed)
    <2> SUFFICES ASSUME Types, Layout, ~flushed, ~failed, ~enc.open
                 PROVE  EdgesAreClean
      BY Zenon DEF EInv, LInv, NoBlankUnlessFlushed, NoBlankAtLineEdges, Closed
    <2> DEFINE u == sink.body
    <2>1. u \in Seq(Byte) /\ Neat(u) /\ ~EndsWith(u, Blank)
      BY DEF Types, Sinks, Layout, LaidOut
    <2>2. ASSUME NEW i \in 1..Len(u)
          PROVE  /\ BeginsLine(i) => u[i] \notin Blank \cup {Dot}
                 /\ EndsLine(i) => u[i] \notin Blank
      <3>1. BeginsLine(i) => i = 1 \/ (i > 1 /\ u[i - 1] = LF)
        <4> SUFFICES ASSUME i > 2, SubSeq(u, i - 2, i - 1) = LineEnd
                     PROVE  i > 1 /\ u[i - 1] = LF
          BY DEF BeginsLine
        <4> DEFINE j == i - 2
        <4>1. j \in 1..Len(u) /\ j < Len(u) /\ j + 1 = i - 1 /\ i > 1
          BY <2>1
        <4> HIDE DEF j, u
        <4>2. SubSeq(u, j, j + 1) = LineEnd
          BY <4>1 DEF j
        <4> QED BY <2>1, <4>1, <4>2, LineEndIs
      <3>2. EndsLine(i) => i = Len(u) \/ (i < Len(u) /\ u[i + 1] = CR)
        <4> SUFFICES ASSUME i < Len(u) - 1, SubSeq(u, i + 1, i + 2) = LineEnd
                     PROVE  i < Len(u) /\ u[i + 1] = CR
          BY DEF EndsLine
        <4> DEFINE j == i + 1
        <4>1. j \in 1..Len(u) /\ j < Len(u) /\ j + 1 = i + 2 /\ i < Len(u)
          BY <2>1
        <4> HIDE DEF j, u
        <4>2. SubSeq(u, j, j + 1) = LineEnd
          BY <4>1 DEF j
        <4>3. u[j] = CR
          BY <2>1, <4>1, <4>2, LineEndIs
        <4> QED BY <4>1, <4>3 DEF j
      <3> HIDE DEF u
      <3>3. /\ u[i] \in Blank \cup {Dot} => i > 1 /\ u[i - 1] # LF
            /\ u[i] \in Blank /\ i < Len(u) => u[i + 1] # CR
        BY <2>1 DEF Neat
      <3>4. u[i] \in Blank => i # Len(u)
        BY <2>1 DEF EndsWith
      <3> QED BY <3>1, <3>2, <3>3, <3>4
    <2> QED BY <2>2 DEF EdgesAreClean
  <1> QED BY <1>1, EncoderInvariance, LayoutInvariance, PTL

\* The lines of an article that one call of Write has been given have at most the
\* configured length, with one character more for an escape that falls on the end.
THEOREM SingleWriteFitsHolds == Spec => [](kernel = "generic" => SingleWriteFits)
PROOF
  <1>1. LInv => (kernel = "generic" => SingleWriteFits)
    BY DEF LInv, Layout, FitsSoFar, SingleWriteFits, LinesFit, Fit, Breaks, CR, LF
  <1> QED BY <1>1, LayoutInvariance, PTL
=============================================================================
