------------------------ MODULE EncodeGenericProofs ------------------------
(***************************************************************************)
(* Proofs about module EncodeGeneric: for every src and column the         *)
(* portable encoder ends, and what it has written reads back, one          *)
(* character at a time, to what it was given; and its lines fit, with no   *)
(* blank at their edges.                                                   *)
(***************************************************************************)
EXTENDS EncodeGeneric, DecodeReferenceProofs

-----------------------------------------------------------------------------
(* Reading a text.                                                         *)

\* What reading all of u gives.
ReadAll(u) == (CHOOSE t : IsTrace(u, t))[Len(u)]

\* A text has one reading.
LEMMA TraceUnique ==
  ASSUME NEW u \in Seq(Nat), NEW t, IsTrace(u, t), NEW v \in Seq(Nat),
         NEW w, IsTrace(v, w), NEW m \in Nat, m <= Len(u), m <= Len(v),
         \A i \in 1..m : u[i] = v[i]
  PROVE  t[m] = w[m]
PROOF
  <1> DEFINE N == 0..m
             Bad == {n \in N : t[n] # w[n]}
             rank == [n \in N |-> n]
  <1>1. ASSUME Bad # {}
        PROVE  FALSE
    <2>1. rank \in [N -> Nat] /\ Bad \subseteq N
      OBVIOUS
    <2>2. PICK n \in Bad : \A j \in Bad : rank[n] <= rank[j]
      <3> HIDE DEF N, Bad, rank
      <3> QED BY <1>1, <2>1, LeastRank
    <2>3. n \in 0..m /\ t[n] # w[n]
      OBVIOUS
    <2>4. n # 0
      BY <2>3 DEF IsTrace
    <2>5. /\ n - 1 \in N /\ ~(n <= n - 1)
          /\ n \in 1..Len(u) /\ n \in 1..Len(v) /\ n \in 1..m
      BY <2>3, <2>4
    <2>6. t[n-1] = w[n-1]
      BY <2>2, <2>5
    <2>7. t[n] = Transition(t[n-1], u[n]) /\ w[n] = Transition(w[n-1], v[n])
      BY <2>5 DEF IsTrace
    <2>8. u[n] = v[n]
      BY <2>5
    <2> QED BY <2>3, <2>6, <2>7, <2>8
  <1>2. m \in N
    OBVIOUS
  <1> QED BY <1>1, <1>2

\* ReadAll is what the end of every trace has.
LEMMA ReadingOfTrace ==
  ASSUME NEW u \in Seq(Nat)
  PROVE  /\ \E t : IsTrace(u, t)
         /\ \A t : IsTrace(u, t) => ReadAll(u) = t[Len(u)]
PROOF
  <1> DEFINE s == CHOOSE t : IsTrace(u, t)
  <1>1. \E t : IsTrace(u, t)
    BY TraceExists
  <1>2. IsTrace(u, s)
    BY <1>1
  <1>3. ASSUME NEW t, IsTrace(u, t)
        PROVE  s[Len(u)] = t[Len(u)]
    <2>1. Len(u) \in Nat /\ Len(u) <= Len(u) /\ \A i \in 1..Len(u) : u[i] = u[i]
      OBVIOUS
    <2> HIDE DEF s
    <2> QED BY <1>2, <1>3, <2>1, TraceUnique
  <1> QED BY <1>1, <1>3 DEF ReadAll

\* Nothing has been read at the beginning.
LEMMA ReadingOfNone == ReadAll(<<>>) = At("CRLF", <<>>)
PROOF
  <1>1. <<>> \in Seq(Nat) /\ Len(<<>>) = 0
    OBVIOUS
  <1>2. PICK t : IsTrace(<<>>, t)
    BY <1>1, ReadingOfTrace
  <1>3. ReadAll(<<>>) = t[0]
    BY <1>1, <1>2, ReadingOfTrace
  <1> QED BY <1>2, <1>3 DEF IsTrace, Start, At

\* One more character is one more transition.
LEMMA ReadingOfAppend ==
  ASSUME NEW u \in Seq(Nat), NEW c \in Nat
  PROVE  ReadAll(Append(u, c)) = Transition(ReadAll(u), c)
PROOF
  <1> DEFINE v == Append(u, c)
             n == Len(u)
  <1>1. /\ n \in Nat /\ v \in Seq(Nat) /\ Len(v) = n + 1 /\ v[n + 1] = c
        /\ \A i \in 1..n : u[i] = v[i]
    OBVIOUS
  <1> HIDE DEF v
  <1>2. PICK t : IsTrace(u, t)
    BY ReadingOfTrace
  <1>3. PICK w : IsTrace(v, w)
    BY <1>1, ReadingOfTrace
  <1>4. t[n] = w[n]
    <2>1. n <= Len(u) /\ n <= Len(v)
      BY <1>1
    <2> HIDE DEF n
    <2> QED BY <1>1, <1>2, <1>3, <2>1, TraceUnique
  <1>5. w[n + 1] = Transition(w[n], v[n + 1])
    <2>1. n + 1 \in 1..Len(v) /\ (n + 1) - 1 = n
      BY <1>1
    <2> QED BY <1>3, <2>1 DEF IsTrace
  <1>6. ReadAll(u) = t[n] /\ ReadAll(v) = w[n + 1]
    BY <1>1, <1>2, <1>3, ReadingOfTrace
  <1> QED BY <1>1, <1>4, <1>5, <1>6 DEF v

-----------------------------------------------------------------------------
(* What is written reads back.                                             *)

\* u is an encoding of d that leaves the reader in State st; a blank at its end
\* stands for the last byte by itself, so that it can still be escaped.
Encodes(u, d, st) ==
  /\ u \in Seq(Byte) /\ d \in Seq(Byte)
  /\ ReadAll(u) = At(st, d)
  /\ \A v \in Seq(Byte), b \in Blank :
       u = Append(v, b) =>
         \E e \in Seq(Byte) : d = Append(e, Plain(b)) /\ ReadAll(v) = At("NONE", e)

\* Bytes are numbers.
LEMMA BytesAreNumbers ==
  ASSUME NEW u \in Seq(Byte)
  PROVE  u \in Seq(Nat)
PROOF
  <1>1. Byte \subseteq Nat
    BY DEF Byte
  <1> QED BY Zenon, <1>1, SeqMonotonic

\* Nothing encodes nothing.
LEMMA NothingEncodes == Encodes(<<>>, <<>>, "CRLF")
PROOF
  <1>1. \A v \in Seq(Byte), b \in Blank : <<>> # Append(v, b)
    <2>1. \A v \in Seq(Byte) : \A b : Len(Append(v, b)) = Len(v) + 1 /\ Len(v) \in Nat
      OBVIOUS
    <2>2. Len(<<>>) = 0
      OBVIOUS
    <2> QED BY <2>1, <2>2
  <1>2. <<>> \in Seq(Byte)
    OBVIOUS
  <1> QED BY <1>1, <1>2, ReadingOfNone DEF Encodes

\* Texts that end alike are alike before their ends.
LEMMA AppendsEqual ==
  ASSUME NEW S, NEW u \in Seq(S), NEW v \in Seq(S), NEW x \in S, NEW b \in S,
         Append(u, x) = Append(v, b)
  PROVE  u = v /\ x = b
PROOF BY AppendProperties

\* A byte that is written by itself.
LEMMA CharEncodes ==
  ASSUME NEW u \in Seq(Byte), NEW d \in Seq(Byte), NEW st \in {"NONE", "CRLF"},
         ReadAll(u) = At(st, d), NEW x \in Byte, x \notin Critical,
         st = "CRLF" => x \notin Blank \cup {Dot}
  PROVE  Encodes(Append(u, x), Append(d, Plain(x)), "NONE")
PROOF
  <1>1. x \in Nat /\ u \in Seq(Nat) /\ x \notin {CR, LF, EQ} /\ Plain(x) \in Byte
    <2>1. x \in Nat /\ Byte \subseteq Nat
      BY DEF Byte
    <2> QED BY <2>1, DecodedBytes, BytesAreNumbers DEF Critical, CR, LF, EQ
  <1>2. st = "CRLF" => x \notin {DOT, EQ}
    BY <1>1 DEF Dot, DOT
  <1>3. Transition(At(st, d), x) = At("NONE", Append(d, Plain(x)))
    BY <1>1, <1>2, ReadsInLine, ReadsAsInLine
  <1>4. ReadAll(Append(u, x)) = At("NONE", Append(d, Plain(x)))
    BY <1>1, <1>3, ReadingOfAppend
  <1>5. Append(u, x) \in Seq(Byte) /\ Append(d, Plain(x)) \in Seq(Byte)
    BY <1>1
  <1>6. ASSUME NEW v \in Seq(Byte), NEW b \in Blank, Append(u, x) = Append(v, b)
        PROVE  \E e \in Seq(Byte) : Append(d, Plain(x)) = Append(e, Plain(b))
                                    /\ ReadAll(v) = At("NONE", e)
    <2>1. b \in Byte
      BY DEF Blank, Byte
    <2>2. u = v /\ x = b
      BY <1>6, <2>1, AppendsEqual
    <2> QED BY <2>2
  <1> QED BY <1>4, <1>5, <1>6 DEF Encodes

\* A byte that is written as a pair.
LEMMA PairEncodes ==
  ASSUME NEW u \in Seq(Byte), NEW d \in Seq(Byte), NEW st \in {"NONE", "CRLF"},
         ReadAll(u) = At(st, d), NEW y \in Byte, y \notin {CR, Y} \cup Blank
  PROVE  Encodes(u \o <<EQ, y>>, Append(d, Escaped(y)), "NONE")
PROOF
  <1> DEFINE w == Append(u, EQ)
             o == Append(d, Escaped(y))
  <1>1. /\ EQ \in Byte /\ y \in Nat /\ u \in Seq(Nat) /\ EQ \in Nat
        /\ Escaped(y) \in Byte
    <2>1. y \in Nat /\ Byte \subseteq Nat /\ EQ \in Byte
      BY DEF Byte, EQ
    <2> QED BY <2>1, DecodedBytes, BytesAreNumbers
  <1>2. u \o <<EQ, y>> = Append(w, y)
    BY <1>1
  <1>3. w \in Seq(Byte) /\ w \in Seq(Nat) /\ o \in Seq(Byte)
    BY <1>1
  <1>4. ReadAll(w) = At("EQ", d) \/ ReadAll(w) = At("CRLFEQ", d)
    <2>1. Transition(At("NONE", d), EQ) = At("EQ", d)
      BY <1>1, ReadsInLine
    <2>2. Transition(At("CRLF", d), EQ) = At("CRLFEQ", d)
      BY <1>1, ReadsLineEnd
    <2> QED BY <1>1, <2>1, <2>2, ReadingOfAppend
  <1> HIDE DEF w
  <1>5. ReadAll(Append(w, y)) = At("NONE", o)
    <2>1. Transition(At("EQ", d), y) = At("NONE", o)
      BY <1>1, ReadsEscaped
    <2>2. Transition(At("CRLFEQ", d), y) = At("NONE", o)
      BY <1>1, <2>1, ReadsEscaped
    <2> QED BY <1>1, <1>3, <1>4, <2>1, <2>2, ReadingOfAppend
  <1>6. Append(w, y) \in Seq(Byte)
    BY <1>3
  <1>7. \A v \in Seq(Byte), b \in Blank : Append(w, y) # Append(v, b)
    <2> SUFFICES ASSUME NEW v \in Seq(Byte), NEW b \in Blank,
                        Append(w, y) = Append(v, b)
                 PROVE  FALSE
      OBVIOUS
    <2>1. b \in Byte
      BY DEF Blank, Byte
    <2>2. y = b
      BY <1>3, <2>1, AppendsEqual
    <2> QED BY <2>2
  <1> HIDE DEF o
  <1>8. Encodes(Append(w, y), o, "NONE")
    BY <1>3, <1>5, <1>6, <1>7 DEF Encodes
  <1> QED BY <1>2, <1>8 DEF o

\* The encoding of a byte is undone, and its pair is never a CR, a Y or a blank.
LEMMA Encoding ==
  ASSUME NEW c \in Byte
  PROVE  /\ Shifted(c) \in Byte /\ Plain(Shifted(c)) = c
         /\ (c + 106) % 256 \in Byte /\ Escaped((c + 106) % 256) = c
         /\ Shifted(c) \in Critical \cup Blank \cup {Dot} =>
              (c + 106) % 256 \notin {CR, Y} \cup Blank
PROOF
  <1>1. c \in 0..255
    BY DEF Byte
  <1>2. Shifted(c) \in Byte /\ (c + 106) % 256 \in Byte
    BY <1>1 DEF Byte, Shifted
  <1>3. Shifted(c) = IF c < 214 THEN c + 42 ELSE c - 214
    BY <1>1 DEF Shifted
  <1>4. (c + 106) % 256 = IF c < 150 THEN c + 106 ELSE c - 150
    BY <1>1
  <1>5. Plain(Shifted(c)) = c
    BY <1>1, <1>3 DEF Plain
  <1>6. Escaped((c + 106) % 256) = c
    BY <1>1, <1>4 DEF Escaped
  <1>7. Shifted(c) \in Critical \cup Blank \cup {Dot} =>
          (c + 106) % 256 \notin {CR, Y} \cup Blank
    BY <1>1, <1>3, <1>4 DEF Critical, Blank, Dot, CR, Y
  <1> QED BY <1>2, <1>5, <1>6, <1>7

\* A byte, whichever characters are escaped: at the beginning of a line those
\* that mean something there are.
LEMMA ByteEncodes ==
  ASSUME NEW u \in Seq(Byte), NEW d \in Seq(Byte), NEW st \in {"NONE", "CRLF"},
         ReadAll(u) = At(st, d), NEW c \in Byte,
         NEW special, Critical \subseteq special,
         special \subseteq Critical \cup Blank \cup {Dot},
         st = "CRLF" => special = Critical \cup Blank \cup {Dot}
  PROVE  /\ Encodes(u \o EncodedUnless(c, special), Append(d, c), "NONE")
         /\ EncodedUnless(c, special) \in Seq(Byte)
         /\ Len(EncodedUnless(c, special)) \in 1..2
PROOF
  <1> DEFINE x == Shifted(c)
             y == (c + 106) % 256
  <1>1. x \in Byte /\ Plain(x) = c /\ y \in Byte /\ Escaped(y) = c
    BY Encoding
  <1>2. x \in special => y \notin {CR, Y} \cup Blank
    BY Encoding
  <1>3. EncodedUnless(c, special) = IF x \in special THEN <<EQ, y>> ELSE <<x>>
    BY DEF EncodedUnless, Pair, EQ
  <1> HIDE DEF x, y
  <1>4. CASE x \in special
    <2>1. EQ \in Byte
      BY DEF EQ, Byte
    <2>2. Encodes(u \o <<EQ, y>>, Append(d, Escaped(y)), "NONE")
      BY <1>1, <1>2, <1>4, PairEncodes
    <2>3. <<EQ, y>> \in Seq(Byte) /\ Len(<<EQ, y>>) = 2
      BY <1>1, <2>1
    <2> QED BY <1>1, <1>3, <1>4, <2>2, <2>3
  <1>5. CASE x \notin special
    <2>1. Encodes(Append(u, x), Append(d, Plain(x)), "NONE")
      BY <1>1, <1>5, CharEncodes
    <2>2. Append(u, x) = u \o <<x>> /\ <<x>> \in Seq(Byte) /\ Len(<<x>>) = 1
      BY <1>1
    <2> QED BY <1>1, <1>3, <1>5, <2>1, <2>2
  <1> QED BY <1>4, <1>5

\* A byte within a line, as the last and as the first of one.
LEMMA InLineEncodes ==
  ASSUME NEW u, NEW d, Encodes(u, d, "NONE"), NEW c \in Byte
  PROVE  /\ Encodes(u \o InLine(c), Append(d, c), "NONE")
         /\ InLine(c) \in Seq(Byte) /\ Len(InLine(c)) \in 1..2
         /\ Encodes(u \o LastOfLine(c), Append(d, c), "NONE")
         /\ LastOfLine(c) \in Seq(Byte) /\ Len(LastOfLine(c)) \in 1..2
PROOF
  <1>1. u \in Seq(Byte) /\ d \in Seq(Byte) /\ ReadAll(u) = At("NONE", d)
    BY DEF Encodes
  <1> QED BY <1>1, ByteEncodes DEF InLine, LastOfLine

\* The first of a line.
LEMMA FirstEncodes ==
  ASSUME NEW u, NEW d, Encodes(u, d, "CRLF"), NEW c \in Byte
  PROVE  /\ Encodes(u \o FirstOfLine(c), Append(d, c), "NONE")
         /\ FirstOfLine(c) \in Seq(Byte) /\ Len(FirstOfLine(c)) \in 1..2
PROOF
  <1>1. u \in Seq(Byte) /\ d \in Seq(Byte) /\ ReadAll(u) = At("CRLF", d)
    BY DEF Encodes
  <1> QED BY <1>1, ByteEncodes DEF FirstOfLine

\* A line end.
LEMMA LineEndEncodes ==
  ASSUME NEW u, NEW d, Encodes(u, d, "NONE")
  PROVE  Encodes(u \o LineEnd, d, "CRLF")
PROOF
  <1> DEFINE w == Append(u, CR)
  <1>1. u \in Seq(Byte) /\ d \in Seq(Byte) /\ ReadAll(u) = At("NONE", d)
    BY DEF Encodes
  <1>2. CR \in Byte /\ LF \in Byte /\ CR \in Nat /\ LF \in Nat /\ u \in Seq(Nat)
    <2>1. Byte \subseteq Nat /\ CR \in Byte /\ LF \in Byte
      BY DEF Byte, CR, LF
    <2> QED BY <1>1, <2>1, BytesAreNumbers
  <1>3. u \o LineEnd = Append(w, LF)
    <2>1. LineEnd = <<CR, LF>>
      BY DEF LineEnd, CR, LF
    <2> QED BY <1>1, <1>2, <2>1
  <1>4. w \in Seq(Byte) /\ w \in Seq(Nat)
    BY <1>1, <1>2
  <1>5. ReadAll(w) = At("CR", d)
    BY <1>1, <1>2, ReadingOfAppend, ReadsInLine
  <1> HIDE DEF w
  <1>6. ReadAll(Append(w, LF)) = At("CRLF", d)
    BY <1>1, <1>2, <1>4, <1>5, ReadingOfAppend, ReadsLineEnd
  <1>7. \A v \in Seq(Byte), b \in Blank : Append(w, LF) # Append(v, b)
    <2> SUFFICES ASSUME NEW v \in Seq(Byte), NEW b \in Blank,
                        Append(w, LF) = Append(v, b)
                 PROVE  FALSE
      OBVIOUS
    <2>1. b \in Byte
      BY DEF Blank, Byte
    <2>2. LF = b
      BY <1>2, <1>4, <2>1, AppendsEqual
    <2> QED BY <2>2 DEF LF, Blank
  <1>8. Append(w, LF) \in Seq(Byte)
    BY <1>2, <1>4
  <1> QED BY <1>1, <1>3, <1>6, <1>7, <1>8 DEF Encodes

-----------------------------------------------------------------------------
(* The bytes of src, one after the other.                                  *)

\* One byte more of src.
LEMMA SliceGrows ==
  ASSUME NEW src \in Seq(Byte), NEW d \in Seq(Byte), NEW n \in Nat, n < Len(src)
  PROVE  /\ src[n + 1] \in Byte
         /\ d \o SubSeq(src, 1, n + 1) = Append(d \o SubSeq(src, 1, n), src[n + 1])
PROOF
  <1> DEFINE a == SubSeq(src, 1, n)
             x == src[n + 1]
  <1>1. 1 \in 1..Len(src) /\ n + 1 \in 1..Len(src) /\ (n + 1) - 1 = n
    OBVIOUS
  <1>2. x \in Byte
    BY <1>1, ElementOfSeq
  <1>3. SubSeq(src, 1, n + 1) = a \o <<x>>
    BY <1>1, SubSeqRecursiveSecond
  <1>4. a \in Seq(Byte)
    OBVIOUS
  <1> HIDE DEF a, x
  <1>5. <<x>> \in Seq(Byte) /\ d \o a \in Seq(Byte)
    BY <1>2, <1>4
  <1>6. d \o (a \o <<x>>) = (d \o a) \o <<x>>
    BY <1>4, <1>5, ConcatAssociative
  <1>7. (d \o a) \o <<x>> = Append(d \o a, x)
    BY <1>2, <1>5
  <1> QED BY <1>2, <1>3, <1>6, <1>7 DEF a, x

\* What is in front of an end that is dropped again.
LEMMA PrefixOfConcat ==
  ASSUME NEW s \in Seq(Byte), NEW t \in Seq(Byte)
  PROVE  SubSeq(s \o t, 1, Len(s)) = s
PROOF
  <1> DEFINE w == s \o t
             p == SubSeq(w, 1, Len(s))
             n == Len(s)
  <1>1. n \in Nat /\ w \in Seq(Byte) /\ \A i \in 1..n : w[i] = s[i] /\ w[i] \in Byte
    OBVIOUS
  <1> HIDE DEF w
  <1>2. p \in Seq(Byte) /\ Len(p) = n /\ \A i \in 1..n : p[i] = w[i]
    <2>1. /\ SubSeq(w, 1, n) \in Seq(Byte)
          /\ Len(SubSeq(w, 1, n)) = IF 1 <= n THEN n - 1 + 1 ELSE 0
          /\ \A i \in 1..(n - 1 + 1) : SubSeq(w, 1, n)[i] = w[1 + i - 1]
      BY <1>1, SubSeqProperties
    <2>2. \A i \in 1..n : 1 + i - 1 = i
      OBVIOUS
    <2> HIDE DEF n
    <2> QED BY <1>1, <2>1, <2>2 DEF n
  <1> HIDE DEF p
  <1>3. p = s
    BY <1>1, <1>2, SeqEqual
  <1> QED BY <1>3 DEF p, w

-----------------------------------------------------------------------------
(* A batch.                                                                *)

\* Every byte becomes one or two.
LEMMA InLineBytes ==
  ASSUME NEW c \in Byte
  PROVE  /\ InLine(c) \in Seq(Byte) /\ Len(InLine(c)) \in 1..2
         /\ FirstOfLine(c) \in Seq(Byte) /\ Len(FirstOfLine(c)) \in 1..2
         /\ LastOfLine(c) \in Seq(Byte) /\ Len(LastOfLine(c)) \in 1..2
PROOF
  <1>1. Shifted(c) \in Byte /\ (c + 106) % 256 \in Byte /\ EQ \in Byte
    <2>1. EQ \in Byte
      BY DEF EQ, Byte
    <2> QED BY <2>1, Encoding
  <1>2. \A special : /\ EncodedUnless(c, special) \in Seq(Byte)
                     /\ Len(EncodedUnless(c, special)) \in 1..2
    <2> SUFFICES ASSUME NEW special
                 PROVE  /\ EncodedUnless(c, special) \in Seq(Byte)
                        /\ Len(EncodedUnless(c, special)) \in 1..2
      OBVIOUS
    <2> DEFINE x == Shifted(c)
               y == (c + 106) % 256
    <2>1. EncodedUnless(c, special) \in {<<EQ, y>>, <<x>>}
      BY DEF EncodedUnless, Pair, EQ
    <2> HIDE DEF x, y
    <2>2. /\ <<EQ, y>> \in Seq(Byte) /\ Len(<<EQ, y>>) = 2
          /\ <<x>> \in Seq(Byte) /\ Len(<<x>>) = 1
      BY <1>1 DEF x, y
    <2>3. CASE EncodedUnless(c, special) = <<EQ, y>>
      BY <2>2, <2>3
    <2>4. CASE EncodedUnless(c, special) = <<x>>
      BY <2>2, <2>4
    <2> QED BY <2>1, <2>3, <2>4
  <1> QED BY <1>2 DEF InLine, FirstOfLine, LastOfLine

\* A batch has what the encoding of its bytes preserves.
LEMMA BatchedHas ==
  ASSUME NEW src \in Seq(Byte), NEW k \in EncodeConfig, k.pos + Batch <= Len(src),
         NEW I, I \subseteq Batches, [n |-> 0, e |-> <<>>] \in I,
         \A b \in I : b.n # Batch => NextOfBatch(src, k, b) \in I
  PROVE  \E b \in I : b.n = Batch /\ Batched(src, k) = b.e
PROOF
  <1> DEFINE S == Batches
             stop == {b \in S : b.n = Batch}
             next == [b \in S |-> IF b \in stop THEN b ELSE NextOfBatch(src, k, b)]
             rank == [b \in S |-> Batch - b.n]
             run[b \in S] == IF b.n = Batch THEN b ELSE run[NextOfBatch(src, k, b)]
             start == [n |-> 0, e |-> <<>>]
  <1>1. Batch \in Nat /\ k.pos \in Nat /\ Len(src) \in Nat
    BY EncodeAssumption DEF EncodeConfig
  <1>2. ASSUME NEW b \in S, b \notin stop
        PROVE  /\ NextOfBatch(src, k, b) \in S
               /\ NextOfBatch(src, k, b).n = b.n + 1 /\ b.n + 1 <= Batch
    <2> DEFINE x == src[k.pos + b.n + 1]
               m == b.n
    <2>1. m \in Nat /\ m <= Batch /\ m # Batch /\ b.e \in Seq(Byte)
      BY <1>1, <1>2 DEF Batches, Byte
    <2>2. m + 1 \in 0..Batch
      <3> HIDE DEF m
      <3> QED BY <1>1, <2>1
    <2>3. x \in Byte
      <3>1. k.pos + m + 1 \in 1..Len(src)
        <4> HIDE DEF m
        <4> QED BY <1>1, <2>1
      <3> QED BY <3>1, ElementOfSeq
    <2>4. b.e \o InLine(x) \in Seq(Byte)
      <3> HIDE DEF x
      <3> QED BY <2>1, <2>3, InLineBytes, ConcatProperties
    <2> DEFINE f == b.e \o InLine(x)
    <2>5. NextOfBatch(src, k, b) = [n |-> m + 1, e |-> f]
      BY DEF NextOfBatch
    <2> HIDE DEF f, m
    <2> QED BY <2>2, <2>4, <2>5 DEF Batches, Byte, f, m
  <1>3. next \in [S -> S]
    BY <1>2
  <1>4. \A b \in S : Batch - b.n \in Nat
    BY <1>1 DEF Batches
  <1>5. rank \in [S -> Nat]
    BY <1>4
  <1>6. \A b \in S : b \notin stop => rank[next[b]] < rank[b]
    <2> SUFFICES ASSUME NEW b \in S, b \notin stop
                 PROVE  rank[next[b]] < rank[b]
      OBVIOUS
    <2> DEFINE q == NextOfBatch(src, k, b)
               m == b.n
    <2>1. next[b] = q /\ q \in S /\ q.n = m + 1 /\ m \in Nat
      BY <1>2 DEF Batches
    <2> HIDE DEF q, m
    <2>2. Batch - q.n < Batch - m
      BY <1>1, <2>1
    <2> QED BY <2>1, <2>2 DEF m
  <1>7. \A b \in S : next[b] = IF b \in stop THEN b ELSE NextOfBatch(src, k, b)
    OBVIOUS
  <1>8. \A b \in S : b \in stop <=> b.n = Batch
    OBVIOUS
  <1> HIDE DEF next, rank, stop, start
  <1>9. Descends(S, next, stop, rank)
    BY <1>3, <1>5, <1>6 DEF Descends
  <1>10. PICK f : Repeats(f, S, next, stop)
    BY <1>9, RepeatExists
  <1>11. f = [b \in S |-> IF b.n = Batch THEN b ELSE f[NextOfBatch(src, k, b)]]
    BY <1>7, <1>8, <1>10 DEF Repeats
  <1>12. run = [b \in S |-> IF b.n = Batch THEN b ELSE run[NextOfBatch(src, k, b)]]
    <2> HIDE DEF S
    <2> QED BY <1>11
  <1>13. Batched(src, k) = run[start].e
    BY DEF Batched, start
  <1> HIDE DEF run
  <1>14. Repeats(run, S, next, stop)
    BY <1>7, <1>8, <1>12 DEF Repeats
  <1>15. Preserves(I, S, next, stop)
    BY <1>7, <1>8 DEF Preserves
  <1>16. run[start] \in I /\ run[start] \in stop
    <2> HIDE DEF S
    <2>1. start \in I
      BY DEF start
    <2> QED BY <1>9, <1>14, <1>15, <2>1, RepeatResult
  <1> QED BY <1>8, <1>13, <1>16

\* A batch is of bytes, one or two for each.
LEMMA BatchedBytes ==
  ASSUME NEW src \in Seq(Byte), NEW k \in EncodeConfig, k.pos + Batch <= Len(src)
  PROVE  /\ Batched(src, k) \in Seq(Byte)
         /\ Len(Batched(src, k)) \in Batch..(2 * Batch)
PROOF
  <1> DEFINE I == {b \in Batches : Len(b.e) \in b.n..(2 * b.n)}
             start == [n |-> 0, e |-> <<>>]
  <1>1. Batch \in Nat /\ k.pos \in Nat /\ Len(src) \in Nat
    BY EncodeAssumption DEF EncodeConfig
  <1>2. start \in I
    <2>1. <<>> \in Seq(0..255) /\ Len(<<>>) = 0 /\ 0 \in 0..Batch
      BY <1>1
    <2> QED BY <2>1 DEF Batches
  <1>3. ASSUME NEW b \in I, b.n # Batch
        PROVE  NextOfBatch(src, k, b) \in I
    <2> DEFINE x == src[k.pos + b.n + 1]
               m == b.n
               g == b.e
               f == b.e \o InLine(x)
    <2>1. m \in 0..Batch /\ g \in Seq(Byte) /\ Len(g) \in m..(2 * m) /\ m # Batch
      BY <1>3 DEF Batches, Byte
    <2>2. x \in Byte
      <3>1. k.pos + m + 1 \in 1..Len(src)
        <4> HIDE DEF m, g
        <4> QED BY <1>1, <2>1
      <3> QED BY <3>1, ElementOfSeq
    <2>3. f \in Seq(Byte) /\ Len(f) = Len(g) + Len(InLine(x))
          /\ Len(InLine(x)) \in 1..2
      <3> HIDE DEF x
      <3> QED BY <2>1, <2>2, InLineBytes, ConcatProperties
    <2>4. NextOfBatch(src, k, b) = [n |-> m + 1, e |-> f]
      BY DEF NextOfBatch
    <2> HIDE DEF f, m, g, x
    <2>5. m + 1 \in 0..Batch /\ Len(f) \in (m + 1)..(2 * (m + 1))
      <3> DEFINE l == Len(g)
                 p == Len(InLine(x))
      <3>1. l \in m..(2 * m) /\ p \in 1..2 /\ Len(f) = l + p
        BY <2>1, <2>3
      <3> HIDE DEF l, p
      <3> QED BY <1>1, <2>1, <3>1
    <2> QED BY <2>3, <2>4, <2>5 DEF Batches, Byte
  <1>4. I \subseteq Batches
    OBVIOUS
  <1>5. PICK b \in I : b.n = Batch /\ Batched(src, k) = b.e
    <2> HIDE DEF I
    <2> QED BY <1>2, <1>3, <1>4, BatchedHas DEF start
  <1> QED BY <1>5 DEF Batches, Byte

\* A batch reads back.
LEMMA BatchEncodes ==
  ASSUME NEW src \in Seq(Byte), NEW k \in EncodeConfig, k.pos + Batch <= Len(src),
         NEW u \in Seq(Byte), NEW d \in Seq(Byte),
         Encodes(u, d \o SubSeq(src, 1, k.pos), "NONE")
  PROVE  Encodes(u \o Batched(src, k), d \o SubSeq(src, 1, k.pos + Batch), "NONE")
PROOF
  <1> DEFINE Taken(n) == d \o SubSeq(src, 1, n)
             I == {b \in Batches : Encodes(u \o b.e, Taken(k.pos + b.n), "NONE")}
             start == [n |-> 0, e |-> <<>>]
  <1>1. Batch \in Nat /\ k.pos \in Nat /\ Len(src) \in Nat
    BY EncodeAssumption DEF EncodeConfig
  <1>2. start \in I
    <2>1. <<>> \in Seq(0..255) /\ 0 \in 0..Batch /\ k.pos + 0 = k.pos
      BY <1>1
    <2>2. u \o <<>> = u
      OBVIOUS
    <2> HIDE DEF Taken
    <2>3. Encodes(u, Taken(k.pos), "NONE")
      BY DEF Taken
    <2>4. start \in Batches /\ start.n = 0 /\ start.e = <<>>
      BY <2>1 DEF Batches
    <2> HIDE DEF start
    <2> QED BY <2>1, <2>2, <2>3, <2>4
  <1>3. ASSUME NEW b \in I, b.n # Batch
        PROVE  NextOfBatch(src, k, b) \in I
    <2> DEFINE x == src[k.pos + b.n + 1]
               m == b.n
               g == b.e
               f == b.e \o InLine(x)
               q == k.pos + m
    <2>1. m \in 0..Batch /\ g \in Seq(Byte) /\ m # Batch
      BY <1>3 DEF Batches, Byte
    <2>2. m + 1 \in 0..Batch /\ q \in Nat /\ q < Len(src) /\ k.pos + (m + 1) = q + 1
      <3> HIDE DEF m
      <3> QED BY <1>1, <2>1
    <2>3. x = src[q + 1]
      OBVIOUS
    <2>4. Encodes(u \o g, Taken(q), "NONE")
      OBVIOUS
    <2>5. NextOfBatch(src, k, b) = [n |-> m + 1, e |-> f]
      BY DEF NextOfBatch
    <2>6. f = g \o InLine(x)
      OBVIOUS
    <2> HIDE DEF f, m, g, x, q
    <2>7. x \in Byte /\ Taken(q + 1) = Append(Taken(q), x)
      BY <2>2, <2>3, SliceGrows
    <2> HIDE DEF Taken
    <2>8. /\ Encodes((u \o g) \o InLine(x), Taken(q + 1), "NONE")
          /\ InLine(x) \in Seq(Byte)
      BY <2>4, <2>7, InLineEncodes
    <2>9. (u \o g) \o InLine(x) = u \o f
      BY SMTT(30), <2>1, <2>6, <2>8, ConcatAssociative
    <2>10. f \in Seq(Byte)
      BY <2>1, <2>6, <2>8, ConcatProperties
    <2> DEFINE r == [n |-> m + 1, e |-> f]
    <2>11. r \in Batches /\ r.n = m + 1 /\ r.e = f
      BY <2>2, <2>10 DEF Batches, Byte
    <2> HIDE DEF r
    <2>12. r \in I
      BY <2>2, <2>8, <2>9, <2>11
    <2> QED BY <2>5, <2>12 DEF r
  <1>4. I \subseteq Batches
    OBVIOUS
  <1>5. \A b \in I : Encodes(u \o b.e, Taken(k.pos + b.n), "NONE")
    OBVIOUS
  <1>6. PICK b \in I : b.n = Batch /\ Batched(src, k) = b.e
    <2> HIDE DEF I
    <2> QED BY <1>2, <1>3, <1>4, BatchedHas DEF start
  <1> QED BY <1>5, <1>6

-----------------------------------------------------------------------------
(* The steps of a call.                                                    *)

Parts == {"first", "batch", "scalar", "last", "newline", "done"}

\* r is k when n more bytes of src have become e, the column is col and the loop
\* is at part `at': dest has been written to as far as before, or w characters
\* behind k.out at most.
Goes(k, r, at, n, e, col, sp, w) ==
  /\ r \in EncodeConfig
  /\ r.at = at /\ r.pos = k.pos + n /\ r.out = k.out \o e
  /\ r.col = col /\ r.sp = sp
  /\ r.need = k.need \/ r.need <= Len(k.out) + w

\* Storing does what Goes says.
LEMMA PutGoes ==
  ASSUME NEW k \in EncodeConfig, NEW n \in Nat, NEW e \in Seq(Byte),
         NEW col \in Nat, NEW at \in Parts, NEW w \in Nat, Len(e) <= w
  PROVE  Goes(k, Put(k, n, e, col, at), at, n, e, col, k.sp, w)
PROOF
  <1> DEFINE out == k.out \o e
             pos == k.pos + n
             need == IF Len(out) > k.need THEN Len(out) ELSE k.need
             r == Put(k, n, e, col, at)
  <1>1. k.out \in Seq(Byte) /\ k.pos \in Nat /\ k.need \in Nat
    BY DEF EncodeConfig, Byte
  <1>2. out \in Seq(Byte) /\ Len(out) = Len(k.out) + Len(e) /\ Len(out) \in Nat
        /\ Len(k.out) \in Nat /\ Len(e) \in Nat
    BY <1>1, ConcatProperties
  <1>3. pos \in Nat /\ need \in Nat
    <2> HIDE DEF out
    <2> QED BY <1>1, <1>2
  <1>4. need = k.need \/ need <= Len(k.out) + w
    <2> DEFINE l == Len(k.out)
               m == Len(e)
               o == Len(out)
    <2>1. l \in Nat /\ m \in Nat /\ o = l + m /\ m <= w
      BY <1>2
    <2>2. need = k.need \/ need = o
      OBVIOUS
    <2> HIDE DEF l, m, o, need
    <2>3. o <= l + w
      BY <2>1
    <2> QED BY <2>2, <2>3 DEF l
  <1>5. r = [k EXCEPT !.pos = pos, !.out = out, !.col = col, !.at = at, !.need = need]
    BY DEF Put
  <1> HIDE DEF out, pos, need, r
  <1>6. /\ r \in EncodeConfig
        /\ r.at = at /\ r.pos = pos /\ r.out = out /\ r.col = col /\ r.sp = k.sp
        /\ r.need = need
    BY ZenonT(30), <1>2, <1>3, <1>5 DEF EncodeConfig, Parts, Byte
  <1> QED BY <1>4, <1>6 DEF Goes, pos, out, r

\* Only the part changes.
LEMMA JumpGoes ==
  ASSUME NEW k \in EncodeConfig, NEW at \in Parts
  PROVE  Goes(k, [k EXCEPT !.at = at], at, 0, <<>>, k.col, k.sp, 0)
PROOF
  <1> DEFINE r == [k EXCEPT !.at = at]
  <1>1. k.out \in Seq(Byte) /\ k.pos \in Nat
    BY DEF EncodeConfig, Byte
  <1>2. k.out \o <<>> = k.out /\ k.pos + 0 = k.pos
    BY <1>1
  <1>3. /\ r \in EncodeConfig /\ r.at = at /\ r.pos = k.pos /\ r.out = k.out
        /\ r.col = k.col /\ r.sp = k.sp /\ r.need = k.need
    BY DEF EncodeConfig, Parts
  <1> QED BY <1>2, <1>3 DEF Goes

\* What a configuration of a call has.
LEMMA CallFacts ==
  ASSUME NEW src \in Seq(Byte), NEW k \in EncodeCalls(src)
  PROVE  /\ k \in EncodeConfig /\ k.at \in Parts
         /\ k.pos \in Nat /\ Len(src) \in Nat /\ k.pos <= Len(src)
         /\ k.out \in Seq(Byte) /\ k.col \in Nat /\ k.sp \in Nat \cup {-1}
         /\ k.need \in Nat /\ Len(k.out) \in Nat
         /\ LineLength \in Nat /\ LineLength >= 1 /\ Batch \in Nat /\ Batch >= 1
         /\ k.at \notin {"batch", "done"} => k.pos < Len(src) /\ Next1(src, k) \in Byte
PROOF
  <1>1. /\ k \in EncodeConfig /\ k.at \in Parts
        /\ k.pos \in Nat /\ Len(src) \in Nat /\ k.pos <= Len(src)
        /\ k.out \in Seq(Byte) /\ k.col \in Nat /\ k.sp \in Nat \cup {-1}
        /\ k.need \in Nat /\ Len(k.out) \in Nat
    BY DEF EncodeCalls, EncodeConfig, Parts, Byte
  <1>2. LineLength \in Nat /\ LineLength >= 1 /\ Batch \in Nat /\ Batch >= 1
    BY EncodeAssumption
  <1>3. k.at \notin {"batch", "done"} => k.pos < Len(src)
    BY DEF EncodeCalls
  <1>4. k.pos < Len(src) => Next1(src, k) \in Byte
    BY <1>1, SliceGrows DEF Next1
  <1> QED BY <1>1, <1>2, <1>3, <1>4

\* One or two.
LEMMA OneOrTwo ==
  ASSUME NEW l \in 1..2
  PROVE  l \in Nat /\ 1 <= l /\ l <= 2
PROOF OBVIOUS

\* At the beginning of a call.
LEMMA FirstGoes ==
  ASSUME NEW src \in Seq(Byte), NEW k \in EncodeCalls(src), k.at = "first"
  PROVE  LET e == FirstOfLine(Next1(src, k)) IN
         \/ k.col = 0 /\ Goes(k, EncodeStep(src, k), "batch", 1, e, Len(e), k.sp, 2)
         \/ k.col # 0 /\ Goes(k, EncodeStep(src, k), "batch", 0, <<>>, k.col, k.sp, 0)
PROOF
  <1> DEFINE e == FirstOfLine(Next1(src, k))
  <1>1. EncodeStep(src, k) = EncodeFirst(src, k)
    BY DEF EncodeStep
  <1>2. e \in Seq(Byte) /\ Len(e) \in 1..2
    BY CallFacts, InLineBytes
  <1>3. k \in EncodeConfig /\ "batch" \in Parts /\ Len(e) \in Nat /\ Len(e) <= 2
    BY <1>2, CallFacts, OneOrTwo DEF Parts
  <1>4. k.col = 0 => EncodeFirst(src, k) = Put(k, 1, e, Len(e), "batch")
    BY DEF EncodeFirst
  <1>5. k.col # 0 => EncodeFirst(src, k) = [k EXCEPT !.at = "batch"]
    BY DEF EncodeFirst
  <1> HIDE DEF e
  <1>6. Goes(k, Put(k, 1, e, Len(e), "batch"), "batch", 1, e, Len(e), k.sp, 2)
    BY <1>2, <1>3, PutGoes
  <1>7. Goes(k, [k EXCEPT !.at = "batch"], "batch", 0, <<>>, k.col, k.sp, 0)
    BY <1>3, JumpGoes
  <1> QED BY <1>1, <1>4, <1>5, <1>6, <1>7 DEF e

\* Between batches.
LEMMA BatchGoes ==
  ASSUME NEW src \in Seq(Byte), NEW k \in EncodeCalls(src), k.at = "batch"
  PROVE  LET e == Batched(src, k)
             r == EncodeStep(src, k)
         IN
         \/ k.pos = Len(src) /\ Goes(k, r, "done", 0, <<>>, k.col, k.sp, 0)
         \/ /\ k.pos + Batch < Len(src) /\ k.col + Batch < LineLength - 1
            /\ Goes(k, r, "batch", Batch, e, k.col + Len(e), Len(k.out), 2 * Batch)
         \/ /\ k.sp >= 0 /\ k.col >= LineLength - 1 /\ k.pos < Len(src)
            /\ r \in EncodeConfig /\ r.at = "scalar" /\ r.pos = k.pos - Batch
            /\ r.out = SubSeq(k.out, 1, k.sp) /\ r.sp = k.sp /\ r.need = k.need
            /\ r.col = k.col - (Len(k.out) - k.sp)
         \/ /\ k.sp >= 0 => k.col < LineLength - 1
            /\ k.pos < Len(src) /\ Goes(k, r, "scalar", 0, <<>>, k.col, k.sp, 0)
PROOF
  <1> DEFINE e == Batched(src, k)
             full == k.pos >= Len(src)
             room == k.pos + Batch < Len(src) /\ LineLength - k.col - 1 > Batch
             over == k.sp >= 0 /\ k.col >= LineLength - 1
             p == Put(k, Batch, e, k.col + Len(e), "batch")
  <1>1. EncodeStep(src, k) = EncodeBatch(src, k)
    BY DEF EncodeStep
  <1>2. /\ k \in EncodeConfig /\ {"done", "batch", "scalar"} \subseteq Parts
        /\ k.pos \in Nat /\ Len(src) \in Nat /\ k.pos <= Len(src) /\ k.col \in Nat
        /\ Batch \in Nat /\ LineLength \in Nat /\ k.out \in Seq(Byte)
        /\ Len(k.out) \in Nat
    BY CallFacts DEF Parts
  <1>0. ~(full /\ room) /\ ~(full /\ over) /\ ~(room /\ over)
    <2>1. ~(full /\ over)
      BY <1>2 DEF EncodeCalls
    <2> QED BY <1>2, <2>1
  <1>3. full => EncodeBatch(src, k) = [k EXCEPT !.at = "done"]
    BY Zenon, <1>0 DEF EncodeBatch
  <1>4. ~full /\ room => EncodeBatch(src, k) = [p EXCEPT !.sp = Len(k.out)]
    BY Zenon, <1>0 DEF EncodeBatch
  <1>5. ~full /\ ~room /\ over =>
          EncodeBatch(src, k) =
            [k EXCEPT !.at = "scalar", !.col = @ - (Len(k.out) - k.sp),
                      !.out = SubSeq(@, 1, k.sp), !.pos = @ - Batch]
    BY DEF EncodeBatch
  <1>6. ~full /\ ~room /\ ~over => EncodeBatch(src, k) = [k EXCEPT !.at = "scalar"]
    BY DEF EncodeBatch
  <1>7. full \/ k.pos < Len(src)
    BY <1>2
  <1>8. CASE full
    <2>1. k.pos = Len(src)
      BY <1>2, <1>8
    <2>2. Goes(k, [k EXCEPT !.at = "done"], "done", 0, <<>>, k.col, k.sp, 0)
      BY <1>2, JumpGoes
    <2> QED BY <1>1, <1>3, <1>8, <2>1, <2>2
  <1>9. CASE ~full /\ room
    <2>1. e \in Seq(Byte) /\ Len(e) \in Batch..(2 * Batch)
      <3>1. k.pos + Batch <= Len(src)
        BY <1>2, <1>9
      <3> QED BY <1>2, <3>1, BatchedBytes
    <2> DEFINE l == Len(e)
    <2>2. l \in Nat /\ l <= 2 * Batch /\ 2 * Batch \in Nat /\ k.col + l \in Nat
      <3>1. l \in Batch..(2 * Batch)
        BY <2>1
      <3> HIDE DEF l
      <3> QED BY <1>2, <3>1
    <2>3. Goes(k, p, "batch", Batch, e, k.col + Len(e), k.sp, 2 * Batch)
      <3> HIDE DEF e
      <3> QED BY <1>2, <2>1, <2>2, PutGoes
    <2> DEFINE r == [p EXCEPT !.sp = Len(k.out)]
    <2>4. k.col + Batch < LineLength - 1 /\ k.pos + Batch < Len(src)
      BY <1>2, <1>9
    <2> HIDE DEF p
    <2>5. Goes(k, r, "batch", Batch, e, k.col + Len(e), Len(k.out), 2 * Batch)
      <3>1. p \in EncodeConfig
        BY <2>3 DEF Goes
      <3>2. /\ r \in EncodeConfig /\ r.at = p.at /\ r.pos = p.pos /\ r.out = p.out
            /\ r.col = p.col /\ r.sp = Len(k.out) /\ r.need = p.need
        BY <1>2, <3>1 DEF EncodeConfig
      <3> HIDE DEF r, e
      <3> QED BY <2>3, <3>2 DEF Goes
    <2> QED BY <1>1, <1>4, <1>9, <2>4, <2>5
  <1>10. CASE ~full /\ ~room /\ over
    <2> DEFINE c == k.col - (Len(k.out) - k.sp)
               o == SubSeq(k.out, 1, k.sp)
               q == k.pos - Batch
               r == [k EXCEPT !.at = "scalar", !.col = c, !.out = o, !.pos = q]
    <2>1. k.sp \in Nat /\ Batch <= k.pos /\ k.sp <= Len(k.out)
          /\ Len(k.out) - k.sp <= k.col
      BY <1>10, CallFacts DEF EncodeCalls
    <2>2. c \in Nat
      <3> DEFINE l == Len(k.out)
                 s == k.sp
                 m == k.col
      <3>1. l \in Nat /\ s \in Nat /\ m \in Nat /\ s <= l /\ l - s <= m
        BY <1>2, <2>1
      <3> HIDE DEF l, s, m
      <3>2. m - (l - s) \in Nat
        BY <3>1
      <3> QED BY <3>2 DEF l, s, m
    <2>3. q \in Nat
      BY <1>2, <2>1
    <2>4. o \in Seq(Byte)
      BY <1>2, <2>1
    <2>5. EncodeStep(src, k) = r
      BY <1>1, <1>5, <1>10
    <2> HIDE DEF c, o, q
    <2>6. /\ r \in EncodeConfig /\ r.at = "scalar" /\ r.pos = q /\ r.out = o
          /\ r.sp = k.sp /\ r.need = k.need /\ r.col = c
      BY <1>2, <2>2, <2>3, <2>4 DEF EncodeConfig, Byte
    <2> HIDE DEF r
    <2> QED BY <1>7, <1>10, <2>5, <2>6 DEF c, o, q
  <1>11. CASE ~full /\ ~room /\ ~over
    <2>1. Goes(k, [k EXCEPT !.at = "scalar"], "scalar", 0, <<>>, k.col, k.sp, 0)
      BY <1>2, JumpGoes
    <2>2. k.sp >= 0 => k.col < LineLength - 1
      BY <1>2, <1>11
    <2> QED BY <1>1, <1>6, <1>7, <1>11, <2>1, <2>2
  <1> QED BY <1>8, <1>9, <1>10, <1>11

\* In the middle of a line.
LEMMA ScalarGoes ==
  ASSUME NEW src \in Seq(Byte), NEW k \in EncodeCalls(src), k.at = "scalar"
  PROVE  LET e == InLine(Next1(src, k))
             r == EncodeStep(src, k)
         IN
         \/ /\ k.col < LineLength - 1
            /\ \/ /\ k.pos + 1 = Len(src)
                  /\ Goes(k, r, "done", 1, e, k.col + Len(e), k.sp, 2)
               \/ /\ k.pos + 1 < Len(src)
                  /\ Goes(k, r, "scalar", 1, e, k.col + Len(e), k.sp, 2)
         \/ k.col >= LineLength - 1 /\ Goes(k, r, "last", 0, <<>>, k.col, k.sp, 0)
PROOF
  <1> DEFINE e == InLine(Next1(src, k))
             at == IF k.pos + 1 >= Len(src) THEN "done" ELSE "scalar"
             c == k.col + Len(e)
  <1>1. EncodeStep(src, k) = IF k.col < LineLength - 1 THEN Put(k, 1, e, c, at)
                             ELSE [k EXCEPT !.at = "last"]
    BY DEF EncodeStep, EncodeScalar
  <1>2. e \in Seq(Byte) /\ Len(e) \in Nat /\ Len(e) <= 2
    BY CallFacts, InLineBytes, OneOrTwo
  <1>3. /\ k \in EncodeConfig /\ {"done", "scalar", "last"} \subseteq Parts
        /\ k.pos < Len(src) /\ k.pos \in Nat /\ Len(src) \in Nat /\ k.col \in Nat
        /\ LineLength \in Nat
    BY CallFacts DEF Parts
  <1>4. /\ \/ at = "done" /\ k.pos + 1 = Len(src)
           \/ at = "scalar" /\ k.pos + 1 < Len(src)
        /\ k.col < LineLength - 1 \/ k.col >= LineLength - 1
        /\ ~(k.col < LineLength - 1 /\ k.col >= LineLength - 1)
    BY <1>3
  <1> HIDE DEF at, e
  <1>5. c \in Nat
    BY <1>2, <1>3
  <1> HIDE DEF c
  <1>6. Goes(k, Put(k, 1, e, c, at), at, 1, e, c, k.sp, 2)
    BY <1>2, <1>3, <1>4, <1>5, PutGoes
  <1>7. Goes(k, [k EXCEPT !.at = "last"], "last", 0, <<>>, k.col, k.sp, 0)
    BY <1>3, JumpGoes
  <1> QED BY <1>1, <1>4, <1>6, <1>7 DEF e, c

\* At the last character of a line.
LEMMA LastGoes ==
  ASSUME NEW src \in Seq(Byte), NEW k \in EncodeCalls(src), k.at = "last"
  PROVE  LET e == LastOfLine(Next1(src, k))
             r == EncodeStep(src, k)
         IN
         \/ /\ k.col < LineLength
            /\ \/ /\ k.pos + 1 = Len(src) /\ Goes(k, r, "done", 1, e, k.col, k.sp, 2)
               \/ /\ k.pos + 1 < Len(src) /\ Goes(k, r, "newline", 1, e, k.col, k.sp, 2)
         \/ k.col >= LineLength /\ Goes(k, r, "newline", 0, <<>>, k.col, k.sp, 0)
PROOF
  <1> DEFINE e == LastOfLine(Next1(src, k))
             at == IF k.pos + 1 >= Len(src) THEN "done" ELSE "newline"
  <1>1. EncodeStep(src, k) = IF k.col < LineLength THEN Put(k, 1, e, k.col, at)
                             ELSE [k EXCEPT !.at = "newline"]
    BY DEF EncodeStep, EncodeLast
  <1>2. e \in Seq(Byte) /\ Len(e) \in Nat /\ Len(e) <= 2
    BY CallFacts, InLineBytes, OneOrTwo
  <1>3. /\ k \in EncodeConfig /\ {"done", "newline"} \subseteq Parts
        /\ k.pos < Len(src) /\ k.pos \in Nat /\ Len(src) \in Nat /\ k.col \in Nat
        /\ LineLength \in Nat
    BY CallFacts DEF Parts
  <1>4. /\ \/ at = "done" /\ k.pos + 1 = Len(src)
           \/ at = "newline" /\ k.pos + 1 < Len(src)
        /\ k.col < LineLength \/ k.col >= LineLength
        /\ ~(k.col < LineLength /\ k.col >= LineLength)
    BY <1>3
  <1> HIDE DEF at, e
  <1>5. Goes(k, Put(k, 1, e, k.col, at), at, 1, e, k.col, k.sp, 2)
    BY <1>2, <1>3, <1>4, PutGoes
  <1>6. Goes(k, [k EXCEPT !.at = "newline"], "newline", 0, <<>>, k.col, k.sp, 0)
    BY <1>3, JumpGoes
  <1> QED BY <1>1, <1>4, <1>5, <1>6 DEF e

\* At the line end, and the character behind it.
LEMMA NewlineGoes ==
  ASSUME NEW src \in Seq(Byte), NEW k \in EncodeCalls(src), k.at = "newline"
  PROVE  LET e == FirstOfLine(Next1(src, k)) IN
         Goes(k, EncodeStep(src, k), "batch", 1, LineEnd \o e, Len(e), -1, 4)
PROOF
  <1> DEFINE e == FirstOfLine(Next1(src, k))
             p == Put(k, 1, LineEnd \o e, Len(e), "batch")
             need == IF Len(k.out) + 4 > p.need THEN Len(k.out) + 4 ELSE p.need
             r == [p EXCEPT !.sp = -1, !.need = need]
  <1>1. EncodeStep(src, k) = r
    BY DEF EncodeStep, EncodeNewline
  <1>2. e \in Seq(Byte) /\ Len(e) \in Nat /\ Len(e) <= 2
    BY CallFacts, InLineBytes, OneOrTwo
  <1>3. k \in EncodeConfig /\ "batch" \in Parts /\ k.need \in Nat /\ Len(k.out) \in Nat
    BY CallFacts DEF Parts
  <1> HIDE DEF e
  <1>4. LineEnd \o e \in Seq(Byte) /\ Len(LineEnd \o e) <= 4
    <2>1. LineEnd \in Seq(Byte) /\ Len(LineEnd) = 2
      BY DEF LineEnd, Byte
    <2>2. LineEnd \o e \in Seq(Byte) /\ Len(LineEnd \o e) = Len(LineEnd) + Len(e)
      BY <1>2, <2>1, ConcatProperties
    <2> QED BY <1>2, <2>1, <2>2
  <1>5. Goes(k, p, "batch", 1, LineEnd \o e, Len(e), k.sp, 4)
    BY <1>2, <1>3, <1>4, PutGoes
  <1> HIDE DEF p
  <1>6. p \in EncodeConfig /\ p.need \in Nat /\ (p.need = k.need \/ p.need <= Len(k.out) + 4)
    BY <1>5 DEF Goes, EncodeConfig
  <1>7. need \in Nat /\ (need = k.need \/ need <= Len(k.out) + 4)
    BY <1>3, <1>6
  <1> HIDE DEF need
  <1>8. /\ r \in EncodeConfig /\ r.at = p.at /\ r.pos = p.pos /\ r.out = p.out
        /\ r.col = p.col /\ r.sp = -1 /\ r.need = need
    BY <1>6, <1>7 DEF EncodeConfig
  <1> HIDE DEF r
  <1>9. Goes(k, r, "batch", 1, LineEnd \o e, Len(e), -1, 4)
    BY <1>5, <1>7, <1>8 DEF Goes
  <1> QED BY <1>1, <1>9 DEF e

-----------------------------------------------------------------------------
(***************************************************************************)
(* A call comes to its end.  The bytes to be encoded get fewer, of which   *)
(* those of a batch that may be taken back are some, or the loop comes to  *)
(* a part that is nearer to its end.                                       *)
(***************************************************************************)
PartRank(k) ==
  CASE k.at = "first"   -> 6
    [] k.at = "batch"   -> IF k.sp >= 0 THEN 4 ELSE 5
    [] k.at = "scalar"  -> 3
    [] k.at = "last"    -> 2
    [] k.at = "newline" -> 1
    [] k.at = "done"    -> 0

MayTakeBack(k) == IF k.at = "batch" /\ k.sp >= 0 THEN Batch ELSE 0

EncodeRank(src, k) == 7 * (Len(src) - k.pos + MayTakeBack(k)) + PartRank(k)

\* The rank is a natural number.
LEMMA EncodeRankIsNat ==
  ASSUME NEW src \in Seq(Byte), NEW k \in EncodeCalls(src)
  PROVE  /\ EncodeRank(src, k) \in Nat
         /\ PartRank(k) \in 0..6 /\ MayTakeBack(k) \in {0, Batch}
PROOF
  <1>1. /\ k.pos \in Nat /\ Len(src) \in Nat /\ k.pos <= Len(src) /\ k.at \in Parts
        /\ Batch \in Nat
    BY CallFacts
  <1>2. PartRank(k) \in 0..6
    BY <1>1 DEF PartRank, Parts
  <1>3. MayTakeBack(k) \in {0, Batch}
    BY DEF MayTakeBack
  <1>4. \A l, p, b \in Nat, i \in 0..6 : p <= l => 7 * (l - p + b) + i \in Nat
    OBVIOUS
  <1>5. MayTakeBack(k) \in Nat
    BY <1>1, <1>3
  <1>6. 7 * (Len(src) - k.pos + MayTakeBack(k)) + PartRank(k) \in Nat
    BY <1>1, <1>2, <1>4, <1>5
  <1> QED BY <1>2, <1>3, <1>6 DEF EncodeRank

\* A step that gets nearer to the end of src, or of the loop, lowers the rank.
LEMMA EncodeRankLowers ==
  ASSUME NEW src \in Seq(Byte), NEW k \in EncodeCalls(src), NEW r \in EncodeCalls(src),
         \/ k.pos + MayTakeBack(r) < r.pos + MayTakeBack(k)
         \/ /\ k.pos + MayTakeBack(r) = r.pos + MayTakeBack(k)
            /\ PartRank(r) < PartRank(k)
  PROVE  EncodeRank(src, r) < EncodeRank(src, k)
PROOF
  <1>1. /\ k.pos \in Nat /\ r.pos \in Nat /\ Len(src) \in Nat
        /\ MayTakeBack(k) \in Nat /\ MayTakeBack(r) \in Nat
        /\ PartRank(k) \in 0..6 /\ PartRank(r) \in 0..6
    <2>1. Batch \in Nat
      BY CallFacts
    <2> QED BY <2>1, CallFacts, EncodeRankIsNat
  <1>2. \A l, p, q, b, c \in Nat, i, j \in 0..6 :
          (p + c < q + b) \/ (p + c = q + b /\ j < i) =>
            7 * (l - q + c) + j < 7 * (l - p + b) + i
    OBVIOUS
  <1>3. 7 * (Len(src) - r.pos + MayTakeBack(r)) + PartRank(r)
          < 7 * (Len(src) - k.pos + MayTakeBack(k)) + PartRank(k)
    BY <1>1, <1>2
  <1> QED BY <1>3 DEF EncodeRank

\* Where a step can go within src.
LEMMA GoesCalls ==
  ASSUME NEW src \in Seq(Byte), NEW k \in EncodeCalls(src), NEW r,
         NEW at \in Parts \ {"first"}, NEW n \in Nat, NEW e, NEW col, NEW sp, NEW w,
         Goes(k, r, at, n, e, col, sp, w), k.pos + n <= Len(src),
         at \notin {"batch", "done"} => k.pos + n < Len(src),
         ~(at = "batch" /\ sp >= 0)
  PROVE  /\ r \in EncodeCalls(src) /\ MayTakeBack(r) = 0
         /\ r.pos = k.pos + n /\ r.at = at
PROOF
  <1>1. r \in EncodeConfig /\ r.at = at /\ r.pos = k.pos + n /\ r.sp = sp
    BY DEF Goes
  <1> QED BY <1>1 DEF EncodeCalls, MayTakeBack

\* A step that goes on in src, or to a later part.
LEMMA GoesOn ==
  ASSUME NEW src \in Seq(Byte), NEW k \in EncodeCalls(src), NEW r,
         NEW at \in Parts \ {"first"}, NEW n \in Nat, NEW e, NEW col, NEW sp, NEW w,
         Goes(k, r, at, n, e, col, sp, w), k.pos + n <= Len(src),
         at \notin {"batch", "done"} => k.pos + n < Len(src),
         ~(at = "batch" /\ sp >= 0),
         \/ n > 0
         \/ PartRank(r) < PartRank(k)
  PROVE  r \in EncodeCalls(src) /\ EncodeRank(src, r) < EncodeRank(src, k)
PROOF
  <1>1. /\ r \in EncodeCalls(src) /\ MayTakeBack(r) = 0
        /\ r.pos = k.pos + n /\ r.at = at
    BY GoesCalls
  <1>2. /\ k.pos \in Nat /\ MayTakeBack(k) \in Nat
        /\ PartRank(k) \in 0..6 /\ PartRank(r) \in 0..6
    <2>1. Batch \in Nat
      BY CallFacts
    <2> QED BY <1>1, <2>1, CallFacts, EncodeRankIsNat
  <1>3. \/ k.pos + MayTakeBack(r) < r.pos + MayTakeBack(k)
        \/ /\ k.pos + MayTakeBack(r) = r.pos + MayTakeBack(k)
           /\ PartRank(r) < PartRank(k)
    BY <1>1, <1>2
  <1> QED BY <1>1, <1>3, EncodeRankLowers

\* Every step of a call stays in it and lowers its rank.
LEMMA EncodeStepAdvances ==
  ASSUME NEW src \in Seq(Byte), NEW k \in EncodeCalls(src), k.at # "done"
  PROVE  /\ EncodeStep(src, k) \in EncodeCalls(src)
         /\ EncodeRank(src, EncodeStep(src, k)) < EncodeRank(src, k)
PROOF
  <1> DEFINE r == EncodeStep(src, k)
  <1>1. /\ k \in EncodeConfig /\ k.at \in Parts
        /\ k.pos \in Nat /\ Len(src) \in Nat /\ k.pos <= Len(src)
        /\ k.out \in Seq(Byte) /\ k.col \in Nat /\ k.sp \in Nat \cup {-1}
        /\ Len(k.out) \in Nat /\ Batch \in Nat /\ Batch >= 1
        /\ k.at \notin {"batch", "done"} => k.pos < Len(src)
    BY CallFacts
  <1>2. /\ Parts \ {"first"} = {"batch", "scalar", "last", "newline", "done"}
        /\ 0 \in Nat /\ 1 \in Nat /\ 1 > 0 /\ ~(-1 >= 0)
        /\ k.pos + 0 = k.pos /\ (k.pos < Len(src) => k.pos + 1 <= Len(src))
    BY <1>1 DEF Parts
  <1> HIDE DEF r
  <1>3. CASE k.at = "first"
    <2>1. k.sp = -1
      BY <1>3 DEF EncodeCalls
    <2>2. \E e, col, w :
            \/ Goes(k, r, "batch", 1, e, col, k.sp, w)
            \/ Goes(k, r, "batch", 0, e, col, k.sp, w)
      BY <1>3, FirstGoes DEF r
    <2>3. \A e, col, w : Goes(k, r, "batch", 0, e, col, k.sp, w) =>
            PartRank(r) < PartRank(k)
      BY <1>3, <2>1 DEF PartRank, Goes
    <2>4. PICK e, col, w :
            \/ Goes(k, r, "batch", 1, e, col, k.sp, w)
            \/ Goes(k, r, "batch", 0, e, col, k.sp, w)
      BY <2>2
    <2> QED BY <1>1, <1>2, <1>3, <2>1, <2>3, <2>4, GoesOn DEF r
  <1>4. CASE k.at = "scalar"
    <2>1. \E e, col, w :
            \/ k.pos + 1 = Len(src) /\ Goes(k, r, "done", 1, e, col, k.sp, w)
            \/ k.pos + 1 < Len(src) /\ Goes(k, r, "scalar", 1, e, col, k.sp, w)
            \/ Goes(k, r, "last", 0, e, col, k.sp, w)
      BY <1>4, ScalarGoes DEF r
    <2>2. \A e, col, w : Goes(k, r, "last", 0, e, col, k.sp, w) =>
            PartRank(r) < PartRank(k)
      BY <1>4 DEF PartRank, Goes
    <2>3. PICK e, col, w :
            \/ k.pos + 1 = Len(src) /\ Goes(k, r, "done", 1, e, col, k.sp, w)
            \/ k.pos + 1 < Len(src) /\ Goes(k, r, "scalar", 1, e, col, k.sp, w)
            \/ Goes(k, r, "last", 0, e, col, k.sp, w)
      BY <2>1
    <2> QED BY <1>1, <1>2, <1>4, <2>2, <2>3, GoesOn DEF r
  <1>5. CASE k.at = "last"
    <2>1. \E e, col, w :
            \/ k.pos + 1 = Len(src) /\ Goes(k, r, "done", 1, e, col, k.sp, w)
            \/ k.pos + 1 < Len(src) /\ Goes(k, r, "newline", 1, e, col, k.sp, w)
            \/ Goes(k, r, "newline", 0, e, col, k.sp, w)
      BY <1>5, LastGoes DEF r
    <2>2. \A e, col, w : Goes(k, r, "newline", 0, e, col, k.sp, w) =>
            PartRank(r) < PartRank(k)
      BY <1>5 DEF PartRank, Goes
    <2>3. PICK e, col, w :
            \/ k.pos + 1 = Len(src) /\ Goes(k, r, "done", 1, e, col, k.sp, w)
            \/ k.pos + 1 < Len(src) /\ Goes(k, r, "newline", 1, e, col, k.sp, w)
            \/ Goes(k, r, "newline", 0, e, col, k.sp, w)
      BY <2>1
    <2> QED BY <1>1, <1>2, <1>5, <2>2, <2>3, GoesOn DEF r
  <1>6. CASE k.at = "newline"
    <2>1. PICK e, col, w : Goes(k, r, "batch", 1, e, col, -1, w)
      BY <1>6, NewlineGoes DEF r
    <2> QED BY <1>1, <1>2, <1>6, <2>1, GoesOn DEF r
  <1>7. CASE k.at = "batch"
    <2> DEFINE b == Batched(src, k)
               full == Goes(k, r, "batch", Batch, b, k.col + Len(b), Len(k.out), 2 * Batch)
    <2>1. \/ k.pos = Len(src) /\ Goes(k, r, "done", 0, <<>>, k.col, k.sp, 0)
          \/ /\ k.pos + Batch < Len(src) /\ full
          \/ /\ k.sp >= 0 /\ k.pos < Len(src)
             /\ r \in EncodeConfig /\ r.at = "scalar" /\ r.pos = k.pos - Batch
          \/ k.pos < Len(src) /\ Goes(k, r, "scalar", 0, <<>>, k.col, k.sp, 0)
      BY <1>7, BatchGoes DEF r
    <2>2. /\ Goes(k, r, "done", 0, <<>>, k.col, k.sp, 0) => PartRank(r) < PartRank(k)
          /\ Goes(k, r, "scalar", 0, <<>>, k.col, k.sp, 0) => PartRank(r) < PartRank(k)
      BY <1>7 DEF PartRank, Goes
    <2>3. CASE k.pos = Len(src) /\ Goes(k, r, "done", 0, <<>>, k.col, k.sp, 0)
      BY <1>1, <1>2, <2>2, <2>3, GoesOn DEF r
    <2>4. CASE k.pos < Len(src) /\ Goes(k, r, "scalar", 0, <<>>, k.col, k.sp, 0)
      BY <1>1, <1>2, <2>2, <2>4, GoesOn DEF r
    <2>5. CASE k.pos + Batch < Len(src) /\ full
      <3>1. /\ r \in EncodeConfig /\ r.at = "batch" /\ r.pos = k.pos + Batch
            /\ r.out = k.out \o b /\ r.col = k.col + Len(b) /\ r.sp = Len(k.out)
        BY <2>5 DEF Goes
      <3>2. b \in Seq(Byte) /\ Len(b) \in Nat /\ Len(r.out) = Len(k.out) + Len(b)
        <4>1. k.pos + Batch <= Len(src)
          BY <1>1, <2>5
        <4>2. b \in Seq(Byte)
          BY <1>1, <4>1, BatchedBytes
        <4> HIDE DEF b
        <4> QED BY <1>1, <3>1, <4>2, ConcatProperties
      <3> DEFINE m == Len(b)
                 l == Len(k.out)
                 o == Len(r.out)
      <3>3. m \in Nat /\ l \in Nat /\ o = l + m /\ r.sp = l /\ r.col = k.col + m
        BY <1>1, <3>1, <3>2
      <3> HIDE DEF m, l, o, b
      <3>4. r.sp >= 0 /\ r.sp <= o /\ o - r.sp <= r.col
            /\ Batch <= r.pos /\ r.pos < Len(src) /\ r.pos <= Len(src)
        BY SMTT(30), <1>1, <2>5, <3>1, <3>3
      <3>5. r \in EncodeCalls(src)
        BY <3>1, <3>4 DEF EncodeCalls, o
      <3>6. MayTakeBack(r) = Batch /\ PartRank(r) = 4
        BY <3>1, <3>4 DEF MayTakeBack, PartRank
      <3>7. MayTakeBack(k) = Batch \/ (MayTakeBack(k) = 0 /\ PartRank(k) = 5)
        BY <1>1, <1>7 DEF MayTakeBack, PartRank
      <3>8. \/ k.pos + MayTakeBack(r) < r.pos + MayTakeBack(k)
            \/ /\ k.pos + MayTakeBack(r) = r.pos + MayTakeBack(k)
               /\ PartRank(r) < PartRank(k)
        BY <1>1, <3>1, <3>6, <3>7
      <3> QED BY <3>5, <3>8, EncodeRankLowers DEF r
    <2>6. CASE /\ k.sp >= 0 /\ k.pos < Len(src)
               /\ r \in EncodeConfig /\ r.at = "scalar" /\ r.pos = k.pos - Batch
      <3>1. Batch <= k.pos
        BY <1>7, <2>6 DEF EncodeCalls
      <3>2. r.pos \in Nat /\ r.pos < Len(src) /\ r.pos + Batch = k.pos
        BY <1>1, <2>6, <3>1
      <3>3. r \in EncodeCalls(src)
        BY <1>1, <2>6, <3>2 DEF EncodeCalls
      <3>4. MayTakeBack(r) = 0 /\ PartRank(r) = 3
        BY <2>6 DEF MayTakeBack, PartRank
      <3>5. MayTakeBack(k) = Batch /\ PartRank(k) = 4
        BY <1>7, <2>6 DEF MayTakeBack, PartRank
      <3>6. k.pos + MayTakeBack(r) = r.pos + MayTakeBack(k) /\ PartRank(r) < PartRank(k)
        BY <1>1, <3>2, <3>4, <3>5
      <3> QED BY <3>3, <3>6, EncodeRankLowers DEF r
    <2> QED BY <2>1, <2>3, <2>4, <2>5, <2>6
  <1> QED BY <1>1, <1>3, <1>4, <1>5, <1>6, <1>7 DEF Parts

-----------------------------------------------------------------------------
(***************************************************************************)
(* How much is written.  When n bytes have become o characters, c of which *)
(* are on the line that goes on, E line ends are among them: each but the  *)
(* first is behind LineLength characters at least, and dest is written to  *)
(* as far as need.                                                         *)
(***************************************************************************)
Counts(E, o, n, c, need, len) ==
  /\ n <= o /\ o <= 2 * n + 2 * E
  /\ E > 0 => 2 * E + (E - 1) * LineLength + c <= o
  /\ need <= 2 * len + 2 * E

Room(o, n, c, need, len) == \E E \in Nat : Counts(E, o, n, c, need, len)

\* m bytes more become l characters on the same line.
LEMMA RoomGrows ==
  ASSUME NEW o \in Nat, NEW n \in Nat, NEW c \in Nat, NEW need \in Nat, NEW len \in Nat,
         Room(o, n, c, need, len),
         NEW m \in Nat, NEW l \in Nat, m <= l, l <= 2 * m, n + m <= len,
         NEW c2 \in Nat, c2 <= c + l,
         NEW need2 \in Nat, need2 = need \/ need2 <= o + 2 * m
  PROVE  Room(o + l, n + m, c2, need2, len) /\ Room(o, n, c, need2, len)
PROOF
  <1>1. PICK E \in Nat : Counts(E, o, n, c, need, len)
    BY DEF Room
  <1>2. LineLength \in Nat
    BY EncodeAssumption
  <1> DEFINE P == (E - 1) * LineLength
  <1>3. P \in Int
    BY <1>2
  <1>4. /\ n <= o /\ o <= 2 * n + 2 * E /\ need <= 2 * len + 2 * E
        /\ E > 0 => 2 * E + P + c <= o
    BY <1>1 DEF Counts
  <1> HIDE DEF P
  <1>5. /\ n + m <= o + l /\ o + l <= 2 * (n + m) + 2 * E /\ need2 <= 2 * len + 2 * E
        /\ E > 0 => 2 * E + P + c2 <= o + l
    BY <1>3, <1>4
  <1>6. Counts(E, o + l, n + m, c2, need2, len) /\ Counts(E, o, n, c, need2, len)
    BY <1>4, <1>5 DEF Counts, P
  <1> QED BY <1>6 DEF Room

\* A full line is ended, and a byte begins the next one.
LEMMA RoomForLine ==
  ASSUME NEW o \in Nat, NEW n \in Nat, NEW need \in Nat, NEW len \in Nat,
         Room(o, n, LineLength, need, len), n + 1 <= len,
         NEW l \in 1..2,
         NEW need2 \in Nat, need2 = need \/ need2 <= o + 4
  PROVE  Room(o + 2 + l, n + 1, l, need2, len)
PROOF
  <1>1. PICK E \in Nat : Counts(E, o, n, LineLength, need, len)
    BY DEF Room
  <1>2. LineLength \in Nat
    BY EncodeAssumption
  <1> DEFINE P == (E - 1) * LineLength
             Q == ((E + 1) - 1) * LineLength
  <1>3. P \in Int /\ Q = P + LineLength /\ (E = 0 => Q = 0)
    BY <1>2
  <1>4. /\ n <= o /\ o <= 2 * n + 2 * E /\ need <= 2 * len + 2 * E
        /\ E > 0 => 2 * E + P + LineLength <= o
    BY <1>1 DEF Counts
  <1> HIDE DEF P, Q
  <1>5. /\ n + 1 <= o + 2 + l /\ o + 2 + l <= 2 * (n + 1) + 2 * (E + 1)
        /\ need2 <= 2 * len + 2 * (E + 1)
        /\ 2 * (E + 1) + Q + l <= o + 2 + l
    BY <1>2, <1>3, <1>4
  <1>6. Counts(E + 1, o + 2 + l, n + 1, l, need2, len)
    BY <1>5 DEF Counts, Q
  <1> QED BY <1>6 DEF Room

\* What that comes to.
LEMMA RoomBound ==
  ASSUME NEW o \in Nat, NEW n \in Nat, NEW c \in Nat, NEW need \in Nat, NEW len \in Nat,
         Room(o, n, c, need, len), n <= len
  PROVE  need <= 2 * len + 2 + 2 * ((2 * len) \div LineLength)
PROOF
  <1>1. PICK E \in Nat : Counts(E, o, n, c, need, len)
    BY DEF Room
  <1>2. LineLength \in Nat /\ LineLength >= 1
    BY EncodeAssumption
  <1> DEFINE q == (2 * len) \div LineLength
             P == (E - 1) * LineLength
  <1>3. q \in Nat
    BY <1>2
  <1>4. P \in Int /\ need <= 2 * len + 2 * E /\ (E > 0 => P <= 2 * len)
    <2>1. P \in Int
      BY <1>2
    <2>2. /\ n <= o /\ o <= 2 * n + 2 * E /\ need <= 2 * len + 2 * E
          /\ E > 0 => 2 * E + P + c <= o
      BY <1>1 DEF Counts
    <2> HIDE DEF P
    <2> QED BY <2>1, <2>2
  <1>5. E > 0 => E - 1 <= q
    <2>1. 2 * len < (q + 1) * LineLength
      BY <1>2
    <2> SUFFICES ASSUME E > 0, E - 1 > q
                 PROVE  FALSE
      BY <1>3
    <2>2. E - 1 >= q + 1
      BY <1>3
    <2>3. (q + 1) * LineLength <= (E - 1) * LineLength
      <3> HIDE DEF q
      <3> QED BY <1>2, <1>3, <2>2
    <2> QED BY <1>2, <1>3, <1>4, <2>1, <2>3
  <1> HIDE DEF q, P
  <1>6. need <= 2 * len + 2 + 2 * q
    BY <1>3, <1>4, <1>5
  <1> QED BY <1>6 DEF q

-----------------------------------------------------------------------------
(* The invariant of a call.                                                *)

\* The context cl of a call: what it is given, what the calls before have
\* written to the body, and of which data.
EncodeContext(cl) ==
  cl.src \in Seq(Byte) /\ cl.text \in Seq(Byte) /\ cl.data \in Seq(Byte)

\* The data up to the n-th byte of the call.
Given(cl, n) == cl.data \o SubSeq(cl.src, 1, n)

Written(cl, o, n, st) == o \in Seq(Byte) /\ Encodes(cl.text \o o, Given(cl, n), st)

\* n bytes have become o, which leaves the reader within a line with c characters.
Stage(cl, o, n, c, need) ==
  Written(cl, o, n, "NONE") /\ c \in Nat /\ c >= 1 /\ Room(Len(o), n, c, need, Len(cl.src))

LineState(col) == IF col = 0 THEN "CRLF" ELSE "NONE"

\* Text behind text behind text.
LEMMA Regroup ==
  ASSUME NEW a \in Seq(Byte), NEW b \in Seq(Byte), NEW c \in Seq(Byte)
  PROVE  /\ (a \o b) \o c = a \o (b \o c) /\ b \o c \in Seq(Byte)
         /\ Len(b \o c) = Len(b) + Len(c) /\ Len(b) \in Nat /\ Len(c) \in Nat
PROOF
  <1>1. (a \o b) \o c = a \o (b \o c)
    BY ConcatAssociative
  <1>2. b \o c \in Seq(Byte) /\ Len(b \o c) = Len(b) + Len(c)
    BY ConcatProperties
  <1> QED BY <1>1, <1>2

\* One byte more on the line.
LEMMA StageGrows ==
  ASSUME NEW cl, EncodeContext(cl), NEW o, NEW n \in Nat, NEW c, NEW need \in Nat,
         Stage(cl, o, n, c, need), n < Len(cl.src),
         NEW e, e \in {InLine(cl.src[n + 1]), LastOfLine(cl.src[n + 1])},
         NEW c2 \in Nat, 1 <= c2, c2 <= c + Len(e),
         NEW need2 \in Nat, need2 = need \/ need2 <= Len(o) + 2
  PROVE  Stage(cl, o \o e, n + 1, c2, need2)
PROOF
  <1> DEFINE x == cl.src[n + 1]
  <1>1. /\ cl.src \in Seq(Byte) /\ cl.text \in Seq(Byte) /\ cl.data \in Seq(Byte)
        /\ o \in Seq(Byte) /\ Encodes(cl.text \o o, Given(cl, n), "NONE")
        /\ c \in Nat /\ Room(Len(o), n, c, need, Len(cl.src))
    BY DEF EncodeContext, Stage, Written
  <1>2. x \in Byte /\ Given(cl, n + 1) = Append(Given(cl, n), x)
    BY <1>1, SliceGrows DEF Given
  <1> HIDE DEF x
  <1>3. /\ e \in Seq(Byte) /\ Len(e) \in 1..2
        /\ Encodes((cl.text \o o) \o e, Given(cl, n + 1), "NONE")
    BY <1>1, <1>2, InLineEncodes DEF x
  <1>4. (cl.text \o o) \o e = cl.text \o (o \o e) /\ o \o e \in Seq(Byte)
        /\ Len(o \o e) = Len(o) + Len(e)
    <2> DEFINE t == cl.text
    <2>1. t \in Seq(Byte) /\ o \in Seq(Byte) /\ e \in Seq(Byte)
      BY <1>1, <1>3
    <2> HIDE DEF t
    <2>2. (t \o o) \o e = t \o (o \o e) /\ o \o e \in Seq(Byte)
          /\ Len(o \o e) = Len(o) + Len(e)
      BY Zenon, <2>1, Regroup
    <2> QED BY <2>2 DEF t
  <1>5. Room(Len(o) + Len(e), n + 1, c2, need2, Len(cl.src))
    <2> DEFINE l == Len(e)
               p == Len(o)
               m == Len(cl.src)
    <2>5. l \in 1..2
      BY <1>3
    <2>1. p \in Nat /\ m \in Nat /\ l \in Nat /\ 1 <= l /\ l <= 2 /\ c2 <= c + l
          /\ n < m /\ (need2 = need \/ need2 <= p + 2)
      <3>1. p \in Nat /\ m \in Nat
        BY <1>1
      <3>2. c2 <= c + l /\ n < m /\ (need2 = need \/ need2 <= p + 2)
        OBVIOUS
      <3> HIDE DEF l, p, m
      <3>3. l \in Nat /\ 1 <= l /\ l <= 2
        BY <2>5, OneOrTwo
      <3> QED BY <3>1, <3>2, <3>3
    <2>2. Room(p, n, c, need, m)
      BY <1>1
    <2> HIDE DEF l, p, m
    <2>3. n + 1 <= m /\ l <= 2 * 1 /\ (need2 = need \/ need2 <= p + 2 * 1)
      BY <2>1
    <2>4. Room(p + l, n + 1, c2, need2, m)
      BY <1>1, <2>1, <2>2, <2>3, RoomGrows
    <2> QED BY <2>4 DEF l, p, m
  <1> QED BY <1>3, <1>4, <1>5 DEF Stage, Written

\* A batch more on the line.
LEMMA StageBatch ==
  ASSUME NEW cl, EncodeContext(cl), NEW k \in EncodeConfig, NEW c, NEW need \in Nat,
         Stage(cl, k.out, k.pos, c, need), k.pos + Batch <= Len(cl.src),
         NEW need2 \in Nat, need2 = need \/ need2 <= Len(k.out) + 2 * Batch
  PROVE  LET e == Batched(cl.src, k) IN
         /\ Stage(cl, k.out \o e, k.pos + Batch, c + Len(e), need2)
         /\ Stage(cl, k.out, k.pos, c, need2)
PROOF
  <1> DEFINE e == Batched(cl.src, k)
             o == k.out
             n == k.pos
  <1>1. /\ cl.src \in Seq(Byte) /\ cl.text \in Seq(Byte) /\ cl.data \in Seq(Byte)
        /\ o \in Seq(Byte) /\ Encodes(cl.text \o o, Given(cl, n), "NONE")
        /\ c \in Nat /\ c >= 1 /\ Room(Len(o), n, c, need, Len(cl.src))
    BY DEF EncodeContext, Stage, Written
  <1>2. n \in Nat /\ Batch \in Nat /\ cl.text \o o \in Seq(Byte)
    BY <1>1, EncodeAssumption, Regroup DEF EncodeConfig
  <1>3. e \in Seq(Byte) /\ Len(e) \in Batch..(2 * Batch)
    BY <1>1, BatchedBytes
  <1>4. Encodes((cl.text \o o) \o e, Given(cl, n + Batch), "NONE")
    <2>1. Encodes(cl.text \o o, cl.data \o SubSeq(cl.src, 1, k.pos), "NONE")
      BY <1>1 DEF Given
    <2> HIDE DEF o
    <2> QED BY <1>1, <1>2, <2>1, BatchEncodes DEF Given
  <1> HIDE DEF e, o, n
  <1>5. (cl.text \o o) \o e = cl.text \o (o \o e) /\ o \o e \in Seq(Byte)
        /\ Len(o \o e) = Len(o) + Len(e)
    <2> DEFINE t == cl.text
    <2>1. t \in Seq(Byte) /\ o \in Seq(Byte) /\ e \in Seq(Byte)
      BY <1>1, <1>3
    <2> HIDE DEF t
    <2>2. (t \o o) \o e = t \o (o \o e) /\ o \o e \in Seq(Byte)
          /\ Len(o \o e) = Len(o) + Len(e)
      BY <2>1, Regroup
    <2> QED BY <2>2 DEF t
  <1> DEFINE l == Len(e)
             p == Len(o)
             m == Len(cl.src)
  <1>6. l \in Nat /\ Batch <= l /\ l <= 2 * Batch
    <2>1. l \in Batch..(2 * Batch)
      BY <1>3
    <2> HIDE DEF l
    <2> QED BY <1>2, <2>1
  <1>7. /\ Room(p + l, n + Batch, c + l, need2, m)
        /\ Room(p, n, c, need2, m)
    <2>1. p \in Nat /\ m \in Nat /\ n + Batch <= m
          /\ (need2 = need \/ need2 <= p + 2 * Batch)
      BY <1>1 DEF o, n
    <2>2. Room(p, n, c, need, m)
      BY <1>1
    <2> HIDE DEF l, p, m
    <2>3. c + l \in Nat /\ c + l <= c + l
      BY <1>1, <1>6
    <2> QED BY <1>1, <1>2, <1>6, <2>1, <2>2, <2>3, RoomGrows
  <1>8. c + l \in Nat /\ c + l >= 1
    <2> HIDE DEF l
    <2> QED BY <1>1, <1>6
  <1>9. /\ Stage(cl, o \o e, n + Batch, c + Len(e), need2)
        /\ Stage(cl, o, n, c, need2)
    BY <1>1, <1>4, <1>5, <1>7, <1>8 DEF Stage, Written
  <1> QED BY <1>9 DEF o, n, e

\* The next line, when this one is full.
LEMMA StageNextLine ==
  ASSUME NEW cl, EncodeContext(cl), NEW o, NEW n \in Nat, NEW need \in Nat,
         Stage(cl, o, n, LineLength, need), n < Len(cl.src),
         NEW need2 \in Nat, need2 = need \/ need2 <= Len(o) + 4
  PROVE  LET e == FirstOfLine(cl.src[n + 1]) IN
         Stage(cl, o \o (LineEnd \o e), n + 1, Len(e), need2)
PROOF
  <1> DEFINE x == cl.src[n + 1]
             e == FirstOfLine(cl.src[n + 1])
  <1>1. /\ cl.src \in Seq(Byte) /\ cl.text \in Seq(Byte) /\ cl.data \in Seq(Byte)
        /\ o \in Seq(Byte) /\ Encodes(cl.text \o o, Given(cl, n), "NONE")
        /\ Room(Len(o), n, LineLength, need, Len(cl.src))
    BY DEF EncodeContext, Stage, Written
  <1>2. x \in Byte /\ Given(cl, n + 1) = Append(Given(cl, n), x)
    BY <1>1, SliceGrows DEF Given
  <1>3. e = FirstOfLine(x)
    OBVIOUS
  <1> HIDE DEF x, e
  <1> DEFINE w == (cl.text \o o) \o LineEnd
  <1>4. Encodes(w, Given(cl, n), "CRLF")
    BY <1>1, LineEndEncodes
  <1>5. LineEnd \in Seq(Byte) /\ Len(LineEnd) = 2
    BY DEF LineEnd, Byte
  <1>6. /\ e \in Seq(Byte) /\ Len(e) \in 1..2
        /\ Encodes(w \o e, Given(cl, n + 1), "NONE")
    BY <1>2, <1>3, <1>4, FirstEncodes
  <1>7. w \o e = cl.text \o (o \o (LineEnd \o e))
    <2>1. cl.text \o o \in Seq(Byte) /\ LineEnd \o e \in Seq(Byte)
      BY <1>1, <1>5, <1>6, Regroup
    <2>2. w \o e = (cl.text \o o) \o (LineEnd \o e)
      BY ZenonT(60), <1>5, <1>6, <2>1, Regroup
    <2>3. (cl.text \o o) \o (LineEnd \o e) = cl.text \o (o \o (LineEnd \o e))
      <3> DEFINE t == cl.text
                 f == LineEnd \o e
      <3>1. t \in Seq(Byte) /\ o \in Seq(Byte) /\ f \in Seq(Byte)
        BY <1>1, <2>1
      <3> HIDE DEF t, f
      <3>2. (t \o o) \o f = t \o (o \o f)
        BY <3>1, Regroup
      <3> QED BY <3>2 DEF t, f
    <2> QED BY <2>2, <2>3
  <1> HIDE DEF w
  <1>8. /\ o \o (LineEnd \o e) \in Seq(Byte)
        /\ Len(o \o (LineEnd \o e)) = Len(o) + (Len(LineEnd) + Len(e))
    <2>1. LineEnd \o e \in Seq(Byte) /\ Len(LineEnd \o e) = Len(LineEnd) + Len(e)
      BY <1>1, <1>5, <1>6, Regroup
    <2> QED BY <1>1, <2>1, Regroup
  <1> DEFINE l == Len(e)
             p == Len(o)
             m == Len(cl.src)
             q == Len(o \o (LineEnd \o e))
  <1>9. /\ p \in Nat /\ m \in Nat /\ l \in 1..2 /\ n < m /\ q = p + (2 + l)
        /\ need2 = need \/ need2 <= p + 4
        /\ Room(p, n, LineLength, need, m)
    BY <1>1, <1>5, <1>6, <1>8
  <1>10. Room(q, n + 1, l, need2, m) /\ l \in Nat /\ l >= 1
    <2> HIDE DEF l, p, m, q
    <2>1. n + 1 <= m /\ q = p + 2 + l
      BY <1>9
    <2> QED BY <1>9, <2>1, RoomForLine, OneOrTwo
  <1>11. Stage(cl, o \o (LineEnd \o e), n + 1, Len(e), need2)
    BY <1>6, <1>7, <1>8, <1>10 DEF Stage, Written
  <1> QED BY <1>11 DEF e

\* The first byte of a body that is empty, or ends with a line end.
LEMMA StageFirst ==
  ASSUME NEW cl, EncodeContext(cl), Written(cl, <<>>, 0, "CRLF"), 0 < Len(cl.src),
         NEW need \in Nat, need = 0 \/ need <= 2
  PROVE  LET e == FirstOfLine(cl.src[1]) IN
         Stage(cl, e, 1, Len(e), need) /\ Len(e) \in 1..2
PROOF
  <1> DEFINE x == cl.src[1]
             e == FirstOfLine(cl.src[1])
  <1>1. /\ cl.src \in Seq(Byte) /\ cl.text \in Seq(Byte) /\ cl.data \in Seq(Byte)
        /\ Encodes(cl.text \o <<>>, Given(cl, 0), "CRLF")
    BY DEF EncodeContext, Written
  <1>2. x \in Byte /\ Given(cl, 1) = Append(Given(cl, 0), x)
    <2>1. 0 \in Nat /\ 0 + 1 = 1
      OBVIOUS
    <2> QED BY <1>1, <2>1, SliceGrows DEF Given
  <1>3. e = FirstOfLine(x)
    OBVIOUS
  <1> HIDE DEF x, e
  <1>4. /\ e \in Seq(Byte) /\ Len(e) \in 1..2
        /\ Encodes((cl.text \o <<>>) \o e, Given(cl, 1), "NONE")
    BY <1>1, <1>2, <1>3, FirstEncodes
  <1>5. (cl.text \o <<>>) \o e = cl.text \o e
    BY <1>1
  <1> DEFINE l == Len(e)
             m == Len(cl.src)
  <1>6. m \in Nat /\ m >= 1
    BY <1>1
  <1>7. l \in 1..2
    BY <1>4
  <1> HIDE DEF l, m
  <1>8. l \in Nat /\ 1 <= l /\ l <= 2
    BY <1>7, OneOrTwo
  <1>9. Counts(0, l, 1, l, need, m)
    BY <1>6, <1>8 DEF Counts
  <1>10. Room(l, 1, l, need, m)
    BY <1>9 DEF Room
  <1> QED BY <1>4, <1>5, <1>8, <1>10 DEF Stage, Written, e, l, m

\* A line that is already begun.
LEMMA StageBegun ==
  ASSUME NEW cl, EncodeContext(cl), Written(cl, <<>>, 0, "NONE"),
         NEW c \in Nat, c >= 1
  PROVE  Stage(cl, <<>>, 0, c, 0)
PROOF
  <1> DEFINE m == Len(cl.src)
  <1>1. m \in Nat
    BY DEF EncodeContext
  <1> HIDE DEF m
  <1>2. Counts(0, 0, 0, c, 0, m)
    BY <1>1 DEF Counts
  <1>3. Len(<<>>) = 0
    OBVIOUS
  <1> QED BY <1>2, <1>3 DEF Stage, Room, m

\* Nothing is written, and fewer characters are counted on the line.
LEMMA StageStays ==
  ASSUME NEW cl, EncodeContext(cl), NEW o, NEW n \in Nat, n <= Len(cl.src), NEW c,
         NEW need \in Nat, Stage(cl, o, n, c, need), NEW c2 \in Nat, 1 <= c2, c2 <= c,
         NEW need2 \in Nat, need2 = need \/ need2 <= Len(o)
  PROVE  Stage(cl, o, n, c2, need2)
PROOF
  <1> DEFINE p == Len(o)
             m == Len(cl.src)
  <1>1. /\ p \in Nat /\ m \in Nat /\ n <= m /\ c \in Nat /\ Room(p, n, c, need, m)
        /\ need2 = need \/ need2 <= p
    BY DEF Stage, Written, EncodeContext
  <1> HIDE DEF p, m
  <1>2. /\ 0 \in Nat /\ 0 <= 0 /\ 0 <= 2 * 0 /\ n + 0 <= m /\ c2 <= c + 0
        /\ need2 = need \/ need2 <= p + 2 * 0
        /\ p + 0 = p /\ n + 0 = n
    BY <1>1
  <1>3. Room(p + 0, n + 0, c2, need2, m)
    BY <1>1, <1>2, RoomGrows
  <1>4. Room(p, n, c2, need2, m)
    BY <1>2, <1>3
  <1> QED BY <1>4 DEF Stage, p, m

-----------------------------------------------------------------------------
OnLine(cl, k, c) == Stage(cl, k.out, k.pos, c, k.need)

\* The last batch may be taken back.
CanTakeBack(cl, k) ==
  LET c == k.col - (Len(k.out) - k.sp) IN
  /\ Stage(cl, SubSeq(k.out, 1, k.sp), k.pos - Batch, c, k.need)
  /\ c <= LineLength + 1

\* What every configuration of a call that is given cl has.
Valid(cl, k) ==
  /\ k \in EncodeCalls(cl.src)
  /\ k.at = "first" =>
       /\ k.pos = 0 /\ k.out = <<>> /\ k.need = 0 /\ k.col <= LineLength + 1
       /\ Written(cl, <<>>, 0, LineState(k.col))
  /\ k.at = "newline" => OnLine(cl, k, LineLength)
  /\ k.at \notin {"first", "newline"} => OnLine(cl, k, k.col)
  /\ k.at \in {"scalar", "last", "done"} => k.col <= LineLength + 1
  /\ k.at = "batch" => IF k.sp >= 0 THEN CanTakeBack(cl, k) ELSE k.col <= LineLength + 1
  /\ k.at = "last" => k.col >= LineLength - 1
  /\ k.at = "done" => k.pos = Len(cl.src)

\* A step that writes nothing.
LEMMA GoesStays ==
  ASSUME NEW cl, EncodeContext(cl), NEW k \in EncodeCalls(cl.src),
         NEW c, OnLine(cl, k, c), NEW r, NEW at, NEW col, NEW sp,
         Goes(k, r, at, 0, <<>>, col, sp, 0), NEW c2 \in Nat, 1 <= c2, c2 <= c
  PROVE  OnLine(cl, r, c2)
PROOF
  <1>1. cl.src \in Seq(Byte)
    BY DEF EncodeContext
  <1>2. /\ k.pos \in Nat /\ k.pos <= Len(cl.src) /\ k.out \in Seq(Byte)
        /\ k.need \in Nat /\ Len(k.out) \in Nat
    BY <1>1, CallFacts
  <1>3. /\ r.out = k.out /\ r.pos = k.pos /\ r.need \in Nat
        /\ r.need = k.need \/ r.need <= Len(k.out)
    BY <1>2 DEF Goes, EncodeConfig
  <1>4. Stage(cl, k.out, k.pos, c, k.need)
    BY DEF OnLine
  <1>5. Stage(cl, k.out, k.pos, c2, r.need)
    BY <1>2, <1>3, <1>4, StageStays
  <1> QED BY <1>3, <1>5 DEF OnLine

\* A step that writes one byte.
LEMMA GoesWrites ==
  ASSUME NEW cl, EncodeContext(cl), NEW k \in EncodeCalls(cl.src), k.pos < Len(cl.src),
         NEW c, OnLine(cl, k, c), NEW r, NEW at, NEW col, NEW sp, NEW e,
         e \in {InLine(Next1(cl.src, k)), LastOfLine(Next1(cl.src, k))},
         Goes(k, r, at, 1, e, col, sp, 2),
         NEW c2 \in Nat, 1 <= c2, c2 <= c + Len(e)
  PROVE  OnLine(cl, r, c2)
PROOF
  <1>1. cl.src \in Seq(Byte)
    BY DEF EncodeContext
  <1>2. k.pos \in Nat /\ k.need \in Nat
    BY <1>1, CallFacts
  <1>3. /\ r.out = k.out \o e /\ r.pos = k.pos + 1 /\ r.need \in Nat
        /\ r.need = k.need \/ r.need <= Len(k.out) + 2
    BY DEF Goes, EncodeConfig
  <1>4. Stage(cl, k.out, k.pos, c, k.need)
    BY DEF OnLine
  <1>5. e \in {InLine(cl.src[k.pos + 1]), LastOfLine(cl.src[k.pos + 1])}
    BY DEF Next1
  <1>6. Stage(cl, k.out \o e, k.pos + 1, c2, r.need)
    BY <1>2, <1>3, <1>4, <1>5, StageGrows
  <1> QED BY <1>3, <1>6 DEF OnLine

\* At the beginning of a call, of a line or within one.
LEMMA FirstStep ==
  ASSUME NEW cl, EncodeContext(cl), NEW k, Valid(cl, k), k.at = "first"
  PROVE  Valid(cl, EncodeStep(cl.src, k))
PROOF
  <1> DEFINE r == EncodeStep(cl.src, k)
             e == FirstOfLine(Next1(cl.src, k))
  <1>1. /\ cl.src \in Seq(Byte) /\ k \in EncodeCalls(cl.src) /\ k.pos = 0 /\ k.out = <<>>
        /\ k.need = 0 /\ k.col <= LineLength + 1 /\ Written(cl, <<>>, 0, LineState(k.col))
    BY DEF Valid, EncodeContext
  <1>2. k.sp = -1 /\ 0 < Len(cl.src)
    BY <1>1 DEF EncodeCalls
  <1>3. r \in EncodeCalls(cl.src)
    BY <1>1, EncodeStepAdvances
  <1>4. e = FirstOfLine(cl.src[1]) /\ k.col \in Nat /\ LineLength \in Nat /\ LineLength >= 1
    <2>1. k.pos + 1 = 1
      BY <1>1
    <2> QED BY <1>1, <2>1, CallFacts DEF Next1
  <1>5. \/ k.col = 0 /\ Goes(k, r, "batch", 1, e, Len(e), -1, 2)
        \/ k.col # 0 /\ Goes(k, r, "batch", 0, <<>>, k.col, -1, 0)
    BY <1>1, <1>2, FirstGoes
  <1>6. CASE k.col = 0
    <2>1. Goes(k, r, "batch", 1, e, Len(e), -1, 2) /\ LineState(k.col) = "CRLF"
      BY <1>5, <1>6 DEF LineState
    <2> HIDE DEF r
    <2>2. /\ r.at = "batch" /\ r.pos = 0 + 1 /\ r.out = <<>> \o e /\ r.col = Len(e)
          /\ r.sp = -1 /\ r.need \in Nat /\ (r.need = 0 \/ r.need <= Len(<<>>) + 2)
      BY <1>1, <2>1 DEF Goes, EncodeConfig
    <2>3. r.need = 0 \/ r.need <= 2
      BY <2>2
    <2>4. Stage(cl, e, 1, Len(e), r.need) /\ Len(e) \in 1..2
      BY <1>1, <1>2, <1>4, <2>1, <2>2, <2>3, StageFirst
    <2>5. <<>> \o e = e
      BY <2>4 DEF Stage, Written
    <2>6. Len(e) <= LineLength + 1
      <3> DEFINE l == Len(e)
      <3>1. l \in 1..2
        BY <2>4
      <3> HIDE DEF l
      <3>2. l <= 2 /\ l \in Nat
        BY <3>1
      <3>3. l <= LineLength + 1
        BY <1>4, <3>2
      <3> QED BY <3>3 DEF l
    <2>7. OnLine(cl, r, r.col) /\ r.col <= LineLength + 1 /\ ~(r.sp >= 0)
      BY <2>2, <2>4, <2>5, <2>6 DEF OnLine
    <2> QED BY <1>3, <2>2, <2>7 DEF Valid, r
  <1>7. CASE k.col # 0
    <2>1. Goes(k, r, "batch", 0, <<>>, k.col, -1, 0) /\ LineState(k.col) = "NONE"
      BY <1>5, <1>7 DEF LineState
    <2>2. k.col >= 1
      BY <1>4, <1>7
    <2>3. OnLine(cl, k, k.col)
      BY <1>1, <1>4, <2>1, <2>2, StageBegun DEF OnLine
    <2>4. OnLine(cl, r, k.col)
      <3>1. k.col <= k.col
        BY <1>4
      <3> QED BY <1>1, <1>4, <2>1, <2>2, <2>3, <3>1, GoesStays
    <2>5. r.at = "batch" /\ r.col = k.col /\ r.sp = -1
      BY <2>1 DEF Goes
    <2>6. ~(r.sp >= 0)
      BY <2>5
    <2> HIDE DEF r
    <2> QED BY <1>1, <1>3, <2>4, <2>5, <2>6 DEF Valid, r
  <1> QED BY <1>6, <1>7

\* One byte in the middle of a line.
LEMMA ScalarStep ==
  ASSUME NEW cl, EncodeContext(cl), NEW k, Valid(cl, k), k.at = "scalar"
  PROVE  Valid(cl, EncodeStep(cl.src, k))
PROOF
  <1> DEFINE r == EncodeStep(cl.src, k)
             e == InLine(Next1(cl.src, k))
  <1>1. /\ cl.src \in Seq(Byte) /\ k \in EncodeCalls(cl.src) /\ OnLine(cl, k, k.col)
        /\ k.col <= LineLength + 1
    BY DEF Valid, EncodeContext
  <1>2. /\ k.pos < Len(cl.src) /\ Next1(cl.src, k) \in Byte /\ k.col \in Nat
        /\ LineLength \in Nat /\ k.pos \in Nat /\ Len(cl.src) \in Nat
    BY <1>1, CallFacts
  <1>3. r \in EncodeCalls(cl.src)
    BY <1>1, EncodeStepAdvances
  <1>4. k.col >= 1
    BY <1>1 DEF OnLine, Stage
  <1>5. \/ /\ k.col < LineLength - 1
           /\ \/ /\ k.pos + 1 = Len(cl.src)
                 /\ Goes(k, r, "done", 1, e, k.col + Len(e), k.sp, 2)
              \/ Goes(k, r, "scalar", 1, e, k.col + Len(e), k.sp, 2)
        \/ k.col >= LineLength - 1 /\ Goes(k, r, "last", 0, <<>>, k.col, k.sp, 0)
    BY <1>1, ScalarGoes
  <1> HIDE DEF r
  <1>6. CASE /\ k.col < LineLength - 1
             /\ \/ /\ k.pos + 1 = Len(cl.src)
                   /\ Goes(k, r, "done", 1, e, k.col + Len(e), k.sp, 2)
                \/ Goes(k, r, "scalar", 1, e, k.col + Len(e), k.sp, 2)
    <2> DEFINE c == k.col + Len(e)
    <2>1. Len(e) \in 1..2
      BY <1>2, InLineBytes
    <2>2. c \in Nat /\ 1 <= c /\ c <= k.col + Len(e) /\ c <= LineLength
      <3> DEFINE l == Len(e)
      <3>1. l \in 1..2
        BY <2>1
      <3> HIDE DEF l
      <3>2. l \in Nat /\ 1 <= l /\ l <= 2
        BY <3>1, OneOrTwo
      <3>3. k.col + l \in Nat /\ 1 <= k.col + l /\ k.col + l <= k.col + l
            /\ k.col + l <= LineLength
        BY <1>2, <1>6, <3>2
      <3> QED BY <3>3 DEF l
    <2>3. OnLine(cl, r, c)
      <3> HIDE DEF c, e
      <3> QED BY <1>1, <1>2, <1>6, <2>2, GoesWrites DEF e, c
    <2>4. /\ r.col = c
          /\ r.at = "scalar" \/ (r.at = "done" /\ r.pos = Len(cl.src))
      BY <1>6 DEF Goes
    <2> HIDE DEF c
    <2>5. r.col <= LineLength + 1
      BY <1>2, <2>2, <2>4
    <2> QED BY <1>3, <2>3, <2>4, <2>5 DEF Valid, r
  <1>7. CASE k.col >= LineLength - 1 /\ Goes(k, r, "last", 0, <<>>, k.col, k.sp, 0)
    <2>1. k.col <= k.col
      BY <1>2
    <2>2. OnLine(cl, r, k.col)
      BY <1>1, <1>2, <1>4, <1>7, <2>1, GoesStays
    <2>3. r.at = "last" /\ r.col = k.col
      BY <1>7 DEF Goes
    <2> QED BY <1>1, <1>3, <1>7, <2>2, <2>3 DEF Valid, r
  <1> QED BY <1>5, <1>6, <1>7

\* The byte at the end of a line, which only an escape makes longer.
LEMMA LastStep ==
  ASSUME NEW cl, EncodeContext(cl), NEW k, Valid(cl, k), k.at = "last"
  PROVE  Valid(cl, EncodeStep(cl.src, k))
PROOF
  <1> DEFINE r == EncodeStep(cl.src, k)
             e == LastOfLine(Next1(cl.src, k))
  <1>1. /\ cl.src \in Seq(Byte) /\ k \in EncodeCalls(cl.src) /\ OnLine(cl, k, k.col)
        /\ k.col <= LineLength + 1 /\ k.col >= LineLength - 1
    BY DEF Valid, EncodeContext
  <1>2. /\ k.pos < Len(cl.src) /\ Next1(cl.src, k) \in Byte /\ k.col \in Nat
        /\ LineLength \in Nat /\ LineLength >= 1
    BY <1>1, CallFacts
  <1>3. r \in EncodeCalls(cl.src)
    BY <1>1, EncodeStepAdvances
  <1>4. k.col >= 1
    BY <1>1 DEF OnLine, Stage
  <1>5. \/ /\ k.col < LineLength
           /\ \/ k.pos + 1 = Len(cl.src) /\ Goes(k, r, "done", 1, e, k.col, k.sp, 2)
              \/ Goes(k, r, "newline", 1, e, k.col, k.sp, 2)
        \/ k.col >= LineLength /\ Goes(k, r, "newline", 0, <<>>, k.col, k.sp, 0)
    BY <1>1, LastGoes
  <1> HIDE DEF r
  <1>6. /\ k.col <= k.col + Len(e) /\ LineLength <= k.col + Len(e)
    <2>1. Len(e) \in 1..2
      BY <1>2, InLineBytes
    <2> DEFINE l == Len(e)
    <2>2. l \in 1..2
      BY <2>1
    <2> HIDE DEF l
    <2>3. l \in Nat /\ 1 <= l
      BY <2>2, OneOrTwo
    <2>4. k.col <= k.col + l /\ LineLength <= k.col + l
      BY <1>1, <1>2, <2>3
    <2> QED BY <2>4 DEF l
  <1>7. CASE k.pos + 1 = Len(cl.src) /\ Goes(k, r, "done", 1, e, k.col, k.sp, 2)
    <2>1. OnLine(cl, r, k.col)
      <3> HIDE DEF e
      <3> QED BY <1>1, <1>2, <1>4, <1>6, <1>7, GoesWrites DEF e
    <2>2. r.at = "done" /\ r.col = k.col /\ r.pos = Len(cl.src)
      BY <1>7 DEF Goes
    <2> QED BY <1>1, <1>3, <2>1, <2>2 DEF Valid, r
  <1>8. CASE Goes(k, r, "newline", 1, e, k.col, k.sp, 2)
    <2>1. OnLine(cl, r, LineLength)
      <3> HIDE DEF e
      <3> QED BY <1>1, <1>2, <1>4, <1>6, <1>8, GoesWrites DEF e
    <2>2. r.at = "newline"
      BY <1>8 DEF Goes
    <2> QED BY <1>3, <2>1, <2>2 DEF Valid, r
  <1>9. CASE k.col >= LineLength /\ Goes(k, r, "newline", 0, <<>>, k.col, k.sp, 0)
    <2>1. LineLength <= k.col
      BY <1>2, <1>9
    <2>2. OnLine(cl, r, LineLength)
      BY <1>1, <1>2, <1>9, <2>1, GoesStays
    <2>3. r.at = "newline"
      BY <1>9 DEF Goes
    <2> QED BY <1>3, <2>2, <2>3 DEF Valid, r
  <1> QED BY <1>5, <1>7, <1>8, <1>9

\* The line end, and the byte that begins the next line.
LEMMA NewlineStep ==
  ASSUME NEW cl, EncodeContext(cl), NEW k, Valid(cl, k), k.at = "newline"
  PROVE  Valid(cl, EncodeStep(cl.src, k))
PROOF
  <1> DEFINE r == EncodeStep(cl.src, k)
             e == FirstOfLine(Next1(cl.src, k))
  <1>1. /\ cl.src \in Seq(Byte) /\ k \in EncodeCalls(cl.src)
        /\ Stage(cl, k.out, k.pos, LineLength, k.need)
    BY DEF Valid, EncodeContext, OnLine
  <1>2. /\ k.pos < Len(cl.src) /\ Next1(cl.src, k) \in Byte /\ k.pos \in Nat
        /\ k.need \in Nat /\ LineLength \in Nat /\ LineLength >= 1
    BY <1>1, CallFacts
  <1>3. r \in EncodeCalls(cl.src)
    BY <1>1, EncodeStepAdvances
  <1>4. Goes(k, r, "batch", 1, LineEnd \o e, Len(e), -1, 4)
    BY <1>1, NewlineGoes
  <1> HIDE DEF r
  <1>5. /\ r.at = "batch" /\ r.pos = k.pos + 1 /\ r.out = k.out \o (LineEnd \o e)
        /\ r.col = Len(e) /\ r.sp = -1 /\ r.need \in Nat
        /\ r.need = k.need \/ r.need <= Len(k.out) + 4
    BY <1>4 DEF Goes, EncodeConfig
  <1>6. e = FirstOfLine(cl.src[k.pos + 1])
    BY DEF Next1
  <1>7. Stage(cl, r.out, r.pos, r.col, r.need)
    <2> HIDE DEF e
    <2> QED BY <1>1, <1>2, <1>5, <1>6, StageNextLine
  <1>8. r.col <= LineLength + 1 /\ ~(r.sp >= 0)
    <2>1. Len(e) \in 1..2
      BY <1>2, InLineBytes
    <2> DEFINE l == Len(e)
    <2>2. l \in 1..2
      BY <2>1
    <2> HIDE DEF l
    <2>3. l \in Nat /\ l <= 2
      BY <2>2, OneOrTwo
    <2>4. l <= LineLength + 1
      BY <1>2, <2>3
    <2> QED BY <1>5, <2>4 DEF l
  <1> QED BY <1>3, <1>5, <1>7, <1>8 DEF Valid, OnLine, r

\* A batch is encoded, or the last one is taken back because it ran over the line.
LEMMA BatchStep ==
  ASSUME NEW cl, EncodeContext(cl), NEW k, Valid(cl, k), k.at = "batch"
  PROVE  Valid(cl, EncodeStep(cl.src, k))
PROOF
  <1> DEFINE r == EncodeStep(cl.src, k)
             e == Batched(cl.src, k)
  <1>1. /\ cl.src \in Seq(Byte) /\ k \in EncodeCalls(cl.src) /\ OnLine(cl, k, k.col)
        /\ IF k.sp >= 0 THEN CanTakeBack(cl, k) ELSE k.col <= LineLength + 1
    BY DEF Valid, EncodeContext
  <1>2. /\ k \in EncodeConfig /\ k.col \in Nat /\ k.pos \in Nat /\ k.need \in Nat
        /\ k.out \in Seq(Byte) /\ Len(cl.src) \in Nat
        /\ LineLength \in Nat /\ LineLength >= 1 /\ Batch \in Nat /\ Batch >= 1
    BY <1>1, CallFacts
  <1>3. r \in EncodeCalls(cl.src)
    BY <1>1, EncodeStepAdvances
  <1>4. k.col >= 1 /\ k.col <= k.col
    BY <1>1, <1>2 DEF OnLine, Stage
  <1>5. \/ k.pos = Len(cl.src) /\ Goes(k, r, "done", 0, <<>>, k.col, k.sp, 0)
        \/ /\ k.pos + Batch < Len(cl.src) /\ k.col + Batch < LineLength - 1
           /\ Goes(k, r, "batch", Batch, e, k.col + Len(e), Len(k.out), 2 * Batch)
        \/ /\ k.sp >= 0 /\ k.col >= LineLength - 1 /\ k.pos < Len(cl.src)
           /\ r \in EncodeConfig /\ r.at = "scalar" /\ r.pos = k.pos - Batch
           /\ r.out = SubSeq(k.out, 1, k.sp) /\ r.sp = k.sp /\ r.need = k.need
           /\ r.col = k.col - (Len(k.out) - k.sp)
        \/ /\ k.sp >= 0 => k.col < LineLength - 1
           /\ k.pos < Len(cl.src) /\ Goes(k, r, "scalar", 0, <<>>, k.col, k.sp, 0)
    BY <1>1, BatchGoes
  <1> HIDE DEF r
  <1>6. CASE k.pos = Len(cl.src) /\ Goes(k, r, "done", 0, <<>>, k.col, k.sp, 0)
    <2>1. k.col <= LineLength + 1
      BY <1>1, <1>6 DEF EncodeCalls
    <2>2. OnLine(cl, r, k.col)
      BY <1>1, <1>2, <1>4, <1>6, GoesStays
    <2>3. r.at = "done" /\ r.col = k.col /\ r.pos = Len(cl.src)
      BY <1>2, <1>6 DEF Goes
    <2> QED BY <1>3, <2>1, <2>2, <2>3 DEF Valid, r
  <1>7. CASE /\ k.pos + Batch < Len(cl.src) /\ k.col + Batch < LineLength - 1
             /\ Goes(k, r, "batch", Batch, e, k.col + Len(e), Len(k.out), 2 * Batch)
    <2>1. k.pos + Batch <= Len(cl.src)
      BY <1>2, <1>7
    <2>2. e \in Seq(Byte)
      BY <1>1, <1>2, <2>1, BatchedBytes
    <2>3. /\ r.at = "batch" /\ r.pos = k.pos + Batch /\ r.out = k.out \o e
          /\ r.col = k.col + Len(e) /\ r.sp = Len(k.out) /\ r.need \in Nat
          /\ r.need = k.need \/ r.need <= Len(k.out) + 2 * Batch
      BY <1>7 DEF Goes, EncodeConfig
    <2>4. /\ Stage(cl, k.out \o e, k.pos + Batch, k.col + Len(e), r.need)
          /\ Stage(cl, k.out, k.pos, k.col, r.need)
      <3>1. Stage(cl, k.out, k.pos, k.col, k.need)
        BY <1>1 DEF OnLine
      <3> QED BY <1>2, <2>1, <2>3, <3>1, StageBatch
    <2> HIDE DEF e
    <2>5. SubSeq(r.out, 1, r.sp) = k.out
      BY <1>2, <2>2, <2>3, PrefixOfConcat
    <2>6. r.pos - Batch = k.pos /\ r.col - (Len(r.out) - r.sp) = k.col
      <3> DEFINE l == Len(k.out)
                 m == Len(e)
      <3>1. l \in Nat /\ m \in Nat
        BY <1>2, <2>2
      <3>2. Len(r.out) = l + m /\ r.sp = l /\ r.col = k.col + m
        BY <1>2, <2>2, <2>3, Regroup
      <3> HIDE DEF l, m
      <3>3. (k.col + m) - ((l + m) - l) = k.col
        BY <1>2, <3>1
      <3> QED BY <1>2, <2>3, <3>2, <3>3
    <2>7. CanTakeBack(cl, r)
      <3>1. k.col <= LineLength + 1
        BY <1>2, <1>7
      <3> QED BY <2>4, <2>5, <2>6, <3>1 DEF CanTakeBack
    <2>8. r.sp >= 0
      BY <1>2, <2>3
    <2>9. OnLine(cl, r, r.col)
      BY <2>3, <2>4 DEF OnLine
    <2> QED BY <1>3, <2>3, <2>7, <2>8, <2>9 DEF Valid, r
  <1>8. CASE /\ k.sp >= 0 /\ k.col >= LineLength - 1 /\ k.pos < Len(cl.src)
             /\ r \in EncodeConfig /\ r.at = "scalar" /\ r.pos = k.pos - Batch
             /\ r.out = SubSeq(k.out, 1, k.sp) /\ r.sp = k.sp /\ r.need = k.need
             /\ r.col = k.col - (Len(k.out) - k.sp)
    <2>1. OnLine(cl, r, r.col) /\ r.col <= LineLength + 1
      BY <1>1, <1>8 DEF CanTakeBack, OnLine
    <2> QED BY <1>3, <1>8, <2>1 DEF Valid, r
  <1>9. CASE /\ k.sp >= 0 => k.col < LineLength - 1
             /\ k.pos < Len(cl.src) /\ Goes(k, r, "scalar", 0, <<>>, k.col, k.sp, 0)
    <2>1. k.col <= LineLength + 1
      BY <1>1, <1>2, <1>9
    <2>2. OnLine(cl, r, k.col)
      BY <1>1, <1>2, <1>4, <1>9, GoesStays
    <2>3. r.at = "scalar" /\ r.col = k.col
      BY <1>9 DEF Goes
    <2> QED BY <1>3, <2>1, <2>2, <2>3 DEF Valid, r
  <1> QED BY <1>5, <1>6, <1>7, <1>8, <1>9

\* Every step of a call keeps the invariant.
LEMMA ValidStep ==
  ASSUME NEW cl, EncodeContext(cl), NEW k, Valid(cl, k), k.at # "done"
  PROVE  Valid(cl, EncodeStep(cl.src, k))
PROOF
  <1>1. k.at \in Parts
    BY CallFacts DEF Valid, EncodeContext
  <1>2. CASE k.at = "first"
    BY <1>2, FirstStep
  <1>3. CASE k.at = "batch"
    BY <1>3, BatchStep
  <1>4. CASE k.at = "scalar"
    BY <1>4, ScalarStep
  <1>5. CASE k.at = "last"
    BY <1>5, LastStep
  <1>6. CASE k.at = "newline"
    BY <1>6, NewlineStep
  <1> QED BY <1>1, <1>2, <1>3, <1>4, <1>5, <1>6 DEF Parts

\* The recursion is what its equation says, and keeps what the steps keep.
LEMMA EncodeRunEnds ==
  ASSUME NEW src \in Seq(Byte), NEW I, I \subseteq EncodeCalls(src),
         \A c \in I : c.at # "done" => EncodeStep(src, c) \in I
  PROVE  \A c \in I : EncodeRun(src)[c] \in I /\ EncodeRun(src)[c].at = "done"
PROOF
  <1> DEFINE S == EncodeCalls(src)
             stop == {c \in S : c.at = "done"}
             next == [c \in S |-> IF c \in stop THEN c ELSE EncodeStep(src, c)]
             rank == [c \in S |-> EncodeRank(src, c)]
             run[c \in S] == IF c.at = "done" THEN c ELSE run[EncodeStep(src, c)]
  <1>1. next \in [S -> S]
    BY EncodeStepAdvances
  <1>2. rank \in [S -> Nat]
    BY EncodeRankIsNat
  <1>3. \A c \in S : c \notin stop => rank[next[c]] < rank[c]
    <2> SUFFICES ASSUME NEW c \in S, c \notin stop
                 PROVE  rank[next[c]] < rank[c]
      OBVIOUS
    <2>1. next[c] = EncodeStep(src, c) /\ next[c] \in S
      BY EncodeStepAdvances
    <2> QED BY <2>1, EncodeStepAdvances
  <1>4. \A c \in S : next[c] = IF c \in stop THEN c ELSE EncodeStep(src, c)
    OBVIOUS
  <1>5. \A c \in S : c \in stop <=> c.at = "done"
    OBVIOUS
  <1> HIDE DEF next, rank, stop
  <1>6. PICK f : Repeats(f, S, next, stop)
    <2>1. Descends(S, next, stop, rank)
      BY <1>1, <1>2, <1>3 DEF Descends
    <2> QED BY <2>1, RepeatExists
  <1>7. f = [c \in S |-> IF c.at = "done" THEN c ELSE f[EncodeStep(src, c)]]
    BY <1>4, <1>5, <1>6 DEF Repeats
  <1>8. run = [c \in S |-> IF c.at = "done" THEN c ELSE run[EncodeStep(src, c)]]
    <2> HIDE DEF S
    <2> QED BY <1>7
  <1>9. EncodeRun(src) = run
    BY DEF EncodeRun
  <1> HIDE DEF run
  <1>10. Repeats(run, S, next, stop)
    BY <1>4, <1>5, <1>8 DEF Repeats
  <1>11. \A c \in I : c \notin stop => next[c] \in I
    BY <1>4, <1>5
  <1>12. Descends(S, next, stop, rank) /\ Preserves(I, S, next, stop)
    BY <1>1, <1>2, <1>3, <1>11 DEF Descends, Preserves
  <1>13. \A c \in I : run[c] \in I /\ run[c] \in stop
    BY <1>10, <1>12, RepeatResult
  <1> QED BY <1>5, <1>9, <1>13

\* A call begins with a valid configuration.
LEMMA EnterIsValid ==
  ASSUME NEW cl, EncodeContext(cl), cl.src # <<>>, NEW col \in 0..(LineLength + 1),
         Encodes(cl.text, cl.data, LineState(col))
  PROVE  EncodeEnter(col) \in EncodeCalls(cl.src) /\ Valid(cl, EncodeEnter(col))
PROOF
  <1> DEFINE e == EncodeEnter(col)
             src == cl.src
             text == cl.text
             data == cl.data
  <1>1. /\ e.at = "first" /\ e.pos = 0 /\ e.out = <<>> /\ e.col = col /\ e.sp = -1
        /\ e.need = 0 /\ e \in EncodeConfig /\ col <= LineLength + 1
    BY EncodeAssumption DEF EncodeEnter, EncodeConfig
  <1> HIDE DEF e
  <1>2. src \in Seq(Byte) /\ text \in Seq(Byte) /\ data \in Seq(Byte) /\ src # <<>>
    BY DEF EncodeContext
  <1> HIDE DEF src, text, data
  <1>3. 0 < Len(src) /\ text \o <<>> = text /\ data \o SubSeq(src, 1, 0) = data
        /\ <<>> \in Seq(Byte)
    BY <1>2
  <1>4. e \in EncodeCalls(src)
    BY <1>1, <1>3 DEF EncodeCalls
  <1>5. Written(cl, <<>>, 0, LineState(col))
    BY <1>3 DEF Written, Given, src, text, data
  <1>6. Valid(cl, e)
    BY <1>1, <1>4, <1>5 DEF Valid, src
  <1> QED BY <1>4, <1>6 DEF e, src

\* Encoding a slice that is not empty behind text that reads as data, on a line
\* with col characters: text and what it becomes read as data and src, dest is
\* written to no further than the bound, and the line goes on.
THEOREM EncodeReads ==
  ASSUME NEW src \in Seq(Byte), src # <<>>, NEW text \in Seq(Byte), NEW data \in Seq(Byte),
         NEW col \in 0..(LineLength + 1), Encodes(text, data, LineState(col))
  PROVE  LET k == Encode(src, col) IN
         /\ k.out \in Seq(Byte) /\ k.out # <<>>
         /\ Encodes(text \o k.out, data \o src, "NONE")
         /\ k.col \in 1..(LineLength + 1)
         /\ k.need \in Nat
         /\ k.need <= 2 * Len(src) + 2 + 2 * ((2 * Len(src)) \div LineLength)
PROOF
  <1> DEFINE cl == [src |-> src, text |-> text, data |-> data]
             I == {c \in EncodeCalls(src) : Valid(cl, c)}
             e == EncodeEnter(col)
             k == EncodeRun(src)[e]
  <1>1. /\ cl.src = src /\ cl.text = text /\ cl.data = data /\ EncodeContext(cl)
        /\ LineLength \in Nat /\ LineLength >= 1
    BY EncodeAssumption DEF EncodeContext
  <1> HIDE DEF cl
  <1>2. e \in EncodeCalls(src) /\ Valid(cl, e)
    BY <1>1, EnterIsValid
  <1>3. \A c \in I : c.at # "done" => EncodeStep(src, c) \in I
    <2> SUFFICES ASSUME NEW c \in I, c.at # "done"
                 PROVE  EncodeStep(src, c) \in I
      OBVIOUS
    <2>1. Valid(cl, EncodeStep(cl.src, c))
      BY <1>1, ValidStep
    <2>2. EncodeStep(src, c) \in EncodeCalls(src)
      BY EncodeStepAdvances
    <2> QED BY <1>1, <2>1, <2>2
  <1>4. I \subseteq EncodeCalls(src) /\ e \in I
    BY <1>2
  <1>5. \A c \in I : Valid(cl, c) /\ c \in EncodeCalls(src)
    OBVIOUS
  <1> HIDE DEF I, e
  <1>6. k \in I /\ k.at = "done"
    BY <1>3, <1>4, EncodeRunEnds
  <1>7. k = Encode(src, col)
    BY DEF Encode, e
  <1> HIDE DEF k
  <1>8. Valid(cl, k) /\ k \in EncodeCalls(src)
    BY <1>5, <1>6
  <1>9. /\ Stage(cl, k.out, k.pos, k.col, k.need) /\ k.col <= LineLength + 1
        /\ k.pos = Len(src)
    BY <1>1, <1>6, <1>8 DEF Valid, OnLine
  <1>10. /\ k.out \in Seq(Byte) /\ Encodes(text \o k.out, Given(cl, Len(src)), "NONE")
         /\ k.col \in Nat /\ k.col >= 1
         /\ Room(Len(k.out), Len(src), k.col, k.need, Len(src)) /\ k.need \in Nat
    BY <1>1, <1>8, <1>9, CallFacts DEF Stage, Written
  <1>11. Given(cl, Len(src)) = data \o src
    <2>1. SubSeq(src, 1, Len(src)) = src
      OBVIOUS
    <2> QED BY <1>1, <2>1 DEF Given
  <1>12. k.out # <<>>
    <2>1. PICK E \in Nat : Counts(E, Len(k.out), Len(src), k.col, k.need, Len(src))
      BY <1>10 DEF Room
    <2>2. Len(src) <= Len(k.out)
      BY <2>1 DEF Counts
    <2>3. Len(src) >= 1
      OBVIOUS
    <2> QED BY <2>2, <2>3
  <1>13. k.need <= 2 * Len(src) + 2 + 2 * ((2 * Len(src)) \div LineLength)
    <2> DEFINE n == Len(src)
               p == Len(k.out)
    <2>1. n \in Nat /\ p \in Nat /\ Room(p, n, k.col, k.need, n)
      BY <1>10
    <2> HIDE DEF n, p
    <2>2. n <= n
      BY <2>1
    <2>3. k.need <= 2 * n + 2 + 2 * ((2 * n) \div LineLength)
      BY <1>10, <2>1, <2>2, RoomBound
    <2> QED BY <2>3 DEF n
  <1>14. k.col \in 1..(LineLength + 1)
    BY <1>1, <1>9, <1>10
  <1> QED BY <1>7, <1>10, <1>11, <1>12, <1>13, <1>14

-----------------------------------------------------------------------------
(***************************************************************************)
(* The layout of lines.  A text is neat when no line of it begins with a   *)
(* blank or a dot, and none but the last, which may go on, ends with a     *)
(* blank.                                                                  *)
(***************************************************************************)
Breaks == {CR, LF}

EndsWith(u, S) == u # <<>> /\ u[Len(u)] \in S

Neat(u) ==
  \A i \in 1..Len(u) :
    /\ u[i] \in Blank \cup {Dot} => i > 1 /\ u[i - 1] # LF
    /\ u[i] \in Blank /\ i < Len(u) => u[i + 1] # CR

\* The line that goes on has m characters at most, and no other has more than
\* LineLength + 1; when m is more than that, nothing is said of the others.
Near(u, m) == Len(u) <= m \/ \E j \in 1..Len(u) : j >= Len(u) - m /\ u[j] \in Breaks

Fit(u) ==
  \A i \in 0..Len(u) - (LineLength + 2) :
    \E j \in i+1..i+LineLength+2 : u[j] \in Breaks

Lines(u, m) == Near(u, m) /\ (m <= LineLength + 1 => Fit(u))

\* One character more.
LEMMA AppendIs ==
  ASSUME NEW u \in Seq(Byte), NEW x \in Byte
  PROVE  LET v == Append(u, x) IN
         /\ v \in Seq(Byte) /\ v # <<>> /\ Len(u) \in Nat /\ Len(v) = Len(u) + 1
         /\ v[Len(u) + 1] = x /\ \A i \in 1..Len(u) : v[i] = u[i]
PROOF
  <1> QED OBVIOUS

\* A character keeps the text neat if it is no blank or dot where a line begins,
\* and no line end behind a blank.
LEMMA NeatGrows ==
  ASSUME NEW u \in Seq(Byte), Neat(u), NEW x \in Byte,
         x \in Blank \cup {Dot} => u # <<>> /\ ~EndsWith(u, Breaks),
         x = CR => ~EndsWith(u, Blank)
  PROVE  Neat(Append(u, x))
PROOF
  <1> DEFINE v == Append(u, x)
             n == Len(u)
  <1>1. /\ n \in Nat /\ Len(v) = n + 1 /\ v[n + 1] = x /\ \A i \in 1..n : v[i] = u[i]
    BY AppendIs
  <1>2. /\ u # <<>> <=> n >= 1
        /\ EndsWith(u, Breaks) <=> n >= 1 /\ u[n] \in Breaks
        /\ EndsWith(u, Blank) <=> n >= 1 /\ u[n] \in Blank
    BY DEF EndsWith
  <1>3. \A i \in 1..n : /\ u[i] \in Blank \cup {Dot} => i > 1 /\ u[i - 1] # LF
                        /\ u[i] \in Blank /\ i < n => u[i + 1] # CR
    BY DEF Neat
  <1> HIDE DEF v, n
  <1>4. ASSUME NEW i \in 1..(n + 1)
        PROVE  /\ v[i] \in Blank \cup {Dot} => i > 1 /\ v[i - 1] # LF
               /\ v[i] \in Blank /\ i < n + 1 => v[i + 1] # CR
    <2>1. CASE i = n + 1
      <3>1. v[i] = x /\ (n + 1) - 1 = n
        BY <1>1, <2>1
      <3>2. n >= 1 => v[n] = u[n]
        BY <1>1
      <3>3. x \in Blank \cup {Dot} => n >= 1 /\ u[n] # LF
        BY <1>2 DEF Breaks
      <3> QED BY <1>1, <2>1, <3>1, <3>2, <3>3
    <2>2. CASE i \in 1..n
      <3>1. v[i] = u[i] /\ (i > 1 => v[i - 1] = u[i - 1])
            /\ (i < n => v[i + 1] = u[i + 1]) /\ (i < n \/ i = n)
        BY <1>1, <2>2
      <3>2. /\ u[i] \in Blank \cup {Dot} => i > 1 /\ u[i - 1] # LF
            /\ u[i] \in Blank /\ i < n => u[i + 1] # CR
        BY <1>3, <2>2
      <3>3. u[i] \in Blank /\ i = n => v[i + 1] # CR
        BY <1>1, <1>2, <2>2
      <3> QED BY <3>1, <3>2, <3>3
    <2> QED BY <1>1, <2>1, <2>2
  <1>5. Neat(v)
    BY <1>1, <1>4 DEF Neat
  <1> QED BY <1>5 DEF v

\* Lines fit if the one the character is on does.
LEMMA FitGrows ==
  ASSUME NEW u \in Seq(Byte), Fit(u), NEW x \in Byte,
         x \in Breaks \/ Near(u, LineLength)
  PROVE  Fit(Append(u, x))
PROOF
  <1> DEFINE v == Append(u, x)
             n == Len(u)
  <1>1. /\ n \in Nat /\ Len(v) = n + 1 /\ v[n + 1] = x /\ \A i \in 1..n : v[i] = u[i]
        /\ LineLength \in Nat
    BY AppendIs, EncodeAssumption
  <1>2. x \in Breaks \/ n <= LineLength
        \/ \E j \in 1..n : j >= n - LineLength /\ u[j] \in Breaks
    BY DEF Near
  <1>3. \A i \in 0..n - (LineLength + 2) :
          \E j \in i+1..i+LineLength+2 : u[j] \in Breaks
    BY DEF Fit
  <1> HIDE DEF v, n
  <1>4. ASSUME NEW i \in 0..(n + 1) - (LineLength + 2)
        PROVE  \E j \in i+1..i+LineLength+2 : v[j] \in Breaks
    <2>1. CASE i = (n + 1) - (LineLength + 2)
      <3>1. n >= LineLength + 1
        BY <1>1, <2>1
      <3>2. CASE x \in Breaks
        <4>1. n + 1 \in i+1..i+LineLength+2 /\ v[n + 1] \in Breaks
          BY <1>1, <2>1, <3>2
        <4> QED BY <4>1
      <3>3. CASE \E j \in 1..n : j >= n - LineLength /\ u[j] \in Breaks
        <4>1. PICK j \in 1..n : j >= n - LineLength /\ u[j] \in Breaks
          BY <3>3
        <4>2. j \in i+1..i+LineLength+2 /\ v[j] \in Breaks
          BY <1>1, <2>1, <4>1
        <4> QED BY <4>2
      <3> QED BY <1>1, <1>2, <3>1, <3>2, <3>3
    <2>2. CASE i # (n + 1) - (LineLength + 2)
      <3>1. i \in 0..n - (LineLength + 2)
        BY <1>1, <2>2
      <3>2. PICK j \in i+1..i+LineLength+2 : u[j] \in Breaks
        BY <1>3, <3>1
      <3>3. j \in 1..n
        BY <1>1, <3>1, <3>2
      <3> QED BY <1>1, <3>2, <3>3
    <2> QED BY <2>1, <2>2
  <1>5. Fit(v)
    BY <1>1, <1>4 DEF Fit
  <1> QED BY <1>5 DEF v

\* A character on the line that goes on, and one that ends it.
LEMMA LinesGrow ==
  ASSUME NEW u \in Seq(Byte), NEW m \in Nat, Lines(u, m), NEW x \in Byte
  PROVE  /\ Lines(Append(u, x), m + 1)
         /\ x \in Breaks /\ m <= LineLength + 1 => Lines(Append(u, x), 0)
PROOF
  <1> DEFINE v == Append(u, x)
             n == Len(u)
  <1>1. /\ v \in Seq(Byte) /\ n \in Nat /\ Len(v) = n + 1 /\ v[n + 1] = x
        /\ \A i \in 1..n : v[i] = u[i]
        /\ LineLength \in Nat
    BY AppendIs, EncodeAssumption
  <1>2. /\ n <= m \/ \E j \in 1..n : j >= n - m /\ u[j] \in Breaks
        /\ m <= LineLength + 1 => Fit(u)
    BY DEF Lines, Near
  <1>3. m <= LineLength => Near(u, LineLength)
    <2> HIDE DEF n
    <2>1. m <= LineLength =>
            n <= LineLength \/ \E j \in 1..n : j >= n - LineLength /\ u[j] \in Breaks
      BY <1>1, <1>2
    <2> QED BY <2>1 DEF Near, n
  <1>4. /\ m + 1 <= LineLength + 1 => Fit(v)
        /\ x \in Breaks /\ m <= LineLength + 1 => Fit(v)
    <2>1. m + 1 <= LineLength + 1 => m <= LineLength /\ m <= LineLength + 1
      BY <1>1
    <2> QED BY <1>2, <1>3, <2>1, FitGrows
  <1> HIDE DEF v, n
  <1>5. n + 1 <= m + 1 \/ \E j \in 1..(n + 1) : j >= (n + 1) - (m + 1) /\ v[j] \in Breaks
    <2>1. CASE n <= m
      BY <1>1, <2>1
    <2>2. CASE \E j \in 1..n : j >= n - m /\ u[j] \in Breaks
      <3>1. PICK j \in 1..n : j >= n - m /\ u[j] \in Breaks
        BY <2>2
      <3>2. j \in 1..(n + 1) /\ j >= (n + 1) - (m + 1) /\ v[j] \in Breaks
        BY <1>1, <3>1
      <3> QED BY <3>2
    <2> QED BY <1>2, <2>1, <2>2
  <1>6. x \in Breaks => \E j \in 1..(n + 1) : j >= (n + 1) - 0 /\ v[j] \in Breaks
    <2>1. n + 1 \in 1..(n + 1) /\ n + 1 >= (n + 1) - 0
      BY <1>1
    <2> QED BY <1>1, <2>1
  <1>7. Near(v, m + 1) /\ (x \in Breaks => Near(v, 0))
    BY <1>1, <1>5, <1>6 DEF Near
  <1> QED BY <1>4, <1>7 DEF Lines, v

\* Nothing fits.
LEMMA NothingFits == Neat(<<>>) /\ Lines(<<>>, 0)
PROOF
  <1>1. LineLength \in Nat /\ Len(<<>>) = 0
    BY EncodeAssumption
  <1>2. 0..0 - (LineLength + 2) = {}
    BY <1>1
  <1> QED BY <1>1, <1>2 DEF Neat, Lines, Near, Fit

-----------------------------------------------------------------------------
(* The layout of what is encoded.                                          *)

\* A neat text that ends on a line with characters.
OnALine(u) == u \in Seq(Byte) /\ u # <<>> /\ Neat(u) /\ ~EndsWith(u, Breaks)

\* A character that is encoded ends a text on a line.
LEMMA CharLaid ==
  ASSUME NEW u \in Seq(Byte), Neat(u), NEW x \in Byte, x \notin Breaks,
         x \in Blank \cup {Dot} => OnALine(u)
  PROVE  /\ OnALine(Append(u, x))
         /\ EndsWith(Append(u, x), Blank) <=> x \in Blank
         /\ \A m \in Nat : Lines(u, m) => Lines(Append(u, x), m + 1)
PROOF
  <1> DEFINE v == Append(u, x)
  <1>1. v \in Seq(Byte) /\ v # <<>> /\ v[Len(v)] = x
    <2>1. /\ v \in Seq(Byte) /\ v # <<>> /\ Len(v) = Len(u) + 1 /\ v[Len(u) + 1] = x
      BY AppendIs
    <2> QED BY <2>1
  <1>2. Neat(v)
    <2>1. x # CR
      BY DEF Breaks
    <2> QED BY <2>1, NeatGrows DEF OnALine
  <1>3. \A m \in Nat : Lines(u, m) => Lines(v, m + 1)
    BY LinesGrow
  <1> HIDE DEF v
  <1>4. ~EndsWith(v, Breaks) /\ (EndsWith(v, Blank) <=> x \in Blank)
    BY <1>1 DEF EndsWith
  <1> QED BY <1>1, <1>2, <1>3, <1>4 DEF OnALine, v

\* A byte becomes one character that is not special, or a pair the second of which
\* never is.
LEMMA EncodedIs ==
  ASSUME NEW c \in Byte, NEW special, Critical \subseteq special,
         special \subseteq Critical \cup Blank \cup {Dot}
  PROVE  LET e == EncodedUnless(c, special) IN
         \/ \E x \in Byte : x \notin special /\ x \notin Breaks /\ e = <<x>>
         \/ \E y \in Byte : y \notin Breaks \cup Blank \cup {Dot} /\ e = <<EQ, y>>
PROOF
  <1> DEFINE x == Shifted(c)
             y == (c + 106) % 256
             e == EncodedUnless(c, special)
  <1>1. x \in Byte /\ y \in Byte
    BY Encoding
  <1>2. e = IF x \in special THEN <<EQ, y>> ELSE <<x>>
    BY DEF EncodedUnless, Pair, EQ
  <1>3. x \in special => y \notin Breaks \cup Blank \cup {Dot}
    <2>1. c \in 0..255
      BY DEF Byte
    <2>2. x = IF c < 214 THEN c + 42 ELSE c - 214
      BY <2>1 DEF Shifted
    <2>3. y = IF c < 150 THEN c + 106 ELSE c - 150
      BY <2>1
    <2>4. x \in special => x \in {0, 10, 13, 61, 9, 32, 46}
      BY DEF Critical, Blank, Dot
    <2> HIDE DEF x, y
    <2> QED BY <2>1, <2>2, <2>3, <2>4 DEF Breaks, CR, LF, Blank, Dot
  <1>4. x \notin special => x \notin Breaks
    BY DEF Critical, Breaks, CR, LF
  <1> HIDE DEF x, y, e
  <1> QED BY <1>1, <1>2, <1>3, <1>4 DEF e

\* The layout behind a byte: at the beginning of a line blanks and dots are
\* escaped, and a pair, or an escaped blank, does not end in a blank.
LEMMA ByteLaid ==
  ASSUME NEW u \in Seq(Byte), Neat(u), NEW c \in Byte,
         NEW special, Critical \subseteq special,
         special \subseteq Critical \cup Blank \cup {Dot},
         OnALine(u) \/ Blank \cup {Dot} \subseteq special
  PROVE  LET e == EncodedUnless(c, special) IN
         /\ OnALine(u \o e) /\ Len(e) \in 1..2
         /\ Len(e) = 2 \/ Blank \subseteq special => ~EndsWith(u \o e, Blank)
         /\ \A m \in Nat : Lines(u, m) => Lines(u \o e, m + Len(e))
PROOF
  <1> DEFINE e == EncodedUnless(c, special)
  <1>1. \/ \E x \in Byte : x \notin special /\ x \notin Breaks /\ e = <<x>>
        \/ \E y \in Byte : y \notin Breaks \cup Blank \cup {Dot} /\ e = <<EQ, y>>
    BY EncodedIs
  <1> HIDE DEF e
  <1>2. CASE \E x \in Byte : x \notin special /\ x \notin Breaks /\ e = <<x>>
    <2>1. PICK x \in Byte : x \notin special /\ x \notin Breaks /\ e = <<x>>
      BY <1>2
    <2>2. u \o e = Append(u, x) /\ Len(e) = 1
      BY <2>1
    <2>3. x \in Blank \cup {Dot} => OnALine(u)
      BY <2>1
    <2>4. Blank \subseteq special => x \notin Blank
      BY <2>1
    <2>5. /\ OnALine(u \o e) /\ (EndsWith(u \o e, Blank) <=> x \in Blank)
          /\ \A m \in Nat : Lines(u, m) => Lines(u \o e, m + 1)
      BY <2>1, <2>2, <2>3, CharLaid
    <2> QED BY <2>2, <2>4, <2>5 DEF e
  <1>3. CASE \E y \in Byte : y \notin Breaks \cup Blank \cup {Dot} /\ e = <<EQ, y>>
    <2>1. PICK y \in Byte : y \notin Breaks \cup Blank \cup {Dot} /\ e = <<EQ, y>>
      BY <1>3
    <2> DEFINE v == Append(u, EQ)
    <2>2. EQ \in Byte /\ EQ \notin Breaks \cup Blank \cup {Dot}
      BY DEF EQ, Byte, Breaks, CR, LF, Blank, Dot
    <2>3. u \o e = Append(v, y) /\ Len(e) = 2 /\ v \in Seq(Byte)
      BY <2>1, <2>2
    <2>4. OnALine(v) /\ \A m \in Nat : Lines(u, m) => Lines(v, m + 1)
      BY <2>2, CharLaid
    <2> HIDE DEF v
    <2>5. /\ OnALine(u \o e) /\ ~EndsWith(u \o e, Blank)
          /\ \A m \in Nat : Lines(v, m) => Lines(u \o e, m + 1)
      <3>1. Neat(v)
        BY <2>4 DEF OnALine
      <3> QED BY <2>1, <2>3, <3>1, CharLaid
    <2>6. \A m \in Nat : m + 1 \in Nat /\ (m + 1) + 1 = m + 2
      OBVIOUS
    <2>7. \A m \in Nat : Lines(u, m) => Lines(u \o e, m + 2)
      BY <2>4, <2>5, <2>6
    <2> QED BY <2>3, <2>5, <2>7 DEF e
  <1> QED BY <1>1, <1>2, <1>3

\* The layout behind a line end: a line that does not end in a blank is finished.
LEMMA LineEndLaid ==
  ASSUME NEW u, OnALine(u), ~EndsWith(u, Blank)
  PROVE  /\ u \o LineEnd \in Seq(Byte) /\ Neat(u \o LineEnd)
         /\ \A m \in Nat : m <= LineLength + 1 /\ Lines(u, m) => Lines(u \o LineEnd, 0)
PROOF
  <1> DEFINE v == Append(u, CR)
  <1>1. u \in Seq(Byte) /\ Neat(u)
    BY DEF OnALine
  <1>2. /\ CR \in Byte /\ CR \notin Blank \cup {Dot} /\ CR \in Breaks
        /\ LF \in Byte /\ LF \notin Blank \cup {Dot} /\ LF \in Breaks /\ LF # CR
    BY DEF CR, LF, Byte, Breaks, Blank, Dot
  <1>3. u \o LineEnd = Append(v, LF) /\ v \in Seq(Byte)
    <2>1. LineEnd = <<CR, LF>>
      BY DEF LineEnd, CR, LF
    <2> QED BY <1>1, <1>2, <2>1
  <1>4. Neat(v)
    BY <1>1, <1>2, NeatGrows
  <1>5. \A m \in Nat : m <= LineLength + 1 /\ Lines(u, m) => Lines(v, 0)
    BY <1>1, <1>2, LinesGrow
  <1> HIDE DEF v
  <1>6. Neat(Append(v, LF)) /\ Append(v, LF) \in Seq(Byte)
    BY <1>2, <1>3, <1>4, NeatGrows
  <1>7. Lines(v, 0) => Lines(Append(v, LF), 0)
    <2>1. 0 <= LineLength + 1
      BY EncodeAssumption
    <2> QED BY <1>2, <1>3, <2>1, LinesGrow
  <1> QED BY <1>3, <1>5, <1>6, <1>7

\* The layout behind a batch.
LEMMA BatchLaid ==
  ASSUME NEW src \in Seq(Byte), NEW k \in EncodeConfig, k.pos + Batch <= Len(src),
         NEW u, OnALine(u)
  PROVE  LET e == Batched(src, k) IN
         /\ OnALine(u \o e)
         /\ \A m \in Nat : Lines(u, m) => Lines(u \o e, m + Len(e))
PROOF
  <1> DEFINE Holds(e) == /\ OnALine(u \o e)
                         /\ \A m \in Nat : Lines(u, m) => Lines(u \o e, m + Len(e))
             I == {b \in Batches : Holds(b.e)}
             start == [n |-> 0, e |-> <<>>]
  <1>1. Batch \in Nat /\ k.pos \in Nat /\ Len(src) \in Nat /\ u \in Seq(Byte)
    BY EncodeAssumption DEF EncodeConfig, OnALine
  <1>2. start \in I
    <2>1. <<>> \in Seq(0..255) /\ 0 \in 0..Batch
      BY <1>1
    <2>2. u \o <<>> = u /\ Len(<<>>) = 0 /\ \A m \in Nat : m + 0 = m
      BY <1>1
    <2>3. Holds(<<>>)
      BY <2>2
    <2>4. start \in Batches /\ start.e = <<>>
      BY <2>1 DEF Batches
    <2> HIDE DEF start, Holds
    <2> QED BY <2>3, <2>4
  <1>3. ASSUME NEW b \in I, b.n # Batch
        PROVE  NextOfBatch(src, k, b) \in I
    <2> DEFINE x == src[k.pos + b.n + 1]
               m == b.n
               g == b.e
               f == b.e \o InLine(x)
    <2>1. m \in 0..Batch /\ g \in Seq(Byte) /\ m # Batch
      BY <1>3 DEF Batches, Byte
    <2>2. OnALine(u \o g) /\ \A l \in Nat : Lines(u, l) => Lines(u \o g, l + Len(g))
      BY <1>3
    <2>3. x \in Byte
      <3>1. k.pos + m + 1 \in 1..Len(src)
        <4> HIDE DEF m, g
        <4> QED BY <1>1, <2>1
      <3> QED BY <3>1, ElementOfSeq
    <2>4. NextOfBatch(src, k, b) = [n |-> m + 1, e |-> f] /\ f = g \o InLine(x)
      BY DEF NextOfBatch
    <2> DEFINE w == u \o g
               e == InLine(x)
    <2> HIDE DEF f, m, g, x
    <2>5. /\ OnALine(w \o e) /\ \A l \in Nat : Lines(w, l) => Lines(w \o e, l + Len(e))
      <3>1. w \in Seq(Byte) /\ Neat(w)
        BY <2>2 DEF OnALine
      <3>2. e = EncodedUnless(x, Critical)
        BY DEF InLine
      <3> HIDE DEF w, e
      <3> QED BY <2>2, <2>3, <3>1, <3>2, ByteLaid DEF w
    <2>6. e \in Seq(Byte)
      BY <2>3, InLineBytes
    <2> HIDE DEF e
    <2>7. w \o e = u \o f /\ f \in Seq(Byte) /\ Len(f) = Len(g) + Len(e)
          /\ Len(g) \in Nat /\ Len(e) \in Nat
      <3>1. f = g \o e
        BY <2>4 DEF e
      <3> QED BY <1>1, <2>1, <2>6, <3>1, Regroup
    <2>8. Holds(f)
      <3> DEFINE l == Len(g)
                 i == Len(e)
      <3>1. l \in Nat /\ i \in Nat /\ Len(f) = l + i
        BY <2>7
      <3>2. /\ \A j \in Nat : Lines(u, j) => Lines(w, j + l)
            /\ \A j \in Nat : Lines(w, j) => Lines(u \o f, j + i)
        BY <2>2, <2>5, <2>7
      <3> HIDE DEF l, i, w
      <3>3. \A j \in Nat : j + l \in Nat /\ (j + l) + i = j + (l + i)
        BY <3>1
      <3>4. \A j \in Nat : Lines(u, j) => Lines(u \o f, j + Len(f))
        BY <3>1, <3>2, <3>3
      <3> QED BY <2>5, <2>7, <3>4
    <2> DEFINE r == [n |-> m + 1, e |-> f]
    <2>9. r \in Batches /\ r.e = f
      <3>1. m + 1 \in 0..Batch
        BY <1>1, <2>1
      <3> QED BY <2>7, <3>1 DEF Batches, Byte
    <2> HIDE DEF r, Holds
    <2>10. r \in I
      BY <2>8, <2>9
    <2> QED BY <2>4, <2>10 DEF r
  <1>4. I \subseteq Batches /\ \A b \in I : Holds(b.e)
    OBVIOUS
  <1> HIDE DEF Holds
  <1>5. PICK b \in I : b.n = Batch /\ Batched(src, k) = b.e
    <2> HIDE DEF I
    <2> QED BY <1>2, <1>3, <1>4, BatchedHas DEF start
  <1>6. Holds(Batched(src, k))
    BY <1>4, <1>5
  <1> QED BY <1>6 DEF Holds

-----------------------------------------------------------------------------
(***************************************************************************)
(* The layout while a call runs.  The lengths of lines are those of an     *)
(* article that the call begins: when a call ends on the last character of *)
(* a line, the column does not say so to the next one.                     *)
(***************************************************************************)

\* What is written goes on a line, of c characters.
Flowing(cl, o, c) ==
  OnALine(cl.text \o o) /\ (cl.text = <<>> => Lines(cl.text \o o, c))

\* A full line does not end in a blank.
FullIsClean(cl, o, c) == c >= LineLength => ~EndsWith(cl.text \o o, Blank)

\* The line is finished, or will be by the next call: a blank at its end leaves
\* room for its escape.
LineFits(u, m) ==
  m <= LineLength + 1 /\ Lines(u, m) /\ (EndsWith(u, Blank) => m <= LineLength)

Settled(cl, o) ==
  OnALine(cl.text \o o) /\ (cl.text = <<>> => \E m \in Nat : LineFits(cl.text \o o, m))

\* A call begins where others have left a line, or begins the article.
EntersOn(text, col) ==
  IF col = 0 THEN text = <<>>
  ELSE text # <<>> /\ OnALine(text) /\ (col >= LineLength => ~EndsWith(text, Blank))

Tidy(cl, k) ==
  /\ k.at = "first" => EntersOn(cl.text, k.col)
  /\ k.at \in {"batch", "scalar", "last"} => Flowing(cl, k.out, k.col)
  /\ k.at \in {"scalar", "last"} => FullIsClean(cl, k.out, k.col)
  /\ k.at = "batch" =>
       IF k.sp >= 0
       THEN LET c == k.col - (Len(k.out) - k.sp) IN
            c < LineLength /\ Flowing(cl, SubSeq(k.out, 1, k.sp), c)
       ELSE FullIsClean(cl, k.out, k.col)
  /\ k.at = "newline" => Settled(cl, k.out) /\ ~EndsWith(cl.text \o k.out, Blank)
  /\ k.at = "done" => Settled(cl, k.out) /\ FullIsClean(cl, k.out, k.col)

\* A step that writes nothing.
LEMMA OutStays ==
  ASSUME NEW src \in Seq(Byte), NEW k \in EncodeCalls(src), NEW r, NEW at, NEW n,
         NEW col, NEW sp, NEW w, Goes(k, r, at, n, <<>>, col, sp, w)
  PROVE  r.out = k.out
PROOF
  <1>1. k.out \in Seq(Byte) /\ r.out = k.out \o <<>>
    BY CallFacts DEF Goes
  <1> QED BY <1>1

\* A byte more on the line.
LEMMA FlowGrows ==
  ASSUME NEW cl, EncodeContext(cl), NEW k \in EncodeCalls(cl.src),
         Flowing(cl, k.out, k.col), NEW x \in Byte, NEW special,
         special \in {Critical, Critical \cup Blank},
         NEW r, NEW at, NEW n, NEW col, NEW sp, NEW w,
         Goes(k, r, at, n, EncodedUnless(x, special), col, sp, w)
  PROVE  LET e == EncodedUnless(x, special) IN
         /\ Flowing(cl, r.out, k.col + Len(e)) /\ Len(e) \in 1..2
         /\ Len(e) = 2 \/ Blank \subseteq special => ~EndsWith(cl.text \o r.out, Blank)
PROOF
  <1> DEFINE e == EncodedUnless(x, special)
             u == cl.text \o k.out
  <1>1. OnALine(u) /\ u \in Seq(Byte) /\ Neat(u) /\ (cl.text = <<>> => Lines(u, k.col))
    BY DEF Flowing, OnALine
  <1>2. Critical \subseteq special /\ special \subseteq Critical \cup Blank \cup {Dot}
    OBVIOUS
  <1> HIDE DEF u
  <1>3. /\ OnALine(u \o e) /\ Len(e) \in 1..2
        /\ Len(e) = 2 \/ Blank \subseteq special => ~EndsWith(u \o e, Blank)
        /\ \A m \in Nat : Lines(u, m) => Lines(u \o e, m + Len(e))
    BY <1>1, <1>2, ByteLaid
  <1>4. e \in Seq(Byte)
    BY InLineBytes DEF InLine, LastOfLine
  <1>5. cl.text \o r.out = u \o e
    <2>1. r.out = k.out \o e
      BY DEF Goes
    <2> HIDE DEF e
    <2> DEFINE t == cl.text
               o == k.out
    <2>2. t \in Seq(Byte) /\ o \in Seq(Byte) /\ r.out = o \o e
      BY <2>1, CallFacts DEF EncodeContext
    <2> HIDE DEF t, o
    <2>3. (t \o o) \o e = t \o (o \o e)
      BY <1>4, <2>2, Regroup
    <2>4. t \o r.out = (t \o o) \o e
      BY <2>2, <2>3
    <2> QED BY <2>4 DEF t, o, u
  <1>6. k.col \in Nat
    BY CallFacts DEF EncodeContext
  <1> HIDE DEF e
  <1> QED BY <1>1, <1>3, <1>5, <1>6 DEF Flowing, e

\* At the beginning of a call.
LEMMA FirstTidy ==
  ASSUME NEW cl, EncodeContext(cl), NEW k, Valid(cl, k), Tidy(cl, k), k.at = "first"
  PROVE  Tidy(cl, EncodeStep(cl.src, k))
PROOF
  <1> DEFINE r == EncodeStep(cl.src, k)
             x == Next1(cl.src, k)
             e == FirstOfLine(x)
  <1>1. /\ cl.src \in Seq(Byte) /\ cl.text \in Seq(Byte) /\ k \in EncodeCalls(cl.src)
        /\ k.out = <<>> /\ EntersOn(cl.text, k.col)
    BY DEF Valid, EncodeContext, Tidy
  <1>2. k.sp = -1 /\ x \in Byte /\ k.col \in Nat
    BY <1>1, CallFacts DEF EncodeCalls
  <1>3. \/ k.col = 0 /\ Goes(k, r, "batch", 1, e, Len(e), -1, 2)
        \/ k.col # 0 /\ Goes(k, r, "batch", 0, <<>>, k.col, -1, 0)
    BY <1>1, <1>2, FirstGoes
  <1> HIDE DEF r, x
  <1>4. CASE k.col = 0 /\ Goes(k, r, "batch", 1, e, Len(e), -1, 2)
    <2>1. e \in Seq(Byte) /\ Len(e) \in 1..2
      BY <1>2, InLineBytes
    <2>2. e = EncodedUnless(x, Critical \cup Blank \cup {Dot})
      BY DEF FirstOfLine
    <2> HIDE DEF e
    <2>3. r.at = "batch" /\ r.out = <<>> \o e /\ r.col = Len(e) /\ r.sp = -1
      BY <1>1, <1>4 DEF Goes
    <2>4. cl.text = <<>> /\ cl.text \o r.out = e /\ <<>> \o e = e
      BY <1>1, <1>4, <2>1, <2>3 DEF EntersOn
    <2>5. /\ OnALine(<<>> \o e) /\ ~EndsWith(<<>> \o e, Blank)
          /\ \A m \in Nat : Lines(<<>>, m) => Lines(<<>> \o e, m + Len(e))
      <3> DEFINE z == <<>>
                 special == Critical \cup Blank \cup {Dot}
      <3>1. /\ z \in Seq(Byte) /\ Neat(z) /\ e = EncodedUnless(x, special)
            /\ Critical \subseteq special /\ special \subseteq Critical \cup Blank \cup {Dot}
            /\ Blank \cup {Dot} \subseteq special /\ Blank \subseteq special
        BY <2>2, NothingFits
      <3> HIDE DEF z, special
      <3>2. /\ OnALine(z \o e) /\ ~EndsWith(z \o e, Blank)
            /\ \A m \in Nat : Lines(z, m) => Lines(z \o e, m + Len(e))
        BY <1>2, <3>1, ByteLaid
      <3> QED BY <3>2 DEF z
    <2>6. Lines(e, Len(e))
      <3>1. 0 + Len(e) = Len(e)
        BY <2>1
      <3> QED BY <2>4, <2>5, <3>1, NothingFits
    <2>7. Flowing(cl, r.out, r.col) /\ FullIsClean(cl, r.out, r.col)
      BY <2>3, <2>4, <2>5, <2>6 DEF Flowing, FullIsClean
    <2>8. ~(r.sp >= 0)
      BY <2>3
    <2> QED BY <2>3, <2>7, <2>8 DEF Tidy, r
  <1>5. CASE k.col # 0 /\ Goes(k, r, "batch", 0, <<>>, k.col, -1, 0)
    <2>1. r.at = "batch" /\ r.out = <<>> \o <<>> /\ r.col = k.col /\ r.sp = -1
      BY <1>1, <1>5 DEF Goes
    <2>2. cl.text \o r.out = cl.text
      BY <1>1, <2>1
    <2>3. Flowing(cl, r.out, r.col) /\ FullIsClean(cl, r.out, r.col)
      BY <1>1, <1>5, <2>1, <2>2 DEF EntersOn, Flowing, FullIsClean
    <2>4. ~(r.sp >= 0)
      BY <2>1
    <2> QED BY <2>1, <2>3, <2>4 DEF Tidy, r
  <1> QED BY <1>3, <1>4, <1>5

\* In the middle of a line, which only a pair fills.
LEMMA ScalarTidy ==
  ASSUME NEW cl, EncodeContext(cl), NEW k, Valid(cl, k), Tidy(cl, k), k.at = "scalar"
  PROVE  Tidy(cl, EncodeStep(cl.src, k))
PROOF
  <1> DEFINE r == EncodeStep(cl.src, k)
             x == Next1(cl.src, k)
             e == InLine(x)
  <1>1. /\ cl.src \in Seq(Byte) /\ k \in EncodeCalls(cl.src)
        /\ Flowing(cl, k.out, k.col) /\ FullIsClean(cl, k.out, k.col)
    BY DEF Valid, EncodeContext, Tidy
  <1>2. x \in Byte /\ k.col \in Nat /\ LineLength \in Nat
    BY <1>1, CallFacts
  <1>3. \/ /\ k.col < LineLength - 1
           /\ \/ Goes(k, r, "done", 1, e, k.col + Len(e), k.sp, 2)
              \/ Goes(k, r, "scalar", 1, e, k.col + Len(e), k.sp, 2)
        \/ Goes(k, r, "last", 0, <<>>, k.col, k.sp, 0)
    BY <1>1, ScalarGoes
  <1> HIDE DEF r, x
  <1>4. CASE /\ k.col < LineLength - 1
             /\ \/ Goes(k, r, "done", 1, e, k.col + Len(e), k.sp, 2)
                \/ Goes(k, r, "scalar", 1, e, k.col + Len(e), k.sp, 2)
    <2> DEFINE l == Len(e)
               u == cl.text \o r.out
    <2>1. Flowing(cl, r.out, k.col + l) /\ l \in 1..2 /\ (l = 2 => ~EndsWith(u, Blank))
      BY <1>1, <1>2, <1>4, FlowGrows DEF InLine
    <2>2. r.col = k.col + l /\ r.at \in {"done", "scalar"}
      BY <1>4 DEF Goes
    <2> HIDE DEF l
    <2>3. /\ r.col \in Nat /\ r.col <= LineLength /\ r.col <= LineLength + 1
          /\ r.col >= LineLength => l = 2
      BY <1>2, <1>4, <2>1, <2>2
    <2>4. Flowing(cl, r.out, r.col) /\ FullIsClean(cl, r.out, r.col)
      BY <2>1, <2>2, <2>3 DEF FullIsClean
    <2>5. Settled(cl, r.out)
      BY <2>3, <2>4 DEF Flowing, Settled, LineFits
    <2> QED BY <2>2, <2>4, <2>5 DEF Tidy, r
  <1>5. CASE Goes(k, r, "last", 0, <<>>, k.col, k.sp, 0)
    <2>1. r.at = "last" /\ r.col = k.col /\ r.out = k.out
      BY <1>1, <1>5, OutStays DEF Goes
    <2> QED BY <1>1, <2>1 DEF Tidy, r
  <1> QED BY <1>3, <1>4, <1>5

\* At the last character of a line: it is no blank, and a pair ends one later.
LEMMA LastTidy ==
  ASSUME NEW cl, EncodeContext(cl), NEW k, Valid(cl, k), Tidy(cl, k), k.at = "last"
  PROVE  Tidy(cl, EncodeStep(cl.src, k))
PROOF
  <1> DEFINE r == EncodeStep(cl.src, k)
             x == Next1(cl.src, k)
             e == LastOfLine(x)
  <1>1. /\ cl.src \in Seq(Byte) /\ k \in EncodeCalls(cl.src) /\ k.col <= LineLength + 1
        /\ Flowing(cl, k.out, k.col) /\ FullIsClean(cl, k.out, k.col)
    BY DEF Valid, EncodeContext, Tidy
  <1>2. x \in Byte /\ k.col \in Nat /\ LineLength \in Nat
    BY <1>1, CallFacts
  <1>3. \/ /\ k.col < LineLength
           /\ \/ Goes(k, r, "done", 1, e, k.col, k.sp, 2)
              \/ Goes(k, r, "newline", 1, e, k.col, k.sp, 2)
        \/ k.col >= LineLength /\ Goes(k, r, "newline", 0, <<>>, k.col, k.sp, 0)
    BY <1>1, LastGoes
  <1> HIDE DEF r, x
  <1>4. CASE /\ k.col < LineLength
             /\ \/ Goes(k, r, "done", 1, e, k.col, k.sp, 2)
                \/ Goes(k, r, "newline", 1, e, k.col, k.sp, 2)
    <2> DEFINE l == Len(e)
    <2>1. /\ Flowing(cl, r.out, k.col + l) /\ l \in 1..2
          /\ ~EndsWith(cl.text \o r.out, Blank)
      BY <1>1, <1>2, <1>4, FlowGrows DEF LastOfLine
    <2>2. r.at \in {"done", "newline"}
      BY <1>4 DEF Goes
    <2> HIDE DEF l
    <2>3. k.col + l \in Nat /\ k.col + l <= LineLength + 1
      BY <1>2, <1>4, <2>1
    <2>4. Settled(cl, r.out) /\ FullIsClean(cl, r.out, r.col)
      BY <2>1, <2>3 DEF Flowing, Settled, LineFits, FullIsClean
    <2> QED BY <2>1, <2>2, <2>4 DEF Tidy, r
  <1>5. CASE k.col >= LineLength /\ Goes(k, r, "newline", 0, <<>>, k.col, k.sp, 0)
    <2>1. r.at = "newline" /\ r.out = k.out
      BY <1>1, <1>5, OutStays DEF Goes
    <2>2. Settled(cl, k.out) /\ ~EndsWith(cl.text \o k.out, Blank)
      BY <1>1, <1>2, <1>5 DEF Flowing, FullIsClean, Settled, LineFits
    <2> QED BY <2>1, <2>2 DEF Tidy, r
  <1> QED BY <1>3, <1>4, <1>5

\* A new line.
LEMMA NewlineTidy ==
  ASSUME NEW cl, EncodeContext(cl), NEW k, Valid(cl, k), Tidy(cl, k), k.at = "newline"
  PROVE  Tidy(cl, EncodeStep(cl.src, k))
PROOF
  <1> DEFINE r == EncodeStep(cl.src, k)
             x == Next1(cl.src, k)
             e == FirstOfLine(x)
             u == cl.text \o k.out
             w == u \o LineEnd
  <1>1. /\ cl.src \in Seq(Byte) /\ k \in EncodeCalls(cl.src)
        /\ Settled(cl, k.out) /\ ~EndsWith(u, Blank)
    BY DEF Valid, EncodeContext, Tidy
  <1>2. x \in Byte /\ e \in Seq(Byte) /\ Len(e) \in 1..2
    BY <1>1, CallFacts, InLineBytes
  <1>3. Goes(k, r, "batch", 1, LineEnd \o e, Len(e), -1, 4)
    BY <1>1, NewlineGoes
  <1>4. e = EncodedUnless(x, Critical \cup Blank \cup {Dot})
    BY DEF FirstOfLine
  <1> HIDE DEF r, x, e
  <1>5. r.at = "batch" /\ r.col = Len(e) /\ r.sp = -1
    BY <1>3 DEF Goes
  <1>6. cl.text \o r.out = w \o e
    <2>1. LineEnd \in Seq(Byte)
      BY DEF LineEnd, Byte
    <2>2. u \in Seq(Byte)
      BY <1>1 DEF Settled, OnALine
    <2>3. LineEnd \o e \in Seq(Byte)
      BY <1>2, <2>1, ConcatProperties
    <2> DEFINE f == LineEnd \o e
               t == cl.text
               o == k.out
    <2>4. t \in Seq(Byte) /\ o \in Seq(Byte) /\ r.out = o \o f
      BY <1>1, <1>3, CallFacts DEF EncodeContext, Goes
    <2>5. u = t \o o /\ u \o f = w \o e /\ f \in Seq(Byte)
      <3> HIDE DEF u
      <3>1. (u \o LineEnd) \o e = u \o (LineEnd \o e)
        BY <1>2, <2>1, <2>2, Regroup
      <3> QED BY <2>3, <3>1 DEF u
    <2> HIDE DEF f, t, o, w
    <2>6. (t \o o) \o f = t \o (o \o f)
      BY <2>4, <2>5, Regroup
    <2>7. t \o r.out = u \o f
      BY <2>4, <2>5, <2>6
    <2> QED BY <2>5, <2>7 DEF t
  <1>7. /\ OnALine(u)
        /\ cl.text = <<>> => \E m \in Nat : m <= LineLength + 1 /\ Lines(u, m)
    BY <1>1 DEF Settled, LineFits
  <1> HIDE DEF u
  <1>8. w \in Seq(Byte) /\ Neat(w) /\ (cl.text = <<>> => Lines(w, 0))
    BY <1>1, <1>7, LineEndLaid
  <1> HIDE DEF w
  <1>9. /\ OnALine(w \o e) /\ ~EndsWith(w \o e, Blank)
        /\ \A m \in Nat : Lines(w, m) => Lines(w \o e, m + Len(e))
    BY <1>2, <1>4, <1>8, ByteLaid
  <1>10. 0 + Len(e) = Len(e)
    BY <1>2
  <1>11. Flowing(cl, r.out, r.col) /\ FullIsClean(cl, r.out, r.col)
    BY <1>5, <1>6, <1>8, <1>9, <1>10 DEF Flowing, FullIsClean
  <1>12. ~(r.sp >= 0)
    BY <1>5
  <1> QED BY <1>5, <1>11, <1>12 DEF Tidy, r

\* A batch stays on the line, or is taken back, and then there is room for more.
LEMMA BatchTidy ==
  ASSUME NEW cl, EncodeContext(cl), NEW k, Valid(cl, k), Tidy(cl, k), k.at = "batch"
  PROVE  Tidy(cl, EncodeStep(cl.src, k))
PROOF
  <1> DEFINE r == EncodeStep(cl.src, k)
             e == Batched(cl.src, k)
             c == k.col - (Len(k.out) - k.sp)
  <1>1. /\ cl.src \in Seq(Byte) /\ k \in EncodeCalls(cl.src)
        /\ Flowing(cl, k.out, k.col)
        /\ k.sp >= 0 => c < LineLength /\ Flowing(cl, SubSeq(k.out, 1, k.sp), c)
        /\ ~(k.sp >= 0) => k.col <= LineLength + 1 /\ FullIsClean(cl, k.out, k.col)
    BY DEF Valid, EncodeContext, Tidy
  <1>2. /\ k \in EncodeConfig /\ k.col \in Nat /\ k.pos \in Nat /\ k.out \in Seq(Byte)
        /\ k.sp \in Nat \cup {-1} /\ Len(cl.src) \in Nat
        /\ LineLength \in Nat /\ Batch \in Nat /\ Batch >= 1
    BY <1>1, CallFacts
  <1>3. \/ k.pos = Len(cl.src) /\ Goes(k, r, "done", 0, <<>>, k.col, k.sp, 0)
        \/ /\ k.pos + Batch < Len(cl.src) /\ k.col + Batch < LineLength - 1
           /\ Goes(k, r, "batch", Batch, e, k.col + Len(e), Len(k.out), 2 * Batch)
        \/ /\ k.sp >= 0 /\ k.col >= LineLength - 1 /\ k.pos < Len(cl.src)
           /\ r \in EncodeConfig /\ r.at = "scalar" /\ r.pos = k.pos - Batch
           /\ r.out = SubSeq(k.out, 1, k.sp) /\ r.sp = k.sp /\ r.need = k.need
           /\ r.col = c
        \/ /\ k.sp >= 0 => k.col < LineLength - 1
           /\ k.pos < Len(cl.src) /\ Goes(k, r, "scalar", 0, <<>>, k.col, k.sp, 0)
    BY <1>1, BatchGoes
  <1> HIDE DEF r, e, c
  <1>4. CASE k.pos = Len(cl.src) /\ Goes(k, r, "done", 0, <<>>, k.col, k.sp, 0)
    <2>1. ~(k.sp >= 0)
      BY <1>1, <1>2, <1>4 DEF EncodeCalls
    <2>2. r.at = "done" /\ r.col = k.col /\ r.out = k.out
      BY <1>1, <1>4, OutStays DEF Goes
    <2>3. k.col <= LineLength + 1 /\ FullIsClean(cl, k.out, k.col)
      BY <1>1, <2>1
    <2>4. EndsWith(cl.text \o k.out, Blank) => k.col <= LineLength
      BY <1>2, <2>3 DEF FullIsClean
    <2>5. Settled(cl, k.out)
      BY <1>1, <1>2, <2>3, <2>4 DEF Flowing, Settled, LineFits
    <2> QED BY <2>2, <2>3, <2>5 DEF Tidy, r
  <1>5. CASE /\ k.pos + Batch < Len(cl.src) /\ k.col + Batch < LineLength - 1
             /\ Goes(k, r, "batch", Batch, e, k.col + Len(e), Len(k.out), 2 * Batch)
    <2>1. k.pos + Batch <= Len(cl.src) /\ k.col < LineLength
      <3>1. /\ k.pos + Batch < Len(cl.src) /\ k.pos + Batch \in Nat /\ Len(cl.src) \in Nat
            /\ k.col \in Nat /\ Batch \in Nat /\ k.col + Batch < LineLength - 1
            /\ LineLength \in Nat
        BY <1>2, <1>5
      <3> QED BY <3>1
    <2>2. e \in Seq(Byte)
      BY <1>1, <1>2, <2>1, BatchedBytes DEF e
    <2>3. /\ r.at = "batch" /\ r.out = k.out \o e
          /\ r.col = k.col + Len(e) /\ r.sp = Len(k.out)
      BY <1>5 DEF Goes
    <2>4. SubSeq(r.out, 1, r.sp) = k.out
      BY <1>2, <2>2, <2>3, PrefixOfConcat
    <2>5. r.col - (Len(r.out) - r.sp) = k.col
      <3> DEFINE l == Len(k.out)
                 m == Len(e)
      <3>1. l \in Nat /\ m \in Nat
        BY <1>2, <2>2
      <3>2. Len(r.out) = l + m /\ r.sp = l /\ r.col = k.col + m
        BY <1>2, <2>2, <2>3, Regroup
      <3> HIDE DEF l, m
      <3>3. (k.col + m) - ((l + m) - l) = k.col
        BY <1>2, <3>1
      <3> QED BY <3>2, <3>3
    <2> DEFINE t == cl.text
               o == k.out
               u == t \o o
    <2>6. t \in Seq(Byte) /\ o \in Seq(Byte) /\ r.out = o \o e
          /\ OnALine(u) /\ (t = <<>> => Lines(u, k.col))
      BY <1>1, <1>2, <2>3 DEF EncodeContext, Flowing
    <2> HIDE DEF t, o
    <2>7. u \o e = t \o r.out
      <3>1. (t \o o) \o e = t \o (o \o e)
        BY Zenon, <2>2, <2>6, Regroup
      <3> QED BY <2>6, <3>1
    <2> HIDE DEF u
    <2>8. OnALine(u \o e) /\ \A m \in Nat : Lines(u, m) => Lines(u \o e, m + Len(e))
      BY <1>1, <1>2, <2>1, <2>6, BatchLaid DEF e
    <2>9. OnALine(t \o r.out) /\ (t = <<>> => Lines(t \o r.out, r.col))
      BY <1>2, <2>3, <2>6, <2>7, <2>8
    <2>10. Flowing(cl, r.out, r.col)
      BY <2>9 DEF Flowing, t
    <2> DEFINE a == r.col - (Len(r.out) - r.sp)
               p == SubSeq(r.out, 1, r.sp)
    <2>11. r.sp >= 0
      <3>1. Len(k.out) >= 0
        BY <1>2
      <3> QED BY <2>3, <3>1
    <2>12. a < LineLength /\ Flowing(cl, p, a)
      <3>1. a = k.col /\ p = k.out
        BY <2>4, <2>5
      <3> HIDE DEF a, p
      <3> QED BY <1>1, <2>1, <3>1
    <2>13. Tidy(cl, r)
      BY <2>3, <2>10, <2>11, <2>12 DEF Tidy
    <2> QED BY <2>13 DEF r
  <1>6. CASE /\ k.sp >= 0 /\ k.col >= LineLength - 1 /\ k.pos < Len(cl.src)
             /\ r \in EncodeConfig /\ r.at = "scalar" /\ r.pos = k.pos - Batch
             /\ r.out = SubSeq(k.out, 1, k.sp) /\ r.sp = k.sp /\ r.need = k.need
             /\ r.col = c
    <2>1. r.col \in Nat
      BY <1>6 DEF EncodeConfig
    <2>2. ~(r.col >= LineLength)
      BY <1>1, <1>2, <1>6, <2>1
    <2>3. Flowing(cl, r.out, r.col)
      BY <1>1, <1>6
    <2> QED BY <1>6, <2>2, <2>3 DEF Tidy, FullIsClean, r
  <1>7. CASE /\ k.sp >= 0 => k.col < LineLength - 1
             /\ k.pos < Len(cl.src) /\ Goes(k, r, "scalar", 0, <<>>, k.col, k.sp, 0)
    <2>1. r.at = "scalar" /\ r.col = k.col /\ r.out = k.out
      BY <1>1, <1>7, OutStays DEF Goes
    <2>2. k.sp >= 0 => ~(k.col >= LineLength)
      BY <1>2, <1>7
    <2>3. FullIsClean(cl, k.out, k.col)
      BY <1>1, <2>2 DEF FullIsClean
    <2> QED BY <1>1, <2>1, <2>3 DEF Tidy, r
  <1> QED BY <1>3, <1>4, <1>5, <1>6, <1>7

\* Every step of a call keeps the layout.
LEMMA TidyStep ==
  ASSUME NEW cl, EncodeContext(cl), NEW k, Valid(cl, k), Tidy(cl, k), k.at # "done"
  PROVE  Tidy(cl, EncodeStep(cl.src, k))
PROOF
  <1>1. k.at \in Parts
    BY CallFacts DEF Valid, EncodeContext
  <1>2. CASE k.at = "first"
    BY <1>2, FirstTidy
  <1>3. CASE k.at = "batch"
    BY <1>3, BatchTidy
  <1>4. CASE k.at = "scalar"
    BY <1>4, ScalarTidy
  <1>5. CASE k.at = "last"
    BY <1>5, LastTidy
  <1>6. CASE k.at = "newline"
    BY <1>6, NewlineTidy
  <1> QED BY <1>1, <1>2, <1>3, <1>4, <1>5, <1>6 DEF Parts

\* The layout of a call: behind a text that goes on with this column, or at the
\* beginning of an article, no line of what text becomes begins with a blank or
\* a dot, none that is finished ends with a blank, and the one that goes on can
\* still be finished so; an article that the call begins has no line with more
\* than one character over the line length.
THEOREM EncodeLays ==
  ASSUME NEW src \in Seq(Byte), src # <<>>, NEW text \in Seq(Byte), NEW data \in Seq(Byte),
         NEW col \in 0..(LineLength + 1), Encodes(text, data, LineState(col)),
         EntersOn(text, col)
  PROVE  LET k == Encode(src, col) IN
         /\ OnALine(text \o k.out)
         /\ k.col >= LineLength => ~EndsWith(text \o k.out, Blank)
         /\ text = <<>> => \E m \in Nat : LineFits(k.out, m)
PROOF
  <1> DEFINE cl == [src |-> src, text |-> text, data |-> data]
             I == {c \in EncodeCalls(src) : Valid(cl, c) /\ Tidy(cl, c)}
             e == EncodeEnter(col)
             k == EncodeRun(src)[e]
  <1>1. /\ cl.src = src /\ cl.text = text /\ cl.data = data /\ EncodeContext(cl)
    BY DEF EncodeContext
  <1> HIDE DEF cl
  <1>2. e \in EncodeCalls(src) /\ Valid(cl, e)
    BY <1>1, EnterIsValid
  <1>3. Tidy(cl, e)
    <2>1. e.at = "first" /\ e.col = col
      BY DEF EncodeEnter
    <2> HIDE DEF e
    <2> QED BY <1>1, <2>1 DEF Tidy
  <1>4. \A c \in I : c.at # "done" => EncodeStep(src, c) \in I
    <2> SUFFICES ASSUME NEW c \in I, c.at # "done"
                 PROVE  EncodeStep(src, c) \in I
      OBVIOUS
    <2>1. Valid(cl, EncodeStep(cl.src, c)) /\ Tidy(cl, EncodeStep(cl.src, c))
      BY <1>1, ValidStep, TidyStep
    <2>2. EncodeStep(src, c) \in EncodeCalls(src)
      BY EncodeStepAdvances
    <2> QED BY <1>1, <2>1, <2>2
  <1>5. I \subseteq EncodeCalls(src) /\ e \in I
    BY <1>2, <1>3
  <1>6. \A c \in I : Tidy(cl, c) /\ c \in EncodeCalls(src)
    OBVIOUS
  <1> HIDE DEF I, e
  <1>7. k \in I /\ k.at = "done"
    BY <1>4, <1>5, EncodeRunEnds
  <1>8. k = Encode(src, col)
    BY DEF Encode, e
  <1> HIDE DEF k
  <1>9. Settled(cl, k.out) /\ FullIsClean(cl, k.out, k.col) /\ k.out \in Seq(Byte)
    BY <1>6, <1>7, CallFacts DEF Tidy
  <1>10. <<>> \o k.out = k.out
    BY <1>9
  <1>11. /\ OnALine(text \o k.out)
         /\ k.col >= LineLength => ~EndsWith(text \o k.out, Blank)
         /\ text = <<>> => \E m \in Nat : LineFits(text \o k.out, m)
    BY <1>1, <1>9 DEF Settled, FullIsClean
  <1> QED BY <1>8, <1>10, <1>11

\* One character less: the line that goes on has one less, too.
LEMMA LinesShrink ==
  ASSUME NEW u \in Seq(Byte), NEW x \in Byte
  PROVE  /\ Neat(Append(u, x)) => Neat(u)
         /\ Fit(Append(u, x)) => Fit(u)
         /\ \A m \in 0..LineLength :
              x \notin Breaks /\ Near(Append(u, x), m) => Near(u, LineLength - 1)
PROOF
  <1> DEFINE v == Append(u, x)
             n == Len(u)
  <1>1. /\ n \in Nat /\ Len(v) = n + 1 /\ v[n + 1] = x /\ \A i \in 1..n : v[i] = u[i]
        /\ LineLength \in Nat
    BY AppendIs, EncodeAssumption
  <1> HIDE DEF v, n
  <1>2. ASSUME \A i \in 1..(n + 1) : /\ v[i] \in Blank \cup {Dot} => i > 1 /\ v[i - 1] # LF
                                     /\ v[i] \in Blank /\ i < n + 1 => v[i + 1] # CR,
               NEW i \in 1..n
        PROVE  /\ u[i] \in Blank \cup {Dot} => i > 1 /\ u[i - 1] # LF
               /\ u[i] \in Blank /\ i < n => u[i + 1] # CR
    <2>1. i \in 1..(n + 1) /\ i < n + 1 /\ v[i] = u[i] /\ (i > 1 => v[i - 1] = u[i - 1])
          /\ (i < n => v[i + 1] = u[i + 1])
      BY <1>1
    <2> QED BY <1>2, <2>1
  <1>3. ASSUME \A i \in 0..(n + 1) - (LineLength + 2) :
                 \E j \in i+1..i+LineLength+2 : v[j] \in Breaks,
               NEW i \in 0..n - (LineLength + 2)
        PROVE  \E j \in i+1..i+LineLength+2 : u[j] \in Breaks
    <2>1. i \in 0..(n + 1) - (LineLength + 2)
      BY <1>1
    <2>2. PICK j \in i+1..i+LineLength+2 : v[j] \in Breaks
      BY <1>3, <2>1
    <2>3. j \in 1..n
      BY <1>1, <2>2
    <2> QED BY <1>1, <2>2, <2>3
  <1>4. ASSUME NEW m \in 0..LineLength, x \notin Breaks,
               n + 1 <= m \/ \E j \in 1..(n + 1) : j >= (n + 1) - m /\ v[j] \in Breaks
        PROVE  n <= LineLength - 1
               \/ \E j \in 1..n : j >= n - (LineLength - 1) /\ u[j] \in Breaks
    <2>1. CASE n + 1 <= m
      BY <1>1, <2>1
    <2>2. CASE \E j \in 1..(n + 1) : j >= (n + 1) - m /\ v[j] \in Breaks
      <3>1. PICK j \in 1..(n + 1) : j >= (n + 1) - m /\ v[j] \in Breaks
        BY <2>2
      <3>2. j # n + 1
        BY <1>1, <1>4, <3>1
      <3>3. j \in 1..n /\ j >= n - (LineLength - 1)
        BY <1>1, <3>1, <3>2
      <3> QED BY <1>1, <3>1, <3>3
    <2> QED BY <1>4, <2>1, <2>2
  <1>5. Neat(v) => Neat(u)
    BY <1>1, <1>2 DEF Neat, n
  <1>6. Fit(v) => Fit(u)
    BY <1>1, <1>3 DEF Fit, n
  <1>7. \A m \in 0..LineLength : x \notin Breaks /\ Near(v, m) => Near(u, LineLength - 1)
    BY <1>1, <1>4 DEF Near, n
  <1> QED BY <1>5, <1>6, <1>7 DEF v

\* The end of what is written behind a text is the end of the text.
LEMMA EndOfConcat ==
  ASSUME NEW u \in Seq(Byte), NEW o \in Seq(Byte), o # <<>>, NEW S
  PROVE  EndsWith(u \o o, S) <=> EndsWith(o, S)
PROOF
  <1> DEFINE n == Len(o)
             m == Len(u)
             w == u \o o
  <1>1. n \in Nat /\ n > 0 /\ m \in Nat /\ Len(w) = m + n
        /\ \A i \in 1..m + n : w[i] = IF i <= m THEN u[i] ELSE o[i - m]
    <2>1. n \in Nat /\ n > 0 /\ m \in Nat
      OBVIOUS
    <2>2. Len(w) = m + n /\ \A i \in 1..m + n : w[i] = IF i <= m THEN u[i] ELSE o[i - m]
      BY ConcatProperties
    <2> QED BY <2>1, <2>2
  <1>2. w \in Seq(Byte)
    BY ConcatProperties
  <1> HIDE DEF n, m, w
  <1>3. m + n \in 1..m + n /\ ~(m + n <= m) /\ (m + n) - m = n
    BY <1>1
  <1>4. w[Len(w)] = o[n]
    BY <1>1, <1>3
  <1>5. w # <<>>
    BY <1>1, <1>2
  <1> QED BY <1>4, <1>5 DEF EndsWith, n, w
=============================================================================
