------------------------- MODULE VectorStreamProofs -------------------------
(***************************************************************************)
(* Proofs about modules DecodeSIMD and VectorStream: for blocks of any     *)
(* width and every body, cut and aligned anyhow, decodeSIMD with either    *)
(* kernel does what the reference does.                                    *)
(***************************************************************************)
EXTENDS VectorStream, DecodeReferenceProofs

-----------------------------------------------------------------------------
(* Masks as numbers.                                                       *)

\* The lanes of a block, and the next ones.
LEMMA LaneFacts ==
  /\ Width \in Nat /\ Width >= 2 /\ Lanes = 0..(Width - 1)
  /\ 0 \in Lanes /\ 1 \in Lanes /\ Width - 1 \in Lanes
  /\ \A i \in Lanes : i \in Nat /\ i + 1 \in 1..Width /\ i \in 0..Width /\ i < Width
PROOF
  <1>1. Width \in Nat \ {0} /\ Width % 2 = 0
    BY SIMDAssumption
  <1>2. Width >= 2
    BY <1>1
  <1>3. Lanes = 0..(Width - 1)
    BY DEF Lanes
  <1> QED BY <1>1, <1>2, <1>3

Bit(mask, i) == IF i \in mask THEN 1 ELSE 0

\* The number of a mask, from the highest lane down.
LEMMA ValueCounts ==
  ASSUME NEW mask
  PROVE  \E top \in [0..Width -> Nat] :
           /\ top[0] = 0 /\ Value(mask) = top[Width]
           /\ \A n \in 1..Width : top[n] = 2 * top[n - 1] + Bit(mask, Width - n)
PROOF
  <1> DEFINE step == [p \in (1..Width) \X Nat |-> 2 * p[2] + Bit(mask, Width - p[1])]
             Eq(top) == top = [n \in 0..Width |->
                          IF n = 0 THEN 0 ELSE 2 * top[n - 1] + Bit(mask, Width - n)]
             t == CHOOSE top : Eq(top)
  <1>1. Width \in Nat
    BY LaneFacts
  <1>2. \A i : Bit(mask, i) \in {0, 1}
    BY DEF Bit
  <1>3. step \in [(1..Width) \X Nat -> Nat]
    BY <1>2
  <1>4. \E top : Eq(top)
    <2> HIDE DEF step
    <2>1. PICK f : CountsUp(f, Width, 0, step)
      BY <1>1, <1>3, CountExists
    <2>2. f \in [0..Width -> Nat]
      BY <1>1, <1>3, <2>1, CountType
    <2>3. f = [n \in 0..Width |-> IF n = 0 THEN 0 ELSE step[<<n, f[n - 1]>>]]
      BY <2>1 DEF CountsUp
    <2>4. \A n \in 0..Width : n # 0 =>
            step[<<n, f[n - 1]>>] = 2 * f[n - 1] + Bit(mask, Width - n)
      <3> SUFFICES ASSUME NEW n \in 0..Width, n # 0
                   PROVE  step[<<n, f[n - 1]>>] = 2 * f[n - 1] + Bit(mask, Width - n)
        OBVIOUS
      <3>1. n \in 1..Width /\ n - 1 \in 0..Width
        BY <1>1
      <3>2. f[n - 1] \in Nat
        BY <2>2, <3>1
      <3> QED BY <3>1, <3>2 DEF step
    <2>5. Eq(f)
      BY <2>3, <2>4
    <2> QED BY <2>5
  <1>5. Eq(t)
    BY <1>4
  <1>6. Value(mask) = t[Width]
    BY DEF Value, Bit
  <1> HIDE DEF t
  <1>7. \A n \in 0..Width :
          t[n] = IF n = 0 THEN 0 ELSE 2 * t[n - 1] + Bit(mask, Width - n)
    BY <1>5
  <1> DEFINE I == {n \in 0..Width : t[n] \in Nat}
  <1>8. 0..Width \subseteq I
    <2>1. 0 \in I
      <3>1. 0 \in 0..Width
        BY <1>1
      <3> QED BY <1>7, <3>1
    <2>2. ASSUME NEW n \in 0..(Width - 1), n \in I
          PROVE  n + 1 \in I
      <3>1. n + 1 \in 0..Width /\ n + 1 # 0 /\ (n + 1) - 1 = n
        BY <1>1
      <3>2. t[n + 1] = 2 * t[n] + Bit(mask, Width - (n + 1))
        BY <1>7, <3>1
      <3> QED BY <1>2, <2>2, <3>1, <3>2
    <2> HIDE DEF I
    <2> QED BY <1>1, <2>1, <2>2, UpTo
  <1>9. t \in [0..Width -> Nat]
    <2>1. t = [n \in 0..Width |-> t[n]]
      BY <1>5
    <2> QED BY <1>8, <2>1
  <1>10. \A n \in 1..Width : t[n] = 2 * t[n - 1] + Bit(mask, Width - n)
    <2>1. \A n \in 1..Width : n \in 0..Width /\ n # 0
      BY <1>1
    <2> QED BY <1>7, <2>1
  <1>11. t[0] = 0
    <2>1. 0 \in 0..Width
      BY <1>1
    <2> QED BY <1>7, <2>1
  <1> QED BY <1>6, <1>9, <1>10, <1>11

\* The lanes of a number, from the lowest up.
LEMMA BitsCount ==
  ASSUME NEW number \in Nat
  PROVE  \E above \in [0..Width -> Nat] :
           /\ above[0] = number /\ Bits(number) = {i \in Lanes : above[i] % 2 = 1}
           /\ \A n \in 1..Width : above[n] = above[n - 1] \div 2
PROOF
  <1> DEFINE step == [p \in (1..Width) \X Nat |-> p[2] \div 2]
             Eq(above) == above = [n \in 0..Width |->
                            IF n = 0 THEN number ELSE above[n - 1] \div 2]
             t == CHOOSE above : Eq(above)
  <1>1. Width \in Nat
    BY LaneFacts
  <1>3. step \in [(1..Width) \X Nat -> Nat]
    OBVIOUS
  <1>4. \E above : Eq(above)
    <2> HIDE DEF step
    <2>1. PICK f : CountsUp(f, Width, number, step)
      BY <1>1, <1>3, CountExists
    <2>2. f \in [0..Width -> Nat]
      BY <1>1, <1>3, <2>1, CountType
    <2>3. f = [n \in 0..Width |-> IF n = 0 THEN number ELSE step[<<n, f[n - 1]>>]]
      BY <2>1 DEF CountsUp
    <2>4. \A n \in 0..Width : n # 0 => step[<<n, f[n - 1]>>] = f[n - 1] \div 2
      BY <1>1, <2>2 DEF step
    <2>5. Eq(f)
      BY <2>3, <2>4
    <2> QED BY <2>5
  <1>5. Eq(t)
    BY <1>4
  <1>6. Bits(number) = {i \in Lanes : t[i] % 2 = 1}
    BY DEF Bits
  <1> HIDE DEF t
  <1>7. \A n \in 0..Width : t[n] = IF n = 0 THEN number ELSE t[n - 1] \div 2
    BY <1>5
  <1> DEFINE I == {n \in 0..Width : t[n] \in Nat}
  <1>8. 0..Width \subseteq I
    <2>1. 0 \in I
      <3>1. 0 \in 0..Width
        BY <1>1
      <3> QED BY <1>7, <3>1
    <2>2. ASSUME NEW n \in 0..(Width - 1), n \in I
          PROVE  n + 1 \in I
      <3>1. n + 1 \in 0..Width /\ n + 1 # 0 /\ (n + 1) - 1 = n
        BY <1>1
      <3>2. t[n + 1] = t[n] \div 2
        BY <1>7, <3>1
      <3> QED BY <2>2, <3>1, <3>2
    <2> HIDE DEF I
    <2> QED BY <1>1, <2>1, <2>2, UpTo
  <1>9. t \in [0..Width -> Nat]
    <2>1. t = [n \in 0..Width |-> t[n]]
      BY <1>5
    <2> QED BY <1>8, <2>1
  <1>10. \A n \in 1..Width : t[n] = t[n - 1] \div 2
    <2>1. \A n \in 1..Width : n \in 0..Width /\ n # 0
      BY <1>1
    <2> QED BY <1>7, <2>1
  <1>11. t[0] = number
    <2>1. 0 \in 0..Width
      BY <1>1
    <2> QED BY <1>7, <2>1
  <1> QED BY <1>6, <1>9, <1>10, <1>11

\* Adding the numbers of two masks goes lane by lane, with a carry.
LEMMA SumCarries ==
  ASSUME NEW A, NEW B
  PROVE  \E c \in [0..Width -> {0, 1}] :
           /\ c[0] = 0
           /\ \A i \in Lanes :
                /\ c[i + 1] = (Bit(A, i) + Bit(B, i) + c[i]) \div 2
                /\ i \in Bits(Value(A) + Value(B))
                     <=> (Bit(A, i) + Bit(B, i) + c[i]) % 2 = 1
PROOF
  <1>1. PICK a \in [0..Width -> Nat] :
          /\ a[0] = 0 /\ Value(A) = a[Width]
          /\ \A n \in 1..Width : a[n] = 2 * a[n - 1] + Bit(A, Width - n)
    BY ValueCounts
  <1>2. PICK b \in [0..Width -> Nat] :
          /\ b[0] = 0 /\ Value(B) = b[Width]
          /\ \A n \in 1..Width : b[n] = 2 * b[n - 1] + Bit(B, Width - n)
    BY ValueCounts
  <1>3. Width \in Nat
    BY LaneFacts
  <1>4. Value(A) + Value(B) \in Nat
    BY <1>1, <1>2, <1>3
  <1>5. PICK h \in [0..Width -> Nat] :
          /\ h[0] = Value(A) + Value(B)
          /\ Bits(Value(A) + Value(B)) = {i \in Lanes : h[i] % 2 = 1}
          /\ \A n \in 1..Width : h[n] = h[n - 1] \div 2
    BY <1>4, BitsCount
  <1> DEFINE c == [i \in 0..Width |-> h[i] - a[Width - i] - b[Width - i]]
             I == {i \in 0..Width : c[i] \in {0, 1}}
  <1>6. ASSUME NEW i \in Lanes, c[i] \in {0, 1}
        PROVE  /\ c[i + 1] = (Bit(A, i) + Bit(B, i) + c[i]) \div 2
               /\ c[i + 1] \in {0, 1}
               /\ i \in Bits(Value(A) + Value(B))
                    <=> (Bit(A, i) + Bit(B, i) + c[i]) % 2 = 1
    <2>1. /\ i \in 0..Width /\ i + 1 \in 1..Width /\ i + 1 \in 0..Width
          /\ (i + 1) - 1 = i /\ Width - i \in 1..Width
          /\ (Width - i) - 1 = Width - (i + 1) /\ Width - (Width - i) = i
          /\ Width - (i + 1) \in 0..Width
      BY <1>3 DEF Lanes
    <2> DEFINE x == a[Width - (i + 1)]
               y == b[Width - (i + 1)]
               s == Bit(A, i) + Bit(B, i) + c[i]
               p == a[Width - i]
               q == b[Width - i]
    <2>2. x \in Nat /\ y \in Nat /\ h[i] \in Nat
      BY <2>1
    <2>3. p = 2 * x + Bit(A, i) /\ q = 2 * y + Bit(B, i)
      <3>1. a[Width - i] = 2 * a[(Width - i) - 1] + Bit(A, Width - (Width - i))
        BY <1>1, <2>1
      <3>2. b[Width - i] = 2 * b[(Width - i) - 1] + Bit(B, Width - (Width - i))
        BY <1>2, <2>1
      <3> QED BY <2>1, <3>1, <3>2
    <2>4. c[i] = h[i] - p - q
      BY <2>1
    <2>5. c[i + 1] = h[i + 1] - x - y
      BY <2>1
    <2>6. h[i + 1] = h[i] \div 2
      BY <1>5, <2>1
    <2>7. Bit(A, i) \in {0, 1} /\ Bit(B, i) \in {0, 1}
      BY DEF Bit
    <2>8. s \in 0..3
      <3>1. \A u, v, w \in {0, 1} : u + v + w \in 0..3
        OBVIOUS
      <3> HIDE DEF c
      <3> QED BY <1>6, <2>7, <3>1
    <2> HIDE DEF c
    <2>9. h[i] = 2 * (x + y) + s
      <3> DEFINE u == Bit(A, i)
                 v == Bit(B, i)
                 w == c[i]
                 z == h[i]
      <3>1. u \in Int /\ v \in Int /\ w \in Int /\ x \in Int /\ y \in Int /\ z \in Int
        BY <1>6, <2>2, <2>7
      <3>2. p = 2 * x + u /\ q = 2 * y + v /\ w = z - p - q
        BY <2>3, <2>4
      <3> HIDE DEF u, v, w, x, y, z, p, q
      <3>3. z = 2 * (x + y) + (u + v + w)
        BY <3>1, <3>2
      <3> QED BY <3>3 DEF u, v, w, z, s
    <2> HIDE DEF x, y, s
    <2>10. h[i] \div 2 = x + y + (s \div 2) /\ h[i] % 2 = s % 2
      <3>1. \A m \in Nat : \A r \in 0..3 :
              (2 * m + r) \div 2 = m + (r \div 2) /\ (2 * m + r) % 2 = r % 2
        OBVIOUS
      <3>2. x + y \in Nat
        BY <2>2
      <3> QED BY <2>2, <2>8, <2>9, <3>1, <3>2
    <2>11. c[i + 1] = s \div 2
      BY <2>2, <2>5, <2>6, <2>8, <2>10
    <2>12. s \div 2 \in {0, 1}
      BY <2>8
    <2>13. i \in Bits(Value(A) + Value(B)) <=> s % 2 = 1
      BY <1>5, <2>10
    <2> QED BY <2>11, <2>12, <2>13 DEF s
  <1>7. c[0] = 0
    <2>1. 0 \in 0..Width /\ Width - 0 = Width /\ Width \in 0..Width
      BY <1>3
    <2> DEFINE x == a[Width]
               y == b[Width]
    <2>2. x \in Nat /\ y \in Nat
      BY <2>1
    <2>3. h[0] = x + y
      BY <1>1, <1>2, <1>5
    <2>4. c[0] = h[0] - x - y
      BY <2>1
    <2> HIDE DEF c, x, y
    <2> QED BY <2>2, <2>3, <2>4
  <1>8. 0..Width \subseteq I
    <2>1. 0 \in I
      <3>1. 0 \in 0..Width
        BY <1>3
      <3> HIDE DEF c
      <3> QED BY <1>7, <3>1
    <2>2. ASSUME NEW i \in 0..(Width - 1), i \in I
          PROVE  i + 1 \in I
      <3>1. i \in Lanes /\ i + 1 \in 0..Width
        BY <1>3 DEF Lanes
      <3> HIDE DEF c
      <3>2. c[i + 1] \in {0, 1}
        BY <1>6, <2>2, <3>1
      <3> QED BY <3>1, <3>2
    <2> HIDE DEF I
    <2> QED BY <1>3, <2>1, <2>2, UpTo
  <1>9. c \in [0..Width -> {0, 1}]
    <2>1. \A i \in 0..Width : c[i] \in {0, 1}
      <3> HIDE DEF c
      <3> QED BY <1>8
    <2>2. c = [i \in 0..Width |-> c[i]]
      OBVIOUS
    <2> HIDE DEF c
    <2> QED BY <2>1, <2>2
  <1>10. \A i \in Lanes : i \in 0..Width
    BY <1>3 DEF Lanes
  <1> HIDE DEF c
  <1> QED BY <1>6, <1>7, <1>9, <1>10

(***************************************************************************)
(* The lanes of a block that follow a '=' which escapes, and whether the   *)
(* block behind it begins with one, when those of a mask are '=': it       *)
(* escapes what follows unless it is escaped itself.                       *)
(***************************************************************************)
Escapes(X, E) ==
  /\ X \subseteq 0..Width
  /\ \A i \in Lanes : i + 1 \in X <=> i \in E /\ i \notin X

\* fixEqMask finds the '=' that escape, of a mask of '=' with runs of any
\* lengths: the carry of the sum tells whether a run has begun on an even lane.
THEOREM FixEqMaskCorrect ==
  ASSUME NEW E \in SUBSET Lanes, NEW X \in SUBSET (0..Width), Escapes(X, E)
  PROVE  FixEqMask(E, Shifted1(E) \cup (X \cap {0})) = E \ X
PROOF
  <1> DEFINE shift1 == Shifted1(E) \cup (X \cap {0})
             B == (E \ shift1) \cap EvenLanes
  <1>1. PICK c \in [0..Width -> {0, 1}] :
          /\ c[0] = 0
          /\ \A i \in Lanes :
               /\ c[i + 1] = (Bit(E, i) + Bit(B, i) + c[i]) \div 2
               /\ i \in Bits(Value(E) + Value(B))
                    <=> (Bit(E, i) + Bit(B, i) + c[i]) % 2 = 1
    BY SumCarries
  <1> DEFINE Even(i) == i % 2 = 0
             Right(i) == i \in E => (i \notin X <=> (c[i + 1] = 1 <=> Even(i)))
             I == {i \in 0..Width : i \in Lanes => Right(i)}
  <1>2. \A i \in Lanes : i \in EvenLanes <=> Even(i)
    BY DEF EvenLanes
  <1>3. Width \in Nat /\ \A i \in Lanes : i \in Nat /\ i \in 0..Width /\ i + 1 \in 0..Width
    BY LaneFacts DEF Lanes
  <1>4. \A i \in Lanes : i \in shift1 <=> (i = 0 /\ 0 \in X) \/ (i > 0 /\ i - 1 \in E)
    BY <1>3 DEF Shifted1
  <1>5. ASSUME NEW i \in Lanes, i \in E
        PROVE  /\ i \notin shift1 => (c[i + 1] = 1 <=> Even(i)) /\ (c[i] = 0)
               /\ i \in shift1 => c[i + 1] = c[i]
               /\ i \in Bits(Value(E) + Value(B)) <=> c[i + 1] = 0
    <2>1. /\ c[i + 1] = (Bit(E, i) + Bit(B, i) + c[i]) \div 2
          /\ i \in Bits(Value(E) + Value(B))
                    <=> (Bit(E, i) + Bit(B, i) + c[i]) % 2 = 1
      BY <1>1
    <2>2. Bit(E, i) = 1
      BY <1>5 DEF Bit
    <2>3. c[i] \in {0, 1}
      BY <1>3
    <2>4. CASE i \in shift1
      <3>1. Bit(B, i) = 0
        BY <2>4 DEF Bit
      <3> QED BY <2>1, <2>2, <2>3, <2>4, <3>1
    <2>5. CASE i \notin shift1
      <3>1. c[i] = 0
        <4>1. CASE i = 0
          BY <1>1, <4>1
        <4>2. CASE i # 0
          <5>1. i - 1 \in Lanes /\ i - 1 \notin E /\ (i - 1) + 1 = i
            BY <1>3, <1>4, <2>5, <4>2 DEF Lanes
          <5>2. Bit(E, i - 1) = 0 /\ Bit(B, i - 1) = 0
            BY <5>1 DEF Bit
          <5>3. c[i - 1] \in {0, 1}
            BY <1>3, <5>1
          <5>4. c[(i - 1) + 1] = (Bit(E, i - 1) + Bit(B, i - 1) + c[i - 1]) \div 2
            BY <1>1, <5>1
          <5> QED BY <5>1, <5>2, <5>3, <5>4
        <4> QED BY <4>1, <4>2
      <3>2. Bit(B, i) = IF Even(i) THEN 1 ELSE 0
        BY <1>2, <1>5, <2>5 DEF Bit
      <3> QED BY <2>1, <2>2, <2>5, <3>1, <3>2
    <2> QED BY <2>4, <2>5
  <1>6. 0 \in I
    <2>1. 0 \in Lanes /\ 0 \in 0..Width /\ Even(0)
      BY LaneFacts
    <2>2. ASSUME 0 \in E
          PROVE  0 \notin X <=> (c[0 + 1] = 1 <=> Even(0))
      <3>1. 0 \in shift1 <=> 0 \in X
        BY <1>4, <2>1
      <3> QED BY <1>1, <1>5, <2>1, <2>2, <3>1
    <2> QED BY <2>1, <2>2
  <1>7. ASSUME NEW i \in 0..(Width - 1), i \in I
        PROVE  i + 1 \in I
    <2>1. i \in Lanes /\ i + 1 \in 0..Width /\ i \in Nat
      BY <1>3 DEF Lanes
    <2>2. ASSUME i + 1 \in Lanes, i + 1 \in E
          PROVE  i + 1 \notin X <=> (c[(i + 1) + 1] = 1 <=> Even(i + 1))
      <3>1. i + 1 \in X <=> i \in E /\ i \notin X
        BY <2>1 DEF Escapes
      <3>2. i + 1 \in shift1 <=> i \in E
        BY <1>4, <2>1, <2>2
      <3>3. Even(i + 1) <=> ~Even(i)
        BY <2>1
      <3>4. CASE i \in E
        <4>1. c[(i + 1) + 1] = c[i + 1]
          BY <1>5, <2>2, <3>2, <3>4
        <4>2. i \notin X <=> (c[i + 1] = 1 <=> Even(i))
          BY <1>7, <2>1, <3>4
        <4> QED BY <3>1, <3>3, <3>4, <4>1, <4>2
      <3>5. CASE i \notin E
        BY <1>5, <2>2, <3>1, <3>2, <3>5
      <3> QED BY <3>4, <3>5
    <2> QED BY <2>1, <2>2
  <1>8. 0..Width \subseteq I
    <2> HIDE DEF I
    <2> QED BY <1>3, <1>6, <1>7, UpTo
  <1>9. \A i \in E : i \in Lanes /\ Right(i)
    BY <1>3, <1>8
  <1>10. FixEqMask(E, shift1) =
           {i \in E : i \in Bits(Value(E) + Value(B)) <=> i \notin EvenLanes}
    BY DEF FixEqMask
  <1>11. ASSUME NEW i \in E
         PROVE  (i \in Bits(Value(E) + Value(B)) <=> i \notin EvenLanes) <=> i \notin X
    <2>1. i \in Lanes /\ (i \notin X <=> (c[i + 1] = 1 <=> Even(i)))
      BY <1>9
    <2>2. i \in Bits(Value(E) + Value(B)) <=> c[i + 1] = 0
      BY <1>5, <2>1
    <2>3. c[i + 1] \in {0, 1}
      BY <1>3, <2>1
    <2> QED BY <1>2, <2>1, <2>2, <2>3
  <1> QED BY <1>10, <1>11

-----------------------------------------------------------------------------
(* One character, when no end of the data is near.                         *)

\* The States in which the next character is escaped.
Escaping == {"EQ", "CRLFEQ"}

\* What a character that ends nothing becomes: the State it leaves, and whether
\* it is dropped, decoded or decoded as an escaped one.
LEMMA ClassifiedSays ==
  ASSUME NEW st \in States, NEW c \in Nat,
         ~(st = "CRLFEQ" /\ c = Y), ~(st = "CRLFDTCR" /\ c = LF)
  PROVE  LET r == Classified(st, c) IN
         /\ r.end = "none" /\ r.state \in States
         /\ r.emit = IF st \in Escaping THEN <<Escaped(c)>>
                     ELSE IF c \in {CR, LF, EQ} \/ (st = "CRLF" /\ c = DOT) THEN <<>>
                     ELSE <<Plain(c)>>
         /\ r.state \in Escaping <=> c = EQ /\ st \notin Escaping
         /\ r.state = "CRLF" <=> st = "CR" /\ c = LF
         /\ r.state = "CR" <=> c = CR /\ st # "CRLFDT"
         /\ r.state = "CRLFDT" <=> st = "CRLF" /\ c = DOT
         /\ r.state = "CRLFDTCR" <=> st = "CRLFDT" /\ c = CR
         /\ r.state = "CRLFEQ" <=> st \in {"CRLF", "CRLFDT"} /\ c = EQ
PROOF
  <1> DEFINE r == Classified(st, c)
             Good == /\ r.end = "none" /\ r.state \in States
                     /\ r.emit = IF st \in Escaping THEN <<Escaped(c)>>
                                 ELSE IF c \in {CR, LF, EQ} \/ (st = "CRLF" /\ c = DOT)
                                      THEN <<>>
                                 ELSE <<Plain(c)>>
                     /\ r.state \in Escaping <=> c = EQ /\ st \notin Escaping
                     /\ r.state = "CRLF" <=> st = "CR" /\ c = LF
                     /\ r.state = "CR" <=> c = CR /\ st # "CRLFDT"
                     /\ r.state = "CRLFDT" <=> st = "CRLF" /\ c = DOT
                     /\ r.state = "CRLFDTCR" <=> st = "CRLFDT" /\ c = CR
                     /\ r.state = "CRLFEQ" <=> st \in {"CRLF", "CRLFDT"} /\ c = EQ
  <1> SUFFICES Good
    OBVIOUS
  <1> USE DEF CR, LF, DOT, EQ, Y, To, States, Escaping
  <1>1. CASE st = "CRLFEQ"
    BY <1>1 DEF Classified
  <1>2. CASE st = "EQ"
    BY <1>2 DEF Classified
  <1>3. CASE st = "CR"
    BY <1>3 DEF Classified
  <1>4. CASE st = "NONE"
    BY <1>4 DEF Classified
  <1>5. CASE st = "CRLF"
    BY <1>5 DEF Classified
  <1>6. CASE st = "CRLFDT"
    BY <1>6 DEF Classified
  <1>7. CASE st = "CRLFDTCR"
    BY <1>7 DEF Classified
  <1> HIDE DEF Good
  <1> QED BY <1>1, <1>2, <1>3, <1>4, <1>5, <1>6, <1>7

\* Patterns, character by character.
LEMMA ShowsCharacters ==
  ASSUME NEW s \in Seq(Nat), NEW n \in Nat, NEW a \in Nat, NEW b \in Nat, NEW c \in Nat
  PROVE  /\ Shows(s, n, <<a>>) <=> n + 1 <= Len(s) /\ s[n + 1] = a
         /\ Shows(s, n, <<a, b>>) <=> n + 2 <= Len(s) /\ s[n + 1] = a /\ s[n + 2] = b
         /\ Shows(s, n, <<a, b, c>>) <=>
              n + 3 <= Len(s) /\ s[n + 1] = a /\ s[n + 2] = b /\ s[n + 3] = c
         /\ HasAt(s, n, <<a, b, c>>) <=> s[n + 1] = a /\ s[n + 2] = b /\ s[n + 3] = c
PROOF
  <1> DEFINE u == <<a>>
             v == <<a, b>>
             w == <<a, b, c>>
  <1>1. Len(u) = 1 /\ Len(v) = 2 /\ Len(w) = 3
    OBVIOUS
  <1>2. u[1] = a /\ v[1] = a /\ v[2] = b /\ w[1] = a /\ w[2] = b /\ w[3] = c
    OBVIOUS
  <1> HIDE DEF u, v, w
  <1>3. HasAt(s, n, u) <=> s[n + 1] = a
    <2>1. 1..Len(u) = {1}
      BY <1>1
    <2> QED BY <1>2, <2>1 DEF HasAt
  <1>4. HasAt(s, n, v) <=> s[n + 1] = a /\ s[n + 2] = b
    <2>1. 1..Len(v) = {1, 2}
      BY <1>1
    <2> QED BY <1>2, <2>1 DEF HasAt
  <1>5. HasAt(s, n, w) <=> s[n + 1] = a /\ s[n + 2] = b /\ s[n + 3] = c
    <2>1. 1..Len(w) = {1, 2, 3}
      BY <1>1
    <2> QED BY <1>2, <2>1 DEF HasAt
  <1>6. /\ Shows(s, n, u) <=> n + 1 <= Len(s) /\ s[n + 1] = a
        /\ Shows(s, n, v) <=> n + 2 <= Len(s) /\ s[n + 1] = a /\ s[n + 2] = b
        /\ Shows(s, n, w) <=>
              n + 3 <= Len(s) /\ s[n + 1] = a /\ s[n + 2] = b /\ s[n + 3] = c
    BY <1>1, <1>3, <1>4, <1>5 DEF Shows
  <1> QED BY <1>5, <1>6 DEF u, v, w

\* A pattern behind a character.
LEMMA ShowsBehind ==
  ASSUME NEW s \in Seq(Nat), NEW n \in Nat, NEW a \in Nat, NEW p \in Seq(Nat)
  PROVE  Shows(s, n, <<a>> \o p) <=> n + 1 <= Len(s) /\ s[n + 1] = a /\ Shows(s, n + 1, p)
PROOF
  <1> DEFINE w == <<a>> \o p
  <1>1. Len(p) \in Nat /\ Len(s) \in Nat
    OBVIOUS
  <1>2. /\ w \in Seq(Nat) /\ Len(w) = 1 + Len(p) /\ w[1] = a
        /\ \A j \in 1..Len(p) : w[j + 1] = p[j]
    <2>1. <<a>> \in Seq(Nat) /\ Len(<<a>>) = 1 /\ <<a>>[1] = a
      OBVIOUS
    <2>2. w \in Seq(Nat) /\ Len(w) = 1 + Len(p)
      BY <2>1, ConcatProperties
    <2>3. \A i \in 1..(1 + Len(p)) : w[i] = IF i <= 1 THEN <<a>>[i] ELSE p[i - 1]
      BY <2>1, ConcatProperties
    <2>4. 1 \in 1..(1 + Len(p))
          /\ \A j \in 1..Len(p) : j + 1 \in 1..(1 + Len(p)) /\ ~(j + 1 <= 1)
                                  /\ (j + 1) - 1 = j
      BY <1>1
    <2>5. w[1] = a
      BY <2>1, <2>3, <2>4
    <2>6. ASSUME NEW j \in 1..Len(p) PROVE w[j + 1] = p[j]
      BY <2>3, <2>4
    <2> QED BY <2>2, <2>5, <2>6
  <1> HIDE DEF w
  <1>3. HasAt(s, n, w) <=> s[n + 1] = a /\ HasAt(s, n + 1, p)
    <2>1. ASSUME HasAt(s, n, w)
          PROVE  s[n + 1] = a /\ HasAt(s, n + 1, p)
      <3>1. 1 \in 1..Len(w)
        BY <1>1, <1>2
      <3>2. ASSUME NEW j \in 1..Len(p) PROVE s[(n + 1) + j] = p[j]
        <4>1. j + 1 \in 1..Len(w) /\ n + (j + 1) = (n + 1) + j
          BY <1>1, <1>2
        <4> QED BY <1>2, <2>1, <4>1 DEF HasAt
      <3> QED BY <1>2, <2>1, <3>1, <3>2 DEF HasAt
    <2>2. ASSUME s[n + 1] = a, HasAt(s, n + 1, p)
          PROVE  HasAt(s, n, w)
      <3> SUFFICES ASSUME NEW j \in 1..Len(w) PROVE s[n + j] = w[j]
        BY DEF HasAt
      <3>1. CASE j = 1
        BY <1>2, <2>2, <3>1
      <3>2. CASE j # 1
        <4>1. j - 1 \in 1..Len(p) /\ (n + 1) + (j - 1) = n + j /\ (j - 1) + 1 = j
          BY <1>1, <1>2, <3>2
        <4>2. s[(n + 1) + (j - 1)] = p[j - 1]
          BY <2>2, <4>1 DEF HasAt
        <4>3. w[(j - 1) + 1] = p[j - 1]
          BY <1>2, <4>1
        <4> QED BY <4>1, <4>2, <4>3
      <3> QED BY <3>1, <3>2
    <2> QED BY <2>1, <2>2
  <1>4. n + Len(w) <= Len(s) => n + 1 <= Len(s)
    BY <1>1, <1>2
  <1>5. n + Len(w) <= Len(s) <=> (n + 1) + Len(p) <= Len(s)
    BY <1>1, <1>2
  <1>6. Shows(s, n, w) <=> n + 1 <= Len(s) /\ s[n + 1] = a /\ Shows(s, n + 1, p)
    BY <1>3, <1>4, <1>5 DEF Shows
  <1> QED BY <1>6 DEF w

\* The ends of the data: behind a line end, missing after a State, and whole.
LineEndAt(s, n) == \E p \in LineEnds : Shows(s, n, p)
EndAt(s, n, st) == \E p \in EndsBegun(st) : Shows(s, n, p)
TerminatorAt(s, n) == \E t \in Terminators : Shows(s, n, t)

\* They are sequences of characters.
LEMMA PatternTypes ==
  /\ CR \in Nat /\ LF \in Nat /\ DOT \in Nat /\ EQ \in Nat /\ Y \in Nat
  /\ LineEnds \subseteq Seq(Nat)
PROOF
  <1>1. CR \in Nat /\ LF \in Nat /\ DOT \in Nat /\ EQ \in Nat /\ Y \in Nat
    BY DEF CR, LF, DOT, EQ, Y
  <1>2. <<DOT, CR, LF>> \in Seq(Nat) /\ <<DOT, EQ, Y>> \in Seq(Nat) /\ <<EQ, Y>> \in Seq(Nat)
    BY <1>1
  <1> QED BY <1>1, <1>2 DEF LineEnds

\* Where s shows those that decodeSIMD looks for.
LEMMA ShowsPatterns ==
  ASSUME NEW s \in Seq(Nat), NEW n \in Nat
  PROVE  /\ Shows(s, n, <<Y>>) <=> n + 1 <= Len(s) /\ s[n + 1] = Y
         /\ Shows(s, n, <<LF>>) <=> n + 1 <= Len(s) /\ s[n + 1] = LF
         /\ Shows(s, n, <<EQ, Y>>) <=> n + 2 <= Len(s) /\ s[n + 1] = EQ /\ s[n + 2] = Y
         /\ Shows(s, n, <<CR, LF>>) <=> n + 2 <= Len(s) /\ s[n + 1] = CR /\ s[n + 2] = LF
         /\ Shows(s, n, <<DOT, EQ, Y>>) <=>
              n + 3 <= Len(s) /\ s[n + 1] = DOT /\ s[n + 2] = EQ /\ s[n + 3] = Y
         /\ Shows(s, n, <<DOT, CR, LF>>) <=>
              n + 3 <= Len(s) /\ s[n + 1] = DOT /\ s[n + 2] = CR /\ s[n + 3] = LF
PROOF
  <1>1. CR \in Nat /\ LF \in Nat /\ DOT \in Nat /\ EQ \in Nat /\ Y \in Nat
    BY PatternTypes
  <1>2. \A a \in Nat : Shows(s, n, <<a>>) <=> n + 1 <= Len(s) /\ s[n + 1] = a
    <2> TAKE a \in Nat
    <2> QED BY ShowsCharacters, Zenon
  <1>3. \A a, b \in Nat :
          Shows(s, n, <<a, b>>) <=> n + 2 <= Len(s) /\ s[n + 1] = a /\ s[n + 2] = b
    <2> TAKE a, b \in Nat
    <2> QED BY ShowsCharacters, Zenon
  <1>4. \A a, b, c \in Nat :
          Shows(s, n, <<a, b, c>>) <=>
            n + 3 <= Len(s) /\ s[n + 1] = a /\ s[n + 2] = b /\ s[n + 3] = c
    <2> TAKE a, b, c \in Nat
    <2> QED BY ShowsCharacters, ZenonT(30)
  <1>5. /\ Shows(s, n, <<Y>>) <=> n + 1 <= Len(s) /\ s[n + 1] = Y
        /\ Shows(s, n, <<LF>>) <=> n + 1 <= Len(s) /\ s[n + 1] = LF
    BY <1>1, <1>2, Zenon
  <1>6. Shows(s, n, <<EQ, Y>>) <=> n + 2 <= Len(s) /\ s[n + 1] = EQ /\ s[n + 2] = Y
    <2>1. EQ \in Nat /\ Y \in Nat
      BY <1>1
    <2> QED BY <1>3, <2>1, Zenon
  <1>7. Shows(s, n, <<CR, LF>>) <=> n + 2 <= Len(s) /\ s[n + 1] = CR /\ s[n + 2] = LF
    <2>1. CR \in Nat /\ LF \in Nat
      BY <1>1
    <2> QED BY <1>3, <2>1, Zenon
  <1>8. Shows(s, n, <<DOT, EQ, Y>>) <=>
          n + 3 <= Len(s) /\ s[n + 1] = DOT /\ s[n + 2] = EQ /\ s[n + 3] = Y
    <2>1. DOT \in Nat /\ EQ \in Nat /\ Y \in Nat
      BY <1>1
    <2> QED BY <1>4, <2>1, Zenon
  <1>9. Shows(s, n, <<DOT, CR, LF>>) <=>
          n + 3 <= Len(s) /\ s[n + 1] = DOT /\ s[n + 2] = CR /\ s[n + 3] = LF
    <2>1. DOT \in Nat /\ CR \in Nat /\ LF \in Nat
      BY <1>1
    <2> QED BY <1>4, <2>1, Zenon
  <1> QED BY <1>5, <1>6, <1>7, <1>8, <1>9

\* A sequence is its first element before the others.
LEMMA Prepended ==
  ASSUME NEW a \in Nat, NEW p \in Seq(Nat), NEW w \in Seq(Nat),
         Len(w) = 1 + Len(p), w[1] = a, \A j \in 1..Len(p) : w[j + 1] = p[j]
  PROVE  w = <<a>> \o p
PROOF
  <1> DEFINE v == <<a>> \o p
  <1>1. Len(p) \in Nat
    OBVIOUS
  <1>2. <<a>> \in Seq(Nat) /\ Len(<<a>>) = 1 /\ <<a>>[1] = a
    OBVIOUS
  <1>3. v \in Seq(Nat) /\ Len(v) = 1 + Len(p)
    BY <1>2, ConcatProperties
  <1>4. \A i \in 1..(1 + Len(p)) : v[i] = IF i <= 1 THEN <<a>>[i] ELSE p[i - 1]
    BY <1>2, ConcatProperties
  <1> HIDE DEF v
  <1>5. ASSUME NEW i \in 1..Len(w) PROVE w[i] = v[i]
    <2>1. CASE i = 1
      BY <1>1, <1>2, <1>4, <2>1
    <2>2. CASE i # 1
      <3>1. i - 1 \in 1..Len(p) /\ (i - 1) + 1 = i /\ i \in 1..(1 + Len(p)) /\ ~(i <= 1)
        BY <1>1, <2>2
      <3> QED BY <1>4, <3>1
    <2> QED BY <2>1, <2>2
  <1>6. w = v
    BY <1>3, <1>5, SeqEqual
  <1> QED BY <1>6 DEF v

\* The ends behind a line end, and the terminators, from their first character.
LEMMA TerminatorsPrepended ==
  /\ <<LF, EQ, Y>> = <<LF>> \o <<EQ, Y>>
  /\ <<CR, LF, EQ, Y>> = <<CR>> \o <<LF, EQ, Y>>
  /\ <<LF, DOT, CR, LF>> = <<LF>> \o <<DOT, CR, LF>>
  /\ <<CR, LF, DOT, CR, LF>> = <<CR>> \o <<LF, DOT, CR, LF>>
  /\ <<LF, DOT, EQ, Y>> = <<LF>> \o <<DOT, EQ, Y>>
  /\ <<CR, LF, DOT, EQ, Y>> = <<CR>> \o <<LF, DOT, EQ, Y>>
PROOF
  <1>1. <<LF, EQ, Y>> = <<LF>> \o <<EQ, Y>>
    <2> DEFINE w == <<LF, EQ, Y>>
               p == <<EQ, Y>>
    <2>1. /\ w \in Seq(Nat) /\ Len(w) = 3
          /\ w[1] = LF /\ w[2] = EQ /\ w[3] = Y
      BY PatternTypes
    <2>2. /\ p \in Seq(Nat) /\ Len(p) = 2
          /\ p[1] = EQ /\ p[2] = Y
      BY PatternTypes
    <2> HIDE DEF w, p
    <2>3. \A j \in 1..Len(p) : w[j + 1] = p[j]
      <3>1. 1..Len(p) = {1, 2}
        BY <2>2
      <3> QED BY <2>1, <2>2, <3>1
    <2>4. Len(w) = 1 + Len(p)
      BY <2>1, <2>2
    <2>5. w = <<LF>> \o p
      BY <2>1, <2>2, <2>3, <2>4, PatternTypes, Prepended
    <2> QED BY <2>5 DEF w, p
  <1>2. <<CR, LF, EQ, Y>> = <<CR>> \o <<LF, EQ, Y>>
    <2> DEFINE w == <<CR, LF, EQ, Y>>
               p == <<LF, EQ, Y>>
    <2>1. /\ w \in Seq(Nat) /\ Len(w) = 4
          /\ w[1] = CR /\ w[2] = LF /\ w[3] = EQ /\ w[4] = Y
      BY PatternTypes
    <2>2. /\ p \in Seq(Nat) /\ Len(p) = 3
          /\ p[1] = LF /\ p[2] = EQ /\ p[3] = Y
      BY PatternTypes
    <2> HIDE DEF w, p
    <2>3. \A j \in 1..Len(p) : w[j + 1] = p[j]
      <3>1. 1..Len(p) = {1, 2, 3}
        BY <2>2
      <3> QED BY <2>1, <2>2, <3>1
    <2>4. Len(w) = 1 + Len(p)
      BY <2>1, <2>2
    <2>5. w = <<CR>> \o p
      BY <2>1, <2>2, <2>3, <2>4, PatternTypes, Prepended
    <2> QED BY <2>5 DEF w, p
  <1>3. <<LF, DOT, CR, LF>> = <<LF>> \o <<DOT, CR, LF>>
    <2> DEFINE w == <<LF, DOT, CR, LF>>
               p == <<DOT, CR, LF>>
    <2>1. /\ w \in Seq(Nat) /\ Len(w) = 4
          /\ w[1] = LF /\ w[2] = DOT /\ w[3] = CR /\ w[4] = LF
      BY PatternTypes
    <2>2. /\ p \in Seq(Nat) /\ Len(p) = 3
          /\ p[1] = DOT /\ p[2] = CR /\ p[3] = LF
      BY PatternTypes
    <2> HIDE DEF w, p
    <2>3. \A j \in 1..Len(p) : w[j + 1] = p[j]
      <3>1. 1..Len(p) = {1, 2, 3}
        BY <2>2
      <3> QED BY <2>1, <2>2, <3>1
    <2>4. Len(w) = 1 + Len(p)
      BY <2>1, <2>2
    <2>5. w = <<LF>> \o p
      BY <2>1, <2>2, <2>3, <2>4, PatternTypes, Prepended
    <2> QED BY <2>5 DEF w, p
  <1>4. <<CR, LF, DOT, CR, LF>> = <<CR>> \o <<LF, DOT, CR, LF>>
    <2> DEFINE w == <<CR, LF, DOT, CR, LF>>
               p == <<LF, DOT, CR, LF>>
    <2>1. /\ w \in Seq(Nat) /\ Len(w) = 5
          /\ w[1] = CR /\ w[2] = LF /\ w[3] = DOT /\ w[4] = CR /\ w[5] = LF
      BY PatternTypes
    <2>2. /\ p \in Seq(Nat) /\ Len(p) = 4
          /\ p[1] = LF /\ p[2] = DOT /\ p[3] = CR /\ p[4] = LF
      BY PatternTypes
    <2> HIDE DEF w, p
    <2>3. \A j \in 1..Len(p) : w[j + 1] = p[j]
      <3>1. 1..Len(p) = {1, 2, 3, 4}
        BY <2>2
      <3> QED BY <2>1, <2>2, <3>1
    <2>4. Len(w) = 1 + Len(p)
      BY <2>1, <2>2
    <2>5. w = <<CR>> \o p
      BY <2>1, <2>2, <2>3, <2>4, PatternTypes, Prepended
    <2> QED BY <2>5 DEF w, p
  <1>5. <<LF, DOT, EQ, Y>> = <<LF>> \o <<DOT, EQ, Y>>
    <2> DEFINE w == <<LF, DOT, EQ, Y>>
               p == <<DOT, EQ, Y>>
    <2>1. /\ w \in Seq(Nat) /\ Len(w) = 4
          /\ w[1] = LF /\ w[2] = DOT /\ w[3] = EQ /\ w[4] = Y
      BY PatternTypes
    <2>2. /\ p \in Seq(Nat) /\ Len(p) = 3
          /\ p[1] = DOT /\ p[2] = EQ /\ p[3] = Y
      BY PatternTypes
    <2> HIDE DEF w, p
    <2>3. \A j \in 1..Len(p) : w[j + 1] = p[j]
      <3>1. 1..Len(p) = {1, 2, 3}
        BY <2>2
      <3> QED BY <2>1, <2>2, <3>1
    <2>4. Len(w) = 1 + Len(p)
      BY <2>1, <2>2
    <2>5. w = <<LF>> \o p
      BY <2>1, <2>2, <2>3, <2>4, PatternTypes, Prepended
    <2> QED BY <2>5 DEF w, p
  <1>6. <<CR, LF, DOT, EQ, Y>> = <<CR>> \o <<LF, DOT, EQ, Y>>
    <2> DEFINE w == <<CR, LF, DOT, EQ, Y>>
               p == <<LF, DOT, EQ, Y>>
    <2>1. /\ w \in Seq(Nat) /\ Len(w) = 5
          /\ w[1] = CR /\ w[2] = LF /\ w[3] = DOT /\ w[4] = EQ /\ w[5] = Y
      BY PatternTypes
    <2>2. /\ p \in Seq(Nat) /\ Len(p) = 4
          /\ p[1] = LF /\ p[2] = DOT /\ p[3] = EQ /\ p[4] = Y
      BY PatternTypes
    <2> HIDE DEF w, p
    <2>3. \A j \in 1..Len(p) : w[j + 1] = p[j]
      <3>1. 1..Len(p) = {1, 2, 3, 4}
        BY <2>2
      <3> QED BY <2>1, <2>2, <3>1
    <2>4. Len(w) = 1 + Len(p)
      BY <2>1, <2>2
    <2>5. w = <<CR>> \o p
      BY <2>1, <2>2, <2>3, <2>4, PatternTypes, Prepended
    <2> QED BY <2>5 DEF w, p
  <1> QED BY <1>1, <1>2, <1>3, <1>4, <1>5, <1>6, Zenon

\* The characters of the ends.
LEMMA EndCharacters ==
  ASSUME NEW s \in Seq(Nat), NEW n \in Nat
  PROVE  /\ LineEndAt(s, n) <=>
              \/ n + 3 <= Len(s) /\ s[n + 1] = DOT /\ s[n + 2] = CR /\ s[n + 3] = LF
              \/ n + 3 <= Len(s) /\ s[n + 1] = DOT /\ s[n + 2] = EQ /\ s[n + 3] = Y
              \/ n + 2 <= Len(s) /\ s[n + 1] = EQ /\ s[n + 2] = Y
         /\ EndAt(s, n, "CRLF") <=> LineEndAt(s, n)
         /\ EndAt(s, n, "CR") <=>
              n + 1 <= Len(s) /\ s[n + 1] = LF /\ LineEndAt(s, n + 1)
         /\ EndAt(s, n, "CRLFDT") <=>
              \/ n + 2 <= Len(s) /\ s[n + 1] = CR /\ s[n + 2] = LF
              \/ n + 2 <= Len(s) /\ s[n + 1] = EQ /\ s[n + 2] = Y
         /\ EndAt(s, n, "CRLFDTCR") <=> n + 1 <= Len(s) /\ s[n + 1] = LF
         /\ EndAt(s, n, "CRLFEQ") <=> n + 1 <= Len(s) /\ s[n + 1] = Y
         /\ ~EndAt(s, n, "EQ") /\ ~EndAt(s, n, "NONE")
         /\ TerminatorAt(s, n) <=>
              n + 1 <= Len(s) /\ s[n + 1] = CR /\ EndAt(s, n + 1, "CR")
PROOF
  <1>1. LineEndAt(s, n) <=>
              \/ n + 3 <= Len(s) /\ s[n + 1] = DOT /\ s[n + 2] = CR /\ s[n + 3] = LF
              \/ n + 3 <= Len(s) /\ s[n + 1] = DOT /\ s[n + 2] = EQ /\ s[n + 3] = Y
              \/ n + 2 <= Len(s) /\ s[n + 1] = EQ /\ s[n + 2] = Y
    <2>1. LineEndAt(s, n) <=> \/ Shows(s, n, <<DOT, CR, LF>>)
                              \/ Shows(s, n, <<DOT, EQ, Y>>)
                              \/ Shows(s, n, <<EQ, Y>>)
      BY Zenon DEF LineEndAt, LineEnds
    <2>2. Shows(s, n, <<DOT, CR, LF>>) <=>
            n + 3 <= Len(s) /\ s[n + 1] = DOT /\ s[n + 2] = CR /\ s[n + 3] = LF
      BY ShowsPatterns, Zenon
    <2>3. Shows(s, n, <<DOT, EQ, Y>>) <=>
            n + 3 <= Len(s) /\ s[n + 1] = DOT /\ s[n + 2] = EQ /\ s[n + 3] = Y
      BY ShowsPatterns, Zenon
    <2>4. Shows(s, n, <<EQ, Y>>) <=> n + 2 <= Len(s) /\ s[n + 1] = EQ /\ s[n + 2] = Y
      BY ShowsPatterns, Zenon
    <2> QED BY <2>1, <2>2, <2>3, <2>4, Zenon
  <1>2. EndAt(s, n, "CRLF") <=> LineEndAt(s, n)
    BY DEF EndAt, EndsBegun, LineEndAt
  <1>3. ASSUME NEW m \in Nat
        PROVE  EndAt(s, m, "CR") <=> m + 1 <= Len(s) /\ s[m + 1] = LF /\ LineEndAt(s, m + 1)
    <2>1. EndAt(s, m, "CR") <=> \E p \in LineEnds : Shows(s, m, <<LF>> \o p)
      <3>1. EndsBegun("CR") = {<<LF>> \o p : p \in LineEnds}
        BY DEF EndsBegun, Behind
      <3> QED BY <3>1, Zenon DEF EndAt
    <2>2. \A p \in LineEnds : Shows(s, m, <<LF>> \o p) <=>
            m + 1 <= Len(s) /\ s[m + 1] = LF /\ Shows(s, m + 1, p)
      BY PatternTypes, ShowsBehind
    <2> QED BY <2>1, <2>2, Zenon DEF LineEndAt
  <1>4. EndAt(s, n, "CRLFDT") <=>
              \/ n + 2 <= Len(s) /\ s[n + 1] = CR /\ s[n + 2] = LF
              \/ n + 2 <= Len(s) /\ s[n + 1] = EQ /\ s[n + 2] = Y
    <2>1. EndsBegun("CRLFDT") = {<<CR, LF>>, <<EQ, Y>>}
      BY DEF EndsBegun
    <2>2. EndAt(s, n, "CRLFDT") <=> Shows(s, n, <<CR, LF>>) \/ Shows(s, n, <<EQ, Y>>)
      BY <2>1, Zenon DEF EndAt
    <2>3. Shows(s, n, <<CR, LF>>) <=> n + 2 <= Len(s) /\ s[n + 1] = CR /\ s[n + 2] = LF
      BY ShowsPatterns, Zenon
    <2>4. Shows(s, n, <<EQ, Y>>) <=> n + 2 <= Len(s) /\ s[n + 1] = EQ /\ s[n + 2] = Y
      BY ShowsPatterns, Zenon
    <2> QED BY <2>2, <2>3, <2>4, Zenon
  <1>5. EndAt(s, n, "CRLFDTCR") <=> n + 1 <= Len(s) /\ s[n + 1] = LF
    <2>1. EndsBegun("CRLFDTCR") = {<<LF>>}
      BY DEF EndsBegun
    <2>2. EndAt(s, n, "CRLFDTCR") <=> Shows(s, n, <<LF>>)
      BY <2>1, Zenon DEF EndAt
    <2> QED BY <2>2, ShowsPatterns, Zenon
  <1>6. EndAt(s, n, "CRLFEQ") <=> n + 1 <= Len(s) /\ s[n + 1] = Y
    <2>1. EndsBegun("CRLFEQ") = {<<Y>>}
      BY DEF EndsBegun
    <2>2. EndAt(s, n, "CRLFEQ") <=> Shows(s, n, <<Y>>)
      BY <2>1, Zenon DEF EndAt
    <2> QED BY <2>2, ShowsPatterns, Zenon
  <1>7. ~EndAt(s, n, "EQ") /\ ~EndAt(s, n, "NONE")
    BY DEF EndAt, EndsBegun
  <1>8. TerminatorAt(s, n) <=>
              n + 1 <= Len(s) /\ s[n + 1] = CR /\ EndAt(s, n + 1, "CR")
    <2>1. Terminators = {<<CR>> \o (<<LF>> \o p) : p \in LineEnds}
      <3>1. /\ <<CR, LF, DOT, CR, LF>> = <<CR>> \o (<<LF>> \o <<DOT, CR, LF>>)
            /\ <<CR, LF, DOT, EQ, Y>> = <<CR>> \o (<<LF>> \o <<DOT, EQ, Y>>)
            /\ <<CR, LF, EQ, Y>> = <<CR>> \o (<<LF>> \o <<EQ, Y>>)
        BY TerminatorsPrepended, Zenon
      <3> QED BY <3>1, Zenon DEF Terminators, LineEnds
    <2>2. TerminatorAt(s, n) <=> \E p \in LineEnds : Shows(s, n, <<CR>> \o (<<LF>> \o p))
      BY <2>1, Zenon DEF TerminatorAt
    <2>3. ASSUME NEW p \in LineEnds
          PROVE  Shows(s, n, <<CR>> \o (<<LF>> \o p)) <=>
                   /\ n + 1 <= Len(s) /\ s[n + 1] = CR
                   /\ (n + 1) + 1 <= Len(s) /\ s[(n + 1) + 1] = LF
                   /\ Shows(s, (n + 1) + 1, p)
      <3>1. p \in Seq(Nat) /\ <<LF>> \in Seq(Nat) /\ n + 1 \in Nat
        BY PatternTypes
      <3> DEFINE q == <<LF>> \o p
      <3>2. q \in Seq(Nat)
        BY <3>1, ConcatProperties
      <3>3. Shows(s, n + 1, q) <=>
              (n + 1) + 1 <= Len(s) /\ s[(n + 1) + 1] = LF /\ Shows(s, (n + 1) + 1, p)
        BY <3>1, PatternTypes, ShowsBehind
      <3> HIDE DEF q
      <3>4. Shows(s, n, <<CR>> \o q) <=>
              n + 1 <= Len(s) /\ s[n + 1] = CR /\ Shows(s, n + 1, q)
        BY <3>2, PatternTypes, ShowsBehind
      <3> QED BY <3>3, <3>4 DEF q
    <2>4. EndAt(s, n + 1, "CR") <=>
            /\ (n + 1) + 1 <= Len(s) /\ s[(n + 1) + 1] = LF
            /\ LineEndAt(s, (n + 1) + 1)
      BY <1>3
    <2> QED BY <2>2, <2>3, <2>4, Zenon DEF LineEndAt
  <1> QED BY <1>1, <1>2, <1>3, <1>4, <1>5, <1>6, <1>7, <1>8

-----------------------------------------------------------------------------
(* Reading, when no end of the data is near.                               *)

\* What a reading of s has come to, and what a character adds to it.
LEMMA ReadingSteps ==
  ASSUME NEW s \in Seq(Nat), NEW t, IsReading(s, t), NEW n \in 0..(Len(s) - 1)
  PROVE  /\ n \in Nat /\ n + 1 \in 1..Len(s) /\ s[n + 1] \in Nat
         /\ t[n + 1] = Transition(t[n], s[n + 1])
PROOF
  <1>1. n \in Nat /\ n + 1 \in 1..Len(s) /\ (n + 1) - 1 = n
    OBVIOUS
  <1>2. s[n + 1] \in Nat
    BY <1>1, ElementOfSeq
  <1>3. t[n + 1] = Transition(t[(n + 1) - 1], s[n + 1])
    BY <1>1 DEF IsReading
  <1> QED BY <1>1, <1>2, <1>3

\* One character where neither an end that has begun is completed nor a
\* terminator begins: it is read as ClassifiedSays, and the same holds behind it.
LEMMA ReadsOne ==
  ASSUME NEW s \in Seq(Nat), NEW t, IsReading(s, t), NEW n \in 0..(Len(s) - 1),
         NEW st \in States, NEW o \in Seq(Byte), t[n] = At(st, o),
         ~EndAt(s, n, st), ~TerminatorAt(s, n)
  PROVE  LET r == Classified(st, s[n + 1]) IN
         /\ t[n + 1] = At(r.state, o \o r.emit)
         /\ r.state \in States /\ o \o r.emit \in Seq(Byte)
         /\ ~EndAt(s, n + 1, r.state)
PROOF
  <1> DEFINE c == s[n + 1]
             r == Classified(st, c)
             st2 == r.state
  <1>1. /\ n \in Nat /\ n + 1 \in Nat /\ n + 1 <= Len(s) /\ Len(s) \in Nat
        /\ c \in Nat /\ t[n + 1] = Transition(At(st, o), c)
    BY ReadingSteps
  <1>2. ~(st = "CRLFEQ" /\ c = Y) /\ ~(st = "CRLFDTCR" /\ c = LF)
    BY <1>1, EndCharacters
  <1> HIDE DEF c
  <1>3. /\ r.end = "none" /\ st2 \in States
        /\ r.emit = IF st \in Escaping THEN <<Escaped(c)>>
                    ELSE IF c \in {CR, LF, EQ} \/ (st = "CRLF" /\ c = DOT) THEN <<>>
                    ELSE <<Plain(c)>>
        /\ st2 \in Escaping <=> c = EQ /\ st \notin Escaping
        /\ st2 = "CRLF" <=> st = "CR" /\ c = LF
        /\ st2 = "CR" <=> c = CR /\ st # "CRLFDT"
        /\ st2 = "CRLFDT" <=> st = "CRLF" /\ c = DOT
        /\ st2 = "CRLFDTCR" <=> st = "CRLFDT" /\ c = CR
        /\ st2 = "CRLFEQ" <=> st \in {"CRLF", "CRLFDT"} /\ c = EQ
    BY <1>1, <1>2, ClassifiedSays
  <1>4. r.emit \in Seq(Byte)
    <2>1. Escaped(c) \in Byte /\ Plain(c) \in Byte
      BY <1>1, DecodedBytes
    <2>2. <<Escaped(c)>> \in Seq(Byte) /\ <<Plain(c)>> \in Seq(Byte) /\ <<>> \in Seq(Byte)
      BY <2>1
    <2> QED BY <1>3, <2>2
  <1>5. t[n + 1] = At(st2, o \o r.emit)
    BY <1>1, <1>3 DEF Transition, At
  <1>6. o \o r.emit \in Seq(Byte)
    BY <1>4, ConcatProperties
  <1>7. ~EndAt(s, n + 1, st2)
    <2> HIDE DEF st2, r
    <2> DEFINE m == n + 1
    <2>0. m \in Nat /\ m + 1 = n + 2 /\ m + 2 = n + 3 /\ c = s[n + 1]
      BY <1>1 DEF c
    <2>1. CASE st2 = "CRLF"
      <3>1. st = "CR" /\ s[n + 1] = LF
        BY <1>3, <2>0, <2>1
      <3>2. ~LineEndAt(s, m)
        BY <1>1, <3>1, EndCharacters
      <3> QED BY <2>0, <2>1, <3>2, EndCharacters
    <2>2. CASE st2 = "CR"
      <3>1. s[n + 1] = CR
        BY <1>3, <2>0, <2>2
      <3> QED BY <1>1, <2>0, <2>2, <3>1, EndCharacters
    <2>3. CASE st2 = "CRLFDT"
      <3>1. st = "CRLF" /\ s[n + 1] = DOT
        BY <1>3, <2>0, <2>3
      <3>2. /\ ~(n + 3 <= Len(s) /\ s[n + 2] = CR /\ s[n + 3] = LF)
            /\ ~(n + 3 <= Len(s) /\ s[n + 2] = EQ /\ s[n + 3] = Y)
        BY <1>1, <3>1, EndCharacters
      <3>3. EndAt(s, m, "CRLFDT") <=>
              \/ m + 2 <= Len(s) /\ s[m + 1] = CR /\ s[m + 2] = LF
              \/ m + 2 <= Len(s) /\ s[m + 1] = EQ /\ s[m + 2] = Y
        BY <2>0, EndCharacters
      <3> HIDE DEF m
      <3> QED BY <2>0, <2>3, <3>2, <3>3 DEF m
    <2>4. CASE st2 = "CRLFDTCR"
      <3>1. st = "CRLFDT" /\ s[n + 1] = CR
        BY <1>3, <2>0, <2>4
      <3>2. ~(n + 2 <= Len(s) /\ s[n + 2] = LF)
        BY <1>1, <3>1, EndCharacters
      <3>3. EndAt(s, m, "CRLFDTCR") <=> m + 1 <= Len(s) /\ s[m + 1] = LF
        BY <2>0, EndCharacters
      <3> HIDE DEF m
      <3> QED BY <2>0, <2>4, <3>2, <3>3 DEF m
    <2>5. CASE st2 = "CRLFEQ"
      <3>1. st \in {"CRLF", "CRLFDT"} /\ s[n + 1] = EQ
        BY <1>3, <2>0, <2>5
      <3>2. ~(n + 2 <= Len(s) /\ s[n + 2] = Y)
        BY <1>1, <3>1, EndCharacters
      <3>3. EndAt(s, m, "CRLFEQ") <=> m + 1 <= Len(s) /\ s[m + 1] = Y
        BY <2>0, EndCharacters
      <3> HIDE DEF m
      <3> QED BY <2>0, <2>5, <3>2, <3>3 DEF m
    <2>6. CASE st2 \in {"EQ", "NONE"}
      BY <2>0, <2>6, EndCharacters
    <2> QED BY <1>3, <2>1, <2>2, <2>3, <2>4, <2>5, <2>6 DEF States
  <1> QED BY <1>3, <1>5, <1>6, <1>7 DEF c

-----------------------------------------------------------------------------
(* The lanes of a block.                                                   *)

\* A reading goes on from n, with no end of the data begun.
GoesOn(s, t, n) ==
  /\ t[n] = At(t[n].state, t[n].out)
  /\ t[n].state \in States /\ t[n].out \in Seq(Byte)
  /\ ~EndAt(s, n, t[n].state)

\* What comes of a character behind State st.
EmitOf(st, c) ==
  IF st \in Escaping THEN <<Escaped(c)>>
  ELSE IF c \in {CR, LF, EQ} \/ (st = "CRLF" /\ c = DOT) THEN <<>>
  ELSE <<Plain(c)>>

\* What reading a lane of the block at p does.
LaneReads(s, t, p, i) ==
  LET st == t[p + i].state
      c == s[p + 1 + i]
      st2 == t[p + (i + 1)].state
  IN  /\ t[p + (i + 1)].out = t[p + i].out \o EmitOf(st, c)
      /\ st2 \in Escaping <=> c = EQ /\ st \notin Escaping
      /\ st2 = "CRLF" <=> st = "CR" /\ c = LF
      /\ st2 = "CR" <=> c = CR /\ st # "CRLFDT"

\* A block in which no terminator begins is read lane by lane.
LEMMA BlockReads ==
  ASSUME NEW s \in Seq(Nat), NEW t, IsReading(s, t),
         NEW p \in Nat, p + Width <= Len(s), GoesOn(s, t, p),
         \A i \in Lanes : ~TerminatorAt(s, p + i)
  PROVE  /\ \A i \in 0..Width : GoesOn(s, t, p + i)
         /\ \A i \in Lanes : LaneReads(s, t, p, i)
PROOF
  <1> DEFINE I == {i \in 0..Width : GoesOn(s, t, p + i)}
  <1>1. Width \in Nat /\ Len(s) \in Nat
    BY LaneFacts
  <1>2. ASSUME NEW i \in Lanes, GoesOn(s, t, p + i)
        PROVE  GoesOn(s, t, p + (i + 1)) /\ LaneReads(s, t, p, i)
    <2> DEFINE n == p + i
               st == t[n].state
               o == t[n].out
               c == s[n + 1]
               r == Classified(st, c)
    <2>1. /\ n \in 0..(Len(s) - 1) /\ n + 1 = p + (i + 1) /\ p + 1 + i = n + 1
          /\ n \in Nat
      BY <1>1, LaneFacts
    <2>2. /\ st \in States /\ o \in Seq(Byte) /\ t[n] = At(st, o)
          /\ ~EndAt(s, n, st) /\ ~TerminatorAt(s, n)
      BY <1>2 DEF GoesOn
    <2>3. /\ t[n + 1] = At(r.state, o \o r.emit)
          /\ r.state \in States /\ o \o r.emit \in Seq(Byte)
          /\ ~EndAt(s, n + 1, r.state)
      <3> HIDE DEF n, st, o
      <3> QED BY <2>1, <2>2, ReadsOne
    <2>4. t[n + 1].state = r.state /\ t[n + 1].out = o \o r.emit
      <3> HIDE DEF n, o, r
      <3> QED BY <2>3 DEF At
    <2>5. c \in Nat /\ Len(s) >= n + 1
      BY <1>1, <2>1, ReadingSteps
    <2>6. ~(st = "CRLFEQ" /\ c = Y) /\ ~(st = "CRLFDTCR" /\ c = LF)
      <3> HIDE DEF st
      <3> QED BY <1>1, <2>1, <2>2, <2>5, EndCharacters
    <2> HIDE DEF st, c, o
    <2>7. /\ r.emit = EmitOf(st, c)
          /\ r.state \in Escaping <=> c = EQ /\ st \notin Escaping
          /\ r.state = "CRLF" <=> st = "CR" /\ c = LF
          /\ r.state = "CR" <=> c = CR /\ st # "CRLFDT"
      BY <2>2, <2>5, <2>6, ClassifiedSays DEF EmitOf
    <2>8. GoesOn(s, t, n + 1)
      BY <2>3, <2>4 DEF GoesOn
    <2> HIDE DEF r
    <2>9. LaneReads(s, t, p, i)
      <3>1. /\ t[p + (i + 1)].out = o \o r.emit
            /\ t[p + (i + 1)].state = r.state
        BY <2>1, <2>4
      <3>2. st = t[p + i].state /\ o = t[p + i].out /\ c = s[p + 1 + i]
        BY <2>1 DEF st, o, c
      <3> QED BY <2>7, <3>1, <3>2 DEF LaneReads
    <2> QED BY <2>1, <2>8, <2>9
  <1>3. 0 \in I
    <2>1. 0 \in 0..Width /\ p + 0 = p
      BY <1>1
    <2> QED BY <2>1
  <1>4. ASSUME NEW i \in 0..(Width - 1), i \in I
        PROVE  i + 1 \in I
    <2>1. i \in Lanes /\ i + 1 \in 0..Width
      BY <1>1 DEF Lanes
    <2> QED BY <1>2, <1>4, <2>1
  <1>5. 0..Width \subseteq I
    <2> HIDE DEF I
    <2> QED BY <1>1, <1>3, <1>4, UpTo
  <1>6. \A i \in Lanes : i \in 0..Width
    BY LaneFacts
  <1> QED BY <1>2, <1>5, <1>6

\* The lanes whose character is escaped.
EscapedLanes(t, p) == {i \in 0..Width : t[p + i].state \in Escaping}

\* They are those that the '=' of the block escape.
LEMMA BlockEscapes ==
  ASSUME NEW s, NEW t, NEW b, b.pos \in Nat,
         \A i \in Lanes : LaneReads(s, t, b.pos, i)
  PROVE  Escapes(EscapedLanes(t, b.pos), MaskEq(s, b))
PROOF
  <1> DEFINE p == b.pos
             X == EscapedLanes(t, p)
  <1>2. X \subseteq 0..Width
    BY DEF EscapedLanes
  <1>4. ASSUME NEW i \in Lanes
        PROVE  i + 1 \in X <=> i \in MaskEq(s, b) /\ i \notin X
    <2>1. i \in 0..Width /\ i + 1 \in 0..Width
      BY LaneFacts
    <2>2. i + 1 \in X <=> t[p + (i + 1)].state \in Escaping
      BY <2>1 DEF EscapedLanes
    <2>3. i \in X <=> t[p + i].state \in Escaping
      BY <2>1 DEF EscapedLanes
    <2>4. i \in MaskEq(s, b) <=> s[p + 1 + i] = EQ
      BY DEF MaskEq, LaneOf
    <2>5. t[p + (i + 1)].state \in Escaping
            <=> s[p + 1 + i] = EQ /\ t[p + i].state \notin Escaping
      BY DEF LaneReads
    <2> QED BY <2>2, <2>3, <2>4, <2>5
  <1> QED BY <1>2, <1>4 DEF Escapes

\* Bytes behind bytes.
LEMMA BytesJoined ==
  ASSUME NEW a \in Seq(Byte), NEW b \in Seq(Byte), NEW c \in Seq(Byte)
  PROVE  /\ (a \o b) \o c = a \o (b \o c)
         /\ a \o b \in Seq(Byte) /\ b \o c \in Seq(Byte)
PROOF BY ConcatAssociative, ConcatProperties, SMTT(20)

\* What a lane of a block becomes, given the lanes to drop and the escaped ones.
LaneKept(s, b, dropped, escaped, i) ==
  IF i \in dropped THEN <<>>
  ELSE IF i \in escaped THEN <<Escaped(LaneOf(s, b, i))>>
  ELSE <<Plain(LaneOf(s, b, i))>>

\* The sequence of the kept lanes grows lane by lane.
LEMMA CompactedCounts ==
  ASSUME NEW s \in Seq(Nat), NEW b, NEW p \in Nat, b.pos = p, p + Width <= Len(s),
         NEW dropped, NEW escaped
  PROVE  \E kept \in [0..Width -> Seq(Byte)] :
           /\ kept[0] = <<>> /\ Compacted(s, b, dropped, escaped) = kept[Width]
           /\ \A n \in Lanes : kept[n + 1] = kept[n] \o LaneKept(s, b, dropped, escaped, n)
PROOF
  <1> DEFINE add(i) == IF i \in dropped THEN <<>>
                       ELSE IF i \in escaped THEN <<Escaped(LaneOf(s, b, i))>>
                       ELSE <<Plain(LaneOf(s, b, i))>>
             lane(i) == LET c == LaneOf(s, b, i) IN
                        IF i \in escaped THEN Escaped(c) ELSE Plain(c)
             Eq(f) == f = [n \in 0..Width |->
                        IF n = 0 THEN <<>>
                        ELSE f[n - 1] \o (IF n - 1 \in dropped THEN <<>>
                                          ELSE <<lane(n - 1)>>)]
             kept == CHOOSE f : Eq(f)
             step == [q \in (1..Width) \X Seq(Byte) |-> q[2] \o add(q[1] - 1)]
  <1>1. Width \in Nat /\ Len(s) \in Nat /\ p \in Nat /\ p + Width <= Len(s)
    BY LaneFacts
  <1>2. \A i \in Lanes : add(i) \in Seq(Byte)
    <2> SUFFICES ASSUME NEW i \in Lanes PROVE add(i) \in Seq(Byte)
      OBVIOUS
    <2>1. p + 1 + i \in 1..Len(s)
      <3>1. i \in Nat /\ i < Width
        BY LaneFacts
      <3> QED BY <1>1, <3>1
    <2>2. LaneOf(s, b, i) \in Nat
      BY <2>1, ElementOfSeq DEF LaneOf
    <2>3. Escaped(LaneOf(s, b, i)) \in Byte /\ Plain(LaneOf(s, b, i)) \in Byte
      BY <2>2, DecodedBytes
    <2> QED BY <2>3
  <1>3. \A n \in 1..Width : n - 1 \in Lanes
    BY <1>1 DEF Lanes
  <1>4. step \in [(1..Width) \X Seq(Byte) -> Seq(Byte)]
    <2> SUFFICES ASSUME NEW n \in 1..Width, NEW q \in Seq(Byte)
                 PROVE  q \o add(n - 1) \in Seq(Byte)
      OBVIOUS
    <2> HIDE DEF add
    <2> QED BY <1>2, <1>3, ConcatProperties
  <1>5. PICK f : CountsUp(f, Width, <<>>, step)
    <2>1. <<>> \in Seq(Byte)
      OBVIOUS
    <2> HIDE DEF step
    <2> QED BY <1>1, <1>4, <2>1, CountExists
  <1>6. f \in [0..Width -> Seq(Byte)]
    <2>1. <<>> \in Seq(Byte)
      OBVIOUS
    <2> HIDE DEF step
    <2> QED BY <1>1, <1>4, <1>5, <2>1, CountType
  <1>7. \A n \in 1..Width : step[<<n, f[n - 1]>>] = f[n - 1] \o add(n - 1)
    <2> SUFFICES ASSUME NEW n \in 1..Width
                 PROVE  step[<<n, f[n - 1]>>] = f[n - 1] \o add(n - 1)
      OBVIOUS
    <2> DEFINE q == <<n, f[n - 1]>>
    <2>1. n - 1 \in 0..Width
      BY <1>1
    <2>2. f[n - 1] \in Seq(Byte)
      BY <1>6, <2>1
    <2> HIDE DEF add
    <2>3. q \in (1..Width) \X Seq(Byte) /\ q[1] = n /\ q[2] = f[n - 1]
      BY <2>2
    <2> HIDE DEF q
    <2>4. step[q] = q[2] \o add(q[1] - 1)
      BY <2>3
    <2>5. step[q] = f[n - 1] \o add(n - 1)
      BY <2>3, <2>4
    <2> QED BY <2>5 DEF q
  <1>8. \A i : add(i) = IF i \in dropped THEN <<>> ELSE <<lane(i)>>
    OBVIOUS
  <1>9. Eq(f)
    <2>1. f = [n \in 0..Width |-> IF n = 0 THEN <<>> ELSE step[<<n, f[n-1]>>]]
      BY <1>5 DEF CountsUp
    <2> HIDE DEF step, add, lane
    <2>2. \A n \in 0..Width : n # 0 => step[<<n, f[n - 1]>>] = f[n - 1] \o add(n - 1)
      <3>1. \A n \in 0..Width : n # 0 => n \in 1..Width
        BY <1>1
      <3> QED BY <1>7, <3>1
    <2>3. \A n \in 0..Width : n # 0 => step[<<n, f[n - 1]>>] =
            f[n - 1] \o (IF n - 1 \in dropped THEN <<>> ELSE <<lane(n - 1)>>)
      BY <1>8, <2>2
    <2> QED BY <2>1, <2>3
  <1>10. Eq(kept)
    <2> HIDE DEF Eq
    <2> QED BY <1>9
  <1>11. Compacted(s, b, dropped, escaped) = kept[Width]
    BY DEF Compacted
  <1> HIDE DEF kept
  <1>12. \A n \in 0..Width : kept[n] = IF n = 0 THEN <<>> ELSE kept[n - 1] \o add(n - 1)
    <2> HIDE DEF add, lane
    <2> QED BY <1>8, <1>10
  <1>13. \A n : add(n) = LaneKept(s, b, dropped, escaped, n)
    BY DEF LaneKept
  <1>14. kept = [n \in 0..Width |-> kept[n]]
    <2> HIDE DEF lane
    <2> QED BY <1>10
  <1> HIDE DEF add, Eq, step, lane
  <1>15. kept[0] = <<>>
    <2>1. 0 \in 0..Width
      BY <1>1
    <2> QED BY <1>12, <2>1
  <1>16. ASSUME NEW n \in Lanes
         PROVE  kept[n + 1] = kept[n] \o add(n)
    <2>1. n + 1 \in 0..Width /\ n + 1 # 0 /\ (n + 1) - 1 = n
      BY <1>1, LaneFacts
    <2> QED BY <1>12, <2>1
  <1> DEFINE I == {n \in 0..Width : kept[n] \in Seq(Byte)}
  <1>17. 0 \in I
    <2>1. 0 \in 0..Width /\ <<>> \in Seq(Byte)
      BY <1>1
    <2> QED BY <1>15, <2>1
  <1>18. ASSUME NEW n \in 0..(Width - 1), n \in I
         PROVE  n + 1 \in I
    <2>1. n \in Lanes /\ n + 1 \in 0..Width
      BY <1>1 DEF Lanes
    <2>2. kept[n] \o add(n) \in Seq(Byte)
      BY <1>2, <1>18, <2>1, BytesJoined
    <2> QED BY <1>16, <2>1, <2>2
  <1>19. 0..Width \subseteq I
    <2> HIDE DEF I
    <2> QED BY <1>1, <1>17, <1>18, UpTo
  <1>20. kept \in [0..Width -> Seq(Byte)]
    BY <1>14, <1>19
  <1> QED BY <1>11, <1>13, <1>15, <1>16, <1>20

\* The sequence of the kept lanes is what the reading adds lane by lane.
LEMMA CompactedReads ==
  ASSUME NEW s \in Seq(Nat), NEW t, NEW b, NEW p \in Nat, b.pos = p,
         p + Width <= Len(s),
         NEW dropped, NEW escaped,
         \A i \in 0..Width : t[p + i].out \in Seq(Byte),
         \A i \in Lanes :
           t[p + (i + 1)].out = t[p + i].out \o LaneKept(s, b, dropped, escaped, i)
  PROVE  /\ Compacted(s, b, dropped, escaped) \in Seq(Byte)
         /\ t[p + Width].out = t[p].out \o Compacted(s, b, dropped, escaped)
PROOF
  <1>1. Width \in Nat /\ Len(s) \in Nat
    BY LaneFacts
  <1>2. PICK kept \in [0..Width -> Seq(Byte)] :
           /\ kept[0] = <<>> /\ Compacted(s, b, dropped, escaped) = kept[Width]
           /\ \A n \in Lanes : kept[n + 1] = kept[n] \o LaneKept(s, b, dropped, escaped, n)
    BY CompactedCounts, SMTT(20)
  <1> DEFINE I == {n \in 0..Width : t[p + n].out = t[p].out \o kept[n]}
  <1>3. 0 \in I
    <2>1. 0 \in 0..Width /\ p + 0 = p
      BY <1>1
    <2>2. t[p].out \o <<>> = t[p].out
      <3>1. t[p].out \in Seq(Byte)
        BY <2>1
      <3> QED BY <3>1, ConcatEmptySeq
    <2> QED BY <1>2, <2>1, <2>2
  <1>4. ASSUME NEW n \in 0..(Width - 1), n \in I
        PROVE  n + 1 \in I
    <2> DEFINE u == t[p].out
               v == kept[n]
               w == LaneKept(s, b, dropped, escaped, n)
    <2>1. /\ n \in Lanes /\ n \in 0..Width /\ n + 1 \in 0..Width /\ 0 \in 0..Width
          /\ p + 0 = p
      BY <1>1 DEF Lanes
    <2>2. kept[n + 1] = v \o w /\ t[p + n].out = u \o v /\ v \in Seq(Byte)
      BY <1>2, <1>4, <2>1
    <2>3. t[p + (n + 1)].out = t[p + n].out \o w
      BY <2>1
    <2>4. u \in Seq(Byte)
      BY <2>1
    <2>5. w \in Seq(Byte)
      <3>1. p + 1 + n \in 1..Len(s)
        BY <1>1
      <3>2. LaneOf(s, b, n) \in Nat
        BY <3>1, ElementOfSeq DEF LaneOf
      <3>3. Escaped(LaneOf(s, b, n)) \in Byte /\ Plain(LaneOf(s, b, n)) \in Byte
        BY <3>2, DecodedBytes
      <3> QED BY <3>3 DEF LaneKept
    <2> HIDE DEF u, v, w
    <2>6. (u \o v) \o w = u \o (v \o w)
      BY <2>2, <2>4, <2>5, BytesJoined
    <2>7. t[p + (n + 1)].out = u \o kept[n + 1]
      BY <2>2, <2>3, <2>6
    <2> QED BY <2>1, <2>7 DEF u
  <1>5. Width \in I
    <2>1. 0..Width \subseteq I
      <3> HIDE DEF I
      <3> QED BY <1>1, <1>3, <1>4, UpTo
    <2>2. Width \in 0..Width
      BY <1>1
    <2> HIDE DEF I
    <2> QED BY <2>1, <2>2
  <1>6. kept[Width] \in Seq(Byte)
    BY <1>1, <1>2
  <1> QED BY <1>2, <1>5, <1>6

\* A line begins in a block where a CR and a LF are, as no end of the data that
\* has begun is completed there.
LEMMA LinesBegin ==
  ASSUME NEW s \in Seq(Nat), NEW t, NEW p \in Nat, p + Width + 2 <= Len(s),
         \A i \in 0..Width : GoesOn(s, t, p + i),
         \A i \in Lanes : LaneReads(s, t, p, i), NEW i \in Lanes
  PROVE  /\ t[p + (i + 1)].state = "CR" /\ s[p + i + 2] = LF
              <=> s[p + i + 1] = CR /\ s[p + i + 2] = LF
         /\ i + 1 \in Lanes =>
              (t[p + (i + 2)].state = "CRLF" <=> s[p + i + 1] = CR /\ s[p + i + 2] = LF)
PROOF
  <1> DEFINE n == p + i
             st == t[p + i].state
             st2 == t[p + (i + 1)].state
             c == s[n + 1]
             d == s[n + 2]
  <1>1. /\ n \in Nat /\ n + 2 <= Len(s) /\ i \in 0..Width
        /\ p + 1 + i = n + 1 /\ p + i + 1 = n + 1 /\ p + i + 2 = n + 2
    <2>1. i \in Nat /\ i < Width /\ Width \in Nat /\ Len(s) \in Nat
      BY LaneFacts
    <2> QED BY <2>1
  <1>2. st \in States /\ ~EndAt(s, n, st)
    BY <1>1 DEF GoesOn
  <1>3. st = "CRLFDT" => ~(c = CR /\ d = LF)
    <2> HIDE DEF n, st
    <2> QED BY <1>1, <1>2, EndCharacters
  <1>4. st2 = "CR" <=> c = CR /\ st # "CRLFDT"
    <2>1. LaneReads(s, t, p, i)
      OBVIOUS
    <2>2. st2 = "CR" <=> s[p + 1 + i] = CR /\ st # "CRLFDT"
      BY <2>1, Zenon DEF LaneReads
    <2> QED BY <1>1, <2>2, Zenon
  <1>5. st2 = "CR" /\ d = LF <=> c = CR /\ d = LF
    BY <1>3, <1>4, Zenon
  <1>6. ASSUME i + 1 \in Lanes
        PROVE  t[p + (i + 2)].state = "CRLF" <=> c = CR /\ d = LF
    <2>1. /\ (i + 1) + 1 = i + 2 /\ p + 1 + (i + 1) = n + 2
      BY <1>1, LaneFacts
    <2>2. t[p + ((i + 1) + 1)].state = "CRLF" <=> st2 = "CR" /\ d = LF
      <3>1. LaneReads(s, t, p, i + 1)
        BY <1>6
      <3>2. t[p + ((i + 1) + 1)].state = "CRLF" <=> st2 = "CR" /\ s[p + 1 + (i + 1)] = LF
        BY <3>1, Zenon DEF LaneReads
      <3> QED BY <2>1, <3>2, Zenon
    <2> QED BY <1>5, <2>1, <2>2
  <1>7. c = s[p + i + 1] /\ d = s[p + i + 2]
    BY <1>1
  <1> HIDE DEF c, d
  <1> QED BY <1>5, <1>6, <1>7

\* Dots that begin a line begun before n, as lanes behind n.
DotsAt(s, n, st) ==
  {i \in {0, 1} : \/ i = 0 /\ st = "CRLF" /\ s[n + 1] = DOT
                  \/ i = 1 /\ st = "CR" /\ s[n + 1] = LF /\ s[n + 2] = DOT}

\* As the characters around n show them.
DotsShown(s, n) == {i \in {0, 1} : HasAt(s, n - 2 + i, DotLine)}

\* The dots behind the line ends that begin in a block.
LineDots(s, b) == {i + 2 : i \in DotLines(s, b)}

\* The lanes of the block at p with a dot that begins a line.
DotsOf(s, t, p, lanes) ==
  \A i \in Lanes : i \in lanes <=> t[p + i].state = "CRLF" /\ s[p + 1 + i] = DOT

\* Those that are dropped unless they are escaped.
DroppedOf(s, t, p, lanes) ==
  \A i \in Lanes : i \in lanes <=>
    \/ s[p + 1 + i] \in {CR, LF, EQ}
    \/ t[p + i].state = "CRLF" /\ s[p + 1 + i] = DOT

\* The dots that begin a line, in a block and behind it: those the block before
\* has told of, and those behind the line ends that begin in the block.
LEMMA DotsFound ==
  ASSUME NEW s \in Seq(Nat), NEW t, NEW b, NEW p \in Nat, b.pos = p,
         p + Width + 2 <= Len(s),
         \A i \in 0..Width : GoesOn(s, t, p + i),
         \A i \in Lanes : LaneReads(s, t, p, i),
         b.dots = DotsAt(s, p, t[p].state)
  PROVE  /\ DotsOf(s, t, p, b.dots \cup (LineDots(s, b) \cap Lanes))
         /\ DotsBehind(LineDots(s, b)) = DotsAt(s, p + Width, t[p + Width].state)
         /\ DotsBehind(LineDots(s, b)) = DotsShown(s, p + Width)
PROOF
  <1> DEFINE p2 == p + Width
             lineDots == {i + 2 : i \in DotLines(s, b)}
             D(i) == t[p + i].state = "CRLF" /\ s[p + 1 + i] = DOT
  <1>1. /\ Width \in Nat /\ Width >= 2 /\ Len(s) \in Nat /\ p \in Nat /\ p2 \in Nat
        /\ p + Width + 2 <= Len(s) /\ p2 = p + Width
    BY LaneFacts
  <1> DEFINE dots == b.dots
  <1>2. dots = DotsAt(s, p, t[p].state)
    OBVIOUS
  <1>3. \A i \in Lanes : i \in DotLines(s, b) <=>
          s[p + i + 1] = CR /\ s[p + i + 2] = LF /\ s[p + i + 3] = DOT
    <2> SUFFICES ASSUME NEW i \in Lanes
                 PROVE  HasAt(s, p + i, DotLine) <=>
                          s[p + i + 1] = CR /\ s[p + i + 2] = LF /\ s[p + i + 3] = DOT
      BY DEF DotLines
    <2>1. p + i \in Nat
      <3>1. i \in Nat
        BY LaneFacts
      <3> QED BY <3>1
    <2> QED BY <2>1, PatternTypes, ShowsCharacters, Zenon DEF DotLine
  <1>4. \A i : i \in lineDots <=> \E j \in DotLines(s, b) : i = j + 2
    OBVIOUS
  <1>5. DotLines(s, b) \subseteq Lanes
    BY DEF DotLines
  <1> HIDE DEF p2, lineDots, dots
  <1>6. \A i \in Int : i \in lineDots <=> i - 2 \in DotLines(s, b)
    <2> SUFFICES ASSUME NEW i \in Int
                 PROVE  i \in lineDots <=> i - 2 \in DotLines(s, b)
      OBVIOUS
    <2>1. ASSUME i \in lineDots PROVE i - 2 \in DotLines(s, b)
      <3>1. PICK j \in DotLines(s, b) : i = j + 2
        BY <1>4, <2>1
      <3>2. j \in Int
        BY <1>1, <1>5 DEF Lanes
      <3>3. i - 2 = j
        BY <3>1, <3>2
      <3> QED BY <3>1, <3>3
    <2>2. ASSUME i - 2 \in DotLines(s, b) PROVE i \in lineDots
      <3>1. (i - 2) + 2 = i
        OBVIOUS
      <3> QED BY <1>4, <2>2, <3>1
    <2> QED BY <2>1, <2>2
  <1>7. \A i \in Lanes :
          /\ t[p + (i + 1)].state = "CR" /\ s[p + i + 2] = LF
               <=> s[p + i + 1] = CR /\ s[p + i + 2] = LF
          /\ i + 1 \in Lanes =>
               (t[p + (i + 2)].state = "CRLF" <=> s[p + i + 1] = CR /\ s[p + i + 2] = LF)
    <2> SUFFICES ASSUME NEW i \in Lanes
                 PROVE  /\ t[p + (i + 1)].state = "CR" /\ s[p + i + 2] = LF
                             <=> s[p + i + 1] = CR /\ s[p + i + 2] = LF
                        /\ i + 1 \in Lanes =>
                             (t[p + (i + 2)].state = "CRLF"
                                <=> s[p + i + 1] = CR /\ s[p + i + 2] = LF)
      OBVIOUS
    <2> QED BY LinesBegin, SMTT(20)
  <1>8. ASSUME NEW i \in Lanes
        PROVE  i \in dots \cup (lineDots \cap Lanes) <=> D(i)
    <2>1. i \in Nat /\ i < Width
      BY LaneFacts
    <2>2. CASE i = 0
      <3>1. i \notin lineDots
        <4>1. i - 2 \notin Lanes
          BY <1>1, <2>2 DEF Lanes
        <4> QED BY <1>5, <1>6, <2>1, <4>1
      <3>2. p + i = p /\ p + 1 + i = p + 1
        BY <1>1, <2>2
      <3>3. i \in dots <=> t[p].state = "CRLF" /\ s[p + 1] = DOT
        BY <1>2, <2>2 DEF DotsAt
      <3> QED BY <3>1, <3>2, <3>3
    <2>3. CASE i = 1
      <3>1. i \notin lineDots
        <4>1. i - 2 \notin Lanes
          BY <1>1, <2>3 DEF Lanes
        <4> QED BY <1>5, <1>6, <2>1, <4>1
      <3>2. 0 \in Lanes /\ p + 0 = p /\ p + 1 + 0 = p + 1 /\ p + (0 + 1) = p + i
            /\ p + 1 + i = p + 2
        BY <1>1, <2>3, LaneFacts
      <3>3. i \in dots <=> t[p].state = "CR" /\ s[p + 1] = LF /\ s[p + 2] = DOT
        BY <1>2, <2>3 DEF DotsAt
      <3>4. LaneReads(s, t, p, 0)
        BY <3>2
      <3>5. t[p + i].state = "CRLF" <=> t[p].state = "CR" /\ s[p + 1] = LF
        BY <3>2, <3>4 DEF LaneReads
      <3> QED BY <3>1, <3>2, <3>3, <3>5
    <2>4. CASE i # 0 /\ i # 1
      <3> DEFINE j == i - 2
      <3>1. /\ j \in Lanes /\ j + 1 \in Lanes /\ p + (j + 2) = p + i
            /\ p + j + 3 = p + 1 + i
        BY <1>1, <2>1, <2>4 DEF Lanes
      <3>2. i \notin dots
        BY <1>2, <2>4 DEF DotsAt
      <3> HIDE DEF j
      <3>3. t[p + i].state = "CRLF" <=> s[p + j + 1] = CR /\ s[p + j + 2] = LF
        BY <1>7, <3>1
      <3>4. i \in lineDots <=> j \in DotLines(s, b)
        BY <1>6, <2>1 DEF j
      <3> QED BY <1>3, <3>1, <3>2, <3>3, <3>4
    <2> QED BY <2>2, <2>3, <2>4
  <1>9. \A i : i \in DotsBehind(lineDots) <=> \E j \in lineDots : j >= Width /\ i = j - Width
    BY DEF DotsBehind
  <1>10. \A j \in lineDots : j \in Int /\ j < Width + 2
    <2> SUFFICES ASSUME NEW j \in lineDots PROVE j \in Int /\ j < Width + 2
      OBVIOUS
    <2>1. PICK k \in DotLines(s, b) : j = k + 2
      BY <1>4
    <2>2. k \in Int /\ k < Width
      BY <1>5, LaneFacts
    <2> QED BY <1>1, <2>1, <2>2
  <1>11. \A i : i \in DotsBehind(lineDots) <=> i \in {0, 1} /\ i + Width \in lineDots
    <2> SUFFICES ASSUME NEW i
                 PROVE  i \in DotsBehind(lineDots) <=> i \in {0, 1} /\ i + Width \in lineDots
      OBVIOUS
    <2>1. ASSUME i \in DotsBehind(lineDots) PROVE i \in {0, 1} /\ i + Width \in lineDots
      <3>1. PICK j \in lineDots : j >= Width /\ i = j - Width
        BY <1>9, <2>1
      <3>2. j \in Int /\ j < Width + 2
        BY <1>10
      <3>3. i \in {0, 1} /\ i + Width = j
        BY <1>1, <3>1, <3>2
      <3> QED BY <3>3
    <2>2. ASSUME i \in {0, 1}, i + Width \in lineDots PROVE i \in DotsBehind(lineDots)
      <3>1. i + Width >= Width /\ (i + Width) - Width = i
        BY <1>1, <2>2
      <3> QED BY <1>9, <2>2, <3>1
    <2> QED BY <2>1, <2>2
  <1> DEFINE k == Width - 2
             l == Width - 1
  <1>12. /\ k \in Lanes /\ l \in Lanes /\ k + 1 = l /\ l \in Lanes
         /\ p + (k + 2) = p2 /\ p + (l + 1) = p2
         /\ p + k + 3 = p2 + 1 /\ p + l + 2 = p2 + 1 /\ p + l + 3 = p2 + 2
         /\ p + k = p2 - 2 + 0 /\ p + l = p2 - 2 + 1
         /\ 0 + Width \in Int /\ 1 + Width \in Int
         /\ (0 + Width) - 2 = k /\ (1 + Width) - 2 = l
    BY <1>1 DEF Lanes
  <1> HIDE DEF k, l
  <1>13. /\ 0 \in DotsBehind(lineDots) <=> k \in DotLines(s, b)
         /\ 1 \in DotsBehind(lineDots) <=> l \in DotLines(s, b)
    BY <1>6, <1>11, <1>12
  <1>14. k \in DotLines(s, b) <=> t[p2].state = "CRLF" /\ s[p2 + 1] = DOT
    <2>1. k \in DotLines(s, b) <=>
            s[p + k + 1] = CR /\ s[p + k + 2] = LF /\ s[p + k + 3] = DOT
      BY <1>3, <1>12, Zenon
    <2>2. t[p + (k + 2)].state = "CRLF" <=> s[p + k + 1] = CR /\ s[p + k + 2] = LF
      BY <1>7, <1>12, Zenon
    <2>3. p + (k + 2) = p2 /\ p + k + 3 = p2 + 1
      BY <1>12
    <2> QED BY <2>1, <2>2, <2>3, Zenon
  <1>15. l \in DotLines(s, b) <=> t[p2].state = "CR" /\ s[p2 + 1] = LF /\ s[p2 + 2] = DOT
    <2>1. l \in DotLines(s, b) <=>
            s[p + l + 1] = CR /\ s[p + l + 2] = LF /\ s[p + l + 3] = DOT
      BY <1>3, <1>12, Zenon
    <2>2. t[p + (l + 1)].state = "CR" /\ s[p + l + 2] = LF <=>
            s[p + l + 1] = CR /\ s[p + l + 2] = LF
      BY <1>7, <1>12, Zenon
    <2>3. p + (l + 1) = p2 /\ p + l + 2 = p2 + 1 /\ p + l + 3 = p2 + 2
      BY <1>12
    <2> QED BY <2>1, <2>2, <2>3, Zenon
  <1>16. DotsBehind(lineDots) = DotsAt(s, p2, t[p2].state)
    BY <1>11, <1>13, <1>14, <1>15 DEF DotsAt
  <1>17. DotsBehind(lineDots) = {i \in {0, 1} : HasAt(s, p2 - 2 + i, DotLine)}
    <2>1. k \in DotLines(s, b) <=> HasAt(s, p2 - 2 + 0, DotLine)
      BY <1>12 DEF DotLines
    <2>2. l \in DotLines(s, b) <=> HasAt(s, p2 - 2 + 1, DotLine)
      BY <1>12 DEF DotLines
    <2> QED BY <1>11, <1>13, <2>1, <2>2
  <1>18. LineDots(s, b) = lineDots
    BY DEF LineDots, lineDots
  <1>19. DotsOf(s, t, p, dots \cup (lineDots \cap Lanes))
    BY <1>8 DEF DotsOf
  <1>20. DotsBehind(lineDots) = DotsShown(s, p2)
    BY <1>17 DEF DotsShown
  <1> QED BY <1>16, <1>18, <1>19, <1>20 DEF p2, dots

\* The block consumed, with k decoded: the kernel is at the next one.
Passed(b, m, k) ==
  /\ m \in BlockConfig
  /\ m.pos = b.pos + Width /\ m.out = b.out \o k
  /\ m.next = b.next /\ m.stop = b.stop

\* The kernel's configuration behind a block.
LEMMA NextBlockPasses ==
  ASSUME NEW s, NEW b \in BlockConfig, NEW dropped, NEW escaped,
         NEW esc \in BOOLEAN, NEW dots \in SUBSET {0, 1},
         Compacted(s, b, dropped, escaped) \in Seq(Byte)
  PROVE  LET m == NextBlock(s, b, dropped, escaped, esc, dots) IN
         /\ Passed(b, m, Compacted(s, b, dropped, escaped))
         /\ m.esc = esc /\ m.dots = dots
PROOF
  <1> DEFINE k == Compacted(s, b, dropped, escaped)
             m == [b EXCEPT !.pos = @ + Width, !.esc = esc, !.dots = dots,
                            !.out = @ \o k]
  <1>1. m = NextBlock(s, b, dropped, escaped, esc, dots)
    BY DEF NextBlock
  <1>2. Width \in Nat /\ b.pos \in Nat /\ b.pos + Width \in Nat
    BY LaneFacts DEF BlockConfig
  <1>3. b.out \in Seq(Byte) /\ k \in Seq(Byte)
    BY DEF BlockConfig
  <1>4. b.out \o k \in Seq(Byte)
    BY <1>3, BytesJoined
  <1> HIDE DEF k
  <1>5. /\ m.pos = b.pos + Width /\ m.esc = esc /\ m.dots = dots /\ m.out = b.out \o k
        /\ m.next = b.next /\ m.stop = b.stop
    BY DEF BlockConfig
  <1>6. m \in BlockConfig
    BY <1>2, <1>4 DEF BlockConfig
  <1> HIDE DEF m
  <1>7. Passed(b, m, k) /\ m.esc = esc /\ m.dots = dots
    BY <1>5, <1>6 DEF Passed
  <1> QED BY <1>1, <1>7 DEF k

\* Whether the first lane behind n follows a '=' that escapes.
EscapedAt(t, n, esc) == esc <=> t[n].state \in Escaping

\* A block is passed as the reading reads it.
PassedAs(t, p, b, m) ==
  \E k \in Seq(Byte) :
    /\ Passed(b, m, k) /\ EscapedAt(t, p + Width, m.esc)
    /\ t[p + Width].out = t[p].out \o k

\* A block without an end of the data: of the lanes that are no character of
\* their own those are kept that are escaped, found by the carry or, where no
\* special lane follows a '=', directly.
LEMMA MaskedReads ==
  ASSUME NEW s \in Seq(Nat), NEW t, NEW p \in Nat, p + Width <= Len(s),
         NEW b \in BlockConfig, b.pos = p,
         EscapedAt(t, p, b.esc),
         \A i \in 0..Width : GoesOn(s, t, p + i),
         \A i \in Lanes : LaneReads(s, t, p, i),
         NEW mask \in SUBSET Lanes, DroppedOf(s, t, p, mask), NEW dots \in SUBSET {0, 1}
  PROVE  LET m == MaskedBlock(s, b, mask, dots) IN
         m.dots = dots /\ PassedAs(t, p, b, m)
PROOF
  <1> DEFINE E == MaskEq(s, b)
             esc == b.esc
             X == EscapedLanes(t, p)
             shift1 == Shifted1(E) \cup First(esc)
             runs == mask \cap shift1 # {}
             escaping == IF runs THEN FixEqMask(E, shift1) ELSE E
             escaped == Shifted1(escaping) \cup First(esc)
             dropped == IF runs THEN mask \ escaped ELSE mask
             last == Width - 1 \in escaping
  <1>1. /\ Width \in Nat /\ Width >= 2 /\ Len(s) \in Nat /\ 0 \in Lanes
        /\ Width - 1 \in Lanes /\ (Width - 1) + 1 = Width /\ Width \in 0..Width
    BY LaneFacts
  <1>2. esc \in BOOLEAN /\ (esc <=> t[p].state \in Escaping)
    BY DEF BlockConfig, EscapedAt
  <1>3. E \subseteq Lanes /\ \A i \in Lanes : i \in E <=> s[p + 1 + i] = EQ
    BY DEF MaskEq, LaneOf
  <1>4. MaskedBlock(s, b, mask, dots) = NextBlock(s, b, dropped, escaped, last, dots)
    BY DEF MaskedBlock
  <1>5. Escapes(X, E)
    BY BlockEscapes
  <1> HIDE DEF E, esc, X
  <1>6. X \subseteq 0..Width /\ (0 \in X <=> esc)
        /\ \A i \in Lanes : i + 1 \in X <=> i \in E /\ i \notin X
    <2>1. 0 \in 0..Width /\ p + 0 = p
      BY <1>1
    <2>2. 0 \in X <=> t[p].state \in Escaping
      BY <2>1 DEF X, EscapedLanes
    <2> QED BY <1>2, <1>5, <2>2 DEF Escapes
  <1>7. E \subseteq mask
    BY <1>3 DEF DroppedOf
  <1>8. \A i \in Lanes : i \in shift1 <=> (i = 0 /\ esc) \/ (i > 0 /\ i - 1 \in E)
    <2> SUFFICES ASSUME NEW i \in Lanes
                 PROVE  i \in shift1 <=> (i = 0 /\ esc) \/ (i > 0 /\ i - 1 \in E)
      OBVIOUS
    <2>1. i \in Int /\ \A j \in E : j \in Int /\ j >= 0
      BY <1>3, LaneFacts
    <2>2. i \in Shifted1(E) <=> i > 0 /\ i - 1 \in E
      <3>1. ASSUME i \in Shifted1(E) PROVE i > 0 /\ i - 1 \in E
        <4>1. PICK j \in E : i = j + 1
          BY <3>1 DEF Shifted1
        <4>2. j \in Int /\ j >= 0
          BY <2>1
        <4>3. i - 1 = j /\ i > 0
          BY <4>1, <4>2
        <4> QED BY <4>1, <4>3
      <3>2. ASSUME i - 1 \in E PROVE i \in Shifted1(E)
        <4>1. (i - 1) + 1 = i
          BY <2>1
        <4> QED BY <3>2, <4>1 DEF Shifted1
      <3> QED BY <3>1, <3>2
    <2>3. i \in First(esc) <=> i = 0 /\ esc
      BY DEF First
    <2> QED BY <2>2, <2>3
  <1>9. \A i \in Lanes : i # 0 => i > 0 /\ i - 1 \in Lanes /\ (i - 1) + 1 = i
    BY LaneFacts DEF Lanes
  <1>10. \A i \in Lanes : i \in X => i \in shift1
    <2> SUFFICES ASSUME NEW i \in Lanes, i \in X PROVE i \in shift1
      OBVIOUS
    <2>1. CASE i = 0
      BY <1>6, <1>8, <2>1
    <2>2. CASE i # 0
      BY <1>6, <1>8, <1>9, <2>2
    <2> QED BY <2>1, <2>2
  <1>11. escaping = E \ X
    <2>1. CASE runs
      <3>1. FixEqMask(E, shift1) = E \ X
        <4>1. E \in SUBSET Lanes /\ X \in SUBSET (0..Width)
          BY <1>3, <1>6
        <4>2. First(esc) = X \cap {0}
          BY <1>6 DEF First
        <4>3. FixEqMask(E, Shifted1(E) \cup (X \cap {0})) = E \ X
          BY <1>5, <4>1, FixEqMaskCorrect
        <4> QED BY <4>2, <4>3
      <3> HIDE DEF runs, shift1
      <3> QED BY <2>1, <3>1
    <2>2. CASE ~runs
      <3>1. \A i \in E : i \notin X
        BY <1>3, <1>7, <1>10, <2>2
      <3> HIDE DEF runs
      <3> QED BY <2>2, <3>1
    <2> QED BY <2>1, <2>2
  <1> HIDE DEF escaping
  <1>12. \A i \in Lanes : i \in escaped <=> i \in X
    <2> SUFFICES ASSUME NEW i \in Lanes PROVE i \in escaped <=> i \in X
      OBVIOUS
    <2>0. i \in Int /\ \A j \in E : j \in Int /\ j >= 0
      BY <1>3, LaneFacts
    <2>1. CASE i = 0
      <3>1. 0 \notin Shifted1(escaping)
        BY <1>11, <2>0 DEF Shifted1
      <3> QED BY <1>6, <2>1, <3>1 DEF First
    <2>2. CASE i # 0
      <3>1. i - 1 \in Lanes /\ (i - 1) + 1 = i
        BY <1>9, <2>2
      <3>2. i \in Shifted1(escaping) <=> i - 1 \in escaping
        <4>1. ASSUME i \in Shifted1(escaping) PROVE i - 1 \in escaping
          <5>1. PICK j \in escaping : i = j + 1
            BY <4>1 DEF Shifted1
          <5>2. i - 1 = j
            BY <1>11, <2>0, <5>1
          <5> QED BY <5>1, <5>2
        <4>2. ASSUME i - 1 \in escaping PROVE i \in Shifted1(escaping)
          BY <3>1, <4>2 DEF Shifted1
        <4> QED BY <4>1, <4>2
      <3>3. i \notin First(esc)
        BY <2>2 DEF First
      <3>4. i \in X <=> i - 1 \in E /\ i - 1 \notin X
        BY <1>6, <3>1
      <3> QED BY <1>11, <3>2, <3>3, <3>4
    <2> QED BY <2>1, <2>2
  <1> HIDE DEF escaped
  <1>13. \A i \in Lanes : i \in dropped <=> i \in mask /\ i \notin X
    <2>1. CASE runs
      BY <1>12, <2>1
    <2>2. CASE ~runs
      <3>1. \A i \in Lanes : i \in mask => i \notin X
        BY <1>10, <2>2
      <3>2. dropped = mask
        <4> HIDE DEF runs
        <4> QED BY <2>2
      <3> HIDE DEF dropped
      <3> QED BY <3>1, <3>2
    <2> QED BY <2>1, <2>2
  <1> HIDE DEF runs, dropped
  <1>14. \A i \in 0..Width : i \in X <=> t[p + i].state \in Escaping
    BY DEF X, EscapedLanes
  <1>15. last \in BOOLEAN /\ (last <=> t[p + Width].state \in Escaping)
    <2>1. Width \in X <=> Width - 1 \in E /\ Width - 1 \notin X
      BY <1>1, <1>6
    <2>2. last <=> Width \in X
      BY <1>11, <2>1
    <2> QED BY <1>1, <1>14, <2>2
  <1>16. ASSUME NEW i \in Lanes
         PROVE  t[p + (i + 1)].out = t[p + i].out \o LaneKept(s, b, dropped, escaped, i)
    <2> DEFINE c == s[p + 1 + i]
               st == t[p + i].state
    <2>1. LaneOf(s, b, i) = c
      BY DEF LaneOf
    <2>2. t[p + (i + 1)].out = t[p + i].out \o EmitOf(st, c)
      <3>1. LaneReads(s, t, p, i)
        OBVIOUS
      <3> QED BY <3>1, Zenon DEF LaneReads
    <2>3. i \in X <=> st \in Escaping
      BY <1>14, LaneFacts
    <2>4. i \in mask <=> c \in {CR, LF, EQ} \/ (st = "CRLF" /\ c = DOT)
      BY DEF DroppedOf
    <2>5. EmitOf(st, c) = IF i \in dropped THEN <<>>
                          ELSE IF i \in escaped THEN <<Escaped(c)>>
                          ELSE <<Plain(c)>>
      <3> HIDE DEF st, c
      <3>1. CASE st \in Escaping
        BY <1>12, <1>13, <2>3, <3>1 DEF EmitOf
      <3>2. CASE st \notin Escaping
        BY <1>12, <1>13, <2>3, <2>4, <3>2 DEF EmitOf
      <3> QED BY <3>1, <3>2
    <2> QED BY <2>1, <2>2, <2>5, Zenon DEF LaneKept
  <1> DEFINE k == Compacted(s, b, dropped, escaped)
  <1>17. k \in Seq(Byte) /\ t[p + Width].out = t[p].out \o k
    <2>1. \A i \in 0..Width : t[p + i].out \in Seq(Byte)
      BY DEF GoesOn
    <2> QED BY <1>16, <2>1, CompactedReads, SMTT(20)
  <1> DEFINE m == MaskedBlock(s, b, mask, dots)
  <1>18. Passed(b, m, k) /\ m.dots = dots /\ m.esc = last
    <2> HIDE DEF last
    <2>1. Compacted(s, b, dropped, escaped) \in Seq(Byte)
      BY <1>17
    <2>2. last \in BOOLEAN
      BY <1>15
    <2> DEFINE nb == NextBlock(s, b, dropped, escaped, last, dots)
    <2>3. /\ Passed(b, nb, Compacted(s, b, dropped, escaped))
          /\ nb.esc = last /\ nb.dots = dots
      BY <2>1, <2>2, NextBlockPasses
    <2> QED BY <1>4, <2>3
  <1> HIDE DEF m, k, last
  <1>19. EscapedAt(t, p + Width, last)
    BY <1>15 DEF EscapedAt
  <1> QED BY <1>17, <1>18, <1>19 DEF m, PassedAs

-----------------------------------------------------------------------------
(* A block.                                                                *)

\* The dots behind a block are on its first two lanes.
LEMMA DotsBehindTypes ==
  ASSUME NEW s, NEW b
  PROVE  DotsBehind(LineDots(s, b)) \in SUBSET {0, 1}
PROOF
  <1> SUFFICES ASSUME NEW d \in DotsBehind(LineDots(s, b))
               PROVE  d \in {0, 1}
    OBVIOUS
  <1>1. PICK j \in LineDots(s, b) : j >= Width /\ d = j - Width
    BY DEF DotsBehind
  <1>2. PICK i \in DotLines(s, b) : j = i + 2
    BY DEF LineDots
  <1>3. i \in Lanes
    BY <1>2 DEF DotLines
  <1>4. i \in Nat /\ i < Width /\ Width \in Nat
    BY <1>3, LaneFacts
  <1> QED BY <1>1, <1>2, <1>4

\* The kept lanes are bytes, whichever they are.
LEMMA CompactedTypes ==
  ASSUME NEW s \in Seq(Nat), NEW b \in BlockConfig, b.pos + Width <= Len(s),
         NEW dropped, NEW escaped
  PROVE  Compacted(s, b, dropped, escaped) \in Seq(Byte)
PROOF
  <1>1. b.pos \in Nat
    BY DEF BlockConfig
  <1>2. PICK kept \in [0..Width -> Seq(Byte)] :
          Compacted(s, b, dropped, escaped) = kept[Width]
    BY <1>1, CompactedCounts
  <1>3. Width \in 0..Width
    BY LaneFacts
  <1> QED BY <1>2, <1>3

\* What a block without an end of the data begun in it does to the kernel's
\* configuration, whatever its lanes are.
LEMMA MaskedTypes ==
  ASSUME NEW s \in Seq(Nat), NEW b \in BlockConfig, b.pos + Width <= Len(s),
         NEW mask, NEW dots \in SUBSET {0, 1}
  PROVE  LET m == MaskedBlock(s, b, mask, dots) IN \E k \in Seq(Byte) : Passed(b, m, k)
PROOF
  <1> DEFINE E == MaskEq(s, b)
             shift1 == Shifted1(E) \cup First(b.esc)
             runs == mask \cap shift1 # {}
             escaping == IF runs THEN FixEqMask(E, shift1) ELSE E
             escaped == Shifted1(escaping) \cup First(b.esc)
             dropped == IF runs THEN mask \ escaped ELSE mask
             last == Width - 1 \in escaping
             k == Compacted(s, b, dropped, escaped)
             m == NextBlock(s, b, dropped, escaped, last, dots)
  <1>1. MaskedBlock(s, b, mask, dots) = m
    BY DEF MaskedBlock
  <1>2. b.pos \in Nat /\ last \in BOOLEAN
    BY DEF BlockConfig
  <1> HIDE DEF dropped, escaped, last
  <1>3. k \in Seq(Byte)
    BY CompactedTypes
  <1>4. Passed(b, m, k)
    BY <1>2, <1>3, NextBlockPasses
  <1> HIDE DEF m, k
  <1> QED BY <1>1, <1>3, <1>4

\* A block in which an end of the data may begin is left to decodeGeneric.
Stopped(s, b, m) ==
  m = [b EXCEPT !.stop = TRUE, !.next = NextMask(s, b)]

\* Whether a block has special lanes, and of which kind, makes no difference: it
\* is left if an end of the data begins in it, else decoded by its mask.
LEMMA BlockIsMasked ==
  ASSUME NEW s, NEW b, NEW p \in Nat, b.pos = p, b.dots \subseteq Lanes,
         \A i \in b.dots : s[p + 1 + i] = DOT
  PROVE  LET mask == SpecialLanes(s, b) \cup (LineDots(s, b) \cap Lanes) IN
         \/ EndsIn(s, b) /\ Stopped(s, b, Block(s, b))
         \/ /\ Block(s, b) = MaskedBlock(s, b, mask, DotsBehind(LineDots(s, b)))
            /\ ~EndsIn(s, b) \/ \A i \in Lanes : s[p + 1 + i] # CR
PROOF
  <1> DEFINE lineDots == LineDots(s, b)
             special == SpecialLanes(s, b)
             E == MaskEq(s, b)
             mask == special \cup (lineDots \cap Lanes)
             masked == MaskedBlock(s, b, mask, DotsBehind(lineDots))
             dots == b.dots
             plain == NextBlock(s, b, {}, First(b.esc), FALSE, dots)
             stopped == [b EXCEPT !.stop = TRUE, !.next = NextMask(s, b)]
             NoCR == \A i \in Lanes : s[p + 1 + i] # CR
  <1>1. special = {i \in Lanes : s[p + 1 + i] \in {CR, LF, EQ}} \cup dots
    BY DEF SpecialLanes, LaneOf
  <1>2. E = {i \in Lanes : s[p + 1 + i] = EQ}
    BY DEF MaskEq, LaneOf
  <1>3. Block(s, b) =
          CASE special = {} -> plain
            [] special # {} /\ special = E -> MaskedBlock(s, b, special, dots)
            [] special # {} /\ special # E /\ EndsIn(s, b) -> stopped
            [] OTHER -> masked
    BY DEF Block, LineDots
  <1>4. NoCR => lineDots = {} /\ DotsBehind(lineDots) = {}
    <2>1. ASSUME NoCR, NEW i \in DotLines(s, b)
          PROVE  FALSE
      <3>1. i \in Lanes /\ HasAt(s, p + i, DotLine)
        BY <2>1 DEF DotLines
      <3>2. DotLine[1] = CR /\ 1 \in 1..Len(DotLine)
        BY DEF DotLine
      <3>3. s[p + i + 1] = CR
        BY <3>1, <3>2 DEF HasAt
      <3>4. p + i + 1 = p + 1 + i
        BY <3>1, LaneFacts
      <3> QED BY <2>1, <3>1, <3>3, <3>4
    <2>2. NoCR => lineDots = {}
      BY <2>1 DEF LineDots
    <2>3. DotsBehind({}) = {}
      BY DEF DotsBehind
    <2> QED BY <2>2, <2>3
  <1>5. dots \subseteq Lanes /\ \A i \in dots : s[p + 1 + i] = DOT
    OBVIOUS
  <1>6. DOT # EQ /\ CR # EQ
    BY DEF DOT, EQ, CR
  <1> HIDE DEF special, E, lineDots, dots, plain, masked, stopped
  <1>7. CASE special = {}
    <2>1. NoCR /\ dots = {} /\ E = {}
      BY <1>1, <1>2, <1>7
    <2>2. lineDots = {} /\ DotsBehind(lineDots) = {}
      BY <1>4, <2>1
    <2>3. mask = {} /\ masked = MaskedBlock(s, b, {}, {})
      BY <1>7, <2>2 DEF masked
    <2>4. MaskedBlock(s, b, {}, {}) = NextBlock(s, b, {}, First(b.esc), FALSE, {})
      <3> DEFINE shift1 == Shifted1(E) \cup First(b.esc)
                 runs == {} \cap shift1 # {}
                 escaping == IF runs THEN FixEqMask(E, shift1) ELSE E
                 escaped == Shifted1(escaping) \cup First(b.esc)
                 dropped == IF runs THEN {} \ escaped ELSE {}
                 last == Width - 1 \in escaping
      <3>1. MaskedBlock(s, b, {}, {}) = NextBlock(s, b, dropped, escaped, last, {})
        BY DEF MaskedBlock, E
      <3>2. ~runs
        OBVIOUS
      <3>3. escaping = {}
        <4> HIDE DEF runs
        <4> QED BY <2>1, <3>2
      <3>4. dropped = {}
        OBVIOUS
      <3> HIDE DEF escaping, dropped
      <3>5. escaped = First(b.esc)
        BY <3>3 DEF Shifted1
      <3>6. last = FALSE
        BY <3>3
      <3> HIDE DEF escaped, last
      <3> QED BY <3>1, <3>4, <3>5, <3>6
    <2>5. Block(s, b) = plain
      BY <1>3, <1>7
    <2>6. plain = NextBlock(s, b, {}, First(b.esc), FALSE, {})
      BY <2>1 DEF plain
    <2> QED BY <2>1, <2>3, <2>4, <2>5, <2>6 DEF masked, lineDots, special
  <1>8. CASE special # {} /\ special = E
    <2>1. NoCR /\ dots = {}
      BY <1>1, <1>2, <1>5, <1>6, <1>8
    <2>2. lineDots = {} /\ DotsBehind(lineDots) = {}
      BY <1>4, <2>1
    <2>3. mask = special
      BY <2>2
    <2>4. Block(s, b) = masked
      BY <1>3, <1>8, <2>1, <2>2, <2>3 DEF masked
    <2> QED BY <2>1, <2>4 DEF masked, lineDots, special
  <1>9. CASE special # {} /\ special # E /\ EndsIn(s, b)
    <2>1. Block(s, b) = stopped
      BY <1>3, <1>9
    <2> QED BY <1>9, <2>1 DEF stopped, Stopped
  <1>10. CASE special # {} /\ special # E /\ ~EndsIn(s, b)
    <2>1. Block(s, b) = masked
      BY <1>3, <1>10
    <2> QED BY <1>10, <2>1 DEF masked, lineDots, special
  <1> QED BY <1>7, <1>8, <1>9, <1>10

\* What a block does to the kernel's configuration, whatever its characters are:
\* the kernel stops, or moves on by a block.
LEMMA BlockTypes ==
  ASSUME NEW s \in Seq(Nat), NEW b \in BlockConfig, b.pos + Width <= Len(s)
  PROVE  LET m == Block(s, b) IN
         /\ m \in BlockConfig
         /\ \/ m.pos = b.pos + Width /\ m.stop = b.stop
            \/ m.pos = b.pos /\ m.stop
PROOF
  <1> DEFINE lineDots == LineDots(s, b)
             special == SpecialLanes(s, b)
             E == MaskEq(s, b)
             mask == special \cup (lineDots \cap Lanes)
             dots == b.dots
             behind == DotsBehind(lineDots)
             plain == NextBlock(s, b, {}, First(b.esc), FALSE, dots)
             masked == MaskedBlock(s, b, mask, behind)
             same == MaskedBlock(s, b, special, dots)
             next == NextMask(s, b)
             stopped == [b EXCEPT !.stop = TRUE, !.next = next]
             m == Block(s, b)
  <1>1. m = CASE special = {} -> plain
              [] special # {} /\ special = E -> same
              [] special # {} /\ special # E /\ EndsIn(s, b) -> stopped
              [] OTHER -> masked
    BY DEF Block, LineDots
  <1>2. dots \in SUBSET {0, 1} /\ b.pos \in Nat
    BY DEF BlockConfig
  <1>3. behind \in SUBSET {0, 1}
    BY DotsBehindTypes
  <1>4. next \in 0..2
    BY DEF NextMask
  <1> HIDE DEF next, behind, special, mask, dots
  <1>5. \E k \in Seq(Byte) : Passed(b, plain, k)
    <2>1. Compacted(s, b, {}, First(b.esc)) \in Seq(Byte)
      BY CompactedTypes
    <2> QED BY <1>2, <2>1, NextBlockPasses
  <1>6. \E k \in Seq(Byte) : Passed(b, same, k)
    BY <1>2, MaskedTypes
  <1>7. \E k \in Seq(Byte) : Passed(b, masked, k)
    BY <1>3, MaskedTypes
  <1>8. stopped \in BlockConfig /\ stopped.pos = b.pos /\ stopped.stop
    <2> DEFINE on == TRUE
    <2>1. on \in BOOLEAN /\ on
      OBVIOUS
    <2> HIDE DEF on
    <2>2. [b EXCEPT !.stop = on, !.next = next] \in BlockConfig
      BY <1>4, <2>1 DEF BlockConfig
    <2>3. /\ [b EXCEPT !.stop = on, !.next = next].pos = b.pos
          /\ [b EXCEPT !.stop = on, !.next = next].stop = on
      BY DEF BlockConfig
    <2> QED BY <2>1, <2>2, <2>3 DEF on
  <1> HIDE DEF plain, same, masked, stopped, m
  <1>9. m \in {plain, same, masked, stopped}
    BY <1>1
  <1>10. CASE m = stopped
    BY <1>8, <1>10 DEF m
  <1>11. CASE m # stopped
    <2>1. \E k \in Seq(Byte) : Passed(b, m, k)
      BY <1>5, <1>6, <1>7, <1>9, <1>11
    <2> QED BY <2>1 DEF Passed, m
  <1> QED BY <1>10, <1>11

\* What is known of the characters behind n when State st has come to them: that
\* they are a dot that begins a line, or the LF before it and the dot.
DotCode(s, n, st) ==
  IF st = "CRLF" /\ s[n + 1] = DOT THEN 1
  ELSE IF st = "CR" /\ s[n + 1] = LF /\ s[n + 2] = DOT THEN 2
  ELSE 0

\* A block that is left tells it.
LEMMA NextMaskTells ==
  ASSUME NEW s, NEW b, NEW p \in Nat, b.pos = p, NEW st, b.dots = DotsAt(s, p, st)
  PROVE  NextMask(s, b) = DotCode(s, p, st)
PROOF
  <1> DEFINE c == s[p + 1]
             d == s[p + 2]
             n == NextMask(s, b)
  <1>1. LaneOf(s, b, 0) = c /\ LaneOf(s, b, 1) = d
    <2>1. p + 1 + 0 = p + 1 /\ p + 1 + 1 = p + 2
      OBVIOUS
    <2> QED BY <2>1 DEF LaneOf
  <1>2. 0 \in b.dots <=> st = "CRLF" /\ c = DOT
    BY DEF DotsAt
  <1>3. 1 \in b.dots <=> st = "CR" /\ c = LF /\ d = DOT
    BY DEF DotsAt
  <1>4. n = CASE c = DOT -> IF 0 \in b.dots THEN 1 ELSE 0
              [] c # DOT /\ d = DOT -> IF 1 \in b.dots THEN 2 ELSE 0
              [] OTHER -> 0
    BY <1>1 DEF NextMask
  <1>5. DotCode(s, p, st) = IF st = "CRLF" /\ c = DOT THEN 1
                            ELSE IF st = "CR" /\ c = LF /\ d = DOT THEN 2 ELSE 0
    BY DEF DotCode
  <1>6. LF # DOT /\ ~(st = "CRLF" /\ st = "CR")
    BY DEF LF, DOT
  <1> HIDE DEF c, d, n
  <1>7. CASE c = DOT
    BY <1>2, <1>4, <1>5, <1>6, <1>7 DEF n
  <1>8. CASE c # DOT
    BY <1>3, <1>4, <1>5, <1>6, <1>8 DEF n
  <1> QED BY <1>7, <1>8

\* So do the characters around the end of the blocks, which tell the State.
LEMMA StraddlingTells ==
  ASSUME NEW s, NEW p \in Nat, NEW st,
         DotsAt(s, p, st) = DotsShown(s, p)
  PROVE  Straddling(s, p) = DotCode(s, p, st)
PROOF
  <1> DEFINE H(i) == HasAt(s, p - 2 + i, DotLine)
             first == st = "CRLF" /\ s[p + 1] = DOT
             second == st = "CR" /\ s[p + 1] = LF /\ s[p + 2] = DOT
             D == {i \in {0, 1} : H(i)}
  <1>1. HasAt(s, p - 2, DotLine) <=> H(0)
    <2>1. p - 2 + 0 = p - 2
      OBVIOUS
    <2> QED BY <2>1
  <1>2. HasAt(s, p - 1, DotLine) <=> H(1)
    <2>1. p - 2 + 1 = p - 1
      OBVIOUS
    <2> QED BY <2>1
  <1>3. D = {i \in {0, 1} : (i = 0 /\ first) \/ (i = 1 /\ second)}
    BY DEF DotsAt, DotsShown
  <1>4. Straddling(s, p) = CASE H(0) -> 1 [] H(1) -> 2 [] OTHER -> 0
    BY <1>1, <1>2 DEF Straddling
  <1>5. DotCode(s, p, st) = IF first THEN 1 ELSE IF second THEN 2 ELSE 0
    BY DEF DotCode
  <1>6. ~(first /\ second)
    OBVIOUS
  <1> HIDE DEF first, second, H
  <1>7. H(0) <=> first
    <2>1. 0 \in D <=> H(0)
      OBVIOUS
    <2>2. 0 \in D <=> first
      BY <1>3
    <2> QED BY <2>1, <2>2
  <1>8. H(1) <=> second
    <2>1. 1 \in D <=> H(1)
      OBVIOUS
    <2>2. 1 \in D <=> second
      BY <1>3
    <2> QED BY <2>1, <2>2
  <1> QED BY <1>4, <1>5, <1>6, <1>7, <1>8

(***************************************************************************)
(* The kernel at b, on s: the reading t of s has come there without an end *)
(* of the data, b has what it has added and what its State means for the   *)
(* characters behind.  Behind a block these show what the State means.     *)
(***************************************************************************)
KernelAt(s, t, b) ==
  /\ b \in BlockConfig /\ b.pos + 4 <= Len(s)
  /\ GoesOn(s, t, b.pos)
  /\ \A j \in 0..b.pos : t[j].end = "none"
  /\ t[b.pos].out = t[0].out \o b.out
  /\ EscapedAt(t, b.pos, b.esc)
  /\ b.dots = DotsAt(s, b.pos, t[b.pos].state)
  /\ b.pos > 0 => b.dots = DotsShown(s, b.pos)

\* A block is decoded as the reference reads it, or left.
LEMMA BlockStep ==
  ASSUME NEW s \in Seq(Nat), NEW t, IsReading(s, t), NEW b, KernelAt(s, t, b),
         NEW p \in Nat, b.pos = p, p + Width + 4 <= Len(s), ~b.stop
  PROVE  LET m == Block(s, b) IN
         /\ KernelAt(s, t, m)
         /\ \/ m.stop /\ m.pos = p /\ m.next = DotCode(s, p, t[p].state)
            \/ ~m.stop /\ m.pos = p + Width /\ m.next = b.next
PROOF
  <1> DEFINE lineDots == LineDots(s, b)
             mask == SpecialLanes(s, b) \cup (lineDots \cap Lanes)
             dots == DotsBehind(lineDots)
             m == Block(s, b)
             p2 == p + Width
             st == t[p].state
  <1>1. /\ b \in BlockConfig /\ b.dots \in SUBSET {0, 1} /\ GoesOn(s, t, p)
        /\ \A j \in 0..p : t[j].end = "none"
        /\ t[p].out = t[0].out \o b.out /\ b.out \in Seq(Byte)
        /\ EscapedAt(t, p, b.esc)
        /\ b.dots = DotsAt(s, p, st)
        /\ p > 0 => b.dots = DotsShown(s, p)
    BY DEF KernelAt, BlockConfig
  <1>2. b.dots \subseteq Lanes
    BY <1>1, LaneFacts
  <1>3. \A i \in b.dots : s[p + 1 + i] = DOT
    <2> SUFFICES ASSUME NEW i \in b.dots
                 PROVE  s[p + 1 + i] = DOT
      OBVIOUS
    <2>1. \/ i = 0 /\ s[p + 1] = DOT
          \/ i = 1 /\ s[p + 2] = DOT
      BY <1>1 DEF DotsAt
    <2>2. p + 1 + 0 = p + 1 /\ p + 1 + 1 = p + 2
      OBVIOUS
    <2> QED BY <2>1, <2>2
  <1>4. \/ EndsIn(s, b) /\ Stopped(s, b, m)
        \/ /\ m = MaskedBlock(s, b, mask, dots)
           /\ ~EndsIn(s, b) \/ \A i \in Lanes : s[p + 1 + i] # CR
    BY <1>2, <1>3, BlockIsMasked
  <1>5. Width \in Nat /\ Width >= 2 /\ Len(s) \in Nat
    BY LaneFacts
  <1> HIDE DEF m
  <1>6. CASE Stopped(s, b, m)
    <2> DEFINE on == TRUE
               next == NextMask(s, b)
    <2>1. m = [b EXCEPT !.stop = on, !.next = next]
      BY <1>6 DEF Stopped
    <2>2. next = DotCode(s, p, st) /\ on \in BOOLEAN /\ on
      BY <1>1, NextMaskTells
    <2>3. next \in 0..2
      BY DEF NextMask
    <2> HIDE DEF on, next
    <2>4. /\ m \in BlockConfig /\ m.pos = p /\ m.out = b.out /\ m.esc = b.esc
          /\ m.dots = b.dots /\ m.stop = on /\ m.next = next
      BY <1>1, <2>1, <2>2, <2>3 DEF BlockConfig
    <2>5. KernelAt(s, t, m)
      BY <1>1, <2>4 DEF KernelAt
    <2> QED BY <2>2, <2>4, <2>5 DEF m
  <1>7. CASE /\ m = MaskedBlock(s, b, mask, dots)
             /\ ~EndsIn(s, b) \/ \A i \in Lanes : s[p + 1 + i] # CR
    <2>1. \A i \in Lanes : ~TerminatorAt(s, p + i)
      <3> SUFFICES ASSUME NEW i \in Lanes, TerminatorAt(s, p + i)
                   PROVE  FALSE
        OBVIOUS
      <3>1. EndsIn(s, b)
        BY DEF TerminatorAt, Shows, EndsIn
      <3>2. p + i \in Nat /\ p + i + 1 = p + 1 + i
        BY LaneFacts
      <3>3. s[p + i + 1] = CR
        BY <3>2, EndCharacters
      <3> QED BY <1>7, <3>1, <3>2, <3>3
    <2>2. /\ \A i \in 0..Width : GoesOn(s, t, p + i)
          /\ \A i \in Lanes : LaneReads(s, t, p, i)
      <3>1. GoesOn(s, t, p) /\ p + Width <= Len(s)
        BY <1>1, <1>5
      <3> HIDE DEF lineDots, mask, dots, p2, st
      <3> QED BY <2>1, <3>1, BlockReads
    <2>3. /\ DotsOf(s, t, p, b.dots \cup (lineDots \cap Lanes))
          /\ dots = DotsAt(s, p2, t[p2].state) /\ dots = DotsShown(s, p2)
      <3>1. p + Width + 2 <= Len(s)
        BY <1>5
      <3>2. b.dots = DotsAt(s, p, t[p].state)
        BY <1>1
      <3> QED BY <2>2, <3>1, <3>2, DotsFound
    <2>4. dots \in SUBSET {0, 1}
      BY DotsBehindTypes
    <2>5. mask \in SUBSET Lanes
      BY <1>2 DEF SpecialLanes
    <2>6. DroppedOf(s, t, p, mask)
      <3>1. \A i \in Lanes : LaneOf(s, b, i) = s[p + 1 + i]
        BY DEF LaneOf
      <3>2. \A i \in Lanes : i \in mask <=>
              s[p + 1 + i] \in {CR, LF, EQ} \/ i \in b.dots \cup (lineDots \cap Lanes)
        BY <3>1 DEF SpecialLanes
      <3> HIDE DEF mask, lineDots
      <3> QED BY <2>3, <3>2 DEF DotsOf, DroppedOf
    <2> HIDE DEF mask, dots, lineDots
    <2>7. PICK k \in Seq(Byte) :
            /\ Passed(b, m, k) /\ m.dots = dots
            /\ EscapedAt(t, p2, m.esc)
            /\ t[p2].out = t[p].out \o k
      <3>1. p + Width <= Len(s)
        BY <1>5
      <3>2. b \in BlockConfig /\ EscapedAt(t, p, b.esc)
        BY <1>1
      <3> HIDE DEF p2, st
      <3>3. m = MaskedBlock(s, b, mask, dots)
        BY <1>7
      <3> DEFINE r == MaskedBlock(s, b, mask, dots)
      <3>4. r.dots = dots /\ PassedAs(t, p, b, r)
        BY <2>2, <2>4, <2>5, <2>6, <3>1, <3>2, MaskedReads
      <3>5. m.dots = dots /\ PassedAs(t, p, b, m)
        BY <3>3, <3>4
      <3> QED BY <3>5 DEF PassedAs, p2
    <2>8. /\ m \in BlockConfig /\ m.pos = p2 /\ m.out = b.out \o k
          /\ m.next = b.next /\ m.stop = b.stop
      BY <2>7 DEF Passed
    <2>9. GoesOn(s, t, p2)
      <3>1. Width \in 0..Width
        BY <1>5
      <3> QED BY <2>2, <3>1
    <2>10. \A j \in 0..p2 : t[j].end = "none"
      <3> SUFFICES ASSUME NEW j \in 0..p2
                   PROVE  t[j].end = "none"
        OBVIOUS
      <3>1. CASE j <= p
        <4>1. j \in 0..p
          BY <3>1
        <4> QED BY <1>1, <4>1
      <3>2. CASE j > p
        <4>1. j - p \in 0..Width /\ p + (j - p) = j
          BY <1>5, <3>2
        <4>2. GoesOn(s, t, j)
          BY <2>2, <4>1
        <4> QED BY <4>2 DEF GoesOn, At
      <3> QED BY <3>1, <3>2
    <2>11. t[p2].out = t[0].out \o m.out
      <3>1. 0 \in 0..p /\ t[p].out \in Seq(Byte)
        BY <1>1 DEF GoesOn
      <3>2. t[0].out \in Seq(Byte)
        BY DEF IsReading, At
      <3>3. (t[0].out \o b.out) \o k = t[0].out \o (b.out \o k)
        BY <1>1, <3>2, BytesJoined
      <3> QED BY <1>1, <2>7, <2>8, <3>3
    <2>12. p2 + 4 <= Len(s) /\ p2 > 0
      BY <1>5
    <2> HIDE DEF p2
    <2>13. KernelAt(s, t, m)
      BY <2>3, <2>7, <2>8, <2>9, <2>10, <2>11, <2>12 DEF KernelAt, p2
    <2> QED BY <2>8, <2>13 DEF m, p2
  <1> QED BY <1>4, <1>6, <1>7

-----------------------------------------------------------------------------
(* The kernels.                                                            *)

\* How often a width goes into a length.
LEMMA Fits ==
  ASSUME NEW w \in Nat \ {0}, NEW n \in Nat
  PROVE  n \div w \in Nat /\ \A k \in Nat : w * k <= n <=> k <= n \div w
PROOF
  <1> DEFINE q == n \div w
  <1>1. q \in Nat /\ w * q <= n /\ n < w * (q + 1)
    BY Z3
  <1> HIDE DEF q
  <1>2. ASSUME NEW k \in Nat
        PROVE  w * k <= n <=> k <= q
    <2>1. CASE k <= q
      <3>1. w * k <= w * q
        BY <1>1, <2>1, Z3
      <3>2. w * k \in Nat /\ w * q \in Nat
        BY <1>1
      <3> QED BY <1>1, <2>1, <3>1, <3>2
    <2>2. CASE k > q
      <3>1. k >= q + 1
        BY <1>1, <2>2
      <3>2. w * k >= w * (q + 1)
        BY <1>1, <3>1, Z3
      <3>3. w * k \in Nat /\ w * (q + 1) \in Nat
        BY <1>1
      <3> QED BY <1>1, <2>2, <3>2, <3>3
    <2> QED BY <1>1, <2>1, <2>2
  <1> QED BY <1>1, <1>2 DEF q

\* How many blocks the kernel that looks at ahead characters more finds in n.
BlocksIn(ahead, n) == IF n >= Width + ahead THEN (n - ahead) \div Width ELSE 0

\* That is a number.
LEMMA BlocksType ==
  ASSUME NEW ahead \in Nat, NEW n \in Nat
  PROVE  BlocksIn(ahead, n) \in Nat
PROOF
  <1> DEFINE m == n - ahead
  <1>1. Width \in Nat \ {0}
    BY SIMDAssumption
  <1>2. n >= Width + ahead => m \in Nat
    BY <1>1
  <1>3. BlocksIn(ahead, n) = IF n >= Width + ahead THEN m \div Width ELSE 0
    BY DEF BlocksIn
  <1> HIDE DEF m
  <1> QED BY <1>1, <1>2, <1>3, Fits

\* As long as there is one, it may go on.
LEMMA BlocksFit ==
  ASSUME NEW ahead \in Nat, NEW n \in Nat, NEW k \in Nat, k <= BlocksIn(ahead, n)
  PROVE  /\ BlocksIn(ahead, n) \in Nat /\ Width * k \in Nat
         /\ Width * k + Width = Width * (k + 1)
         /\ Width * k + Width + ahead <= n <=> k < BlocksIn(ahead, n)
PROOF
  <1> DEFINE q == BlocksIn(ahead, n)
             p == Width * k
  <1>1. Width \in Nat \ {0} /\ Width \in Int
    BY SIMDAssumption
  <1>2. p \in Nat /\ p + Width = Width * (k + 1)
    <2>1. p \in Nat
      BY <1>1, Z3
    <2>2. Width * (k + 1) = Width * k + Width
      BY <1>1, Z3
    <2> QED BY <2>1, <2>2
  <1>3. CASE n >= Width + ahead
    <2> DEFINE m == n - ahead
    <2>1. m \in Nat /\ q = m \div Width
      BY <1>1, <1>3 DEF BlocksIn
    <2>2. q \in Nat /\ (Width * (k + 1) <= m <=> k + 1 <= q)
      <3>1. k + 1 \in Nat
        OBVIOUS
      <3> HIDE DEF m, q
      <3> QED BY <1>1, <2>1, <3>1, Fits
    <2>3. p + Width + ahead <= n <=> p + Width <= m
      <3> HIDE DEF p, q
      <3> QED BY <1>1, <1>2
    <2> HIDE DEF m, p, q
    <2>4. k + 1 <= q <=> k < q
      BY <2>2
    <2> QED BY <1>2, <2>2, <2>3, <2>4 DEF p, q
  <1>4. CASE n < Width + ahead
    <2>1. q = 0 /\ k = 0
      BY <1>1, <1>4 DEF BlocksIn
    <2>2. p + Width + ahead > n
      <3> HIDE DEF p
      <3> QED BY <1>1, <1>2, <1>4
    <2> HIDE DEF p, q
    <2>3. p + Width + ahead \in Nat
      BY <1>1, <1>2
    <2> QED BY <1>2, <2>1, <2>2, <2>3 DEF p, q
  <1> QED BY <1>1, <1>3, <1>4

\* What decodeSIMD tells the kernel of the State it begins in.
LEMMA DotAheadTells ==
  ASSUME NEW s \in Seq(Nat), Len(s) >= 4, NEW st \in States
  PROVE  DotAhead(s, st) = DotCode(s, 0, st)
PROOF
  <1>1. DOT \in Nat /\ LF \in Nat /\ 0 \in Nat
    BY DEF DOT, LF
  <1>2. Shows(s, 0, <<DOT>>) <=> 0 + 1 <= Len(s) /\ s[0 + 1] = DOT
    BY <1>1, ShowsCharacters
  <1>3. Shows(s, 0, <<LF, DOT>>) <=> 0 + 2 <= Len(s) /\ s[0 + 1] = LF /\ s[0 + 2] = DOT
    BY <1>1, ShowsCharacters
  <1>4. 0 + 1 <= Len(s) /\ 0 + 2 <= Len(s)
    OBVIOUS
  <1> DEFINE one == Shows(s, 0, <<DOT>>)
             two == Shows(s, 0, <<LF, DOT>>)
  <1>5. DotAhead(s, st) = CASE st = "CRLF" /\ one -> 1
                            [] st = "CR" /\ two -> 2
                            [] OTHER -> 0
    BY DEF DotAhead
  <1> HIDE DEF one, two
  <1>6. CASE st = "CRLF"
    BY <1>2, <1>4, <1>5, <1>6 DEF DotCode, one
  <1>7. CASE st = "CR"
    BY <1>3, <1>4, <1>5, <1>7 DEF DotCode, two
  <1>8. CASE st # "CRLF" /\ st # "CR"
    BY <1>5, <1>8 DEF DotCode
  <1> QED BY <1>6, <1>7, <1>8

\* The kernel begins where the reading does.
LEMMA EnterKernelAt ==
  ASSUME NEW s \in Seq(Nat), Len(s) >= 4, NEW t, NEW st \in States, NEW o \in Seq(Byte),
         t[0] = At(st, o), ~EndAt(s, 0, st), NEW ahead
  PROVE  LET b == EnterKernel(ahead, s, st \in {"EQ", "CRLFEQ"}, DotAhead(s, st)) IN
         /\ KernelAt(s, t, b) /\ b.pos = 0 /\ ~b.stop
         /\ b.next = IF BlocksIn(ahead, Len(s)) > 0
                     THEN Straddling(s, Width * BlocksIn(ahead, Len(s)))
                     ELSE DotCode(s, 0, st)
PROOF
  <1> DEFINE esc == st \in {"EQ", "CRLFEQ"}
             off == FALSE
             code == DotCode(s, 0, st)
             blocks == BlocksIn(ahead, Len(s))
             dots == CASE code = 1 -> {0} [] code = 2 -> {1} [] OTHER -> {}
             next == IF blocks > 0 THEN Straddling(s, Width * blocks) ELSE code
             b == [pos |-> 0, out |-> <<>>, esc |-> esc, stop |-> off,
                   dots |-> dots, next |-> next]
  <1>1. EnterKernel(ahead, s, esc, DotAhead(s, st)) = b
    <2>1. DotAhead(s, st) = code
      BY DotAheadTells
    <2> QED BY <2>1 DEF EnterKernel, BlocksIn
  <1>2. code \in 0..2
    BY DEF DotCode
  <1>3. next \in 0..2
    <2>1. Straddling(s, Width * blocks) \in 0..2
      BY DEF Straddling
    <2> QED BY <1>2, <2>1
  <1>4. dots \in SUBSET {0, 1}
    OBVIOUS
  <1>5. esc \in BOOLEAN /\ off \in BOOLEAN /\ ~off
    OBVIOUS
  <1>6. dots = DotsAt(s, 0, st)
    <2> DEFINE first == st = "CRLF" /\ s[0 + 1] = DOT
               second == st = "CR" /\ s[0 + 1] = LF /\ s[0 + 2] = DOT
    <2>1. DotsAt(s, 0, st) = {i \in {0, 1} : (i = 0 /\ first) \/ (i = 1 /\ second)}
      BY DEF DotsAt
    <2>2. code = IF first THEN 1 ELSE IF second THEN 2 ELSE 0
      BY DEF DotCode
    <2>3. ~(first /\ second)
      OBVIOUS
    <2> HIDE DEF first, second, code
    <2>4. CASE first
      BY <2>1, <2>2, <2>3, <2>4
    <2>5. CASE second
      BY <2>1, <2>2, <2>3, <2>5
    <2>6. CASE ~first /\ ~second
      BY <2>1, <2>2, <2>6
    <2> QED BY <2>4, <2>5, <2>6
  <1>7. EscapedAt(t, 0, esc)
    <2>1. t[0].state = st
      BY DEF At
    <2> QED BY <2>1 DEF EscapedAt, Escaping
  <1>8. GoesOn(s, t, 0)
    <2>1. t[0].state = st /\ t[0].out = o
      BY DEF At
    <2> QED BY <2>1 DEF GoesOn
  <1>9. \A j \in 0..0 : t[j].end = "none"
    <2>1. t[0].end = "none"
      BY DEF At
    <2>2. \A j \in 0..0 : j = 0
      OBVIOUS
    <2> QED BY <2>1, <2>2
  <1>10. t[0].out = t[0].out \o <<>> /\ t[0].state = st
    <2>1. t[0].out = o /\ t[0].state = st
      BY DEF At
    <2> QED BY <2>1, ConcatEmptySeq
  <1>11. <<>> \in Seq(Byte) /\ 0 + 4 <= Len(s)
    OBVIOUS
  <1> HIDE DEF esc, off, dots, next
  <1>12. /\ b.pos = 0 /\ b.out = <<>> /\ b.esc = esc /\ b.stop = off
         /\ b.dots = dots /\ b.next = next
    OBVIOUS
  <1>13. b \in BlockConfig
    BY <1>3, <1>4, <1>5, <1>11 DEF BlockConfig
  <1> HIDE DEF b
  <1>14. KernelAt(s, t, b)
    <2>1. ~(b.pos > 0)
      BY <1>12
    <2>2. b.dots = DotsAt(s, b.pos, t[b.pos].state)
      BY <1>6, <1>10, <1>12
    <2>3. EscapedAt(t, b.pos, b.esc)
      BY <1>7, <1>12
    <2> QED BY <1>8, <1>9, <1>10, <1>11, <1>12, <1>13, <2>1, <2>2, <2>3 DEF KernelAt
  <1>15. b.next = IF blocks > 0 THEN Straddling(s, Width * blocks) ELSE code
    BY <1>12 DEF next
  <1> QED BY <1>1, <1>5, <1>12, <1>14, <1>15 DEF esc

\* The kernel's function is what its equation says, and has what every step of
\* it preserves.
LEMMA KernelRuns ==
  ASSUME NEW s \in Seq(Nat), NEW ahead \in Nat, NEW I, I \subseteq BlockConfig,
         \A b \in I : ~KernelStops(ahead, s, b) => Block(s, b) \in I
  PROVE  \A b \in I : LET r == KernelRun(ahead, s)[b] IN
                      r \in I /\ KernelStops(ahead, s, r)
PROOF
  <1> DEFINE S == BlockConfig
             n == Len(s)
             stop == {b \in S : KernelStops(ahead, s, b)}
             next == [b \in S |-> IF b \in stop THEN b ELSE Block(s, b)]
             left(b) == IF b.stop THEN 0 ELSE 1
             rank == [b \in S |-> IF b.pos <= n THEN 2 * (n - b.pos) + left(b) ELSE 0]
             Eq(f) == f = [b \in S |-> IF KernelStops(ahead, s, b) THEN b ELSE f[Block(s, b)]]
             run == CHOOSE f : Eq(f)
  <1>1. Width \in Nat /\ Width >= 2 /\ n \in Nat
    BY LaneFacts
  <1>2. \A b \in S : b.pos \in Nat /\ left(b) \in {0, 1}
    BY DEF BlockConfig
  <1>3. ASSUME NEW b \in S, b \notin stop
        PROVE  /\ ~b.stop /\ b.pos + Width <= n /\ Block(s, b) \in S
               /\ rank[Block(s, b)] < rank[b]
    <2> DEFINE m == Block(s, b)
               p == b.pos
    <2>1. ~b.stop /\ b.pos + Width + ahead <= n
      <3>1. ~KernelStops(ahead, s, b)
        BY <1>3
      <3>2. b.pos + Width + ahead \in Nat
        BY <1>1, <1>2
      <3> QED BY <1>1, <3>1, <3>2 DEF KernelStops
    <2>2. p \in Nat
      BY <1>2
    <2>3. p + Width <= n
      <3> HIDE DEF n
      <3> QED BY <1>1, <2>1, <2>2
    <2>4. m \in S /\ ((m.pos = p + Width /\ m.stop = b.stop) \/ (m.pos = p /\ m.stop))
      BY <2>3, BlockTypes
    <2>5. rank[b] = 2 * (n - p) + 1
      <3>1. left(b) = 1 /\ p <= n
        BY <1>1, <2>1, <2>2, <2>3
      <3>2. rank[b] = IF p <= n THEN 2 * (n - p) + left(b) ELSE 0
        OBVIOUS
      <3> HIDE DEF rank, left, n, p
      <3> QED BY <3>1, <3>2
    <2> HIDE DEF m
    <2>6. CASE m.pos = p + Width /\ m.stop = b.stop
      <3>1. left(m) = 1
        BY <2>1, <2>6
      <3>2. rank[m] = IF m.pos <= n THEN 2 * (n - m.pos) + left(m) ELSE 0
        BY <2>4
      <3> HIDE DEF rank, left, n, p
      <3>3. rank[m] = 2 * (n - (p + Width)) + 1
        BY <2>3, <2>6, <3>1, <3>2
      <3>4. rank[m] < rank[b]
        BY <1>1, <2>2, <2>5, <3>3
      <3> QED BY <2>1, <2>3, <2>4, <3>4 DEF m, p
    <2>7. CASE m.pos = p /\ m.stop
      <3>1. left(m) = 0
        BY <2>7
      <3>2. rank[m] = IF m.pos <= n THEN 2 * (n - m.pos) + left(m) ELSE 0
        BY <2>4
      <3>3. p <= n
        BY <1>1, <2>2, <2>3
      <3> HIDE DEF rank, left, n, p
      <3>4. rank[m] = 2 * (n - p) + 0
        BY <2>7, <3>1, <3>2, <3>3
      <3>5. rank[m] < rank[b]
        BY <1>1, <2>2, <2>5, <3>4
      <3> QED BY <2>1, <2>3, <2>4, <3>5 DEF m, p
    <2> QED BY <2>4, <2>6, <2>7
  <1>4. rank \in [S -> Nat]
    <2> SUFFICES ASSUME NEW b \in S
                 PROVE  (IF b.pos <= n THEN 2 * (n - b.pos) + left(b) ELSE 0) \in Nat
      OBVIOUS
    <2>1. b.pos \in Nat /\ left(b) \in {0, 1}
      BY <1>2
    <2> HIDE DEF left, n
    <2> QED BY <1>1, <2>1
  <1>5. Descends(S, next, stop, rank)
    <2>1. next \in [S -> S]
      BY <1>3
    <2>2. \A b \in S : b \notin stop => next[b] = Block(s, b)
      OBVIOUS
    <2>3. \A b \in S : b \notin stop => rank[next[b]] < rank[b]
      <3> HIDE DEF next, stop, rank
      <3> QED BY <1>3, <2>2
    <2> HIDE DEF next, stop, rank
    <2> QED BY <1>4, <2>1, <2>3 DEF Descends
  <1>6. \A f : Repeats(f, S, next, stop) <=> Eq(f)
    <2> SUFFICES ASSUME NEW f
                 PROVE  [x \in S |-> IF x \in stop THEN x ELSE f[next[x]]]
                          = [b \in S |-> IF KernelStops(ahead, s, b) THEN b
                                         ELSE f[Block(s, b)]]
      BY DEF Repeats
    <2>1. \A x \in S : (IF x \in stop THEN x ELSE f[next[x]])
                         = IF KernelStops(ahead, s, x) THEN x ELSE f[Block(s, x)]
      OBVIOUS
    <2> QED BY <2>1
  <1>7. Eq(run)
    <2> HIDE DEF Eq, next, stop, rank, S
    <2>1. \E f : Eq(f)
      BY <1>5, <1>6, RepeatExists
    <2> QED BY <2>1
  <1>8. Preserves(I, S, next, stop)
    <2>1. \A b \in I : b \notin stop => next[b] \in I
      OBVIOUS
    <2> HIDE DEF next, stop
    <2> QED BY <2>1 DEF Preserves
  <1>9. KernelRun(ahead, s) = run
    BY DEF KernelRun
  <1>10. \A x \in I : run[x] \in I /\ run[x] \in stop
    <2> HIDE DEF next, stop, rank, S, run, Eq
    <2> QED BY <1>5, <1>6, <1>7, <1>8, RepeatResult
  <1> HIDE DEF run
  <1> QED BY <1>9, <1>10

(***************************************************************************)
(* The kernel on s, entered with b0.  Unless it has stopped at a block, it *)
(* is behind a whole number of blocks, and next is still what was set.     *)
(***************************************************************************)
Looping(ahead, s, t, b0, b) ==
  /\ KernelAt(s, t, b)
  /\ b.stop => b.next = DotCode(s, b.pos, t[b.pos].state)
  /\ ~b.stop => /\ b.next = b0.next
                /\ \E k \in 0..BlocksIn(ahead, Len(s)) : b.pos = Width * k

\* Every block keeps it so.
LEMMA LoopingStep ==
  ASSUME NEW s \in Seq(Nat), NEW t, IsReading(s, t), NEW ahead \in Nat, ahead >= 4,
         NEW b0, NEW b, Looping(ahead, s, t, b0, b), ~KernelStops(ahead, s, b)
  PROVE  Looping(ahead, s, t, b0, Block(s, b))
PROOF
  <1> DEFINE n == Len(s)
             blocks == BlocksIn(ahead, n)
             p == b.pos
             m == Block(s, b)
  <1>1. KernelAt(s, t, b) /\ p \in Nat
    BY DEF Looping, KernelAt, BlockConfig
  <1>2. Width \in Nat /\ n \in Nat
    BY LaneFacts
  <1>3. ~b.stop /\ p + Width + ahead <= n
    <2>1. p + Width + ahead \in Nat
      BY <1>1, <1>2
    <2> QED BY <1>2, <2>1 DEF KernelStops
  <1>4. b.next = b0.next /\ \E k \in 0..blocks : p = Width * k
    BY <1>3 DEF Looping
  <1>5. p + Width + 4 <= n
    <2> HIDE DEF p, n
    <2> QED BY <1>1, <1>2, <1>3
  <1>6. /\ KernelAt(s, t, m)
        /\ \/ m.stop /\ m.pos = p /\ m.next = DotCode(s, p, t[p].state)
           \/ ~m.stop /\ m.pos = p + Width /\ m.next = b.next
    BY <1>1, <1>3, <1>5, BlockStep
  <1>7. \E k \in 0..blocks : p + Width = Width * k
    <2>1. blocks \in Nat
      BY <1>2, BlocksType
    <2>2. PICK k \in 0..blocks : p = Width * k
      BY <1>4
    <2> HIDE DEF p, n, blocks
    <2>3. k \in Nat /\ k <= blocks
      BY <2>1, <2>2
    <2>4. k < blocks /\ p + Width = Width * (k + 1)
      BY <1>2, <1>3, <2>2, <2>3, BlocksFit DEF blocks
    <2>5. k + 1 \in 0..blocks
      BY <2>1, <2>3, <2>4
    <2> QED BY <2>4, <2>5
  <1> HIDE DEF m
  <1>8. Looping(ahead, s, t, b0, m)
    BY <1>4, <1>6, <1>7 DEF Looping
  <1> QED BY <1>8 DEF m

\* The kernel stops where the reading has come to, before any end of the data,
\* and tells the State there as far as the characters behind need it.
THEOREM KernelReads ==
  ASSUME NEW s \in Seq(Nat), Len(s) >= 4, NEW t, IsReading(s, t),
         NEW st \in States, NEW o \in Seq(Byte), t[0] = At(st, o), ~EndAt(s, 0, st),
         NEW ahead \in Nat, ahead >= 4
  PROVE  LET b == Kernel(ahead, s, st \in {"EQ", "CRLFEQ"}, DotAhead(s, st)) IN
         KernelAt(s, t, b) /\ b.next = DotCode(s, b.pos, t[b.pos].state)
PROOF
  <1> DEFINE n == Len(s)
             b0 == EnterKernel(ahead, s, st \in {"EQ", "CRLFEQ"}, DotAhead(s, st))
             b == KernelRun(ahead, s)[b0]
             blocks == BlocksIn(ahead, n)
             I == {c \in BlockConfig : Looping(ahead, s, t, b0, c)}
  <1>1. /\ KernelAt(s, t, b0) /\ b0.pos = 0 /\ ~b0.stop
        /\ b0.next = IF blocks > 0 THEN Straddling(s, Width * blocks)
                     ELSE DotCode(s, 0, st)
    BY EnterKernelAt
  <1>2. Width \in Nat \ {0} /\ n \in Nat
    BY LaneFacts
  <1> HIDE DEF b0
  <1>3. blocks \in Nat
    BY <1>2, BlocksType
  <1>4. b0 \in I
    <2>1. 0 \in 0..blocks /\ Width * 0 = 0
      BY <1>2, <1>3
    <2> HIDE DEF blocks, n
    <2>2. \E k \in 0..blocks : b0.pos = Width * k
      BY <1>1, <2>1
    <2>3. Looping(ahead, s, t, b0, b0)
      BY <1>1, <2>2 DEF Looping, blocks, n
    <2> QED BY <1>1, <2>3 DEF KernelAt
  <1>5. \A c \in I : ~KernelStops(ahead, s, c) => Block(s, c) \in I
    <2> SUFFICES ASSUME NEW c \in I, ~KernelStops(ahead, s, c)
                 PROVE  Block(s, c) \in I
      OBVIOUS
    <2>1. Looping(ahead, s, t, b0, Block(s, c))
      BY LoopingStep
    <2> QED BY <2>1 DEF Looping, KernelAt
  <1>6. b \in I /\ KernelStops(ahead, s, b)
    <2>1. I \subseteq BlockConfig
      OBVIOUS
    <2> HIDE DEF I
    <2> QED BY <1>4, <1>5, <2>1, KernelRuns
  <1> HIDE DEF b
  <1> DEFINE p == b.pos
  <1>7. /\ Looping(ahead, s, t, b0, b) /\ KernelAt(s, t, b) /\ p \in Nat
    BY <1>6 DEF Looping, KernelAt, BlockConfig
  <1>8. b.next = DotCode(s, p, t[p].state)
    <2>1. CASE b.stop
      BY <1>7, <2>1 DEF Looping
    <2>2. CASE ~b.stop
      <3>1. b.next = b0.next /\ \E k \in 0..blocks : p = Width * k
        BY <1>7, <2>2 DEF Looping
      <3>2. PICK k \in 0..blocks : p = Width * k
        BY <3>1
      <3>3. p + Width + ahead > n
        BY <1>6, <2>2 DEF KernelStops
      <3>4. k = blocks
        <4> HIDE DEF p, n, blocks
        <4>1. k \in Nat /\ k <= blocks
          BY <1>3, <3>2
        <4>2. ~(p + Width + ahead <= n)
          BY <1>2, <1>7, <3>3
        <4>3. ~(k < blocks)
          BY <1>2, <3>2, <4>1, <4>2, BlocksFit DEF blocks
        <4> QED BY <1>3, <4>1, <4>3
      <3>5. CASE blocks > 0
        <4>1. p > 0
          <5> HIDE DEF p, blocks
          <5>1. Width * blocks # 0
            BY <1>2, <1>3, <3>5, Z3
          <5> QED BY <1>7, <3>2, <3>4, <5>1
        <4>2. DotsAt(s, p, t[p].state) = DotsShown(s, p)
          BY <1>7, <4>1 DEF KernelAt
        <4>3. Straddling(s, p) = DotCode(s, p, t[p].state)
          BY <1>7, <4>2, StraddlingTells
        <4>4. b.next = Straddling(s, Width * blocks)
          BY <1>1, <3>1, <3>5
        <4> QED BY <3>2, <3>4, <4>3, <4>4
      <3>6. CASE ~(blocks > 0)
        <4>1. p = 0
          <5> HIDE DEF p, blocks
          <5>1. blocks = 0
            BY <1>3, <3>6
          <5>2. Width * 0 = 0
            BY <1>2
          <5> QED BY <3>2, <3>4, <5>1, <5>2
        <4>2. t[0].state = st
          BY DEF At
        <4>3. b.next = DotCode(s, 0, st)
          BY <1>1, <3>1, <3>6
        <4> QED BY <4>1, <4>2, <4>3
      <3> QED BY <3>5, <3>6
    <2> QED BY <2>1, <2>2
  <1> QED BY <1>7, <1>8 DEF b, b0, Kernel

-----------------------------------------------------------------------------
(* Behind the blocks.                                                      *)

\* The State the kernel leaves where it has come to st: that of the middle of a
\* line, unless the next character is escaped or a dot that is to be dropped.
StateLeft(s, n, st) ==
  IF st \in Escaping THEN "EQ"
  ELSE IF DotCode(s, n, st) = 1 THEN "CRLF"
  ELSE IF DotCode(s, n, st) = 2 THEN "CR"
  ELSE "NONE"

\* Two readings are the same from their Jth character on, and neither meets the
\* end of the data before.
SameFrom(u, v, J) == u[J] = v[J] /\ \A j \in 0..(J - 1) : u[j].end = "none" /\ v[j].end = "none"

\* They may be the same at once, or behind one, two or three characters.
LEMMA SameFromFew ==
  ASSUME NEW u, NEW v
  PROVE  /\ u[0] = v[0] => SameFrom(u, v, 0)
         /\ u[1] = v[1] /\ u[0].end = "none" /\ v[0].end = "none" => SameFrom(u, v, 1)
         /\ /\ u[2] = v[2] /\ u[0].end = "none" /\ v[0].end = "none"
            /\ u[1].end = "none" /\ v[1].end = "none"
            => SameFrom(u, v, 2)
         /\ /\ u[3] = v[3] /\ u[0].end = "none" /\ v[0].end = "none"
            /\ u[1].end = "none" /\ v[1].end = "none"
            /\ u[2].end = "none" /\ v[2].end = "none"
            => SameFrom(u, v, 3)
PROOF
  <1>1. /\ 0..(0 - 1) = {} /\ 0..(1 - 1) = {0} /\ 0..(2 - 1) = {0, 1}
        /\ 0..(3 - 1) = {0, 1, 2}
    OBVIOUS
  <1> QED BY <1>1 DEF SameFrom

\* u reads the three characters of s behind n.
ReadsThree(s, n, u) == \A j \in 0..2 : u[j + 1] = Transition(u[j], s[n + 1 + j])

\* The readings from the two States are the same before long.
LEMMA SameSoon ==
  ASSUME NEW s \in Seq(Nat), NEW p \in Nat, p + 4 <= Len(s), NEW st \in States,
         NEW o \in Seq(Byte), ~EndAt(s, p, st), NEW u, NEW v,
         u[0] = At(st, o), v[0] = At(StateLeft(s, p, st), o),
         ReadsThree(s, p, u), ReadsThree(s, p, v)
  PROVE  \E J \in 0..3 : SameFrom(u, v, J)
PROOF
  <1> DEFINE c1 == s[p + 1]
             c2 == s[p + 2]
             c3 == s[p + 3]
             left == StateLeft(s, p, st)
             Same == \E J \in 0..3 : SameFrom(u, v, J)
             n == Len(s)
  <1>0. n \in Nat /\ p + 4 <= n
    OBVIOUS
  <1> SUFFICES Same
    OBVIOUS
  <1> HIDE DEF Same, left
  <1>1. /\ u[1] = Transition(u[0], c1) /\ v[1] = Transition(v[0], c1)
        /\ u[2] = Transition(u[1], c2) /\ v[2] = Transition(v[1], c2)
        /\ u[3] = Transition(u[2], c3) /\ v[3] = Transition(v[2], c3)
    <2>1. /\ 0 + 1 = 1 /\ 1 + 1 = 2 /\ 2 + 1 = 3
          /\ p + 1 + 0 = p + 1 /\ p + 1 + 1 = p + 2 /\ p + 1 + 2 = p + 3
          /\ 0 \in 0..2 /\ 1 \in 0..2 /\ 2 \in 0..2
      OBVIOUS
    <2> QED BY <2>1 DEF ReadsThree
  <1>2. c1 \in Nat /\ c2 \in Nat /\ c3 \in Nat
    <2>1. p + 1 \in 1..n /\ p + 2 \in 1..n /\ p + 3 \in 1..n
      <3> HIDE DEF n
      <3> QED BY <1>0
    <2>2. \A i \in 1..n : s[i] \in Nat
      OBVIOUS
    <2> HIDE DEF n
    <2> QED BY <2>1, <2>2
  <1>3. /\ st = "CRLF" => ~(c1 = EQ /\ c2 = Y)
        /\ st = "CR" => ~(c1 = LF /\ c2 = EQ /\ c3 = Y)
        /\ st = "CRLFDT" => ~(c1 = CR /\ c2 = LF) /\ ~(c1 = EQ /\ c2 = Y)
        /\ st = "CRLFDTCR" => c1 # LF
        /\ st = "CRLFEQ" => c1 # Y
    <2>1. /\ p + 1 <= n /\ p + 2 <= n /\ p + 3 <= n
          /\ p + 1 \in Nat /\ (p + 1) + 1 = p + 2 /\ (p + 1) + 2 = p + 3
          /\ (p + 1) + 2 <= n
      <3> HIDE DEF n
      <3> QED BY <1>0
    <2>2. /\ c1 = EQ /\ c2 = Y => LineEndAt(s, p)
          /\ c2 = EQ /\ c3 = Y => LineEndAt(s, p + 1)
      BY <2>1, EndCharacters
    <2>3. st = "CRLF" => ~(c1 = EQ /\ c2 = Y)
      BY <2>2, EndCharacters
    <2>4. st = "CR" => ~(c1 = LF /\ c2 = EQ /\ c3 = Y)
      BY <2>1, <2>2, EndCharacters
    <2>5. st = "CRLFDT" => ~(c1 = CR /\ c2 = LF) /\ ~(c1 = EQ /\ c2 = Y)
      BY <2>1, EndCharacters
    <2>6. st = "CRLFDTCR" => c1 # LF
      BY <2>1, EndCharacters
    <2>7. st = "CRLFEQ" => c1 # Y
      BY <2>1, EndCharacters
    <2> QED BY <2>3, <2>4, <2>5, <2>6, <2>7
  <1>4. left = CASE st \in {"EQ", "CRLFEQ"} -> "EQ"
                 [] st = "CRLF" /\ c1 = DOT -> "CRLF"
                 [] st = "CR" /\ c1 = LF /\ c2 = DOT -> "CR"
                 [] OTHER -> "NONE"
    <2>1. DotCode(s, p, st) = IF st = "CRLF" /\ c1 = DOT THEN 1
                              ELSE IF st = "CR" /\ c1 = LF /\ c2 = DOT THEN 2
                              ELSE 0
      BY DEF DotCode
    <2> HIDE DEF c1, c2, c3
    <2>2. CASE st \in {"EQ", "CRLFEQ"}
      BY <2>2 DEF StateLeft, Escaping, left
    <2>3. CASE st = "CRLF" /\ c1 = DOT
      BY <2>1, <2>3 DEF StateLeft, Escaping, left
    <2>4. CASE st = "CR" /\ c1 = LF /\ c2 = DOT
      BY <2>1, <2>4 DEF StateLeft, Escaping, left
    <2>5. CASE /\ st \notin {"EQ", "CRLFEQ"} /\ ~(st = "CRLF" /\ c1 = DOT)
               /\ ~(st = "CR" /\ c1 = LF /\ c2 = DOT)
      <3>1. DotCode(s, p, st) = 0
        BY <2>1, <2>5
      <3>2. left = "NONE"
        BY <2>5, <3>1 DEF StateLeft, Escaping, left
      <3> QED BY <2>5, <3>2
    <2> QED BY <2>2, <2>3, <2>4, <2>5
  <1>5. \A x : At(x, o).end = "none"
    BY DEF At
  <1>6. EQ # DOT /\ CR # LF /\ CR # EQ /\ EQ # LF
    BY DEF EQ, DOT, CR, LF
  <1>7. 0 \in 0..3 /\ 1 \in 0..3 /\ 2 \in 0..3 /\ 3 \in 0..3
    OBVIOUS
  <1> HIDE DEF c1, c2, c3, left
  <1>8. u[0] = At(st, o) /\ v[0] = At(left, o) /\ u[0].end = "none" /\ v[0].end = "none"
    BY <1>5 DEF left
  <1>9. /\ u[0] = v[0] => Same
        /\ u[1] = v[1] => Same
        /\ u[2] = v[2] /\ u[1].end = "none" /\ v[1].end = "none" => Same
        /\ /\ u[3] = v[3] /\ u[1].end = "none" /\ v[1].end = "none"
           /\ u[2].end = "none" /\ v[2].end = "none"
           => Same
    BY <1>7, <1>8, SameFromFew DEF Same
  <1>10. /\ c1 # Y => Transition(At("CRLFEQ", o), c1) = Transition(At("EQ", o), c1)
         /\ c2 # Y => Transition(At("CRLFEQ", o), c2) = Transition(At("EQ", o), c2)
         /\ c3 # Y => Transition(At("CRLFEQ", o), c3) = Transition(At("EQ", o), c3)
    BY <1>2, ReadsEscaped
  <1>11. CASE st \in {"EQ", "NONE"}
    BY <1>4, <1>8, <1>9, <1>11
  <1>12. CASE st = "CRLFEQ"
    BY <1>1, <1>3, <1>4, <1>8, <1>9, <1>10, <1>12
  <1>13. CASE st = "CRLF"
    <2>1. CASE c1 = DOT
      BY <1>4, <1>8, <1>9, <1>13, <2>1
    <2>2. CASE c1 = EQ
      <3>1. left = "NONE"
        BY <1>4, <1>6, <1>13, <2>2
      <3>2. u[1] = At("CRLFEQ", o) /\ v[1] = At("EQ", o)
        BY <1>1, <1>2, <1>8, <1>13, <2>2, <3>1, ReadsLineEnd, ReadsInLine
      <3> QED BY <1>1, <1>3, <1>5, <1>9, <1>10, <1>13, <2>2, <3>2
    <2>3. CASE c1 \notin {DOT, EQ}
      <3>1. left = "NONE"
        BY <1>4, <1>13, <2>3
      <3>2. Transition(At("CRLF", o), c1) = Transition(At("NONE", o), c1)
        BY <1>2, <2>3, ReadsAsInLine
      <3> QED BY <1>1, <1>8, <1>9, <1>13, <3>1, <3>2
    <2> QED BY <2>1, <2>2, <2>3
  <1>14. CASE st = "CR"
    <2>1. CASE c1 = LF /\ c2 = DOT
      BY <1>4, <1>8, <1>9, <1>14, <2>1
    <2>2. CASE c1 # LF
      <3>1. left = "NONE"
        BY <1>4, <1>14, <2>2
      <3>2. Transition(At("CR", o), c1) = Transition(At("NONE", o), c1)
        BY <1>2, <2>2, ReadsAsInLine
      <3> QED BY <1>1, <1>8, <1>9, <1>14, <3>1, <3>2
    <2>3. CASE c1 = LF /\ c2 # DOT
      <3>1. left = "NONE"
        BY <1>4, <1>14, <2>3
      <3>2. u[1] = At("CRLF", o) /\ v[1] = At("NONE", o)
        BY <1>1, <1>2, <1>8, <1>14, <2>3, <3>1, ReadsLineEnd, ReadsInLine
      <3>3. CASE c2 = EQ
        <4>1. u[2] = At("CRLFEQ", o) /\ v[2] = At("EQ", o)
          BY <1>1, <1>2, <3>2, <3>3, ReadsLineEnd, ReadsInLine
        <4> QED BY <1>1, <1>3, <1>5, <1>9, <1>10, <1>14, <2>3, <3>2, <3>3, <4>1
      <3>4. CASE c2 # EQ
        <4>1. Transition(At("CRLF", o), c2) = Transition(At("NONE", o), c2)
          BY <1>2, <2>3, <3>4, ReadsAsInLine
        <4> QED BY <1>1, <1>5, <1>9, <3>2, <4>1
      <3> QED BY <3>3, <3>4
    <2> QED BY <2>1, <2>2, <2>3
  <1>15. CASE st = "CRLFDT"
    <2>0. left = "NONE"
      BY <1>4, <1>15
    <2>1. CASE c1 = EQ
      <3>1. u[1] = At("CRLFEQ", o) /\ v[1] = At("EQ", o)
        BY <1>1, <1>2, <1>8, <1>15, <2>0, <2>1, ReadsLineEnd, ReadsInLine
      <3> QED BY <1>1, <1>3, <1>5, <1>9, <1>10, <1>15, <2>1, <3>1
    <2>2. CASE c1 = CR
      <3>1. u[1] = At("CRLFDTCR", o) /\ v[1] = At("CR", o)
        BY <1>1, <1>2, <1>8, <1>15, <2>0, <2>2, ReadsLineEnd, ReadsInLine
      <3>2. c2 # LF
        BY <1>3, <1>15, <2>2
      <3>3. Transition(At("CRLFDTCR", o), c2) = Transition(At("CR", o), c2)
        BY <1>2, <3>2, ReadsAsInLine
      <3> QED BY <1>1, <1>5, <1>9, <3>1, <3>3
    <2>3. CASE c1 \notin {CR, EQ}
      <3>1. Transition(At("CRLFDT", o), c1) = Transition(At("NONE", o), c1)
        BY <1>2, <2>3, ReadsAsInLine
      <3> QED BY <1>1, <1>8, <1>9, <1>15, <2>0, <3>1
    <2> QED BY <2>1, <2>2, <2>3
  <1>16. CASE st = "CRLFDTCR"
    <2>1. left = "NONE" /\ c1 # LF
      BY <1>3, <1>4, <1>16
    <2>2. Transition(At("CRLFDTCR", o), c1) = Transition(At("NONE", o), c1)
      BY <1>2, <2>1, ReadsAsInLine
    <2> QED BY <1>1, <1>8, <1>9, <1>16, <2>1, <2>2
  <1> QED BY <1>11, <1>12, <1>13, <1>14, <1>15, <1>16 DEF States

-----------------------------------------------------------------------------
(* A part of the text and its own reading.                                 *)

\* What of s is behind its first n characters.
Rest(s, n) == SubSeq(s, n + 1, Len(s))

\* Its characters, and what is behind some of them.
LEMMA RestIs ==
  ASSUME NEW s \in Seq(Nat), NEW n \in Nat, n <= Len(s)
  PROVE  /\ Rest(s, n) \in Seq(Nat) /\ Len(Rest(s, n)) = Len(s) - n
         /\ \A j \in 1..(Len(s) - n) : Rest(s, n)[j] = s[n + j]
PROOF
  <1>1. Len(s) \in Nat
    OBVIOUS
  <1> QED BY <1>1, SliceIsSeq DEF Rest

\* The rest of a rest.
LEMMA RestOfRest ==
  ASSUME NEW s \in Seq(Nat), NEW n \in Nat, NEW m \in Nat, n + m <= Len(s)
  PROVE  Rest(Rest(s, n), m) = Rest(s, n + m)
PROOF
  <1> DEFINE l == Len(s)
             u == Rest(s, n)
             v == Rest(u, m)
             w == Rest(s, n + m)
  <1>1. l \in Nat /\ n <= l /\ n + m \in Nat /\ n + m <= l /\ m <= l - n /\ l - n \in Nat
    OBVIOUS
  <1>2. u \in Seq(Nat) /\ Len(u) = l - n /\ \A j \in 1..(l - n) : u[j] = s[n + j]
    BY <1>1, RestIs
  <1>3. /\ w \in Seq(Nat) /\ Len(w) = l - (n + m)
        /\ \A j \in 1..(l - (n + m)) : w[j] = s[(n + m) + j]
    BY <1>1, RestIs
  <1> HIDE DEF u
  <1>4. /\ v \in Seq(Nat) /\ Len(v) = Len(u) - m
        /\ \A j \in 1..(Len(u) - m) : v[j] = u[m + j]
    BY <1>1, <1>2, RestIs
  <1> HIDE DEF v, w, l
  <1>5. Len(v) = Len(w) /\ Len(w) \in Nat
    BY <1>1, <1>2, <1>3, <1>4
  <1>6. ASSUME NEW j \in 1..Len(v) PROVE v[j] = w[j]
    <2>1. /\ j \in 1..(l - (n + m)) /\ j \in 1..(Len(u) - m) /\ m + j \in 1..(l - n)
          /\ n + (m + j) = (n + m) + j
      BY <1>1, <1>2, <1>3, <1>4
    <2> QED BY <1>2, <1>3, <1>4, <2>1
  <1>7. v = w
    BY <1>3, <1>4, <1>5, <1>6, SeqEqual
  <1> QED BY <1>7 DEF u, v, w

\* A pattern at the beginning of the rest.
LEMMA RestShows ==
  ASSUME NEW s \in Seq(Nat), NEW n \in Nat, n <= Len(s), NEW p \in Seq(Nat)
  PROVE  Shows(Rest(s, n), 0, p) <=> Shows(s, n, p)
PROOF
  <1> DEFINE l == Len(s)
             k == Len(p)
             u == Rest(s, n)
  <1>1. l \in Nat /\ k \in Nat /\ n <= l
    OBVIOUS
  <1>2. u \in Seq(Nat) /\ Len(u) = l - n /\ \A j \in 1..(l - n) : u[j] = s[n + j]
    BY RestIs
  <1> HIDE DEF u, l, k
  <1>3. 0 + k <= Len(u) <=> n + k <= l
    BY <1>1, <1>2
  <1>4. ASSUME n + k <= l
        PROVE  HasAt(u, 0, p) <=> HasAt(s, n, p)
    <2>1. \A j \in 1..k : 0 + j = j /\ j \in 1..(l - n)
      BY <1>1, <1>4
    <2>2. \A j \in 1..k : u[0 + j] = s[n + j]
      BY <1>2, <2>1
    <2> QED BY <2>2 DEF HasAt, k
  <1> QED BY <1>3, <1>4 DEF Shows, l, k, u

\* s is the text behind the first n characters, as much of it as is shown.
Part(cx, n, s) == n + Len(s) = cx.upto /\ \A j \in 1..Len(s) : s[j] = cx.text[n + j]

(***************************************************************************)
(* t is a reading of that part which is the same as that of the whole text *)
(* from its Jth character on; neither meets the end of the data before.    *)
(***************************************************************************)
Joins(cx, n, s, t, J) ==
  /\ Part(cx, n, s)
  /\ Open(cx, n)
  /\ \A j \in 0..(J - 1) : t[j].end = "none" /\ ReadTo(cx, n + j).end = "none"
  /\ \A j \in J..Len(s) : t[j] = ReadTo(cx, n + j)

\* Readings that are the same at one character are the same behind it.
LEMMA ReadingsFollow ==
  ASSUME NEW cx, Context(cx), NEW n \in Nat, NEW s \in Seq(Nat), Part(cx, n, s),
         NEW t, IsReading(s, t), NEW J \in Nat, J <= Len(s), t[J] = ReadTo(cx, n + J)
  PROVE  \A j \in J..Len(s) : t[j] = ReadTo(cx, n + j)
PROOF
  <1> DEFINE l == Len(s)
             N == l - J
             I == {i \in 0..N : t[J + i] = ReadTo(cx, n + (J + i))}
  <1>1. l \in Nat /\ N \in Nat /\ J <= l /\ n + l = cx.upto
    BY DEF Part
  <1>2. 0 \in I
    <2>1. 0 \in 0..N /\ J + 0 = J
      BY <1>1
    <2> HIDE DEF N
    <2> QED BY <2>1
  <1>3. ASSUME NEW i \in 0..(N - 1), i \in I
        PROVE  i + 1 \in I
    <2> DEFINE m == J + i
    <2>1. /\ m \in Nat /\ m \in 0..(l - 1) /\ m + 1 = J + (i + 1) /\ i + 1 \in 0..N
          /\ n + m \in Nat /\ (n + m) + 1 = n + (m + 1) /\ n + m < n + l /\ m + 1 \in 1..l
      <3> HIDE DEF l
      <3> QED BY <1>1
    <2>2. t[m] = ReadTo(cx, n + m)
      BY <1>3
    <2> HIDE DEF m, N
    <2>3. t[m + 1] = Transition(t[m], s[m + 1])
      BY <2>1, ReadingSteps
    <2>4. ReadTo(cx, n + (m + 1)) = Transition(ReadTo(cx, n + m), cx.text[n + (m + 1)])
      <3>1. n + m < cx.upto
        BY <1>1, <2>1
      <3>2. ReadTo(cx, (n + m) + 1) = Transition(ReadTo(cx, n + m), cx.text[(n + m) + 1])
        BY <2>1, <3>1, ContextFacts
      <3> QED BY <2>1, <3>2
    <2>5. s[m + 1] = cx.text[n + (m + 1)]
      BY <2>1 DEF Part
    <2>6. t[m + 1] = ReadTo(cx, n + (m + 1))
      BY <2>2, <2>3, <2>4, <2>5
    <2> QED BY <2>1, <2>6
  <1>4. 0..N \subseteq I
    <2> HIDE DEF I, N
    <2> QED BY <1>1, <1>2, <1>3, UpTo
  <1>5. ASSUME NEW j \in J..l
        PROVE  t[j] = ReadTo(cx, n + j)
    <2>1. j - J \in 0..N /\ J + (j - J) = j
      <3> HIDE DEF l
      <3> QED BY <1>1
    <2>2. j - J \in I
      BY <1>4, <2>1
    <2> HIDE DEF N
    <2> QED BY <2>1, <2>2
  <1> QED BY <1>5

\* What has been reached in the part has been reached in the text.
LEMMA JoinedReaches ==
  ASSUME NEW cx, Context(cx), NEW n \in Nat, NEW s \in Seq(Nat), NEW t, NEW J \in Nat,
         Joins(cx, n, s, t, J), J + 1 <= Len(s),
         NEW lc, lc.text = s, lc.reads = t, lc.upto = Len(s),
         NEW m \in Nat, m <= Len(s), NEW st, NEW o, NEW e, Reaches(lc, m, st, o, e)
  PROVE  Reaches(cx, n + m, st, o, e)
PROOF
  <1> DEFINE l == Len(s)
  <1>1. l \in Nat /\ n + l = cx.upto /\ J + 1 <= l /\ m <= l
    BY DEF Joins, Part
  <1>2. \A j \in J..l : t[j] = ReadTo(cx, n + j)
    BY DEF Joins
  <1>3. /\ Open(cx, n)
        /\ \A j \in 0..(J - 1) : t[j].end = "none" /\ ReadTo(cx, n + j).end = "none"
        /\ \A j \in 1..l : s[j] = cx.text[n + j]
    BY DEF Joins, Part
  <1>4. \A j : ReadTo(lc, j) = t[j]
    BY DEF ReadTo
  <1> HIDE DEF l
  <1>5. ASSUME NEW q \in Nat, q <= l, Open(lc, q)
        PROVE  Open(cx, n + q)
    <2> SUFFICES ASSUME NEW j \in 0..(n + q) PROVE ReadTo(cx, j).end = "none"
      BY DEF Open
    <2>1. CASE j <= n
      <3>1. j \in 0..n
        BY <2>1
      <3> QED BY <1>3, <3>1 DEF Open
    <2>2. CASE n < j /\ j < n + J
      <3>1. j - n \in 0..(J - 1) /\ n + (j - n) = j
        BY <2>2
      <3>2. ReadTo(cx, n + (j - n)).end = "none"
        BY <1>3, <3>1
      <3> QED BY <3>1, <3>2
    <2>3. CASE n + J <= j
      <3>1. j - n \in J..l /\ n + (j - n) = j /\ j - n \in 0..q
        BY <1>1, <1>5, <2>3
      <3>2. ReadTo(lc, j - n).end = "none"
        BY <1>5, <3>1 DEF Open
      <3>3. t[j - n] = ReadTo(cx, n + (j - n))
        BY <1>2, <3>1
      <3> QED BY <1>4, <3>1, <3>2, <3>3
    <2> QED BY <2>1, <2>2, <2>3
  <1>6. CASE e = "none"
    <2>1. Open(cx, n + m)
      BY <1>1, <1>5, <1>6 DEF Reaches
    <2>2. CASE m = lc.upto /\ ReadTo(lc, m) = At(st, o)
      <3>1. m = l /\ m \in J..l
        BY <1>1, <2>2 DEF l
      <3>2. n + m = cx.upto /\ ReadTo(cx, n + m) = At(st, o)
        BY <1>1, <1>2, <1>4, <2>2, <3>1
      <3> QED BY <1>6, <2>1, <3>2 DEF Reaches
    <2>3. CASE st = "CRLF" /\ LineEndUnread(lc, m, o)
      <3>1. /\ m + 2 = l /\ s[m + 1] = CR /\ s[m + 2] = LF /\ t[m + 1] = At("CR", o)
        BY <1>4, <2>3 DEF LineEndUnread, l
      <3>2. /\ m + 1 \in J..l /\ m + 1 \in 1..l /\ m + 2 \in 1..l
            /\ n + (m + 1) = (n + m) + 1 /\ n + (m + 2) = (n + m) + 2
            /\ (n + m) + 2 = n + l
        <4>1. m + 2 = l
          BY <3>1
        <4> QED BY <1>1, <4>1
      <3>3. /\ cx.text[(n + m) + 1] = CR /\ cx.text[(n + m) + 2] = LF
            /\ ReadTo(cx, (n + m) + 1) = At("CR", o)
        <4>1. /\ s[m + 1] = cx.text[n + (m + 1)] /\ s[m + 2] = cx.text[n + (m + 2)]
              /\ t[m + 1] = ReadTo(cx, n + (m + 1))
          BY <1>2, <1>3, <3>2
        <4> QED BY <3>1, <3>2, <4>1
      <3>4. LineEndUnread(cx, n + m, o)
        BY <1>1, <3>2, <3>3 DEF LineEndUnread
      <3> QED BY <1>6, <2>1, <2>3, <3>4 DEF Reaches
    <2> QED BY <1>6, <2>2, <2>3 DEF Reaches
  <1>7. CASE e # "none"
    <2>1. /\ m > 0 /\ Open(lc, m - 1)
          /\ t[m] = [state |-> st, out |-> o, end |-> e]
      BY <1>4, <1>7 DEF Reaches
    <2>2. t[m].end = e
      BY <2>1
    <2>3. m - 1 \in Nat /\ m - 1 <= l /\ n + (m - 1) = (n + m) - 1 /\ n + m > 0
      BY <1>1, <2>1
    <2>4. Open(cx, (n + m) - 1)
      <3>1. Open(cx, n + (m - 1))
        BY <1>5, <2>1, <2>3
      <3> QED BY <2>3, <3>1
    <2>5. m \in J..l
      <3>1. m \notin 0..(J - 1)
        BY <1>3, <1>7, <2>2
      <3> QED BY <1>1, <3>1
    <2>6. ReadTo(cx, n + m) = [state |-> st, out |-> o, end |-> e]
      BY <1>2, <2>1, <2>5
    <2> QED BY <1>7, <2>3, <2>4, <2>6 DEF Reaches
  <1> QED BY <1>6, <1>7

\* Where a call begins, the next character is read as its State says.
LEMMA BeginsReads ==
  ASSUME NEW cx, Context(cx), NEW n \in Nat, n < cx.upto, NEW st, NEW o \in Seq(Byte),
         Begins(cx, n, st, o)
  PROVE  ReadTo(cx, n + 1) = Transition(At(st, o), cx.text[n + 1])
PROOF
  <1>1. ReadTo(cx, n + 1) = Transition(ReadTo(cx, n), cx.text[n + 1])
    BY ContextFacts
  <1>2. CASE ReadTo(cx, n) = At(st, o)
    BY <1>1, <1>2
  <1>3. CASE st = "CRLF" /\ cx.text[n + 1] = CR /\ ReadTo(cx, n + 1) = At("CR", o)
    <2>1. CR \in Nat /\ CR \notin {DOT, EQ}
      BY DEF CR, DOT, EQ
    <2>2. Transition(At("CRLF", o), CR) = At("CR", o)
      BY <2>1, ReadsAsInLine, ReadsInLine
    <2> QED BY <1>3, <2>2
  <1> QED BY <1>2, <1>3 DEF Begins

\* A part of the text that a call may begin has a reading from the State it is
\* called with, and that is the text's from the first character on.
LEMMA PartJoins ==
  ASSUME NEW cx, Context(cx), NEW n \in Nat, NEW s \in Seq(Nat), Part(cx, n, s),
         Len(s) > 0, NEW st \in States, NEW o \in Seq(Byte), Begins(cx, n, st, o)
  PROVE  \E t : IsReading(s, t) /\ t[0] = At(st, o) /\ Joins(cx, n, s, t, 1)
PROOF
  <1>1. PICK t : IsReading(s, t) /\ t[0] = At(st, o)
    BY ReadingExists
  <1> DEFINE l == Len(s)
  <1>2. l \in Nat /\ 1 <= l /\ n + l = cx.upto
    BY DEF Part
  <1>3. t[1] = ReadTo(cx, n + 1)
    <2>1. 0 \in 0..(l - 1) /\ 0 + 1 = 1 /\ n < cx.upto /\ 1 \in 1..l
      <3> HIDE DEF l
      <3> QED BY <1>2
    <2>2. t[1] = Transition(At(st, o), s[1])
      BY <1>1, <2>1, ReadingSteps
    <2>3. s[1] = cx.text[n + 1]
      BY <2>1 DEF Part
    <2>4. ReadTo(cx, n + 1) = Transition(At(st, o), cx.text[n + 1])
      BY <2>1, BeginsReads
    <2> QED BY <2>2, <2>3, <2>4
  <1>4. \A j \in 1..Len(s) : t[j] = ReadTo(cx, n + j)
    BY <1>1, <1>2, <1>3, ReadingsFollow
  <1>5. Open(cx, n) /\ ReadTo(cx, n).end = "none"
    <2>1. n \in 0..n
      OBVIOUS
    <2> QED BY <2>1 DEF Begins, Open
  <1>6. \A j \in 0..(1 - 1) : t[j].end = "none" /\ ReadTo(cx, n + j).end = "none"
    <2>1. t[0].end = "none"
      BY <1>1 DEF At
    <2>2. \A j \in 0..(1 - 1) : j = 0 /\ n + j = n
      OBVIOUS
    <2> QED BY <1>5, <2>1, <2>2
  <1> QED BY <1>1, <1>4, <1>5, <1>6 DEF Joins

-----------------------------------------------------------------------------
(* Calls on a part of the text.                                            *)

\* What a call returns that begins behind n characters and behind what o they have
\* been decoded to.
Returns(cx, n, o, r) ==
  /\ r.pos \in Nat /\ n + r.pos <= cx.upto
  /\ r.out \in Seq(Byte) /\ r.state \in States /\ r.end \in Ends
  /\ Reaches(cx, n + r.pos, r.state, o \o r.out, r.end)

\* A part with its reading, as the text of a call on all of it.
Local(s, t, o) == [text |-> s, reads |-> t, from |-> 0, upto |-> Len(s), before |-> o]

\* That is a context.
LEMMA LocalContext ==
  ASSUME NEW s \in Seq(Nat), NEW t, IsReading(s, t), NEW o \in Seq(Byte)
  PROVE  LET lc == Local(s, t, o) IN
         /\ Context(lc) /\ lc.text = s /\ lc.reads = t /\ lc.from = 0
         /\ lc.upto = Len(s) /\ lc.before = o /\ Slice(lc) = s
PROOF
  <1> DEFINE lc == Local(s, t, o)
  <1>1. /\ lc.text = s /\ lc.reads = t /\ lc.from = 0 /\ lc.upto = Len(s)
        /\ lc.before = o
    BY DEF Local
  <1>2. Len(s) \in Nat
    OBVIOUS
  <1> HIDE DEF lc
  <1>3. Context(lc)
    BY <1>1, <1>2 DEF Context
  <1>4. Slice(lc) = s
    <2> DEFINE u == Slice(lc)
    <2>1. /\ u \in Seq(Nat) /\ Len(u) = Len(s) - 0
          /\ \A i \in 1..(Len(s) - 0) : u[i] = s[0 + i]
      BY <1>1, <1>3, SliceOfText
    <2> HIDE DEF u
    <2>2. Len(u) = Len(s) /\ \A i \in 1..Len(u) : u[i] = s[i]
      BY <1>2, <2>1
    <2>3. u = s
      BY <2>1, <2>2, SeqEqual
    <2> QED BY <2>3 DEF u
  <1> QED BY <1>1, <1>3, <1>4 DEF lc

\* The portable kernel on a part that joins the text returns what reading the text
\* gives.
LEMMA CallBehind ==
  ASSUME NEW cx, Context(cx), NEW n \in Nat, NEW s \in Seq(Nat), NEW t, IsReading(s, t),
         NEW J \in Nat, Joins(cx, n, s, t, J), J + 1 <= Len(s),
         NEW st \in States, NEW o \in Seq(Byte), t[0] = At(st, o)
  PROVE  Returns(cx, n, o, Decode(s, st))
PROOF
  <1> DEFINE lc == Local(s, t, o)
             r == Decode(s, st)
  <1>1. /\ Context(lc) /\ lc.text = s /\ lc.reads = t /\ lc.from = 0
        /\ lc.upto = Len(s) /\ lc.before = o /\ Slice(lc) = s
    BY LocalContext
  <1>2. Len(s) \in Nat /\ 0 < Len(s)
    OBVIOUS
  <1> HIDE DEF lc
  <1>3. Begins(lc, lc.from, st, lc.before)
    <2>1. ReadTo(lc, 0) = At(st, o)
      BY <1>1 DEF ReadTo
    <2>2. Open(lc, 0)
      <3>1. ReadTo(lc, 0).end = "none"
        BY <2>1 DEF At
      <3>2. \A j \in 0..0 : j = 0
        OBVIOUS
      <3> QED BY <3>1, <3>2 DEF Open
    <2> QED BY <1>1, <2>1, <2>2 DEF Begins
  <1>4. Reaches(lc, Pos(lc, r), r.state, Out(lc, r), r.end)
    BY <1>1, <1>2, <1>3, CallAgrees
  <1>5. Bounded(s, r)
    BY DecodeEnds
  <1> HIDE DEF r
  <1>6. /\ r.pos \in Nat /\ r.pos <= Len(s) /\ r.out \in Seq(Byte) /\ r.state \in States
        /\ r.end \in Ends
    BY <1>5 DEF Bounded, Config
  <1>7. Pos(lc, r) = r.pos /\ Out(lc, r) = o \o r.out
    BY <1>1, <1>6 DEF Pos, Out
  <1>8. Reaches(cx, n + r.pos, r.state, o \o r.out, r.end)
    <2>1. Reaches(lc, r.pos, r.state, o \o r.out, r.end)
      BY <1>4, <1>7
    <2> QED BY <1>1, <1>6, <2>1, JoinedReaches
  <1>9. n + r.pos <= cx.upto
    <2>1. n + Len(s) = cx.upto
      BY DEF Joins, Part
    <2> QED BY <1>2, <1>6, <2>1
  <1> QED BY <1>6, <1>8, <1>9 DEF Returns, r

\* The same on a part where a call may begin.
LEMMA CallOnPart ==
  ASSUME NEW cx, Context(cx), NEW n \in Nat, NEW s \in Seq(Nat), Part(cx, n, s),
         Len(s) >= 2, NEW st \in States, NEW o \in Seq(Byte), Begins(cx, n, st, o)
  PROVE  Returns(cx, n, o, Decode(s, st))
PROOF
  <1>1. Len(s) > 0 /\ 1 + 1 <= Len(s)
    OBVIOUS
  <1>2. PICK t : IsReading(s, t) /\ t[0] = At(st, o) /\ Joins(cx, n, s, t, 1)
    BY <1>1, PartJoins
  <1> QED BY <1>1, <1>2, CallBehind

\* The State that the kernel leaves, from what it knows of the characters behind.
LEMMA StateBehindIs ==
  ASSUME NEW s, NEW t, NEW b \in BlockConfig, EscapedAt(t, b.pos, b.esc),
         b.next = DotCode(s, b.pos, t[b.pos].state)
  PROVE  /\ StateBehind(b) = StateLeft(s, b.pos, t[b.pos].state)
         /\ StateBehind(b) \in States
PROOF
  <1> DEFINE st == t[b.pos].state
             code == DotCode(s, b.pos, st)
  <1>1. b.esc \in BOOLEAN /\ b.next = code
    BY DEF BlockConfig
  <1>2. b.esc <=> st \in Escaping
    BY DEF EscapedAt
  <1> HIDE DEF st, code
  <1>3. StateBehind(b) = IF st \in Escaping THEN "EQ" ELSE IF code = 1 THEN "CRLF"
                         ELSE IF code = 2 THEN "CR" ELSE "NONE"
    <2>1. CASE b.esc
      BY <1>2, <2>1, Zenon DEF StateBehind
    <2>2. CASE ~b.esc
      <3>1. CASE b.next = 1
        BY <1>1, <1>2, <2>2, <3>1 DEF StateBehind
      <3>2. CASE b.next = 2
        BY <1>1, <1>2, <2>2, <3>2 DEF StateBehind
      <3>3. CASE b.next \notin {1, 2}
        BY <1>1, <1>2, <2>2, <3>3 DEF StateBehind
      <3> QED BY <3>1, <3>2, <3>3
    <2> QED BY <2>1, <2>2
  <1> QED BY <1>3 DEF StateLeft, States, st, code

\* The rest of a part behind the blocks, read from the State they leave, joins it
\* within three characters.
LEMMA RestJoins ==
  ASSUME NEW s \in Seq(Nat), NEW t, IsReading(s, t), NEW st \in States, NEW o \in Seq(Byte),
         t[0] = At(st, o), NEW b, KernelAt(s, t, b),
         NEW p \in Nat, b.pos = p, b.next = DotCode(s, p, t[p].state)
  PROVE  \E t3 : \E J \in 0..3 :
            /\ IsReading(Rest(s, p), t3) /\ t3[0] = At(StateBehind(b), o \o b.out)
            /\ Joins(Local(s, t, o), p, Rest(s, p), t3, J)
PROOF
  <1> DEFINE l == Len(s)
             u == Rest(s, p)
             w == o \o b.out
             st2 == t[p].state
             left == StateBehind(b)
             lc == Local(s, t, o)
  <1>1. /\ b \in BlockConfig /\ p + 4 <= l /\ GoesOn(s, t, p)
        /\ \A j \in 0..p : t[j].end = "none"
        /\ t[p].out = t[0].out \o b.out
        /\ EscapedAt(t, p, b.esc)
    BY DEF KernelAt
  <1>2. b.out \in Seq(Byte) /\ l \in Nat /\ p <= l
    BY <1>1 DEF BlockConfig
  <1>3. w \in Seq(Byte)
    BY <1>2, ConcatProperties
  <1>4. u \in Seq(Nat) /\ Len(u) = l - p /\ \A j \in 1..(l - p) : u[j] = s[p + j]
    BY <1>2, RestIs
  <1>5. st2 \in States /\ t[p] = At(st2, w) /\ ~EndAt(s, p, st2)
    <2>1. t[0].out = o
      BY DEF At
    <2> QED BY <1>1, <2>1 DEF GoesOn
  <1>6. left = StateLeft(s, p, st2) /\ left \in States
    BY <1>1, StateBehindIs
  <1>7. /\ Context(lc) /\ lc.text = s /\ lc.reads = t /\ lc.upto = l
    BY LocalContext
  <1> HIDE DEF u, w, st2, left, lc
  <1>8. PICK t3 : IsReading(u, t3) /\ t3[0] = At(left, w)
    BY <1>3, <1>4, <1>6, ReadingExists
  <1> DEFINE t2 == [j \in 0..3 |-> t[p + j]]
  <1> HIDE DEF l
  <1>9. ReadsThree(s, p, t2) /\ t2[0] = At(st2, w)
    <2>1. ASSUME NEW j \in 0..2 PROVE t2[j + 1] = Transition(t2[j], s[p + 1 + j])
      <3>1. /\ p + j \in 0..(l - 1) /\ (p + j) + 1 = p + 1 + j /\ p + (j + 1) = p + 1 + j
            /\ j \in 0..3 /\ j + 1 \in 0..3
        BY <1>1, <1>2
      <3>2. t[(p + j) + 1] = Transition(t[p + j], s[(p + j) + 1])
        BY <3>1, ReadingSteps DEF l
      <3> QED BY <3>1, <3>2
    <2>2. 0 \in 0..3 /\ p + 0 = p
      OBVIOUS
    <2> QED BY <1>5, <2>1, <2>2 DEF ReadsThree
  <1>10. ReadsThree(s, p, t3)
    <2>1. ASSUME NEW j \in 0..2 PROVE t3[j + 1] = Transition(t3[j], s[p + 1 + j])
      <3>1. /\ j \in 0..((l - p) - 1) /\ j + 1 \in 1..(l - p) /\ p + (j + 1) = p + 1 + j
        BY <1>1, <1>2
      <3>2. t3[j + 1] = Transition(t3[j], u[j + 1])
        BY <1>4, <1>8, <3>1, ReadingSteps
      <3> QED BY <1>4, <3>1, <3>2
    <2> QED BY <2>1 DEF ReadsThree
  <1>11. PICK J \in 0..3 : SameFrom(t2, t3, J)
    <2> HIDE DEF t2
    <2>1. p + 4 <= Len(s)
      BY <1>1 DEF l
    <2> QED BY <1>3, <1>5, <1>6, <1>8, <1>9, <1>10, <2>1, SameSoon
  <1>12. J \in Nat /\ J <= l - p /\ \A j \in 0..J : j \in 0..3 /\ j \in Nat
    BY <1>1, <1>2
  <1>13. t3[J] = ReadTo(lc, p + J)
    BY <1>7, <1>11 DEF SameFrom, ReadTo
  <1>14. Part(lc, p, u)
    <2>1. p + Len(u) = l
      BY <1>2, <1>4
    <2> QED BY <1>4, <1>7, <2>1 DEF Part
  <1>15. \A j \in J..Len(u) : t3[j] = ReadTo(lc, p + j)
    BY <1>4, <1>7, <1>8, <1>12, <1>13, <1>14, ReadingsFollow
  <1>16. \A j \in 0..(J - 1) : t3[j].end = "none" /\ ReadTo(lc, p + j).end = "none"
    <2> SUFFICES ASSUME NEW j \in 0..(J - 1)
                 PROVE  t3[j].end = "none" /\ ReadTo(lc, p + j).end = "none"
      OBVIOUS
    <2>1. j \in 0..3
      OBVIOUS
    <2>2. t2[j].end = "none" /\ t3[j].end = "none"
      BY <1>11 DEF SameFrom
    <2> QED BY <1>7, <2>1, <2>2 DEF ReadTo
  <1>17. Open(lc, p)
    BY <1>1, <1>7 DEF Open, ReadTo
  <1>18. Joins(lc, p, u, t3, J)
    BY <1>14, <1>15, <1>16, <1>17 DEF Joins
  <1> QED BY <1>8, <1>18 DEF u, w, left, lc

\* A result behind what has come before it.
LEMMA ReturnsBehind ==
  ASSUME NEW cx, NEW n \in Nat, NEW o \in Seq(Byte), NEW p \in Nat, NEW w \in Seq(Byte),
         NEW k, Returns(cx, n + p, o \o w, k)
  PROVE  Returns(cx, n, o, Result(p + k.pos, w \o k.out, k.state, k.end))
PROOF
  <1> DEFINE r == Result(p + k.pos, w \o k.out, k.state, k.end)
             q == k.pos
             v == k.out
  <1>1. /\ q \in Nat /\ (n + p) + q <= cx.upto /\ v \in Seq(Byte)
        /\ k.state \in States /\ k.end \in Ends
        /\ Reaches(cx, (n + p) + q, k.state, (o \o w) \o v, k.end)
    BY DEF Returns
  <1>2. /\ r.pos = p + q /\ r.out = w \o v /\ r.state = k.state /\ r.end = k.end
    BY DEF Result
  <1> HIDE DEF r, q, v
  <1>3. p + q \in Nat /\ n + (p + q) = (n + p) + q
    BY <1>1
  <1>4. w \o v \in Seq(Byte) /\ o \o (w \o v) = (o \o w) \o v
    <2>1. v \in Seq(Byte)
      BY <1>1
    <2>2. w \o v \in Seq(Byte)
      BY <2>1, ConcatProperties
    <2>3. (o \o w) \o v = o \o (w \o v)
      BY <2>1, ConcatAssociative, SMTT(20)
    <2> QED BY <2>2, <2>3
  <1>5. Returns(cx, n, o, r)
    BY <1>1, <1>2, <1>3, <1>4 DEF Returns
  <1> QED BY <1>5 DEF r, q, v

\* The kernel on a part, and the portable one on what it leaves of it.
LEMMA BlocksOnPart ==
  ASSUME NEW cx, Context(cx), NEW n \in Nat, NEW s \in Seq(Nat), Part(cx, n, s),
         Len(s) >= 4, NEW st \in States, NEW o \in Seq(Byte), Begins(cx, n, st, o),
         ~EndAt(s, 0, st), NEW ahead \in Nat, ahead >= 4
  PROVE  LET b == Kernel(ahead, s, st \in {"EQ", "CRLFEQ"}, DotAhead(s, st))
             k == Decode(Rest(s, b.pos), StateBehind(b))
         IN  /\ b.pos \in Nat /\ b.pos <= Len(s) /\ b.out \in Seq(Byte)
             /\ k.pos \in Nat /\ k.out \in Seq(Byte)
             /\ Returns(cx, n, o, Result(b.pos + k.pos, b.out \o k.out, k.state, k.end))
PROOF
  <1> DEFINE b == Kernel(ahead, s, st \in {"EQ", "CRLFEQ"}, DotAhead(s, st))
             p == b.pos
             u == Rest(s, p)
             k == Decode(u, StateBehind(b))
             w == o \o b.out
             l == Len(s)
  <1>1. PICK t : IsReading(s, t) /\ t[0] = At(st, o) /\ Joins(cx, n, s, t, 1)
    <2>1. l > 0
      OBVIOUS
    <2> QED BY <2>1, PartJoins
  <1>2. KernelAt(s, t, b) /\ b.next = DotCode(s, p, t[p].state)
    BY <1>1, KernelReads
  <1> HIDE DEF b
  <1>3. b \in BlockConfig /\ p + 4 <= l /\ EscapedAt(t, p, b.esc)
    BY <1>2 DEF KernelAt
  <1>4. p \in Nat /\ b.out \in Seq(Byte) /\ l \in Nat
    BY <1>3 DEF BlockConfig
  <1>5. StateBehind(b) \in States
    BY <1>2, <1>3, StateBehindIs
  <1>6. PICK t3 : \E J \in 0..3 :
            /\ IsReading(u, t3) /\ t3[0] = At(StateBehind(b), w)
            /\ Joins(Local(s, t, o), p, u, t3, J)
    BY <1>1, <1>2, <1>4, RestJoins
  <1>7. PICK J \in 0..3 : /\ IsReading(u, t3) /\ t3[0] = At(StateBehind(b), w)
                          /\ Joins(Local(s, t, o), p, u, t3, J)
    BY <1>6
  <1> HIDE DEF p, w
  <1>8. u \in Seq(Nat) /\ Len(u) = l - p
    <2>1. p <= l
      BY <1>3, <1>4
    <2> QED BY <1>4, <2>1, RestIs
  <1> HIDE DEF u, l
  <1>9. J \in Nat /\ J + 1 <= Len(u)
    BY <1>3, <1>4, <1>8
  <1>10. w \in Seq(Byte)
    BY <1>4, ConcatProperties DEF w
  <1> DEFINE lc == Local(s, t, o)
  <1>11. /\ Context(lc) /\ lc.text = s /\ lc.reads = t /\ lc.upto = l
    BY <1>1, LocalContext DEF l
  <1> HIDE DEF lc
  <1>12. Returns(lc, p, w, k)
    <2>1. Joins(lc, p, u, t3, J)
      BY <1>7 DEF lc
    <2> QED BY <1>4, <1>5, <1>7, <1>8, <1>9, <1>10, <1>11, <2>1, CallBehind
  <1> HIDE DEF k
  <1>13. Returns(lc, 0, o, Result(p + k.pos, b.out \o k.out, k.state, k.end))
    <2>1. Returns(lc, 0 + p, o \o b.out, k)
      BY <1>4, <1>12 DEF w
    <2> QED BY <1>4, <2>1, ReturnsBehind
  <1>14. k.pos \in Nat /\ k.out \in Seq(Byte)
    BY <1>12 DEF Returns
  <1> DEFINE r == Result(p + k.pos, b.out \o k.out, k.state, k.end)
  <1> HIDE DEF r
  <1>15. /\ r.pos \in Nat /\ 0 + r.pos <= l /\ r.out \in Seq(Byte) /\ r.state \in States
         /\ r.end \in Ends /\ Reaches(lc, 0 + r.pos, r.state, o \o r.out, r.end)
    BY <1>11, <1>13 DEF Returns, r
  <1>16. Returns(cx, n, o, r)
    <2>1. r.pos <= l /\ 0 + r.pos = r.pos
      BY <1>4, <1>15
    <2>2. Reaches(lc, r.pos, r.state, o \o r.out, r.end)
      BY <1>15, <2>1
    <2>3. 1 + 1 <= Len(s) /\ 1 \in Nat
      BY <1>3, <1>4 DEF l
    <2>4. Reaches(cx, n + r.pos, r.state, o \o r.out, r.end)
      BY <1>1, <1>11, <1>15, <2>1, <2>2, <2>3, JoinedReaches DEF l
    <2>5. n + r.pos <= cx.upto
      <3>1. n + l = cx.upto
        BY DEF Part, l
      <3> QED BY <1>4, <1>15, <2>1, <3>1
    <2> QED BY <1>15, <2>4, <2>5 DEF Returns
  <1>17. p <= l
    BY <1>3, <1>4
  <1> QED BY <1>4, <1>14, <1>16, <1>17 DEF b, p, u, k, l, r

-----------------------------------------------------------------------------
(* An end of the data at the beginning of a part.                          *)

\* The m characters behind the nth are an end of the data, the last one of them
\* last, and what has been decoded before is o.
Meets(t, n, m, o, last) ==
  /\ t[n + m] = IF last = LF THEN [state |-> "CRLF", out |-> o, end |-> "article"]
                             ELSE [state |-> "NONE", out |-> o, end |-> "control"]
  /\ \A j \in n..(n + m - 1) : t[j].end = "none"

\* An end is met with its last character.
LEMMA MeetsOne ==
  ASSUME NEW s \in Seq(Nat), NEW t, IsReading(s, t), NEW n \in Nat, n + 1 <= Len(s),
         NEW st \in States, NEW o \in Seq(Byte), t[n] = At(st, o)
  PROVE  /\ st = "CRLFEQ" /\ s[n + 1] = Y => Meets(t, n, 1, o, Y)
         /\ st = "CRLFDTCR" /\ s[n + 1] = LF => Meets(t, n, 1, o, LF)
PROOF
  <1>1. n \in 0..(Len(s) - 1)
    OBVIOUS
  <1>2. s[n + 1] \in Nat /\ t[n + 1] = Transition(At(st, o), s[n + 1])
    BY <1>1, ReadingSteps
  <1>3. \A j \in n..(n + 1 - 1) : t[j].end = "none"
    <2>1. \A j \in n..(n + 1 - 1) : j = n
      OBVIOUS
    <2>2. t[n].end = "none"
      BY DEF At
    <2> QED BY <2>1, <2>2
  <1>4. Y # LF
    BY DEF Y, LF
  <1>5. CASE st = "CRLFEQ" /\ s[n + 1] = Y
    <2>1. t[n + 1] = [state |-> "NONE", out |-> o, end |-> "control"]
      BY <1>2, <1>5, ReadsEscaped
    <2> QED BY <1>3, <1>4, <1>5, <2>1 DEF Meets
  <1>6. CASE st = "CRLFDTCR" /\ s[n + 1] = LF
    <2>1. t[n + 1] = [state |-> "CRLF", out |-> o, end |-> "article"]
      BY <1>2, <1>6, ReadsLineEnd
    <2> QED BY <1>3, <1>6, <2>1 DEF Meets
  <1> QED BY <1>5, <1>6

\* An end that is met behind one character more.
LEMMA MeetsBehind ==
  ASSUME NEW t, NEW n \in Nat, NEW m \in Nat, NEW o, NEW last,
         t[n].end = "none", Meets(t, n + 1, m, o, last)
  PROVE  Meets(t, n, m + 1, o, last)
PROOF
  <1>1. (n + 1) + m = n + (m + 1)
    OBVIOUS
  <1>2. \A j \in n..(n + (m + 1) - 1) : j = n \/ j \in (n + 1)..((n + 1) + m - 1)
    OBVIOUS
  <1>3. \A j \in (n + 1)..((n + 1) + m - 1) : t[j].end = "none"
    BY DEF Meets
  <1>4. \A j \in n..(n + (m + 1) - 1) : t[j].end = "none"
    BY <1>2, <1>3
  <1> QED BY <1>1, <1>4 DEF Meets

\* The ends that begin behind a State.
LEMMA MeetsEnd ==
  ASSUME NEW s \in Seq(Nat), NEW t, IsReading(s, t), NEW n \in Nat,
         NEW st \in States, NEW o \in Seq(Byte), t[n] = At(st, o)
  PROVE  /\ st = "CRLFEQ" /\ Shows(s, n, <<Y>>) => Meets(t, n, 1, o, Y)
         /\ st = "CRLFDTCR" /\ Shows(s, n, <<LF>>) => Meets(t, n, 1, o, LF)
         /\ st = "CRLFDT" /\ Shows(s, n, <<EQ, Y>>) => Meets(t, n, 2, o, Y)
         /\ st = "CRLFDT" /\ Shows(s, n, <<CR, LF>>) => Meets(t, n, 2, o, LF)
         /\ st = "CRLF" /\ Shows(s, n, <<EQ, Y>>) => Meets(t, n, 2, o, Y)
         /\ st = "CRLF" /\ Shows(s, n, <<DOT, EQ, Y>>) => Meets(t, n, 3, o, Y)
         /\ st = "CRLF" /\ Shows(s, n, <<DOT, CR, LF>>) => Meets(t, n, 3, o, LF)
PROOF
  <1> DEFINE l == Len(s)
             c1 == s[n + 1]
             c2 == s[n + 2]
             c3 == s[n + 3]
  <1>1. /\ Shows(s, n, <<Y>>) => n + 1 <= l /\ c1 = Y
        /\ Shows(s, n, <<LF>>) => n + 1 <= l /\ c1 = LF
        /\ Shows(s, n, <<EQ, Y>>) => n + 2 <= l /\ c1 = EQ /\ c2 = Y
        /\ Shows(s, n, <<CR, LF>>) => n + 2 <= l /\ c1 = CR /\ c2 = LF
        /\ Shows(s, n, <<DOT, EQ, Y>>) => n + 3 <= l /\ c1 = DOT /\ c2 = EQ /\ c3 = Y
        /\ Shows(s, n, <<DOT, CR, LF>>) => n + 3 <= l /\ c1 = DOT /\ c2 = CR /\ c3 = LF
    BY ShowsPatterns, Zenon
  <1>2. /\ n + 1 \in Nat /\ (n + 1) + 1 = n + 2 /\ n + 2 \in Nat /\ (n + 2) + 1 = n + 3
        /\ l \in Nat /\ 1 + 1 = 2 /\ 2 + 1 = 3
        /\ n + 2 <= l => n + 1 <= l
        /\ n + 3 <= l => n + 1 <= l /\ n + 2 <= l
    OBVIOUS
  <1>3. /\ n + 1 <= l => c1 \in Nat /\ t[n + 1] = Transition(t[n], c1)
        /\ n + 2 <= l => c2 \in Nat /\ t[n + 2] = Transition(t[n + 1], c2)
    <2>1. /\ n + 1 <= l => n \in 0..(l - 1)
          /\ n + 2 <= l => n + 1 \in 0..(l - 1)
      BY <1>2
    <2>2. \A i \in 0..(l - 1) : s[i + 1] \in Nat /\ t[i + 1] = Transition(t[i], s[i + 1])
      BY ReadingSteps
    <2> HIDE DEF l
    <2> QED BY <1>2, <2>1, <2>2
  <1>4. {"CRLF", "CRLFDT", "CRLFDTCR", "CRLFEQ"} \subseteq States
    BY DEF States
  <1>5. \A x : At(x, o).end = "none"
    BY DEF At
  <1>6. /\ st = "CRLFEQ" /\ Shows(s, n, <<Y>>) => Meets(t, n, 1, o, Y)
        /\ st = "CRLFDTCR" /\ Shows(s, n, <<LF>>) => Meets(t, n, 1, o, LF)
    BY <1>1, MeetsOne
  <1> HIDE DEF c1, c2, c3
  <1>7. ASSUME st \in {"CRLF", "CRLFDT"}, Shows(s, n, <<EQ, Y>>)
        PROVE  Meets(t, n, 2, o, Y)
    <2>1. t[n + 1] = At("CRLFEQ", o)
      BY <1>1, <1>2, <1>3, <1>7, ReadsLineEnd, SMTT(20)
    <2>2. Meets(t, n + 1, 1, o, Y)
      BY <1>1, <1>2, <1>4, <1>7, <2>1, MeetsOne DEF c2
    <2>3. Meets(t, n, 1 + 1, o, Y)
      BY <1>5, <2>2, MeetsBehind
    <2> QED BY <1>2, <2>3
  <1>8. ASSUME st = "CRLFDT", Shows(s, n, <<CR, LF>>)
        PROVE  Meets(t, n, 2, o, LF)
    <2>1. t[n + 1] = At("CRLFDTCR", o)
      BY <1>1, <1>2, <1>3, <1>8, ReadsLineEnd
    <2>2. Meets(t, n + 1, 1, o, LF)
      BY <1>1, <1>2, <1>4, <1>8, <2>1, MeetsOne DEF c2
    <2>3. Meets(t, n, 1 + 1, o, LF)
      BY <1>5, <2>2, MeetsBehind
    <2> QED BY <1>2, <2>3
  <1>9. ASSUME st = "CRLF", Shows(s, n, <<DOT, EQ, Y>>)
        PROVE  Meets(t, n, 3, o, Y)
    <2>1. t[n + 1] = At("CRLFDT", o)
      BY <1>1, <1>2, <1>3, <1>9, ReadsLineEnd
    <2>2. t[n + 2] = At("CRLFEQ", o)
      BY <1>1, <1>2, <1>3, <1>9, <2>1, ReadsLineEnd
    <2>3. Meets(t, n + 2, 1, o, Y)
      BY <1>1, <1>2, <1>4, <1>9, <2>2, MeetsOne DEF c3
    <2>4. Meets(t, n + 1, 1 + 1, o, Y)
      BY <1>2, <1>5, <2>1, <2>3, MeetsBehind
    <2>5. Meets(t, n, 2 + 1, o, Y)
      BY <1>2, <1>5, <2>4, MeetsBehind
    <2> QED BY <1>2, <2>5
  <1>10. ASSUME st = "CRLF", Shows(s, n, <<DOT, CR, LF>>)
         PROVE  Meets(t, n, 3, o, LF)
    <2>1. t[n + 1] = At("CRLFDT", o)
      BY <1>1, <1>2, <1>3, <1>10, ReadsLineEnd
    <2>2. t[n + 2] = At("CRLFDTCR", o)
      BY <1>1, <1>2, <1>3, <1>10, <2>1, ReadsLineEnd
    <2>3. Meets(t, n + 2, 1, o, LF)
      BY <1>1, <1>2, <1>4, <1>10, <2>2, MeetsOne DEF c3
    <2>4. Meets(t, n + 1, 1 + 1, o, LF)
      BY <1>2, <1>5, <2>1, <2>3, MeetsBehind
    <2>5. Meets(t, n, 2 + 1, o, LF)
      BY <1>2, <1>5, <2>4, MeetsBehind
    <2> QED BY <1>2, <2>5
  <1> QED BY <1>6, <1>7, <1>8, <1>9, <1>10

\* An end of the data is a sequence, and met with its last character.
LEMMA EndMet ==
  ASSUME NEW s \in Seq(Nat), NEW t, IsReading(s, t), NEW n \in Nat,
         NEW st \in States, NEW o \in Seq(Byte), t[n] = At(st, o),
         NEW p \in EndsBegun(st), Shows(s, n, p)
  PROVE  /\ p \in Seq(Nat) /\ Len(p) \in Nat /\ Len(p) > 0
         /\ Meets(t, n, Len(p), o, p[Len(p)])
PROOF
  <1>1. ASSUME NEW m \in Nat, NEW x \in States, t[m] = At(x, o),
               NEW q \in LineEnds, Shows(s, m, q), x = "CRLF"
        PROVE  /\ q \in Seq(Nat) /\ Len(q) \in {2, 3}
               /\ Meets(t, m, Len(q), o, q[Len(q)])
    <2>1. CASE q = <<EQ, Y>>
      <3>1. Len(q) = 2 /\ q[2] = Y
        BY <2>1
      <3>2. Meets(t, m, 2, o, Y)
        BY <1>1, <2>1, MeetsEnd
      <3> QED BY <3>1, <3>2, PatternTypes
    <2>2. CASE q = <<DOT, EQ, Y>>
      <3>1. Len(q) = 3 /\ q[3] = Y
        BY <2>2
      <3>2. Meets(t, m, 3, o, Y)
        BY <1>1, <2>2, MeetsEnd
      <3> QED BY <3>1, <3>2, PatternTypes
    <2>3. CASE q = <<DOT, CR, LF>>
      <3>1. Len(q) = 3 /\ q[3] = LF
        BY <2>3
      <3>2. Meets(t, m, 3, o, LF)
        BY <1>1, <2>3, MeetsEnd
      <3> QED BY <3>1, <3>2, PatternTypes
    <2>4. q = <<EQ, Y>> \/ q = <<DOT, EQ, Y>> \/ q = <<DOT, CR, LF>>
      BY <1>1, Zenon DEF LineEnds
    <2> QED BY <2>1, <2>2, <2>3, <2>4
  <1>2. CASE st = "CRLF"
    <2>1. p \in LineEnds
      BY <1>2 DEF EndsBegun
    <2>2. p \in Seq(Nat) /\ Len(p) \in {2, 3} /\ Meets(t, n, Len(p), o, p[Len(p)])
      BY <1>1, <1>2, <2>1
    <2>3. Len(p) \in Nat /\ Len(p) > 0
      <3> DEFINE k == Len(p)
      <3>1. k = 2 \/ k = 3
        BY <2>2
      <3> HIDE DEF k
      <3>2. k \in Nat /\ k > 0
        BY <3>1
      <3> QED BY <3>2 DEF k
    <2> QED BY <2>2, <2>3
  <1>3. CASE st = "CR"
    <2>1. p \in Behind(<<LF>>, LineEnds)
      BY <1>3 DEF EndsBegun
    <2>2. PICK q \in LineEnds : p = <<LF>> \o q
      BY <2>1 DEF Behind
    <2>3. LF \in Nat /\ q \in Seq(Nat)
      BY PatternTypes
    <2>4. n + 1 <= Len(s) /\ s[n + 1] = LF /\ Shows(s, n + 1, q)
      BY <2>2, <2>3, ShowsBehind
    <2>5. t[n + 1] = At("CRLF", o)
      <3>1. n \in 0..(Len(s) - 1)
        BY <2>4
      <3>2. t[n + 1] = Transition(t[n], s[n + 1])
        BY <3>1, ReadingSteps
      <3> QED BY <1>3, <2>3, <2>4, <3>2, ReadsLineEnd
    <2>6. Len(q) \in {2, 3} /\ Meets(t, n + 1, Len(q), o, q[Len(q)])
      <3>1. "CRLF" \in States /\ n + 1 \in Nat
        BY DEF States
      <3> QED BY <1>1, <2>4, <2>5, <3>1
    <2>7. t[n].end = "none"
      BY DEF At
    <2>8. Meets(t, n, Len(q) + 1, o, q[Len(q)])
      <3> DEFINE k == Len(q)
                 last == q[k]
      <3>1. k \in Nat
        BY <2>6
      <3> HIDE DEF k, last
      <3>2. Meets(t, n + 1, k, o, last)
        BY <2>6 DEF k, last
      <3>3. Meets(t, n, k + 1, o, last)
        BY <2>7, <3>1, <3>2, MeetsBehind
      <3> QED BY <3>3 DEF k, last
    <2>9. p \in Seq(Nat) /\ Len(p) = Len(q) + 1 /\ p[Len(p)] = q[Len(q)]
      <3>1. <<LF>> \in Seq(Nat) /\ Len(<<LF>>) = 1
        BY <2>3
      <3>2. /\ p \in Seq(Nat) /\ Len(p) = 1 + Len(q)
            /\ \A i \in 1..(1 + Len(q)) : p[i] = IF i <= 1 THEN <<LF>>[i] ELSE q[i - 1]
        BY <2>2, <2>3, <3>1, ConcatProperties
      <3> DEFINE k == Len(q)
      <3>3. k \in {2, 3}
        BY <2>6
      <3> HIDE DEF k
      <3>4. 1 + k \in 1..(1 + k) /\ ~(1 + k <= 1) /\ (1 + k) - 1 = k /\ 1 + k = k + 1
        BY <3>3
      <3>5. p[1 + k] = q[k]
        BY <3>2, <3>4 DEF k
      <3> QED BY <3>2, <3>4, <3>5 DEF k
    <2>10. Len(q) + 1 \in Nat /\ Len(q) + 1 > 0
      BY <2>6
    <2> QED BY <2>8, <2>9, <2>10
  <1>4. CASE st = "CRLFDT"
    <2>1. p = <<EQ, Y>> \/ p = <<CR, LF>>
      BY <1>4 DEF EndsBegun
    <2>2. CASE p = <<EQ, Y>>
      <3>1. Len(p) = 2 /\ p[2] = Y
        BY <2>2
      <3>2. Meets(t, n, 2, o, Y)
        BY <1>4, <2>2, MeetsEnd
      <3>3. p \in Seq(Nat)
        BY <2>2, PatternTypes
      <3> QED BY <3>1, <3>2, <3>3
    <2>3. CASE p = <<CR, LF>>
      <3>1. Len(p) = 2 /\ p[2] = LF
        BY <2>3
      <3>2. Meets(t, n, 2, o, LF)
        BY <1>4, <2>3, MeetsEnd
      <3>3. p \in Seq(Nat)
        BY <2>3, PatternTypes
      <3> QED BY <3>1, <3>2, <3>3
    <2> QED BY <2>1, <2>2, <2>3
  <1>5. CASE st = "CRLFDTCR"
    <2>1. p = <<LF>>
      BY <1>5 DEF EndsBegun
    <2>2. Len(p) = 1 /\ p[1] = LF
      BY <2>1
    <2>3. Meets(t, n, 1, o, LF) /\ p \in Seq(Nat)
      <3>1. <<LF>> \in Seq(Nat)
        BY PatternTypes
      <3>2. Shows(s, n, <<LF>>)
        BY <2>1
      <3> QED BY <1>5, <2>1, <3>1, <3>2, MeetsEnd, Zenon
    <2> QED BY <2>2, <2>3
  <1>6. CASE st = "CRLFEQ"
    <2>1. p = <<Y>>
      BY <1>6 DEF EndsBegun
    <2>2. Len(p) = 1 /\ p[1] = Y
      BY <2>1
    <2>3. Meets(t, n, 1, o, Y) /\ p \in Seq(Nat)
      <3>1. <<Y>> \in Seq(Nat)
        BY PatternTypes
      <3>2. Shows(s, n, <<Y>>)
        BY <2>1
      <3> QED BY <1>6, <2>1, <3>1, <3>2, MeetsEnd, Zenon
    <2> QED BY <2>2, <2>3
  <1>7. CASE st \in {"EQ", "NONE"}
    BY <1>7 DEF EndsBegun
  <1> QED BY <1>2, <1>3, <1>4, <1>5, <1>6, <1>7 DEF States

\* What decodeSIMD returns when it sees one where a call may begin.
LEMMA EndOnPart ==
  ASSUME NEW cx, Context(cx), NEW n \in Nat, NEW s \in Seq(Nat), Part(cx, n, s),
         Len(s) >= 2, NEW st \in States, NEW o \in Seq(Byte), Begins(cx, n, st, o),
         NEW p \in EndsBegun(st), Shows(s, 0, p)
  PROVE  /\ Len(p) \in Nat
         /\ Returns(cx, n, o, IF p[Len(p)] = LF THEN Result(Len(p), <<>>, "CRLF", "article")
                              ELSE Result(Len(p), <<>>, "NONE", "control"))
PROOF
  <1> DEFINE m == Len(p)
             last == p[m]
             l == Len(s)
             x == IF last = LF THEN "CRLF" ELSE "NONE"
             e == IF last = LF THEN "article" ELSE "control"
             r == Result(m, <<>>, x, e)
  <1>1. l \in Nat /\ l > 0 /\ 1 + 1 <= l
    OBVIOUS
  <1>2. PICK t : IsReading(s, t) /\ t[0] = At(st, o) /\ Joins(cx, n, s, t, 1)
    BY <1>1, PartJoins
  <1>3. m \in Nat /\ m > 0 /\ Meets(t, 0, m, o, last)
    <2>1. 0 \in Nat
      OBVIOUS
    <2> QED BY <1>2, <2>1, EndMet
  <1>4. m <= l
    <2>1. 0 + m <= l
      BY DEF Shows
    <2> HIDE DEF m, l
    <2> QED BY <1>3, <2>1
  <1> DEFINE lc == Local(s, t, o)
  <1>5. lc.text = s /\ lc.reads = t /\ lc.upto = l
    BY <1>2, LocalContext
  <1> HIDE DEF m, last, l, lc
  <1>6. Reaches(lc, m, x, o, e)
    <2>1. t[m] = [state |-> x, out |-> o, end |-> e]
      <3>1. 0 + m = m
        BY <1>3
      <3> QED BY <1>3, <3>1 DEF Meets
    <2>2. Open(lc, m - 1)
      <3>1. 0 + m - 1 = m - 1
        BY <1>3
      <3> QED BY <1>3, <1>5, <3>1 DEF Meets, Open, ReadTo
    <2>3. e # "none"
      OBVIOUS
    <2> HIDE DEF x, e
    <2> QED BY <1>3, <1>5, <2>1, <2>2, <2>3 DEF Reaches, ReadTo
  <1>7. x \in States /\ e \in Ends
    BY DEF States, Ends
  <1> HIDE DEF x, e
  <1>8. Reaches(cx, n + m, x, o, e)
    BY <1>1, <1>2, <1>3, <1>4, <1>5, <1>6, JoinedReaches DEF l
  <1>9. r.pos = m /\ r.out = <<>> /\ r.state = x /\ r.end = e
    BY DEF Result
  <1> HIDE DEF r
  <1>10. n + m <= cx.upto
    <2>1. n + l = cx.upto
      BY DEF Part, l
    <2> QED BY <1>1, <1>3, <1>4, <2>1
  <1>11. o \o <<>> = o /\ <<>> \in Seq(Byte)
    BY ConcatEmptySeq
  <1>12. Returns(cx, n, o, r)
    BY <1>3, <1>7, <1>8, <1>9, <1>10, <1>11 DEF Returns
  <1>13. r = IF last = LF THEN Result(m, <<>>, "CRLF", "article")
             ELSE Result(m, <<>>, "NONE", "control")
    BY DEF r, x, e
  <1> QED BY <1>3, <1>12, <1>13 DEF m, last

\* The ends are sequences of characters.
LEMMA EndsAreSequences ==
  ASSUME NEW st \in States
  PROVE  EndsBegun(st) \subseteq Seq(Nat)
PROOF
  <1>1. Behind(<<LF>>, LineEnds) \subseteq Seq(Nat)
    <2> SUFFICES ASSUME NEW q \in LineEnds PROVE <<LF>> \o q \in Seq(Nat)
      BY DEF Behind
    <2>1. q \in Seq(Nat) /\ <<LF>> \in Seq(Nat)
      BY PatternTypes
    <2> QED BY <2>1, ConcatProperties
  <1>2. {<<CR, LF>>, <<EQ, Y>>} \subseteq Seq(Nat) /\ {<<LF>>} \subseteq Seq(Nat)
        /\ {<<Y>>} \subseteq Seq(Nat)
    BY PatternTypes
  <1> QED BY <1>1, <1>2, PatternTypes DEF EndsBegun

-----------------------------------------------------------------------------
(* decodeSIMD.                                                             *)

\* What of the slice of a call is behind some of its characters.
LEMMA RestOfSlice ==
  ASSUME NEW cx, Context(cx), NEW p \in Nat, p <= Len(Slice(cx))
  PROVE  LET s == Rest(Slice(cx), p) IN
         /\ Slice(cx) \in Seq(Nat) /\ s \in Seq(Nat) /\ Len(s) = Len(Slice(cx)) - p
         /\ Part(cx, cx.from + p, s)
PROOF
  <1> DEFINE src == Slice(cx)
             s == Rest(src, p)
             n == cx.from
             l == Len(src)
  <1>1. /\ n \in Nat /\ cx.upto \in Nat /\ n <= cx.upto
        /\ src \in Seq(Nat) /\ l = cx.upto - n
        /\ \A i \in 1..(cx.upto - n) : src[i] = cx.text[n + i]
    BY ContextFacts, SliceOfText
  <1>2. s \in Seq(Nat) /\ Len(s) = l - p /\ \A j \in 1..(l - p) : s[j] = src[p + j]
    BY <1>1, RestIs
  <1>3. p <= l /\ l \in Nat
    BY <1>1
  <1> HIDE DEF src, s, l, n
  <1>4. (n + p) + Len(s) = cx.upto
    BY <1>1, <1>2, <1>3, SMTT(20)
  <1>5. ASSUME NEW j \in 1..Len(s) PROVE s[j] = cx.text[(n + p) + j]
    <2>1. j \in 1..(l - p) /\ p + j \in 1..(cx.upto - n) /\ n + (p + j) = (n + p) + j
      BY <1>1, <1>2, <1>3
    <2> QED BY <1>1, <1>2, <2>1
  <1> QED BY <1>1, <1>2, <1>4, <1>5 DEF Part, src, s, l, n

\* r is where a call may go on that has come to it.
Goes(cx, r) ==
  /\ r.pos \in Nat /\ r.pos <= Len(Slice(cx)) /\ r.out \in Seq(Byte)
  /\ r.state \in States /\ Begins(cx, cx.from + r.pos, r.state, cx.before \o r.out)

\* The portable kernel on all that is left.
LEMMA TailReturns ==
  ASSUME NEW cx, Context(cx), NEW r, Goes(cx, r), Len(Slice(cx)) - r.pos >= 2
  PROVE  Returns(cx, cx.from, cx.before, WithTail(Slice(cx), r))
PROOF
  <1> DEFINE src == Slice(cx)
             p == r.pos
             w == r.out
             st == r.state
             n == cx.from
             o == cx.before
             s == Rest(src, p)
             k == Decode(s, st)
  <1>1. /\ p \in Nat /\ p <= Len(src) /\ w \in Seq(Byte) /\ st \in States
        /\ Begins(cx, n + p, st, o \o w)
    BY DEF Goes
  <1>2. s \in Seq(Nat) /\ Len(s) = Len(src) - p /\ Part(cx, n + p, s)
    BY <1>1, RestOfSlice
  <1>3. n \in Nat /\ o \in Seq(Byte)
    BY ContextFacts
  <1>4. Len(s) >= 2
    BY <1>2
  <1>5. WithTail(src, r) = Result(p + k.pos, w \o k.out, k.state, k.end)
    BY DEF WithTail, Rest
  <1> HIDE DEF src, p, w, st, n, o, s
  <1>6. n + p \in Nat
    BY <1>1, <1>3
  <1>7. o \o w \in Seq(Byte)
    BY <1>1, <1>3, ConcatProperties
  <1>8. Returns(cx, n + p, o \o w, k)
    BY <1>1, <1>2, <1>4, <1>6, <1>7, CallOnPart
  <1> HIDE DEF k
  <1>9. Returns(cx, n, o, Result(p + k.pos, w \o k.out, k.state, k.end))
    BY <1>1, <1>3, <1>8, ReturnsBehind
  <1> QED BY <1>5, <1>9 DEF src, n, o

\* The blocks and the tail behind them, when no end of the data comes first.
LEMMA BlocksReturn ==
  ASSUME NEW cx, Context(cx), NEW r, Goes(cx, r), Len(Slice(cx)) - r.pos >= 4,
         ~EndAt(Slice(cx), r.pos, r.state), NEW knl \in {"AVX2", "NEON"}
  PROVE  Returns(cx, cx.from, cx.before, WithBlocks(knl, Slice(cx), r))
PROOF
  <1> DEFINE src == Slice(cx)
             p == r.pos
             w == r.out
             st == r.state
             n == cx.from
             o == cx.before
             s == Rest(src, p)
             ahead == IF knl = "AVX2" THEN AheadAVX2 ELSE AheadNEON
             b == Kernel(ahead, s, st \in {"EQ", "CRLFEQ"}, DotAhead(s, st))
             k == Decode(Rest(s, b.pos), StateBehind(b))
  <1>1. /\ p \in Nat /\ p <= Len(src) /\ w \in Seq(Byte) /\ st \in States
        /\ Begins(cx, n + p, st, o \o w)
    BY DEF Goes
  <1>2. src \in Seq(Nat) /\ s \in Seq(Nat) /\ Len(s) = Len(src) - p /\ Part(cx, n + p, s)
    BY <1>1, RestOfSlice
  <1>3. n \in Nat /\ o \in Seq(Byte)
    BY ContextFacts
  <1>4. Len(s) >= 4
    BY <1>2
  <1>5. ahead \in Nat /\ ahead >= 4
    BY SIMDAssumption
  <1>6. KernelOf(knl, s, st \in {"EQ", "CRLFEQ"}, DotAhead(s, st)) = b
    BY DEF KernelOf, decodeSIMDAVX2, decodeNEON
  <1>7. ~EndAt(s, 0, st)
    <2> SUFFICES ASSUME NEW q \in EndsBegun(st), Shows(s, 0, q)
                 PROVE  FALSE
      BY DEF EndAt
    <2>1. q \in Seq(Nat)
      BY <1>1, EndsAreSequences
    <2>2. Shows(src, p, q)
      BY <1>1, <1>2, <2>1, RestShows
    <2> QED BY <2>2 DEF EndAt
  <1>8. WithBlocks(knl, src, r) =
          WithTail(src, Result(p + b.pos, w \o b.out, StateBehind(b), "none"))
    BY <1>6 DEF WithBlocks, Rest
  <1> HIDE DEF src, p, w, st, n, o, s, ahead, b
  <1>9. n + p \in Nat
    BY <1>1, <1>3
  <1>10. o \o w \in Seq(Byte)
    BY <1>1, <1>3, ConcatProperties
  <1>11. /\ b.pos \in Nat /\ b.pos <= Len(s) /\ b.out \in Seq(Byte)
         /\ k.pos \in Nat /\ k.out \in Seq(Byte)
         /\ Returns(cx, n + p, o \o w,
                    Result(b.pos + k.pos, b.out \o k.out, k.state, k.end))
    BY <1>1, <1>2, <1>4, <1>5, <1>7, <1>9, <1>10, BlocksOnPart DEF b
  <1>12. Rest(s, b.pos) = Rest(src, p + b.pos)
    <2>1. p + b.pos <= Len(src)
      BY <1>1, <1>2, <1>11
    <2> QED BY <1>1, <1>2, <1>11, <2>1, RestOfRest DEF s
  <1>13. WithTail(src, Result(p + b.pos, w \o b.out, StateBehind(b), "none")) =
           Result((p + b.pos) + k.pos, (w \o b.out) \o k.out, k.state, k.end)
    <2> DEFINE r2 == Result(p + b.pos, w \o b.out, StateBehind(b), "none")
    <2>1. r2.pos = p + b.pos /\ r2.out = w \o b.out /\ r2.state = StateBehind(b)
      BY DEF Result
    <2> HIDE DEF r2
    <2>2. k = Decode(SubSeq(src, r2.pos + 1, Len(src)), r2.state)
      BY <1>12, <2>1 DEF Rest
    <2> HIDE DEF k
    <2>3. WithTail(src, r2) = Result(r2.pos + k.pos, r2.out \o k.out, k.state, k.end)
      BY <2>2 DEF WithTail
    <2> QED BY <2>1, <2>3 DEF r2
  <1> HIDE DEF k
  <1>14. Returns(cx, n, o, Result(p + (b.pos + k.pos), w \o (b.out \o k.out), k.state, k.end))
    <2> DEFINE m == Result(b.pos + k.pos, b.out \o k.out, k.state, k.end)
    <2>1. /\ m.pos = b.pos + k.pos /\ m.out = b.out \o k.out /\ m.state = k.state
          /\ m.end = k.end
      BY DEF Result
    <2>2. Returns(cx, n + p, o \o w, m)
      BY <1>11
    <2> HIDE DEF m
    <2>3. Returns(cx, n, o, Result(p + m.pos, w \o m.out, m.state, m.end))
      BY <1>1, <1>3, <2>2, ReturnsBehind
    <2> QED BY <2>1, <2>3
  <1>15. (p + b.pos) + k.pos = p + (b.pos + k.pos)
    <2> DEFINE x == b.pos
               y == k.pos
    <2>1. x \in Nat /\ y \in Nat
      BY <1>11
    <2> HIDE DEF x, y
    <2>2. (p + x) + y = p + (x + y)
      BY <1>1, <2>1
    <2> QED BY <2>2 DEF x, y
  <1>16. (w \o b.out) \o k.out = w \o (b.out \o k.out)
    <2>1. w \in Seq(Byte) /\ b.out \in Seq(Byte) /\ k.out \in Seq(Byte)
      BY <1>1, <1>11
    <2> DEFINE x == b.out
               y == k.out
    <2>2. x \in Seq(Byte) /\ y \in Seq(Byte) /\ w \in Seq(Byte)
      BY <2>1
    <2> HIDE DEF x, y
    <2>3. (w \o x) \o y = w \o (x \o y)
      BY <2>2, ConcatAssociative, SMTT(20)
    <2> QED BY <2>3 DEF x, y
  <1> QED BY <1>8, <1>13, <1>14, <1>15, <1>16 DEF src, n, o

\* All that is left behind the unaligned head.
LEMMA AlignedReturns ==
  ASSUME NEW cx, Context(cx), NEW r, Goes(cx, r), NEW length \in Nat,
         length <= Len(Slice(cx)) - r.pos, length >= 4, NEW knl \in {"AVX2", "NEON"}
  PROVE  Returns(cx, cx.from, cx.before, DecodeAligned(knl, Slice(cx), r, length))
PROOF
  <1> DEFINE src == Slice(cx)
             p == r.pos
             w == r.out
             st == r.state
             n == cx.from
             o == cx.before
             s == Rest(src, p)
             ends == {q \in EndsBegun(st) : Shows(src, p, q)}
             d == DecodeAligned(knl, src, r, length)
  <1>1. /\ p \in Nat /\ p <= Len(src) /\ w \in Seq(Byte) /\ st \in States
        /\ Begins(cx, n + p, st, o \o w)
    BY DEF Goes
  <1>2. /\ src \in Seq(Nat) /\ Len(src) \in Nat
        /\ s \in Seq(Nat) /\ Len(s) = Len(src) - p /\ Part(cx, n + p, s)
    <2>1. /\ src \in Seq(Nat) /\ s \in Seq(Nat) /\ Len(s) = Len(src) - p
          /\ Part(cx, n + p, s)
      BY <1>1, RestOfSlice, Zenon
    <2>2. Len(src) \in Nat
      BY <2>1
    <2> QED BY <2>1, <2>2
  <1>3. n \in Nat /\ o \in Seq(Byte)
    BY ContextFacts
  <1>4. Len(src) - p >= 4 /\ Len(src) - p >= 2
    <2> DEFINE l == Len(src)
    <2>1. l \in Nat /\ length <= l - p
      BY <1>2
    <2> HIDE DEF l, p
    <2>2. l - p >= 4 /\ l - p >= 2
      BY <1>1, <2>1
    <2> QED BY <2>2 DEF l
  <1>5. Width \in Nat
    BY LaneFacts
  <1>6. CASE length <= Width + 3
    <2>1. d = WithTail(src, r)
      <3>1. length <= Width + 3 /\ ~(length > Width + 3)
        BY <1>5, <1>6
      <3> QED BY <3>1, Zenon DEF DecodeAligned
    <2> QED BY <1>4, <2>1, TailReturns
  <1>7. CASE length > Width + 3 /\ ends # {}
    <2> DEFINE q == CHOOSE x \in ends : TRUE
    <2>1. d = IF q[Len(q)] = LF THEN Result(p + Len(q), w, "CRLF", "article")
              ELSE Result(p + Len(q), w, "NONE", "control")
      <3>1. ~(length <= Width + 3) /\ length > Width + 3 /\ ends # {}
        BY <1>5, <1>7
      <3> HIDE DEF ends
      <3> QED BY <3>1 DEF DecodeAligned, ends
    <2>2. q \in ends
      BY <1>7
    <2> HIDE DEF q
    <2>3. q \in EndsBegun(st) /\ Shows(src, p, q)
      BY <2>2
    <2>4. q \in Seq(Nat)
      BY <1>1, <2>3, EndsAreSequences
    <2>5. Shows(s, 0, q)
      BY <1>1, <1>2, <2>3, <2>4, RestShows
    <2> HIDE DEF src, p, w, st, n, o, s, d
    <2> DEFINE k == IF q[Len(q)] = LF THEN Result(Len(q), <<>>, "CRLF", "article")
                    ELSE Result(Len(q), <<>>, "NONE", "control")
    <2>6. Len(q) \in Nat /\ Returns(cx, n + p, o \o w, k)
      <3>1. n + p \in Nat
        BY <1>1, <1>3
      <3>2. o \o w \in Seq(Byte)
        BY <1>1, <1>3, ConcatProperties
      <3>3. Len(s) >= 2
        BY <1>2, <1>4
      <3> QED BY <1>1, <1>2, <2>3, <2>5, <3>1, <3>2, <3>3, EndOnPart
    <2>7. d = Result(p + k.pos, w \o k.out, k.state, k.end)
      <3>1. w \o <<>> = w
        BY <1>1, ConcatEmptySeq
      <3>2. CASE q[Len(q)] = LF
        <4>1. k.pos = Len(q) /\ k.out = <<>> /\ k.state = "CRLF" /\ k.end = "article"
          BY <3>2 DEF Result
        <4> HIDE DEF k
        <4> QED BY <2>1, <3>1, <3>2, <4>1
      <3>3. CASE q[Len(q)] # LF
        <4>1. k.pos = Len(q) /\ k.out = <<>> /\ k.state = "NONE" /\ k.end = "control"
          BY <3>3 DEF Result
        <4> HIDE DEF k
        <4> QED BY <2>1, <3>1, <3>3, <4>1
      <3> QED BY <3>2, <3>3
    <2> HIDE DEF k
    <2>8. Returns(cx, n, o, Result(p + k.pos, w \o k.out, k.state, k.end))
      BY <1>1, <1>3, <2>6, ReturnsBehind
    <2> QED BY <2>7, <2>8 DEF src, n, o, d
  <1>8. CASE length > Width + 3 /\ ends = {}
    <2>1. d = WithBlocks(knl, src, r)
      <3>1. ~(length <= Width + 3) /\ ends = {}
        BY <1>5, <1>8
      <3> HIDE DEF ends
      <3> QED BY <3>1 DEF DecodeAligned, ends
    <2>2. ~EndAt(src, p, st)
      BY <1>8 DEF EndAt
    <2> QED BY <1>4, <2>1, <2>2, BlocksReturn
  <1> QED BY <1>5, <1>6, <1>7, <1>8

\* A call of the portable kernel on the whole slice.
LEMMA WholeReturns ==
  ASSUME NEW cx, Context(cx), NEW st \in States, cx.from < cx.upto,
         Begins(cx, cx.from, st, cx.before)
  PROVE  Returns(cx, cx.from, cx.before, Decode(Slice(cx), st))
PROOF
  <1> DEFINE s == Slice(cx)
             r == Decode(s, st)
  <1>1. Reaches(cx, Pos(cx, r), r.state, Out(cx, r), r.end)
    BY CallAgrees
  <1>2. s \in Seq(Nat) /\ Len(s) = cx.upto - cx.from
    BY SliceOfText
  <1>3. Bounded(s, r)
    BY <1>2, DecodeEnds
  <1>4. cx.from \in Nat /\ cx.upto \in Nat
    BY ContextFacts
  <1> HIDE DEF r, s
  <1>5. /\ r.pos \in Nat /\ r.pos <= Len(s) /\ r.out \in Seq(Byte) /\ r.state \in States
        /\ r.end \in Ends
    BY <1>3 DEF Bounded, Config
  <1>6. cx.from + r.pos <= cx.upto
    BY <1>2, <1>4, <1>5
  <1> QED BY <1>1, <1>5, <1>6 DEF Returns, Pos, Out, r, s

\* The head of a call: the result of the call if it meets the end of the data, and
\* otherwise where the call may go on.
LEMMA HeadReturns ==
  ASSUME NEW cx, Context(cx), NEW st \in States, Begins(cx, cx.from, st, cx.before),
         NEW a \in Nat, a < Len(Slice(cx))
  PROVE  LET head == IF a = 0 THEN Enter(<<>>, st) ELSE Decode(SubSeq(Slice(cx), 1, a), st)
             r == Result(head.pos, head.out, head.state, head.end)
         IN  IF r.end # "none" THEN Returns(cx, cx.from, cx.before, r)
             ELSE Goes(cx, r) /\ r.pos <= a
PROOF
  <1> DEFINE src == Slice(cx)
             head == IF a = 0 THEN Enter(<<>>, st) ELSE Decode(SubSeq(src, 1, a), st)
             r == Result(head.pos, head.out, head.state, head.end)
             n == cx.from
             o == cx.before
  <1>1. /\ n \in Nat /\ cx.upto \in Nat /\ n <= cx.upto /\ cx.upto <= Len(cx.text)
        /\ src \in Seq(Nat) /\ Len(src) = cx.upto - n /\ Len(cx.text) \in Nat
        /\ \A i \in 1..(cx.upto - n) : src[i] = cx.text[n + i]
        /\ o \in Seq(Byte) /\ cx.text \in Seq(Nat)
    BY ContextFacts, SliceOfText
  <1>2. r.pos = head.pos /\ r.out = head.out /\ r.state = head.state /\ r.end = head.end
    BY DEF Result
  <1>3. CASE a = 0
    <2>1. head = Enter(<<>>, st)
      BY <1>3
    <2>2. head.pos = 0 /\ head.out = <<>> /\ head.state = st /\ head.end = "none"
      BY <2>1 DEF Enter
    <2> HIDE DEF r, head
    <2>3. n + r.pos = n /\ o \o r.out = o
      <3>1. n + 0 = n /\ o \o <<>> = o
        BY <1>1, ConcatEmptySeq
      <3> QED BY <1>2, <2>2, <3>1
    <2>4. r.pos \in Nat /\ r.pos <= a /\ r.pos <= Len(src) /\ r.out \in Seq(Byte)
      <3>1. 0 <= Len(src)
        BY <1>1
      <3> QED BY <1>2, <1>3, <2>2, <3>1
    <2>5. Goes(cx, r)
      BY <1>2, <2>2, <2>3, <2>4 DEF Goes
    <2> QED BY <1>2, <2>2, <2>4, <2>5 DEF r, head
  <1>4. CASE a # 0
    <2> DEFINE hx == [text |-> cx.text, reads |-> cx.reads, from |-> n, upto |-> n + a,
                      before |-> o]
               s == SubSeq(src, 1, a)
    <2>1. n + a \in Nat /\ n < n + a /\ n <= n + a /\ n + a <= cx.upto /\ a >= 1
          /\ n + a <= Len(cx.text)
      <3> DEFINE l == Len(src)
                 m == Len(cx.text)
      <3>1. l = cx.upto - n /\ a < l /\ cx.upto <= m /\ m \in Nat
        BY <1>1
      <3> HIDE DEF l, n, m
      <3>2. n + a \in Nat /\ n < n + a /\ n <= n + a /\ n + a <= cx.upto /\ a >= 1
            /\ n + a <= m
        BY <1>1, <1>4, <3>1, SMTT(20)
      <3> QED BY <3>2 DEF m
    <2>2. hx.text = cx.text /\ hx.reads = cx.reads /\ hx.from = n /\ hx.upto = n + a
          /\ hx.before = o
      OBVIOUS
    <2> HIDE DEF hx
    <2>3. Context(hx)
      <3>1. IsReading(cx.text, cx.reads)
        BY DEF Context
      <3> QED BY <1>1, <2>1, <2>2, <3>1 DEF Context
    <2>4. s = Slice(hx)
      <3> DEFINE u == Slice(hx)
      <3>1. u \in Seq(Nat) /\ Len(u) = a /\ \A i \in 1..a : u[i] = cx.text[n + i]
        <4>1. (n + a) - n = a
          BY <1>1, <2>1
        <4> QED BY <2>2, <2>3, <4>1, SliceOfText, SMTT(20)
      <3>2. s \in Seq(Nat) /\ Len(s) = a /\ \A i \in 1..a : s[i] = src[i]
        <4>1. a <= Len(src) /\ 0 + 1 = 1 /\ a - 0 = a /\ 0 \in Nat /\ 0 <= a
          BY <1>1, <2>1
        <4>2. \A i \in 1..a : 0 + i = i
          OBVIOUS
        <4> HIDE DEF src, s
        <4>3. /\ SubSeq(src, 0 + 1, a) \in Seq(Nat) /\ Len(SubSeq(src, 0 + 1, a)) = a - 0
              /\ \A i \in 1..(a - 0) : SubSeq(src, 0 + 1, a)[i] = src[0 + i]
          BY <1>1, <4>1, SliceIsSeq, ZenonT(30)
        <4>4. s = SubSeq(src, 0 + 1, a)
          BY <4>1 DEF s
        <4> QED BY <4>1, <4>2, <4>3, <4>4
      <3>3. \A i \in 1..a : i \in 1..(cx.upto - n)
        BY <1>1, <2>1
      <3> HIDE DEF u, s, src, n
      <3>4. \A i \in 1..Len(s) : s[i] = u[i]
        BY <1>1, <3>1, <3>2, <3>3
      <3>5. s = u
        BY <3>1, <3>2, <3>4, SeqEqual
      <3> QED BY <3>5 DEF u
    <2>5. head = Decode(Slice(hx), st)
      BY <1>4, <2>4
    <2>6. Begins(hx, n, st, o)
      BY <2>2 DEF Begins, Open, ReadTo
    <2> HIDE DEF n, o, s
    <2>7. Returns(hx, n, o, head)
      BY <2>1, <2>2, <2>3, <2>5, <2>6, WholeReturns
    <2> HIDE DEF head, r, src
    <2>8. /\ r.pos \in Nat /\ n + r.pos <= n + a
          /\ r.out \in Seq(Byte) /\ r.state \in States /\ r.end \in Ends
          /\ Reaches(hx, n + r.pos, r.state, o \o r.out, r.end)
      BY <1>2, <2>2, <2>7 DEF Returns
    <2>9. r.pos <= a /\ r.pos <= Len(src) /\ n + r.pos <= cx.upto
      <3> DEFINE p == r.pos
                 l == Len(src)
      <3>1. p \in Nat /\ n + p <= n + a /\ a < l /\ l = cx.upto - n
        BY <1>1, <2>8 DEF src
      <3> HIDE DEF p, l
      <3>2. p <= a /\ p <= l /\ n + p <= cx.upto
        BY <1>1, <3>1
      <3> QED BY <3>2 DEF p, l
    <2>10. CASE r.end # "none"
      <3>1. Reaches(cx, n + r.pos, r.state, o \o r.out, r.end)
        BY <2>2, <2>8, <2>10 DEF Reaches, Open, ReadTo
      <3>2. Returns(cx, n, o, r)
        BY <2>8, <2>9, <3>1 DEF Returns
      <3> QED BY <2>10, <3>2 DEF n, o, r, head, src
    <2>11. CASE r.end = "none"
      <3>1. Reaches(hx, n + r.pos, r.state, o \o r.out, "none")
        BY <2>8, <2>11
      <3>2. Begins(cx, n + r.pos, r.state, o \o r.out)
        BY <2>2, <3>1, ReachesBegins
      <3>3. Goes(cx, r)
        BY <2>8, <2>9, <3>2 DEF Goes, n, o, src
      <3> QED BY <2>9, <2>11, <3>3 DEF n, o, r, head, src
    <2> QED BY <2>10, <2>11
  <1> QED BY <1>3, <1>4

(***************************************************************************)
(* A call of decodeSIMD that begins where the one before has stopped, with *)
(* whichever kernel and at whatever address, returns what reading the text *)
(* one character at a time gives.                                          *)
(***************************************************************************)
THEOREM VectorAgrees ==
  ASSUME NEW cx, Context(cx), NEW st \in States, cx.from < cx.upto,
         Begins(cx, cx.from, st, cx.before), NEW knl \in {"AVX2", "NEON"},
         NEW address \in Nat
  PROVE  Returns(cx, cx.from, cx.before, DecodeVector(knl, Slice(cx), st, address))
PROOF
  <1> DEFINE src == Slice(cx)
             l == Len(src)
             a == Unaligned(address)
             head == IF a = 0 THEN Enter(<<>>, st) ELSE Decode(SubSeq(src, 1, a), st)
             r == Result(head.pos, head.out, head.state, head.end)
             d == DecodeVector(knl, src, st, address)
  <1>1. l \in Nat /\ src \in Seq(Nat)
    BY SliceOfText
  <1>2. Width \in Nat /\ Width >= 2
    BY LaneFacts
  <1>3. a \in Nat /\ a < Width
    <2>1. Width \in Nat \ {0}
      BY <1>2
    <2> DEFINE m == address % Width
    <2>2. m \in Nat /\ m < Width
      BY <2>1, Z3
    <2> HIDE DEF m
    <2> DEFINE x == Width - m
    <2>3. x \in Nat
      BY <2>1, <2>2
    <2> HIDE DEF x
    <2>4. x % Width \in Nat /\ x % Width < Width
      BY <2>1, <2>3, Z3
    <2> QED BY <2>4 DEF Unaligned, m, x
  <1> HIDE DEF src, l, a, d
  <1>4. CASE l <= 2 * Width
    <2>1. d = Decode(src, st)
      <3>1. l <= 2 * Width /\ ~(l > 2 * Width)
        BY <1>1, <1>2, <1>4
      <3> QED BY <3>1, Zenon DEF DecodeVector, d, l
    <2> QED BY <2>1, WholeReturns DEF d, src
  <1>5. CASE ~(l <= 2 * Width)
    <2>1. a < l /\ l > 2 * Width
      BY <1>1, <1>2, <1>3, <1>5
    <2>2. IF r.end # "none" THEN Returns(cx, cx.from, cx.before, r)
          ELSE Goes(cx, r) /\ r.pos <= a
      BY <1>3, <2>1, HeadReturns DEF src, l
    <2>3. d = IF r.end # "none" THEN r ELSE DecodeAligned(knl, src, r, l - a)
      BY <1>5, <2>1 DEF DecodeVector, d, l, a
    <2> HIDE DEF r
    <2>4. CASE r.end # "none"
      BY <2>2, <2>3, <2>4 DEF d, src
    <2>5. CASE r.end = "none"
      <3> DEFINE p == r.pos
                 length == l - a
      <3>1. p \in Nat /\ p <= a /\ Goes(cx, r)
        BY <2>2, <2>5 DEF Goes
      <3> HIDE DEF p
      <3>2. length \in Nat /\ length <= l - p /\ length >= 4
        BY <1>1, <1>2, <1>3, <2>1, <3>1
      <3> HIDE DEF length
      <3>3. length <= Len(Slice(cx)) - r.pos
        BY <3>2 DEF l, src, p
      <3>4. Returns(cx, cx.from, cx.before, DecodeAligned(knl, Slice(cx), r, length))
        BY <3>1, <3>2, <3>3, AlignedReturns
      <3> QED BY <2>3, <2>5, <3>4 DEF d, src, length
    <2> QED BY <2>4, <2>5
  <1> QED BY <1>4, <1>5

-----------------------------------------------------------------------------
(* The caller: types.                                                      *)

\* Where a State has come of a character that has produced nothing, or of the two
\* of an escaped CR, a reading has produced less than it has consumed.
Slack(st) == IF st \in {"EQ", "CRLFEQ", "CR"} THEN 1 ELSE 0

\* One character produces one byte at most, and the State tells when none.
LEMMA ClassifiedBounds ==
  ASSUME NEW st \in States, NEW c \in Nat
  PROVE  LET r == Classified(st, c) IN
         /\ r.state \in States /\ r.end \in Ends /\ r.emit \in Seq(Byte)
         /\ Len(r.emit) \in Nat
         /\ Len(r.emit) + Slack(r.state) <= Slack(st) + 1
PROOF
  <1> DEFINE r == Classified(st, c)
             Good == /\ r.state \in States /\ r.end \in Ends /\ r.emit \in Seq(Byte)
                     /\ Len(r.emit) \in Nat
                     /\ Len(r.emit) + Slack(r.state) <= Slack(st) + 1
  <1> SUFFICES Good
    OBVIOUS
  <1> HIDE DEF Good
  <1>1. {"none", "control", "article"} = Ends /\ {"NONE", "CRLF", "EQ", "CR"} \subseteq States
    BY DEF Ends, States
  <1>2. <<>> \in Seq(Byte) /\ Len(<<>>) = 0
    OBVIOUS
  <1>3. Slack(st) \in {0, 1} /\ Slack(r.state) \in {0, 1}
    BY DEF Slack
  <1>4. CASE st = "CRLFEQ" /\ c = Y
    <2>1. r = To("NONE", <<>>, "control")
      BY <1>4 DEF Classified
    <2>2. r.state = "NONE" /\ r.emit = <<>> /\ r.end = "control"
      BY <2>1 DEF To
    <2>3. Slack("NONE") = 0
      BY DEF Slack
    <2> HIDE DEF r
    <2> QED BY <1>1, <1>2, <1>3, <2>2, <2>3 DEF Good
  <1>5. CASE st = "CRLFDTCR" /\ c = LF
    <2>1. r = To("CRLF", <<>>, "article")
      BY <1>5 DEF Classified
    <2>2. r.state = "CRLF" /\ r.emit = <<>> /\ r.end = "article"
      BY <2>1 DEF To
    <2>3. Slack("CRLF") = 0
      BY DEF Slack
    <2> HIDE DEF r
    <2> QED BY <1>1, <1>2, <1>3, <2>2, <2>3 DEF Good
  <1>6. CASE ~(st = "CRLFEQ" /\ c = Y) /\ ~(st = "CRLFDTCR" /\ c = LF)
    <2>1. /\ r.end = "none" /\ r.state \in States
          /\ r.emit = IF st \in Escaping THEN <<Escaped(c)>>
                      ELSE IF c \in {CR, LF, EQ} \/ (st = "CRLF" /\ c = DOT) THEN <<>>
                      ELSE <<Plain(c)>>
          /\ r.state \in Escaping <=> c = EQ /\ st \notin Escaping
          /\ r.state = "CR" <=> c = CR /\ st # "CRLFDT"
      BY <1>6, ClassifiedSays
    <2>2. \A x \in Byte : <<x>> \in Seq(Byte) /\ Len(<<x>>) = 1
      OBVIOUS
    <2>3. Plain(c) \in Byte /\ Escaped(c) \in Byte
      BY DecodedBytes
    <2> HIDE DEF r
    <2>4. r.emit \in Seq(Byte) /\ Len(r.emit) \in {0, 1}
      BY <1>2, <2>1, <2>2, <2>3
    <2>5. Len(r.emit) = 1 /\ Slack(r.state) = 1 => Slack(st) = 1
      <3>1. CASE st \in Escaping
        BY <3>1 DEF Slack, Escaping
      <3>2. CASE st \notin Escaping /\ c \in {CR, LF, EQ}
        <4>1. r.emit = <<>>
          BY <2>1, <3>2
        <4> QED BY <1>2, <4>1
      <3>3. CASE st \notin Escaping /\ c \notin {CR, LF, EQ}
        <4>1. r.state \notin Escaping /\ r.state # "CR"
          BY <2>1, <3>3
        <4> QED BY <4>1 DEF Slack, Escaping
      <3> QED BY <3>1, <3>2, <3>3
    <2> QED BY <1>1, <1>3, <2>1, <2>4, <2>5 DEF Good
  <1> QED BY <1>4, <1>5, <1>6

\* A reading from the beginning of a body has its types, and has never produced more
\* than it has consumed.
LEMMA TraceBounds ==
  ASSUME NEW s \in Seq(Nat), NEW t, IsTrace(s, t), NEW n \in 0..Len(s)
  PROVE  /\ t[n].state \in States /\ t[n].out \in Seq(Byte) /\ Len(t[n].out) \in Nat
         /\ Len(t[n].out) + Slack(t[n].state) <= n
PROOF
  <1> DEFINE l == Len(s)
             Good(i) == /\ t[i].state \in States /\ t[i].out \in Seq(Byte)
                        /\ Len(t[i].out) \in Nat
                        /\ Len(t[i].out) + Slack(t[i].state) <= i
             I == {i \in 0..l : Good(i)}
  <1>1. l \in Nat
    OBVIOUS
  <1>2. 0 \in I
    <2>1. t[0].state = "CRLF" /\ t[0].out = <<>>
      BY DEF IsTrace, Start, At
    <2>2. "CRLF" \in States /\ <<>> \in Seq(Byte) /\ Len(<<>>) = 0 /\ Slack("CRLF") = 0
      BY DEF States, Slack
    <2>3. 0 \in 0..l
      BY <1>1
    <2>4. Good(0)
      <3> DEFINE x == t[0]
      <3>1. x.state = "CRLF" /\ x.out = <<>>
        BY <2>1
      <3> HIDE DEF x
      <3>2. /\ x.state \in States /\ x.out \in Seq(Byte) /\ Len(x.out) \in Nat
            /\ Len(x.out) + Slack(x.state) <= 0
        BY <2>2, <3>1
      <3> QED BY <3>2 DEF x
    <2> QED BY <2>3, <2>4
  <1>3. ASSUME NEW i \in 0..(l - 1), i \in I
        PROVE  i + 1 \in I
    <2> DEFINE u == t[i]
               v == t[i + 1]
               c == s[i + 1]
               r == Classified(u.state, c)
    <2>1. IsReading(s, t)
      BY TraceIsReading
    <2>2. /\ i \in Nat /\ i + 1 \in 0..l /\ c \in Nat /\ v = Transition(u, c)
      <3>1. i + 1 \in 0..l
        BY <1>1
      <3> QED BY <2>1, <3>1, ReadingSteps
    <2>3. /\ u.state \in States /\ u.out \in Seq(Byte) /\ Len(u.out) \in Nat
          /\ Len(u.out) + Slack(u.state) <= i
      BY <1>3
    <2> HIDE DEF u, v, c, l
    <2>4. /\ r.state \in States /\ r.emit \in Seq(Byte) /\ Len(r.emit) \in Nat
          /\ Len(r.emit) + Slack(r.state) <= Slack(u.state) + 1
      BY <2>2, <2>3, ClassifiedBounds
    <2>5. CASE u.end # "none"
      <3>1. v = u
        BY <2>2, <2>5 DEF Transition
      <3>2. Slack(u.state) \in {0, 1}
        BY DEF Slack
      <3>3. Len(u.out) + Slack(u.state) <= i + 1
        BY <2>2, <2>3, <3>2
      <3>4. Good(i + 1)
        BY <2>3, <3>1, <3>3 DEF u, v
      <3> QED BY <2>2, <3>4
    <2>6. CASE u.end = "none"
      <3>1. v = [state |-> r.state, out |-> u.out \o r.emit, end |-> r.end]
        BY <2>2, <2>6 DEF Transition
      <3>2. v.state = r.state /\ v.out = u.out \o r.emit
        BY <3>1
      <3> HIDE DEF r
      <3>3. v.out \in Seq(Byte) /\ Len(v.out) = Len(u.out) + Len(r.emit)
        BY <2>3, <2>4, <3>2, ConcatProperties
      <3>4. Slack(u.state) \in {0, 1} /\ Slack(r.state) \in {0, 1}
        BY DEF Slack
      <3>5. Len(v.out) \in Nat /\ Len(v.out) + Slack(v.state) <= i + 1
        <4> DEFINE a == Len(u.out)
                   b == Len(r.emit)
                   x == Slack(u.state)
                   y == Slack(r.state)
        <4>1. /\ a \in Nat /\ b \in Nat /\ x \in {0, 1} /\ y \in {0, 1}
              /\ a + x <= i /\ b + y <= x + 1
          BY <2>3, <2>4, <3>4
        <4>2. Len(v.out) = a + b /\ Slack(v.state) = y
          BY <3>2, <3>3
        <4> HIDE DEF a, b, x, y
        <4>3. a + b \in Nat /\ (a + b) + y <= i + 1
          BY <2>2, <4>1
        <4> QED BY <4>2, <4>3
      <3>6. Good(i + 1)
        BY <2>4, <3>2, <3>3, <3>5 DEF v
      <3> QED BY <2>2, <3>6
    <2> QED BY <2>5, <2>6
  <1>4. 0..l \subseteq I
    <2> HIDE DEF I, l
    <2> QED BY <1>1, <1>2, <1>3, UpTo
  <1> QED BY <1>4

\* The CRC is always a register.
LEMMA CrcType ==
  ASSUME NEW c, NEW p
  PROVE  crcUpdate(c, p) \subseteq Register
PROOF
  <1>1. \A x, y : Update(x, y) \subseteq Register
    BY Zenon DEF Update, Not
  <1> QED BY <1>1, Zenon DEF crcUpdate

\* What a call has produced, it has consumed: a line end that is left unread has
\* produced nothing.
LEMMA ReachedBounds ==
  ASSUME NEW cx, Context(cx), IsTrace(cx.text, cx.reads), NEW n \in 0..cx.upto,
         NEW st \in States, NEW o \in Seq(Byte), NEW e \in Ends, Reaches(cx, n, st, o, e)
  PROVE  Len(o) <= n
PROOF
  <1> DEFINE t == cx.reads
             l == Len(cx.text)
             x == Len(o)
  <1>1. /\ n \in Nat /\ l \in Nat /\ x \in Nat /\ cx.upto \in Nat /\ cx.upto <= l
        /\ cx.text \in Seq(Nat) /\ n <= cx.upto
    BY ContextFacts
  <1>2. \A i \in 0..l : Len(t[i].out) + Slack(t[i].state) <= i
    BY <1>1, TraceBounds
  <1>3. Slack(st) \in {0, 1}
    BY DEF Slack
  <1> SUFFICES x <= n
    OBVIOUS
  <1>4. CASE ReadTo(cx, n).out = o /\ ReadTo(cx, n).state = st
    <2>1. x + Slack(st) <= n
      BY <1>1, <1>2, <1>4 DEF ReadTo
    <2> HIDE DEF x
    <2> QED BY <1>1, <1>3, <2>1
  <1>5. CASE LineEndUnread(cx, n, o)
    <2>1. n + 1 \in 0..l /\ ReadTo(cx, n + 1) = At("CR", o)
      BY <1>1, <1>5 DEF LineEndUnread
    <2>2. t[n + 1].out = o /\ t[n + 1].state = "CR"
      BY <2>1 DEF ReadTo, At
    <2>3. Slack("CR") = 1
      BY DEF Slack
    <2>4. x + 1 <= n + 1
      BY <1>2, <2>1, <2>2, <2>3
    <2> HIDE DEF x
    <2> QED BY <1>1, <2>4
  <1> QED BY <1>4, <1>5 DEF Reaches, At

-----------------------------------------------------------------------------
(***************************************************************************)
(* The caller and the reference.  Its state is the context of the calls    *)
(* made: what they have returned agrees with the reference, wherever the   *)
(* body was cut.                                                           *)
(***************************************************************************)
Cx == [text |-> input, reads |-> Trace[input], from |-> consumed,
       upto |-> shown, before |-> decoded]

VInv ==
  /\ TypeOK
  /\ calls < MaxCalls \/ shown = Len(input)
  /\ Reaches(Cx, consumed, pState, decoded, end)

\* The caller's state, seen as the context of calls.
LEMMA CallerContext ==
  ASSUME TypeOK
  PROVE  /\ Context(Cx) /\ IsTrace(Cx.text, Cx.reads)
         /\ Cx.text = input /\ Cx.reads = Trace[input]
         /\ Cx.from = consumed /\ Cx.upto = shown /\ Cx.before = decoded
         /\ \A n : ReadTo(Cx, n) = Trace[input][n]
PROOF
  <1>1. input \in Inputs /\ input \in Seq(Byte) /\ decoded \in Seq(Byte)
    BY TraceAssumption DEF TypeOK
  <1>2. consumed \in 0..Len(input) /\ shown \in consumed..Len(input)
    BY <1>1 DEF TypeOK
  <1>3. IsTrace(input, Trace[input])
    BY <1>1, TraceAssumption
  <1>4. /\ Context(Cx) /\ Cx.text = input /\ Cx.reads = Trace[input]
        /\ Cx.from = consumed /\ Cx.upto = shown /\ Cx.before = decoded
    BY <1>1, <1>2, <1>3, TextContext DEF Cx
  <1> QED BY <1>3, <1>4 DEF ReadTo

\* Nothing has been read and nothing consumed.
LEMMA InitVInv == Init => VInv
PROOF
  <1> SUFFICES ASSUME Init PROVE VInv
    OBVIOUS
  <1>1. /\ kernel \in Kernels /\ input \in Inputs /\ consumed = 0 /\ shown = 0
        /\ pState = "CRLF" /\ decoded = <<>> /\ end = "none" /\ crc = {} /\ calls = 0
    BY DEF Init
  <1>2. MaxCalls \in Nat /\ 0 < MaxCalls
    BY VectorAssumption
  <1>3. TypeOK
    <2>1. "CRLF" \in States /\ "none" \in Ends
      BY DEF States, Ends
    <2>2. input \in Seq(Byte) /\ <<>> \in Seq(Byte) /\ Len(<<>>) = 0
      BY <1>1, TraceAssumption
    <2>3. Len(decoded) <= consumed
      BY <1>1, <2>2
    <2> QED BY <1>1, <1>2, <2>1, <2>2, <2>3 DEF TypeOK
  <1>4. Context(Cx) /\ Cx.upto = 0
    BY <1>1, <1>3, CallerContext
  <1>5. ReadTo(Cx, 0) = At("CRLF", <<>>)
    BY <1>3, CallerContext DEF IsTrace, ReadTo, Start, At
  <1>6. Open(Cx, 0)
    <2>1. ReadTo(Cx, 0).end = "none"
      BY <1>5 DEF At
    <2>2. \A j \in 0..0 : j = 0
      OBVIOUS
    <2> QED BY <2>1, <2>2 DEF Open
  <1>7. Reaches(Cx, consumed, pState, decoded, end)
    BY <1>1, <1>4, <1>5, <1>6 DEF Reaches
  <1> QED BY <1>1, <1>2, <1>3, <1>7 DEF VInv

\* A call (decodeSIMD in decoder_simd_amd64.go and decoder_simd_arm64.go).
LEMMA CallVInv ==
  ASSUME VInv, NEW n \in 1..(Len(input) - shown), NEW address \in Nat,
         DecodeYenc(n, address)
  PROVE  VInv'
PROOF
  <1> DEFINE src == SubSeq(input, consumed + 1, shown + n)
             r == DecodeVector(kernel, src, pState, address)
             cx == [text |-> input, reads |-> Trace[input], from |-> consumed,
                    upto |-> shown + n, before |-> decoded]
  <1>1. /\ TypeOK /\ Reaches(Cx, consumed, pState, decoded, end)
        /\ calls < MaxCalls \/ shown = Len(input)
    BY DEF VInv
  <1>2. /\ end = "none" /\ shown' = shown + n /\ calls' = calls + 1
        /\ calls = MaxCalls - 1 => shown + n = Len(input)
        /\ kernel' = kernel /\ input' = input
    BY DEF DecodeYenc
  <1>3. /\ consumed' = consumed + r.pos /\ pState' = r.state
        /\ decoded' = decoded \o r.out /\ end' = r.end
        /\ crc' = crcUpdate(crc, AsBits(r.out))
    BY Zenon DEF DecodeYenc
  <1>4. /\ input \in Inputs /\ input \in Seq(Byte) /\ Len(input) \in Nat
        /\ consumed \in Nat /\ shown \in Nat /\ consumed <= shown
        /\ n \in Nat /\ shown + n \in Nat /\ shown + n <= Len(input)
        /\ consumed < shown + n
        /\ pState \in States /\ decoded \in Seq(Byte) /\ calls \in 0..MaxCalls
        /\ kernel \in Kernels /\ kernel \in {"AVX2", "NEON"}
    BY <1>1, TraceAssumption, VectorAssumption DEF TypeOK
  <1>5. IsTrace(input, Trace[input])
    BY <1>4, TraceAssumption
  <1>6. /\ Context(cx) /\ cx.text = input /\ cx.reads = Trace[input]
        /\ cx.from = consumed /\ cx.upto = shown + n /\ cx.before = decoded
    <2>1. consumed \in 0..Len(input) /\ shown + n \in consumed..Len(input)
      BY <1>4
    <2> HIDE DEF cx
    <2> QED BY <1>4, <1>5, <2>1, TextContext DEF cx
  <1> HIDE DEF cx
  <1>7. Begins(cx, cx.from, pState, cx.before)
    <2>1. Cx.text = cx.text /\ Cx.reads = cx.reads
      BY <1>1, <1>6, CallerContext
    <2> QED BY <1>1, <1>2, <1>6, <2>1, ReachesBegins
  <1>8. Slice(cx) = src
    BY <1>6 DEF Slice
  <1>9. Returns(cx, consumed, decoded, r)
    <2>1. cx.from < cx.upto
      BY <1>4, <1>6
    <2> HIDE DEF src
    <2> QED BY <1>4, <1>6, <1>7, <1>8, <2>1, VectorAgrees
  <1> HIDE DEF r, src
  <1>10. /\ r.pos \in Nat /\ r.out \in Seq(Byte) /\ r.state \in States /\ r.end \in Ends
         /\ consumed' \in 0..cx.upto
         /\ Reaches(cx, consumed', pState', decoded', end')
    BY <1>3, <1>4, <1>6, <1>9 DEF Returns
  <1>11. decoded' \in Seq(Byte)
    BY <1>3, <1>4, <1>10, ConcatProperties
  <1>12. Len(decoded') <= consumed'
    BY <1>3, <1>5, <1>6, <1>10, <1>11, ReachedBounds
  <1>13. shown' \in 0..Len(input') /\ consumed' \in 0..shown'
    BY <1>2, <1>4, <1>6, <1>10
  <1>14. crc' \subseteq Register
    BY <1>3, CrcType
  <1>15. calls' \in 0..MaxCalls /\ (calls' < MaxCalls \/ shown' = Len(input'))
    BY <1>1, <1>2, <1>4, VectorAssumption
  <1>16. TypeOK'
    BY <1>2, <1>3, <1>4, <1>10, <1>11, <1>12, <1>13, <1>14, <1>15 DEF TypeOK
  <1>17. Reaches(Cx', consumed', pState', decoded', end')
    <2>1. Cx'.text = cx.text /\ Cx'.reads = cx.reads /\ Cx'.upto = cx.upto
      BY <1>2, <1>6 DEF Cx
    <2> QED BY <1>10, <2>1 DEF Reaches, Open, LineEndUnread, ReadTo
  <1> QED BY <1>15, <1>16, <1>17 DEF VInv

\* The addresses of a call count its characters.
LEMMA AddressesAreNumbers == \A n : Addresses(n) \subseteq Nat
PROOF BY SIMDAssumption DEF Addresses

\* Every step keeps the calls in agreement with the reference.
LEMMA NextVInv == VInv /\ [Next]_vars => VInv'
PROOF
  <1> SUFFICES ASSUME VInv, [Next]_vars PROVE VInv'
    OBVIOUS
  <1>1. CASE Next
    <2>1. PICK n \in 1..(Len(input) - shown) :
             \E address \in Addresses(n) : DecodeYenc(n, address)
      BY <1>1, Zenon DEF Next
    <2>2. PICK address \in Addresses(n) : DecodeYenc(n, address)
      BY <2>1
    <2>3. address \in Nat
      BY AddressesAreNumbers
    <2> QED BY <2>2, <2>3, CallVInv
  <1>2. CASE UNCHANGED vars
    <2>1. Cx' = Cx
      BY <1>2 DEF vars, Cx
    <2> QED BY <1>2, <2>1 DEF vars, VInv, TypeOK
  <1> QED BY <1>1, <1>2

\* The vector kernels and the reference agree whenever the program is.
THEOREM VectorAgreement == Spec => []VInv
PROOF BY InitVInv, NextVInv, PTL DEF Spec

\* The variables keep their types, and no call of decodeSIMD produces more than
\* it consumes.
THEOREM VectorTypes == Spec => []TypeOK
PROOF
  <1>1. VInv => TypeOK
    BY DEF VInv
  <1> QED BY <1>1, VectorAgreement, PTL

\* What a call of decodeSIMD that has not met the end leaves is nothing, or a
\* line end.
THEOREM VectorUnreadIsLineEnd == Spec => []UnreadIsLineEnd
PROOF
  <1>1. VInv => UnreadIsLineEnd
    <2> SUFFICES ASSUME VInv, end = "none", consumed # shown
                 PROVE  SubSeq(input, consumed + 1, shown) = NewLine /\ pState = "CRLF"
      BY DEF UnreadIsLineEnd
    <2>1. TypeOK /\ Reaches(Cx, consumed, pState, decoded, end)
      BY DEF VInv
    <2>2. /\ Context(Cx) /\ Cx.text = input /\ Cx.from = consumed /\ Cx.upto = shown
      BY <2>1, CallerContext
    <2>3. pState = "CRLF" /\ LineEndUnread(Cx, consumed, decoded)
      BY <2>1, <2>2 DEF Reaches
    <2>4. Slice(Cx) = <<CR, LF>>
      BY <2>2, <2>3, LineEndLeft
    <2> QED BY <2>2, <2>3, <2>4 DEF Slice, NewLine
  <1> QED BY <1>1, VectorAgreement, PTL

-----------------------------------------------------------------------------
(***************************************************************************)
(* The calls implement the abstract reader of module BodyReader.           *)
(***************************************************************************)

\* How much of the text a call has read, by what it returns, and that it has the
\* result of reading that much.
LEMMA ReadingReturned ==
  ASSUME NEW s \in Seq(Byte), NEW t, IsTrace(s, t), NEW u \in 0..Len(s), NEW n \in 0..u,
         NEW st \in States, NEW o \in Seq(Byte), NEW e \in Ends,
         Reaches([text |-> s, reads |-> t, from |-> n, upto |-> u, before |-> o],
                 n, st, o, e)
  PROVE  LET m == IF e = "none" THEN u ELSE n IN
         /\ m \in 0..u
         /\ t[m] = [state |-> st, out |-> o, end |-> e]
         /\ \A j \in 0..(m - 1) : t[j].end = "none"
PROOF
  <1> DEFINE cx == [text |-> s, reads |-> t, from |-> n, upto |-> u, before |-> o]
             m == IF e = "none" THEN u ELSE n
  <1>1. /\ n \in Nat /\ u \in Nat /\ n <= u /\ n \in 0..Len(s) /\ u \in n..Len(s)
    OBVIOUS
  <1>2. Context(cx) /\ cx.reads = t /\ cx.upto = u
    BY <1>1, TextContext
  <1>3. Reaches(cx, n, st, o, e)
    OBVIOUS
  <1> HIDE DEF cx
  <1>4. CASE e = "none"
    <2>1. ReadTo(cx, u) = At(st, o)
      BY <1>1, <1>2, <1>3, <1>4, ResultReads
    <2>2. Open(cx, u)
      BY <1>1, <1>2, <1>3, <1>4, ResultOpen
    <2>3. \A j \in 0..(u - 1) : j \in 0..u
      BY <1>1
    <2>4. t[u] = [state |-> st, out |-> o, end |-> e]
      BY <1>2, <1>4, <2>1 DEF ReadTo, At
    <2>5. \A j \in 0..(u - 1) : t[j].end = "none"
      BY <1>2, <2>2, <2>3 DEF Open, ReadTo
    <2> QED BY <1>1, <1>4, <2>4, <2>5
  <1>5. CASE e # "none"
    <2>1. /\ Open(cx, n - 1)
          /\ ReadTo(cx, n) = [state |-> st, out |-> o, end |-> e]
      BY <1>3, <1>5 DEF Reaches
    <2>2. t[n] = [state |-> st, out |-> o, end |-> e]
      BY <1>2, <2>1 DEF ReadTo
    <2>3. \A j \in 0..(n - 1) : t[j].end = "none"
      BY <1>2, <2>1 DEF Open, ReadTo
    <2> QED BY <1>1, <1>5, <2>2, <2>3
  <1> QED BY <1>4, <1>5

\* The reader begins when the caller does.
LEMMA InitReads == Init => Reader!BodyInit
PROOF
  <1> SUFFICES ASSUME Init PROVE Reader!BodyInit
    OBVIOUS
  <1>1. input \in Inputs /\ ReadSoFar = 0
    BY DEF Init, ReadSoFar
  <1>2. [state |-> pState, out |-> decoded, end |-> end] = Start
    BY DEF Init, Start, At
  <1> QED BY <1>1, <1>2 DEF Reader!BodyInit, Reader!Start, Reader!At, Start, At

\* A call reads as many characters as it goes beyond what was read before.
LEMMA CallReads ==
  ASSUME VInv, VInv', NEW n \in 1..(Len(input) - shown), NEW address,
         DecodeYenc(n, address)
  PROVE  Reader!BodyNext
PROOF
  <1> DEFINE t == Trace[input]
             a == ReadSoFar
             b == ReadSoFar'
             m == b - a
  <1>1. TypeOK /\ TypeOK'
    BY DEF VInv
  <1>2. /\ input' = input /\ input \in Inputs /\ input \in Seq(Byte)
        /\ Len(input) \in Nat /\ IsTrace(input, t)
    BY <1>1, TraceAssumption DEF DecodeYenc, TypeOK
  <1>3. /\ end = "none" /\ shown' = shown + n /\ shown \in Nat /\ n \in Nat /\ n >= 1
        /\ shown + n <= Len(input)
    BY <1>1, <1>2 DEF DecodeYenc, TypeOK
  <1>4. /\ a = shown
        /\ t[a] = [state |-> pState, out |-> decoded, end |-> "none"]
        /\ \A j \in 0..(a - 1) : t[j].end = "none"
    <2>1. /\ shown \in 0..Len(input) /\ consumed \in 0..shown /\ pState \in States
          /\ decoded \in Seq(Byte) /\ end \in Ends
      BY <1>1 DEF TypeOK
    <2>2. Reaches([text |-> input, reads |-> t, from |-> consumed, upto |-> shown,
                   before |-> decoded], consumed, pState, decoded, end)
      BY DEF VInv, Cx
    <2> HIDE DEF t
    <2> QED BY <1>2, <1>3, <2>1, <2>2, ReadingReturned DEF ReadSoFar
  <1>5. /\ b = (IF end' = "none" THEN shown + n ELSE consumed') /\ b \in 0..(shown + n)
        /\ t[b] = [state |-> pState', out |-> decoded', end |-> end']
        /\ \A j \in 0..(b - 1) : t[j].end = "none"
    <2>1. /\ shown + n \in 0..Len(input) /\ consumed' \in 0..(shown + n)
          /\ pState' \in States /\ decoded' \in Seq(Byte) /\ end' \in Ends
      BY <1>1, <1>2, <1>3 DEF TypeOK
    <2>2. Reaches([text |-> input, reads |-> t, from |-> consumed', upto |-> shown + n,
                   before |-> decoded'], consumed', pState', decoded', end')
      BY <1>2, <1>3 DEF VInv, Cx
    <2>3. b = (IF end' = "none" THEN shown + n ELSE consumed')
      BY <1>3 DEF ReadSoFar
    <2> HIDE DEF t, b
    <2> QED BY <1>2, <2>1, <2>2, <2>3, ReadingReturned
  <1> HIDE DEF t, a, b
  <1>6. b > a
    <2>1. CASE end' = "none"
      BY <1>3, <1>4, <1>5, <2>1
    <2>2. CASE end' # "none"
      <3>1. t[b].end # "none" /\ t[a].end = "none"
        BY <1>4, <1>5, <2>2
      <3>2. b \notin 0..(a - 1) /\ b # a /\ b \in Nat /\ a \in Nat
        BY <1>3, <1>4, <1>5, <3>1
      <3> QED BY <3>2
    <2> QED BY <2>1, <2>2
  <1>7. m \in 1..Len(input) /\ a + m = b /\ a + m <= Len(input)
    <2> DEFINE l == Len(input)
               h == shown
    <2>1. /\ l \in Nat /\ h \in Nat /\ n \in Nat /\ h + n <= l /\ a = h /\ b \in 0..(h + n)
          /\ b > a
      BY <1>2, <1>3, <1>4, <1>5, <1>6
    <2> SUFFICES m \in 1..l /\ a + m = b /\ a + m <= l
      OBVIOUS
    <2> HIDE DEF l, h
    <2>2. b \in Nat /\ b <= l /\ a \in Nat
      BY <2>1
    <2> QED BY <2>1, <2>2 DEF m
  <1>8. \A j \in a..(a + m - 1) : t[j].end = "none"
    BY <1>3, <1>4, <1>5, <1>7
  <1> HIDE DEF m
  <1>9. Reader!ReadMore(m)
    BY <1>2, <1>5, <1>7, <1>8 DEF Reader!ReadMore, t, a, b
  <1> QED BY <1>7, <1>9 DEF Reader!BodyNext

\* Spec => ImplementsReader: decodeSIMD, either kernel, however a body is cut and
\* its pieces aligned, reads it as the reference does, to its end and not behind.
THEOREM VectorImplementsReader == Spec => ImplementsReader
PROOF
  <1>1. VInv /\ VInv' /\ [Next]_vars => [Reader!BodyNext]_(Reader!bodyVars)
    <2> SUFFICES ASSUME VInv, VInv', [Next]_vars
                 PROVE  [Reader!BodyNext]_(Reader!bodyVars)
      OBVIOUS
    <2>1. CASE Next
      <3>1. PICK n \in 1..(Len(input) - shown) :
               \E address \in Addresses(n) : DecodeYenc(n, address)
        BY <2>1, Zenon DEF Next
      <3>2. PICK address \in Addresses(n) : DecodeYenc(n, address)
        BY <3>1
      <3> QED BY <3>2, CallReads
    <2>2. CASE UNCHANGED vars
      BY <2>2 DEF vars, ReadSoFar, Reader!bodyVars
    <2> QED BY <2>1, <2>2
  <1> QED
    BY <1>1, InitReads, VectorAgreement, PTL
       DEF Spec, ImplementsReader, Reader!BodySpec
=============================================================================
