----------------------------- MODULE Recursion -----------------------------
(***************************************************************************)
(* Repetition that ends.  A recursive function that repeats a step until   *)
(* it may stop is what its defining equation says, and its result has      *)
(* whatever the step preserves, when every step lowers a rank.             *)
(*                                                                         *)
(* The induction is by least counterexample: a set of bad arguments would  *)
(* have one of least rank, the next of which would be bad as well.         *)
(***************************************************************************)
EXTENDS Integers, WellFoundedInduction, TLAPS

\* A set that is not empty has an element of least rank.
LEMMA LeastRank ==
  ASSUME NEW S, NEW rank \in [S -> Nat], NEW T, T \subseteq S, T # {}
  PROVE  \E x \in T : \A y \in T : rank[x] <= rank[y]
PROOF
  <1> DEFINE U == {rank[x] : x \in T}
             R == OpToRel(<, Nat)
  <1>1. U \subseteq Nat /\ U # {}
    OBVIOUS
  <1>2. IsWellFoundedOn(R, Nat)
    BY NatLessThanWellFounded
  <1>3. \A n, m \in Nat : n < m => <<n, m>> \in R
    BY DEF OpToRel
  <1> HIDE DEF R, U
  <1>4. PICK u \in U : \A v \in U : ~ (<<v, u>> \in R)
    BY <1>1, <1>2, WFMin
  <1>5. ASSUME NEW v \in U
        PROVE  u <= v
    <2>1. ~ (v < u)
      BY <1>1, <1>3, <1>4
    <2> QED BY <1>1, <2>1
  <1> QED BY <1>5 DEF U

-----------------------------------------------------------------------------
\* f repeats next until stop.
Repeats(f, S, next, stop) ==
  f = [x \in S |-> IF x \in stop THEN x ELSE f[next[x]]]

\* Every step off stop lowers the rank.
Descends(S, next, stop, rank) ==
  /\ next \in [S -> S] /\ rank \in [S -> Nat]
  /\ \A x \in S : x \notin stop => rank[next[x]] < rank[x]

\* What is in I stays in it until stop.
Preserves(I, S, next, stop) ==
  /\ I \subseteq S
  /\ \A x \in I : x \notin stop => next[x] \in I

\* The equation has a solution: the least relation closed under its rules
\* relates every x to one result.
LEMMA RepeatExists ==
  ASSUME NEW S, NEW next, NEW stop, NEW rank, Descends(S, next, stop, rank)
  PROVE  \E f : Repeats(f, S, next, stop)
PROOF
  <1> USE DEF Descends
  <1> DEFINE Closed(Q) ==
               /\ \A x \in S : x \in stop => <<x, x>> \in Q
               /\ \A x \in S, y \in S :
                    x \notin stop /\ <<next[x], y>> \in Q => <<x, y>> \in Q
             R == {p \in S \X S : \A Q \in SUBSET (S \X S) : Closed(Q) => p \in Q}
             One(x) == \E y \in S : <<x, y>> \in R /\ \A z \in S : <<x,
             z>> \in R => z = y
             f == [x \in S |-> CHOOSE y \in S : <<x, y>> \in R]
  <1>1. Closed(R)
    OBVIOUS
  <1>2. \A Q \in SUBSET (S \X S) : Closed(Q) => R \subseteq Q
    OBVIOUS
  <1>3. R \subseteq S \X S
    OBVIOUS
  <1>4. ASSUME NEW x \in S, x \in stop
        PROVE  <<x, x>> \in R /\ \A z \in S : <<x, z>> \in R => z = x
    <2> HIDE DEF R
    <2>1. <<x, x>> \in R
      BY <1>1, <1>4
    <2>2. ASSUME NEW z \in S, <<x, z>> \in R, z # x
          PROVE  FALSE
      <3> DEFINE Q == R \ {<<x, z>>}
      <3>1. Closed(Q)
        BY <1>1, <1>4, <2>2
      <3> QED BY <1>2, <1>3, <2>2, <3>1
    <2> QED BY <2>1, <2>2
  <1>5. ASSUME NEW x \in S, x \notin stop, NEW y \in S, <<next[x], y>> \in R,
               \A z \in S : <<next[x], z>> \in R => z = y
        PROVE  <<x, y>> \in R /\ \A z \in S : <<x, z>> \in R => z = y
    <2> HIDE DEF R
    <2>1. <<x, y>> \in R
      BY <1>1, <1>5
    <2>2. ASSUME NEW z \in S, <<x, z>> \in R, z # y
          PROVE  FALSE
      <3> DEFINE Q == R \ {<<x, z>>}
      <3>1. Closed(Q)
        BY <1>1, <1>5, <2>2
      <3> QED BY <1>2, <1>3, <2>2, <3>1
    <2> QED BY <2>1, <2>2
  <1> HIDE DEF R
  <1>6. \A x \in S : One(x)
    <2> DEFINE Bad == {x \in S : ~One(x)}
    <2>1. ASSUME Bad # {}
          PROVE  FALSE
      <3> HIDE DEF One
      <3>1. PICK x \in Bad : \A y \in Bad : rank[x] <= rank[y]
        BY <2>1, LeastRank
      <3>2. CASE x \in stop
        BY <1>4, <3>2 DEF One
      <3>3. CASE x \notin stop
        <4>1. next[x] \in S /\ rank[next[x]] < rank[x]
          BY <3>3
        <4>2. One(next[x])
          <5>1. rank[next[x]] \in Nat /\ rank[x] \in Nat
            BY <4>1
          <5> QED BY <3>1, <4>1, <5>1
        <4>3. PICK y \in S : <<next[x], y>> \in R
                             /\ \A z \in S : <<next[x], z>> \in R => z = y
          BY <4>2 DEF One
        <4> QED BY <1>5, <3>3, <4>3 DEF One
      <3> QED BY <3>2, <3>3
    <2> QED BY <2>1
  <1>7. \A x, y \in S : <<x, y>> \in R => f[x] = y
    BY <1>6
  <1>8. ASSUME NEW x \in S
        PROVE  f[x] = IF x \in stop THEN x ELSE f[next[x]]
    <2> HIDE DEF f
    <2>1. CASE x \in stop
      BY <1>4, <1>7, <2>1
    <2>2. CASE x \notin stop
      <3>1. PICK y \in S : <<next[x], y>> \in R
        BY <1>6
      <3>2. <<x, y>> \in R
        BY <1>1, <2>2, <3>1
      <3> QED BY <1>7, <2>2, <3>1, <3>2
    <2> QED BY <2>1, <2>2
  <1>9. f \in [S -> S]
    BY <1>6
  <1> HIDE DEF f
  <1> QED BY <1>8, <1>9 DEF Repeats

\* What next preserves holds of the result, which is in stop.
LEMMA RepeatResult ==
  ASSUME NEW S, NEW next, NEW stop, NEW rank, Descends(S, next, stop, rank),
         NEW f, Repeats(f, S, next, stop), NEW I, Preserves(I, S, next, stop)
  PROVE  \A x \in I : f[x] \in I /\ f[x] \in stop
PROOF
  <1> USE DEF Descends, Preserves
  <1> DEFINE Bad == {x \in I : ~(f[x] \in I /\ f[x] \in stop)}
  <1>1. \A x \in S : f[x] = IF x \in stop THEN x ELSE f[next[x]]
    BY DEF Repeats
  <1>2. ASSUME Bad # {}
        PROVE  FALSE
    <2>1. PICK x \in Bad : \A y \in Bad : rank[x] <= rank[y]
      BY <1>2, LeastRank
    <2>2. x \in I /\ x \in S
      OBVIOUS
    <2>3. CASE x \in stop
      BY <1>1, <2>2, <2>3
    <2>4. CASE x \notin stop
      <3>1. next[x] \in I /\ rank[next[x]] < rank[x] /\ rank[next[x]] \in Nat
            /\ rank[x] \in Nat
        BY <2>2, <2>4
      <3>2. next[x] \notin Bad
        BY <2>1, <3>1
      <3> QED BY <1>1, <2>2, <2>4, <3>1, <3>2
    <2> QED BY <2>3, <2>4
  <1> QED BY <1>2

-----------------------------------------------------------------------------
(* Counting.                                                               *)

\* A set that has 0, and with every number below N the next one, has all up to N.
LEMMA UpTo ==
  ASSUME NEW N \in Nat, NEW I, 0 \in I, \A n \in 0..(N - 1) : n \in I => n + 1 \in I
  PROVE  0..N \subseteq I
PROOF
  <1> DEFINE S == 0..N
             Bad == {n \in S : n \notin I}
             rank == [n \in S |-> n]
  <1>1. rank \in [S -> Nat] /\ Bad \subseteq S
    OBVIOUS
  <1>2. ASSUME Bad # {}
        PROVE  FALSE
    <2>1. PICK n \in Bad : \A m \in Bad : rank[n] <= rank[m]
      <3> HIDE DEF S, Bad, rank
      <3> QED BY <1>1, <1>2, LeastRank
    <2>2. n \in 1..N /\ n - 1 \in S /\ ~(n <= n - 1)
      OBVIOUS
    <2>3. n - 1 \notin Bad
      BY <2>1, <2>2
    <2>4. n - 1 \in I /\ n - 1 \in 0..(N - 1) /\ (n - 1) + 1 = n
      BY <2>2, <2>3
    <2> QED BY <2>1, <2>4
  <1> QED BY <1>2

\* f counts up from base, each value being given by the one before.
CountsUp(f, N, base, step) ==
  f = [n \in 0..N |-> IF n = 0 THEN base ELSE step[<<n, f[n-1]>>]]

\* There is such a function, with values in the set the steps stay in.
LEMMA CountExists ==
  ASSUME NEW N \in Nat, NEW S, NEW base \in S, NEW step \in [(1..N) \X S -> S]
  PROVE  \E f : CountsUp(f, N, base, step)
PROOF
  <1> DEFINE Good(n, f) == /\ f \in [0..n -> S] /\ f[0] = base
                           /\ \A i \in 1..n : f[i] = step[<<i, f[i-1]>>]
             I == {n \in 0..N : \E f : Good(n, f)}
  <1>1. 0 \in I
    <2> DEFINE f == [i \in 0..0 |-> base]
    <2>1. Good(0, f)
      OBVIOUS
    <2>2. 0 \in 0..N
      OBVIOUS
    <2> HIDE DEF f, Good
    <2> QED BY <2>1, <2>2
  <1>2. ASSUME NEW n \in 0..(N - 1), n \in I
        PROVE  n + 1 \in I
    <2>1. PICK f : Good(n, f)
      BY <1>2
    <2>2. n + 1 \in 1..N /\ n \in Nat
      OBVIOUS
    <2>3. f[n] \in S
      BY <2>1, <2>2
    <2> DEFINE x == step[<<n + 1, f[n]>>]
    <2>4. x \in S
      BY <2>2, <2>3
    <2> HIDE DEF x
    <2> DEFINE g == [i \in 0..(n + 1) |-> IF i = n + 1 THEN x ELSE f[i]]
    <2>5. \A i \in 0..(n + 1) : i # n + 1 => i \in 0..n
      BY <2>2
    <2>6. g \in [0..(n + 1) -> S]
      BY <2>1, <2>4, <2>5
    <2>7. g[0] = base
      BY <2>1, <2>2
    <2>8. \A i \in 1..(n + 1) : g[i] = step[<<i, g[i-1]>>]
      <3> SUFFICES ASSUME NEW i \in 1..(n + 1)
                   PROVE  g[i] = step[<<i, g[i-1]>>]
        OBVIOUS
      <3>1. i \in 0..(n + 1) /\ i - 1 \in 0..(n + 1) /\ i - 1 # n + 1
        BY <2>2
      <3>2. g[i-1] = f[i-1]
        BY <3>1
      <3>3. CASE i = n + 1
        <4>1. i - 1 = n
          BY <2>2, <3>3
        <4>2. g[i] = x
          BY <3>1, <3>3
        <4> QED BY <3>2, <3>3, <4>1, <4>2 DEF x
      <3>4. CASE i # n + 1
        <4>1. i \in 1..n
          BY <2>2, <3>4
        <4>2. g[i] = f[i]
          BY <3>1, <3>4
        <4> QED BY <2>1, <3>2, <4>1, <4>2
      <3> QED BY <3>3, <3>4
    <2>9. Good(n + 1, g)
      BY <2>6, <2>7, <2>8
    <2> HIDE DEF g, Good
    <2> QED BY <2>2, <2>9
  <1>3. N \in I
    <2> HIDE DEF I
    <2>1. 0..N \subseteq I
      BY <1>1, <1>2, UpTo
    <2> QED BY <2>1
  <1>4. PICK f : Good(N, f)
    BY <1>3
  <1>5. f = [n \in 0..N |-> f[n]]
    BY <1>4
  <1>6. \A n \in 0..N : f[n] = IF n = 0 THEN base ELSE step[<<n, f[n-1]>>]
    BY <1>4
  <1>7. f = [n \in 0..N |-> IF n = 0 THEN base ELSE step[<<n, f[n-1]>>]]
    BY <1>5, <1>6
  <1> QED BY <1>7 DEF CountsUp

\* Every such function has its values there.
LEMMA CountType ==
  ASSUME NEW N \in Nat, NEW S, NEW base \in S, NEW step \in [(1..N) \X S -> S],
         NEW f, CountsUp(f, N, base, step)
  PROVE  /\ f \in [0..N -> S] /\ f[0] = base
         /\ \A n \in 1..N : f[n] = step[<<n, f[n-1]>>]
PROOF
  <1> DEFINE I == {n \in 0..N : f[n] \in S}
  <1>1. \A n \in 0..N : f[n] = IF n = 0 THEN base ELSE step[<<n, f[n-1]>>]
    BY DEF CountsUp
  <1>2. 0 \in I /\ f[0] = base
    <2>1. 0 \in 0..N
      OBVIOUS
    <2>2. f[0] = base
      BY <1>1, <2>1
    <2> QED BY <2>1, <2>2
  <1>3. ASSUME NEW n \in 0..(N - 1), n \in I
        PROVE  n + 1 \in I
    <2>1. n + 1 \in 0..N /\ n + 1 \in 1..N /\ n + 1 # 0 /\ (n + 1) - 1 = n
      OBVIOUS
    <2>2. f[n + 1] = step[<<n + 1, f[n]>>]
      BY <1>1, <2>1
    <2> QED BY <1>3, <2>1, <2>2
  <1>4. 0..N \subseteq I
    <2> HIDE DEF I
    <2> QED BY <1>2, <1>3, UpTo
  <1>5. f = [n \in 0..N |-> f[n]]
    BY DEF CountsUp
  <1>6. f \in [0..N -> S]
    BY <1>4, <1>5
  <1>7. \A n \in 1..N : n \in 0..N /\ n # 0
    OBVIOUS
  <1>8. \A n \in 1..N : f[n] = step[<<n, f[n-1]>>]
    BY <1>1, <1>7
  <1> QED BY <1>2, <1>6, <1>8
=============================================================================
