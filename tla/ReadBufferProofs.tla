-------------------------- MODULE ReadBufferProofs --------------------------
(***************************************************************************)
(* Proofs about module ReadBuffer, for every buffer size, limit and stream.*)
(***************************************************************************)
EXTENDS ReadBuffer, TLAPS

\* An empty window is always reset to the front of the buffer.
Tidy(b) == b.start = b.end => b.start = 0

(***************************************************************************)
(* The inductive invariant.  Besides the properties of ReadBuffer it says  *)
(* that an exhausted window is at the front (or ensureWriteSpace could not *)
(* reclaim it: compact leaves an empty window alone), that the buffer is   *)
(* allocated during a call, and that an outcome is only there between calls*)
(***************************************************************************)
IInv ==
  /\ RBTypeOK
  /\ WindowIsStream
  /\ Tidy(rb)
  /\ pc # "idle" => rb.len > 0 /\ outcome = "none"
  /\ ReaderHasRoom
  /\ GivesUpOnlyWhenFull

-----------------------------------------------------------------------------
(* The operations on a buffer.                                             *)

\* make([]byte, n) gives an empty buffer of that length.
LEMMA FreshBuffer ==
  ASSUME NEW n \in Nat
  PROVE  IsBuffer(Fresh(n)) /\ Tidy(Fresh(n)) /\ Pending(Fresh(n)) = 0
         /\ Fresh(n).len = n
PROOF BY SizesAssumption DEF IsBuffer, Fresh, Tidy, Pending

\* advance drops the first n bytes of the window and keeps the rest in place.
LEMMA AdvanceBuffer ==
  ASSUME NEW b, IsBuffer(b), Tidy(b), NEW d \in Nat, HoldsFrom(b, d),
         NEW n \in 0..Pending(b)
  PROVE  /\ IsBuffer(Advance(b, n)) /\ Tidy(Advance(b, n))
         /\ Advance(b, n).len = b.len
         /\ Pending(Advance(b, n)) = Pending(b) - n
         /\ HoldsFrom(Advance(b, n), d + n)
PROOF
  <1>1. CASE n = 0
    <2>1. Advance(b, n) = b /\ d + n = d /\ Pending(b) - n = Pending(b)
      BY <1>1 DEF Advance, IsBuffer, Pending
    <2> QED BY <2>1
  <1>2. CASE n > 0 /\ b.start + n >= b.end
    <2> DEFINE c == Reset(b)
    <2>1. Advance(b, n) = c
      BY <1>2 DEF Advance, IsBuffer, Pending
    <2>2. IsBuffer(c) /\ Tidy(c) /\ c.len = b.len /\ Pending(c) = 0
      BY DEF IsBuffer, Tidy, Pending, Reset
    <2>3. Pending(b) - n = 0
      BY <1>2 DEF IsBuffer, Pending
    <2>4. HoldsFrom(c, d + n)
      BY <2>2 DEF HoldsFrom
    <2> HIDE DEF c
    <2> QED BY <2>1, <2>2, <2>3, <2>4
  <1>3. CASE n > 0 /\ b.start + n < b.end
    <2> DEFINE c == [b EXCEPT !.start = @ + n]
    <2>1. Advance(b, n) = c
      BY <1>3 DEF Advance, IsBuffer, Pending
    <2>2. c = [buf |-> b.buf, len |-> b.len, start |-> b.start + n,
               end |-> b.end]
      BY DEF IsBuffer
    <2>3. IsBuffer(c) /\ Tidy(c) /\ c.len = b.len
          /\ Pending(c) = Pending(b) - n
      BY <1>3, <2>2 DEF IsBuffer, Tidy, Pending
    <2>4. HoldsFrom(c, d + n)
      <3>1. SUFFICES ASSUME NEW i \in 0..Pending(c)-1
                     PROVE  c.buf[c.start + i] = (d + n) + i + 1
        BY DEF HoldsFrom
      <3>2. n + i \in 0..Pending(b)-1
        BY SMTT(30), <2>3, <3>1 DEF IsBuffer, Pending
      <3>3. c.buf[c.start + i] = b.buf[b.start + (n + i)]
        BY <2>2, <3>1, <2>3 DEF IsBuffer
      <3> QED BY <3>2, <3>3 DEF HoldsFrom
    <2> QED BY <2>1, <2>3, <2>4
  <1> QED BY <1>1, <1>2, <1>3 DEF IsBuffer, Pending

\* compact moves the window and changes nothing of what it holds.
LEMMA CompactBuffer ==
  ASSUME NEW b, IsBuffer(b), Tidy(b), NEW d \in Nat, HoldsFrom(b, d)
  PROVE  /\ IsBuffer(Compact(b)) /\ Tidy(Compact(b))
         /\ Compact(b).len = b.len
         /\ Compact(b).start = 0
         /\ Pending(Compact(b)) = Pending(b)
         /\ HoldsFrom(Compact(b), d)
PROOF
  <1>1. CASE b.start = 0 \/ b.start = b.end
    BY <1>1 DEF Compact, Tidy
  <1>2. CASE ~(b.start = 0 \/ b.start = b.end)
    <2> DEFINE f == [i \in 0..b.len-1 |->
                       IF i < Pending(b) THEN b.buf[b.start + i] ELSE b.buf[i]]
    <2>1. Compact(b) = [buf |-> f, len |-> b.len, start |-> 0,
                        end |-> Pending(b)]
      BY <1>2 DEF Compact, IsBuffer
    <2>2. Pending(b) \in Nat /\ Pending(b) > 0 /\ Pending(b) <= b.len
      BY <1>2 DEF IsBuffer, Pending
    <2>3. f \in [0..b.len-1 -> Nat]
      <3>1. SUFFICES ASSUME NEW i \in 0..b.len-1
                     PROVE  (IF i < Pending(b) THEN b.buf[b.start + i]
                                               ELSE b.buf[i]) \in Nat
        OBVIOUS
      <3>2. i < Pending(b) => b.start + i \in 0..b.len-1
        BY <3>1 DEF IsBuffer, Pending
      <3> QED BY <3>1, <3>2 DEF IsBuffer
    <2>4. HoldsFrom(Compact(b), d)
      <3>1. SUFFICES ASSUME NEW i \in 0..Pending(b)-1
                     PROVE  f[i] = d + i + 1
        BY <2>1, <2>2 DEF HoldsFrom, Pending
      <3>2. i \in 0..b.len-1 /\ i < Pending(b)
        BY <2>2, <3>1 DEF IsBuffer
      <3>3. f[i] = b.buf[b.start + i]
        BY <3>2
      <3> QED BY <3>3 DEF HoldsFrom
    <2>5. IsBuffer(Compact(b)) /\ Pending(Compact(b)) = Pending(b)
      BY <2>1, <2>2, <2>3 DEF IsBuffer, Pending
    <2> HIDE DEF f
    <2>6. Tidy(Compact(b)) /\ Compact(b).len = b.len /\ Compact(b).start = 0
      BY <2>1, <2>2 DEF Tidy
    <2> QED BY <2>4, <2>5, <2>6
  <1> QED BY <1>1, <1>2

\* Growing copies the window to the front of a larger buffer.
LEMMA GrowBuffer ==
  ASSUME NEW b, IsBuffer(b), NEW d \in Nat, HoldsFrom(b, d),
         b.len > 0, GrownLen(b) > b.len
  PROVE  /\ IsBuffer(Grow(b)) /\ Tidy(Grow(b)) /\ HasRoom(Grow(b))
         /\ Grow(b).len = GrownLen(b)
         /\ Pending(Grow(b)) = Pending(b)
         /\ HoldsFrom(Grow(b), d)
PROOF
  <1> DEFINE f == [i \in 0..GrownLen(b)-1 |->
                     IF i < Pending(b) THEN b.buf[b.start + i] ELSE 0]
  <1>1. Grow(b) = [buf |-> f, len |-> GrownLen(b), start |-> 0,
                   end |-> Pending(b)]
    BY DEF Grow
  <1>2. GrownLen(b) \in Nat /\ Pending(b) \in Nat /\ Pending(b) <= b.len
    BY SizesAssumption DEF GrownLen, IsBuffer, Pending
  <1>3. f \in [0..GrownLen(b)-1 -> Nat]
    <2>1. \A i \in 0..GrownLen(b)-1 : i < Pending(b) => b.start + i \in 0..b.len-1
      BY <1>2 DEF IsBuffer, Pending
    <2> QED BY <2>1 DEF IsBuffer
  <1>4. HoldsFrom(Grow(b), d)
    <2>1. SUFFICES ASSUME NEW i \in 0..Pending(b)-1
                   PROVE  f[i] = d + i + 1
      BY <1>1, <1>2 DEF HoldsFrom, Pending
    <2>2. i \in 0..GrownLen(b)-1 /\ i < Pending(b)
      BY <1>2, <2>1 DEF IsBuffer
    <2>3. f[i] = b.buf[b.start + i]
      BY <2>2
    <2> QED BY <2>3 DEF HoldsFrom
  <1>5. IsBuffer(Grow(b)) /\ Pending(Grow(b)) = Pending(b) /\ HasRoom(Grow(b))
    BY <1>1, <1>2, <1>3 DEF IsBuffer, Pending, HasRoom
  <1> HIDE DEF f
  <1> QED BY <1>1, <1>2, <1>4, <1>5 DEF Tidy

\* What ensureWriteSpace leaves: the same window, in a buffer with room for at
\* least one byte, or untouched but for its place when it gives up.
LEMMA EnsureWriteSpaceBuffer ==
  ASSUME NEW b, IsBuffer(b), Tidy(b), b.len > 0,
         NEW d \in Nat, HoldsFrom(b, d)
  PROVE  /\ IsBuffer(Reclaimed(b)) /\ Tidy(Reclaimed(b))
         /\ HoldsFrom(Reclaimed(b), d)
         /\ Pending(Reclaimed(b)) = Pending(b)
         /\ Reclaimed(b).len = b.len
         /\ ~HasRoom(Reclaimed(b)) => Pending(b) = b.len
         /\ TooBig(b) => b.len >= MaxReadBufSize
         /\ ~TooBig(b) =>
              /\ IsBuffer(WithSpace(b)) /\ Tidy(WithSpace(b))
              /\ HoldsFrom(WithSpace(b), d)
              /\ Pending(WithSpace(b)) = Pending(b)
              /\ HasRoom(WithSpace(b))
              /\ WithSpace(b).len \in Nat /\ WithSpace(b).len >= b.len
              /\ WithSpace(b).len # b.len =>
                   /\ Pending(b) = b.len
                   /\ WithSpace(b).len <= 2 * b.len
                   /\ WithSpace(b).len <= MaxReadBufSize
PROOF
  <1> DEFINE r == Reclaimed(b)
  <1>1. /\ IsBuffer(r) /\ Tidy(r) /\ HoldsFrom(r, d)
        /\ Pending(r) = Pending(b) /\ r.len = b.len
    BY CompactBuffer DEF Reclaimed
  <1>2. ~HasRoom(r) => Pending(b) = b.len
    <2>1. CASE ~HasRoom(b) /\ b.start > 0
      <3>1. r.start = 0
        BY <2>1, CompactBuffer DEF Reclaimed
      <3> QED BY <1>1, <3>1 DEF HasRoom, IsBuffer, Pending
    <2>2. CASE ~(~HasRoom(b) /\ b.start > 0)
      BY <2>2 DEF Reclaimed, HasRoom, IsBuffer, Pending
    <2> QED BY <2>1, <2>2
  <1>3. TooBig(b) => b.len >= MaxReadBufSize
    BY <1>1, SizesAssumption DEF TooBig, GrownLen, IsBuffer
  <1>4. ASSUME ~TooBig(b), ~HasRoom(r)
        PROVE  /\ IsBuffer(Grow(r)) /\ Tidy(Grow(r)) /\ HoldsFrom(Grow(r), d)
               /\ Pending(Grow(r)) = Pending(b) /\ HasRoom(Grow(r))
               /\ Grow(r).len \in Nat /\ Grow(r).len > b.len
               /\ Grow(r).len <= 2 * b.len /\ Grow(r).len <= MaxReadBufSize
    <2>1. GrownLen(r) \in Nat
      BY <1>1, SizesAssumption DEF GrownLen, IsBuffer
    <2>2. GrownLen(r) > r.len
      BY <1>1, <1>4, <2>1 DEF TooBig, IsBuffer
    <2>3. GrownLen(r) <= 2 * b.len /\ GrownLen(r) <= MaxReadBufSize
      BY <1>1, SizesAssumption DEF GrownLen, IsBuffer
    <2>4. /\ IsBuffer(Grow(r)) /\ Tidy(Grow(r)) /\ HasRoom(Grow(r))
          /\ Grow(r).len = GrownLen(r) /\ Pending(Grow(r)) = Pending(r)
          /\ HoldsFrom(Grow(r), d)
      <3> HIDE DEF r
      <3> QED BY <1>1, <2>2, GrowBuffer
    <2> QED BY <1>1, <2>1, <2>2, <2>3, <2>4
  <1>5. WithSpace(b) = IF HasRoom(r) THEN r ELSE Grow(r)
    BY DEF WithSpace
  <1>6. b.len \in Nat
    BY DEF IsBuffer
  <1> HIDE DEF r
  <1>7. ~TooBig(b) =>
              /\ IsBuffer(WithSpace(b)) /\ Tidy(WithSpace(b))
              /\ HoldsFrom(WithSpace(b), d)
              /\ Pending(WithSpace(b)) = Pending(b)
              /\ HasRoom(WithSpace(b))
              /\ WithSpace(b).len \in Nat /\ WithSpace(b).len >= b.len
              /\ WithSpace(b).len # b.len =>
                   /\ Pending(b) = b.len
                   /\ WithSpace(b).len <= 2 * b.len
                   /\ WithSpace(b).len <= MaxReadBufSize
    BY <1>1, <1>2, <1>4, <1>5, <1>6
  <1> QED BY <1>1, <1>2, <1>3, <1>7 DEF r

\* What the reader delivers extends the window by the next bytes of the stream.
LEMMA StoreBuffer ==
  ASSUME NEW b, IsBuffer(b), Tidy(b), NEW d \in Nat, HoldsFrom(b, d),
         NEW n \in Nat, n <= b.len - b.end
  PROVE  LET c == Store(b, n, d + Pending(b)) IN
         /\ IsBuffer(c) /\ Tidy(c) /\ c.len = b.len
         /\ Pending(c) = Pending(b) + n
         /\ HoldsFrom(c, d)
PROOF
  <1> DEFINE from == d + Pending(b)
             f == [i \in 0..b.len-1 |-> IF i \in b.end..(b.end + n - 1)
                                          THEN from + (i - b.end) + 1
                                          ELSE b.buf[i]]
             c == [buf |-> f, len |-> b.len, start |-> b.start,
                   end |-> b.end + n]
  <1>1. Store(b, n, d + Pending(b)) = c
    <2>1. Store(b, n, d + Pending(b)) = [b EXCEPT !.buf = f, !.end = @ + n]
      BY DEF Store
    <2> HIDE DEF f
    <2> QED BY <2>1 DEF IsBuffer
  <1>2. Pending(b) \in Nat /\ from \in Nat
    BY DEF Pending, IsBuffer
  <1>3. f \in [0..b.len-1 -> Nat]
    <2>1. SUFFICES ASSUME NEW i \in 0..b.len-1
                   PROVE  (IF i \in b.end..(b.end + n - 1)
                             THEN from + (i - b.end) + 1 ELSE b.buf[i]) \in Nat
      OBVIOUS
    <2> HIDE DEF from
    <2>2. i \in b.end..(b.end + n - 1) => from + (i - b.end) + 1 \in Nat
      BY SMTT(30), <1>2, <2>1 DEF IsBuffer
    <2>3. b.buf[i] \in Nat
      BY <2>1 DEF IsBuffer
    <2> QED BY <2>2, <2>3
  <1>4. IsBuffer(c) /\ Pending(c) = Pending(b) + n
    BY <1>3 DEF IsBuffer, Pending
  <1>5. HoldsFrom(c, d)
    <2>1. SUFFICES ASSUME NEW i \in 0..(Pending(b) + n)-1
                   PROVE  f[b.start + i] = d + i + 1
      BY <1>4 DEF HoldsFrom
    <2>2. b.start + i \in 0..b.len-1
      BY <2>1 DEF IsBuffer, Pending
    <2>3. CASE i < Pending(b)
      <3>1. b.start + i \notin b.end..(b.end + n - 1)
        BY <2>1, <2>3 DEF IsBuffer, Pending
      <3>2. f[b.start + i] = b.buf[b.start + i]
        BY <2>2, <3>1
      <3>3. i \in 0..Pending(b)-1
        BY <1>2, <2>1, <2>3
      <3> HIDE DEF f
      <3> QED BY <3>2, <3>3 DEF HoldsFrom
    <2>4. CASE i >= Pending(b)
      <3>1. b.start + i \in b.end..(b.end + n - 1)
        BY <2>1, <2>4 DEF IsBuffer, Pending
      <3>2. f[b.start + i] = from + ((b.start + i) - b.end) + 1
        BY <2>2, <3>1
      <3> HIDE DEF f
      <3> QED BY <2>1, <3>2 DEF IsBuffer, Pending
    <2>5. i \in Int /\ Pending(b) \in Int
      BY <1>2, <2>1
    <2> HIDE DEF f
    <2> QED BY <2>3, <2>4, <2>5
  <1>6. Tidy(c)
    BY DEF Tidy, IsBuffer
  <1> QED BY <1>1, <1>4, <1>5, <1>6

-----------------------------------------------------------------------------
(* The invariant                                                           *)

\* The invariant holds before anything has been read.
LEMMA InitIInv == RBInit => IInv
PROOF
  <1> SUFFICES ASSUME RBInit PROVE IInv
    OBVIOUS
  <1>1. IsBuffer(rb) /\ Tidy(rb) /\ Pending(rb) = 0 /\ rb.len = OptionSize
    BY FreshBuffer, SizesAssumption DEF RBInit
  <1>2. HoldsFrom(rb, 0)
    BY <1>1 DEF HoldsFrom
  <1> QED
    BY <1>1, <1>2 DEF RBInit, IInv, RBTypeOK, WindowIsStream, ReaderHasRoom,
       GivesUpOnlyWhenFull, Locs, ReadLocs, Outcomes

\* Each step of feedUntilDone preserves the invariant.
LEMMA NextIInv == IInv /\ [RBNext]_rbVars => IInv'
PROOF
  <1> SUFFICES ASSUME IInv, [RBNext]_rbVars PROVE IInv'
    OBVIOUS
  <1> USE DEF Locs, ReadLocs, Outcomes
  <1>a. /\ IsBuffer(rb) /\ Tidy(rb) /\ HoldsFrom(rb, delivered)
        /\ received \in Nat /\ delivered \in Nat
        /\ received = delivered + Pending(rb)
        /\ Pending(rb) \in Nat /\ Pending(rb) <= rb.len
        /\ rb.len \in Nat
    BY DEF IInv, RBTypeOK, WindowIsStream, IsBuffer, Pending
  <1>1. CASE Call
    <2>1. CASE rb.len = 0
      <3>1. rb' = Fresh(DefaultReadBufSize) /\ DefaultReadBufSize \in Nat
        BY <1>1, <2>1, SizesAssumption DEF Call, InitBuffer
      <3>2. /\ IsBuffer(rb)' /\ Tidy(rb)' /\ Pending(rb)' = 0
            /\ rb'.len = DefaultReadBufSize
        BY <3>1, FreshBuffer
      <3>3. Pending(rb) = 0
        BY <1>a, <2>1
      <3>4. HoldsFrom(rb, delivered)'
        BY <3>2 DEF HoldsFrom
      <3> QED
        BY <1>1, <1>a, <3>2, <3>3, <3>4, SizesAssumption
        DEF Call, IInv, RBTypeOK, WindowIsStream, ReaderHasRoom,
            GivesUpOnlyWhenFull
    <2>2. CASE rb.len # 0
      <3>1. rb' = rb
        BY <1>1, <2>2 DEF Call, InitBuffer
      <3> QED
        BY <1>1, <1>a, <2>2, <3>1
        DEF Call, IInv, RBTypeOK, WindowIsStream, ReaderHasRoom,
            GivesUpOnlyWhenFull
    <2> QED BY <2>1, <2>2
  <1>2. CASE LoopHead
    <2>1. CASE rb.start = rb.end
      <3>1. rb' = Reset(rb) /\ Pending(rb) = 0
        BY <1>2, <1>a, <2>1 DEF LoopHead, IsBuffer, Pending
      <3>2. /\ IsBuffer(rb)' /\ Tidy(rb)' /\ Pending(rb)' = 0
            /\ rb'.len = rb.len
        BY <3>1, <1>a DEF Reset, IsBuffer, Tidy, Pending
      <3>3. HoldsFrom(rb, delivered)'
        BY <3>2 DEF HoldsFrom
      <3> QED
        BY <1>2, <1>a, <2>1, <3>1, <3>2, <3>3
        DEF LoopHead, IInv, RBTypeOK, WindowIsStream, ReaderHasRoom,
            GivesUpOnlyWhenFull
    <2>2. CASE rb.start # rb.end
      BY <1>2, <1>a, <2>2
      DEF LoopHead, IInv, RBTypeOK, WindowIsStream, ReaderHasRoom,
          GivesUpOnlyWhenFull
    <2> QED BY <2>1, <2>2
  <1>3. ASSUME NEW at \in {"fill", "more"}, NEW then \in ReadLocs,
               EnsureWriteSpace(at, then)
        PROVE  IInv'
    <2>1. pc = at /\ rb.len > 0 /\ outcome = "none"
      BY <1>3 DEF EnsureWriteSpace, IInv
    <2>2. CASE TooBig(rb)
      <3>1. rb' = Reclaimed(rb) /\ pc' = "idle" /\ outcome' = "tooBig"
            /\ received' = received /\ delivered' = delivered
        BY <1>3, <2>2 DEF EnsureWriteSpace, Return
      <3>2. /\ IsBuffer(rb)' /\ Tidy(rb)' /\ HoldsFrom(rb, delivered)'
            /\ Pending(rb)' = Pending(rb) /\ rb'.len = rb.len
            /\ Pending(rb) = rb.len /\ rb.len >= MaxReadBufSize
        BY <1>a, <2>1, <2>2, <3>1, EnsureWriteSpaceBuffer DEF TooBig
      <3> QED
        BY <1>a, <3>1, <3>2
        DEF IInv, RBTypeOK, WindowIsStream, ReaderHasRoom, GivesUpOnlyWhenFull
    <2>3. CASE ~TooBig(rb)
      <3>1. rb' = WithSpace(rb) /\ pc' = then /\ outcome' = outcome
            /\ received' = received /\ delivered' = delivered
        BY <1>3, <2>3 DEF EnsureWriteSpace
      <3>2. /\ IsBuffer(rb)' /\ Tidy(rb)' /\ HoldsFrom(rb, delivered)'
            /\ Pending(rb)' = Pending(rb) /\ HasRoom(rb)'
            /\ rb'.len \in Nat /\ rb'.len >= rb.len
        BY <1>a, <2>1, <2>3, <3>1, EnsureWriteSpaceBuffer
      <3> QED
        BY <1>a, <1>3, <2>1, <3>1, <3>2
        DEF IInv, RBTypeOK, WindowIsStream, ReaderHasRoom, GivesUpOnlyWhenFull
    <2> QED BY <2>2, <2>3
  <1>4. ASSUME NEW at \in ReadLocs, NEW then \in {"feed", "loop"},
               NEW n \in 0..StreamLen,
               NEW err \in {"none", "EOF", "readError"},
               Read(at, then, n, err)
        PROVE  IInv'
    <2>0. pc = at /\ pc # "idle"
      BY <1>4 DEF Read
    <2>1. /\ rb.len > 0 /\ outcome = "none"
          /\ n \in Nat /\ n <= rb.len - rb.end
          /\ rb' = Store(rb, n, delivered + Pending(rb))
          /\ received' = received + n /\ delivered' = delivered
      BY <1>a, <1>4, <2>0, SizesAssumption DEF Read, IInv
    <2>3. \/ pc' = then /\ outcome' = outcome
          \/ pc' = "idle" /\ outcome' = err
      BY <1>4 DEF Read, Return
    <2>2. /\ IsBuffer(rb)' /\ Tidy(rb)' /\ rb'.len = rb.len
          /\ Pending(rb)' = Pending(rb) + n
          /\ HoldsFrom(rb, delivered)'
      BY <1>a, <2>1, StoreBuffer
    <2> QED
      BY <1>a, <1>4, <2>0, <2>1, <2>2, <2>3
      DEF IInv, RBTypeOK, WindowIsStream, ReaderHasRoom, GivesUpOnlyWhenFull
  <1>5. ASSUME NEW n \in 0..Pending(rb),
               NEW result \in {"none", "done", "parseError"}, Fed(n, result)
        PROVE  IInv'
    <2> DEFINE b == Advance(rb, n)
    <2>1. /\ IsBuffer(b) /\ Tidy(b) /\ b.len = rb.len
          /\ Pending(b) = Pending(rb) - n /\ HoldsFrom(b, delivered + n)
      BY <1>a, AdvanceBuffer
    <2>0. pc = "feed" /\ rb.len > 0 /\ outcome = "none"
      BY <1>5 DEF Fed, IInv
    <2>2. /\ received' = received /\ delivered' = delivered + n
          /\ rb' \in {b, Compact(b)}
          /\ \/ pc' = "idle" /\ outcome' = result
             \/ pc' \in {"loop", "more"} /\ outcome' = outcome
      BY <1>5 DEF Fed, Return, IInv
    <2> HIDE DEF b
    <2>3. delivered + n \in Nat
      BY <1>a, <1>5
    <2>4. /\ IsBuffer(rb)' /\ Tidy(rb)' /\ rb'.len = rb.len
          /\ Pending(rb)' = Pending(rb) - n /\ HoldsFrom(rb, delivered)'
      BY <2>1, <2>2, <2>3, CompactBuffer
    <2> QED
      BY <1>a, <1>5, <2>0, <2>2, <2>3, <2>4
      DEF IInv, RBTypeOK, WindowIsStream, ReaderHasRoom, GivesUpOnlyWhenFull
  <1>6. CASE UNCHANGED rbVars
    BY <1>6, <1>a
    DEF rbVars, IInv, RBTypeOK, WindowIsStream, ReaderHasRoom,
        GivesUpOnlyWhenFull
  <1> QED
    BY <1>1, <1>2, <1>3, <1>4, <1>5, <1>6 DEF RBNext, ReadAny, FedAny

\* The inductive invariant holds in every state of the read buffer, whatever the
\* parser and the reader do (readBuffer.go).
THEOREM Invariance == RBSpec => []IInv
PROOF BY InitIInv, NextIInv, PTL DEF RBSpec

-----------------------------------------------------------------------------
\* The cursors stay in order within the buffer.
THEOREM TypeCorrect == RBSpec => []RBTypeOK
PROOF
  <1>1. IInv => RBTypeOK
    BY DEF IInv
  <1> QED BY <1>1, Invariance, PTL

\* No byte between the reader and the parser is lost, repeated or reordered.
THEOREM WindowCorrect == RBSpec => []WindowIsStream
PROOF
  <1>1. IInv => WindowIsStream
    BY DEF IInv
  <1> QED BY <1>1, Invariance, PTL

\* The reader is always offered at least one byte of room.
THEOREM RoomCorrect == RBSpec => []ReaderHasRoom
PROOF
  <1>1. IInv => ReaderHasRoom
    BY DEF IInv
  <1> QED BY <1>1, Invariance, PTL

\* The buffer-exceeded error is only given with a full buffer at its limit.
THEOREM GivesUpCorrect == RBSpec => []GivesUpOnlyWhenFull
PROOF
  <1>1. IInv => GivesUpOnlyWhenFull
    BY DEF IInv
  <1> QED BY <1>1, Invariance, PTL

\* A step changes the length of the buffer only when pending bytes take all of
\* it, and then by at most doubling it within the limit.
THEOREM GrowthCorrect == RBSpec => GrowsOnlyWhenFull
PROOF
  <1> DEFINE Growth == rb'.len # rb.len /\ rb.len > 0 =>
                         /\ Pending(rb) = rb.len
                         /\ rb'.len <= 2 * rb.len
                         /\ rb'.len <= MaxReadBufSize
  <1>1. ASSUME IInv, [RBNext]_rbVars PROVE [Growth]_rbVars
    <2>0. /\ IsBuffer(rb) /\ Tidy(rb) /\ HoldsFrom(rb, delivered)
          /\ delivered \in Nat /\ rb.len \in Nat
      BY <1>1 DEF IInv, RBTypeOK, WindowIsStream, IsBuffer
    <2>1. CASE Call
      BY <2>1, <2>0 DEF Call, InitBuffer
    <2>2. CASE LoopHead
      BY <2>2 DEF LoopHead, Reset
    <2>3. ASSUME NEW at \in {"fill", "more"}, NEW then \in ReadLocs,
                 EnsureWriteSpace(at, then)
          PROVE  Growth
      <3>1. rb.len > 0
        BY <1>1, <2>3 DEF EnsureWriteSpace, IInv
      <3>2. TooBig(rb) => rb' = Reclaimed(rb)
        BY <2>3 DEF EnsureWriteSpace
      <3>3. ~TooBig(rb) => rb' = WithSpace(rb)
        BY <2>3 DEF EnsureWriteSpace
      <3> QED BY <2>0, <3>1, <3>2, <3>3, EnsureWriteSpaceBuffer
    <2>4. ASSUME NEW at \in ReadLocs, NEW then \in {"feed", "loop"}, ReadAny(at, then)
          PROVE  rb'.len = rb.len
      BY <2>4, <2>0 DEF ReadAny, Read, Store, IsBuffer
    <2>5. CASE FedAny
      <3>1. PICK n \in 0..Pending(rb) : \E result \in {"none", "done", "parseError"} :
                   Fed(n, result)
        BY <2>5 DEF FedAny
      <3> DEFINE b == Advance(rb, n)
      <3>2. IsBuffer(b) /\ Tidy(b) /\ b.len = rb.len /\ HoldsFrom(b, delivered + n)
        BY <2>0, AdvanceBuffer
      <3>3. rb' \in {b, Compact(b)}
        BY <3>1 DEF Fed
      <3>4. delivered + n \in Nat
        BY <2>0, <3>1 DEF Pending, IsBuffer
      <3> HIDE DEF b
      <3>5. rb'.len = rb.len
        BY <3>2, <3>3, <3>4, CompactBuffer
      <3> QED BY <3>5
    <2> QED
      BY <1>1, <2>1, <2>2, <2>3, <2>4, <2>5 DEF RBNext, ReadLocs, rbVars
  <1> QED
    BY <1>1, Invariance, PTL DEF RBSpec, GrowsOnlyWhenFull
=============================================================================
