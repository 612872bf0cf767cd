---------------------------- MODULE CrcCombine ----------------------------
(***************************************************************************)
(* The CRC of long buffers (crc32_combine.go, crc32_multistream_arm64.go): *)
(* a chunk is cut into four quarters, whose registers advance side by side *)
(* and are combined by multiplications.                                    *)
(*                                                                         *)
(* A register, a byte and a product are the sets of their bits that are 1: *)
(* bit 0 is the lowest, and exclusive or is the symmetric difference.      *)
(***************************************************************************)
EXTENDS Integers, Sequences, FiniteSetsExt, SequencesExt

CONSTANTS
  CrcBits,  \* width of the register, 32
  Poly,     \* bits of the reversed polynomial, 0xEDB88320
  Quarters  \* crcQuarters: bytes of a stream, the larger first, 2048 and 256

ASSUME CrcAssumption ==
  /\ CrcBits \in Nat /\ CrcBits >= 8 /\ CrcBits % 8 = 0
  /\ Poly \subseteq 0..CrcBits-1
  /\ Quarters \in Seq(Nat \ {0})

Register == 0..CrcBits-1
Not(crc) == Register \ crc
ShiftRight(bits, n) == {i - n : i \in {j \in bits : j >= n}}
ShiftLeft(bits, n) == {i + n : i \in bits}

BitsOfByte == [c \in 0..255 |-> {i \in 0..7 : (c \div 2^i) % 2 = 1}]
Zero == {}

\* One bit through the register, the lowest first.
ShiftBit(crc) ==
  IF 0 \in crc THEN SymDiff(ShiftRight(crc, 1), Poly) ELSE ShiftRight(crc, 1)

Shift8(crc) == FoldLeft(LAMBDA c, i : ShiftBit(c), crc, [i \in 1..8 |-> i])

\* crc32.IEEETable.
Table == [v \in SUBSET (0..7) |-> Shift8(v)]

\* rawUpdate, on bytes given by their bits.
RawUpdate(crc, p) ==
  FoldLeft(LAMBDA c, v : SymDiff(Table[SymDiff(c \cap 0..7, v)], ShiftRight(c, 8)), crc, p)

\* crc32.Update of hash/crc32, which is taken to compute a CRC: one bit of the
\* data after the other.
Update(crc, p) ==
  LET byte[c \in SUBSET Register] == Shift8(c) IN
  Not(FoldLeft(LAMBDA c, v : byte[SymDiff(c, v)], Not(crc), p))

\* clmul32.
CarrylessProduct(a, b) == FoldSet(LAMBDA i, res : SymDiff(res, ShiftLeft(a, i)), {}, b)

\* Mutant of crcMul: the product is not doubled.
crcMulUndoubled(a, b) ==
  LET p == CarrylessProduct(a, b)
      low == [n \in 1..CrcBits \div 8 |-> ShiftRight(p, 8 * (n - 1)) \cap 0..7]
  IN  SymDiff(RawUpdate({}, low), ShiftRight(p, CrcBits))

\* crcMul: the product modulo the polynomial, of registers, whose lowest bit
\* is the highest power; their product has one bit less than twice as many.
crcMul(a, b) ==
  LET p == ShiftLeft(CarrylessProduct(a, b), 1)
      low == [n \in 1..CrcBits \div 8 |-> ShiftRight(p, 8 * (n - 1)) \cap 0..7]
  IN  SymDiff(RawUpdate({}, low), ShiftRight(p, CrcBits))

shiftZeros(crc, n) == RawUpdate(crc, [i \in 1..n |-> Zero])

\* crcQuarterK: what n bytes of zeros multiply a register by.
QuarterK == [i \in DOMAIN Quarters |-> shiftZeros({CrcBits - 1}, Quarters[i])]

Quarter(chunk, q, n) == SubSeq(chunk, (n - 1) * q + 1, n * q)

\* crc32IEEEQuad, on registers of which only the first is not zero.
Quad(raw, chunk, q) ==
  [n \in 1..4 |-> RawUpdate(IF n = 1 THEN raw ELSE {}, Quarter(chunk, q, n))]

\* A chunk of four quarters of Quarters[i] bytes.
Chunk(raw, chunk, i) ==
  LET c == Quad(raw, chunk, Quarters[i])
      Combined(crc, n) == SymDiff(crcMul(crc, QuarterK[i]), c[n])
  IN  FoldLeft(Combined, c[1], <<2, 3, 4>>)

\* As many chunks of the i-th size as p has; s is the register and what is
\* left of the data.
Chunks(s, i) ==
  LET size == 4 * Quarters[i]
      n == Len(s.rest) \div size
      Next1(raw, m) == Chunk(raw, SubSeq(s.rest, (m - 1) * size + 1, m * size), i)
  IN  [raw |-> FoldLeft(Next1, s.raw, [m \in 1..n |-> m]),
       rest |-> SubSeq(s.rest, n * size + 1, Len(s.rest))]

crcUpdate(crc, p) ==
  IF Len(p) < 4 * Quarters[Len(Quarters)] THEN Update(crc, p)
  ELSE LET s == FoldLeft(Chunks, [raw |-> Not(crc), rest |-> p],
                         [i \in DOMAIN Quarters |-> i])
       IN  Update(Not(s.raw), s.rest)

\* The data as crcUpdate takes it, and its CRC.
AsBits(data) == [i \in DOMAIN data |-> BitsOfByte[data[i]]]
=============================================================================
