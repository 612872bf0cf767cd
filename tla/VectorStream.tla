---------------------------- MODULE VectorStream ----------------------------
(***************************************************************************)
(* A body decoded in pieces by decodeSIMD, with its CRC, as                *)
(* Response.decodeYenc does in builds with vector kernels: each call is    *)
(* shown all that is unread of what has arrived, at any address, as the    *)
(* read buffer moves what is unread to its front at will.                  *)
(***************************************************************************)
EXTENDS Bodies, DecodeSIMD, CrcCombine

CONSTANTS
  Kernels,  \* the vector kernels
  MaxCalls  \* bound: calls for a body

ASSUME VectorAssumption == Kernels \subseteq {"AVX2", "NEON"} /\ MaxCalls \in Nat \ {0}

VARIABLES
  kernel,    \* the kernel of the machine, which init has chosen
  input,     \* the body being decoded
  shown,     \* how much of it has arrived
  consumed,  \* how much of it the calls have consumed
  pState,    \* the State the last call returned
  decoded,   \* what has been decoded
  end,       \* the End the last call returned
  crc,       \* Metadata.CRC
  calls      \* how many calls that took

vars == <<kernel, input, shown, consumed, pState, decoded, end, crc, calls>>

Init ==
  /\ kernel \in Kernels
  /\ input \in Inputs
  /\ shown = 0 /\ consumed = 0
  /\ pState = "CRLF" /\ decoded = <<>> /\ end = "none"
  /\ crc = {} /\ calls = 0

\* n more characters have arrived, and a call is made; the last call the bound
\* allows has all the rest.
DecodeYenc(n, address) ==
  /\ end = "none"
  /\ shown + n <= Len(input)
  /\ calls = MaxCalls - 1 => shown + n = Len(input)
  /\ shown' = shown + n
  /\ calls' = calls + 1
  /\ \E r \in {DecodeVector(kernel, SubSeq(input, consumed + 1, shown + n), pState, address)} :
       /\ consumed' = consumed + r.pos
       /\ pState' = r.state
       /\ decoded' = decoded \o r.out
       /\ end' = r.end
       /\ crc' = crcUpdate(crc, AsBits(r.out))
  /\ UNCHANGED <<kernel, input>>

\* Addresses count only in calls long enough for the kernel.
Addresses(n) == IF shown + n - consumed > 2 * Width THEN 0..Width-1 ELSE {0}

Next == \E n \in 1..Len(input) - shown : \E address \in Addresses(n) : DecodeYenc(n, address)

Spec == Init /\ [][Next]_vars

-----------------------------------------------------------------------------
\* The types of the variables; no more is produced than consumed, which is what
\* the kernels need to store whole vectors into a destination as long as src.
TypeOK ==
  /\ kernel \in Kernels /\ input \in Inputs
  /\ shown \in 0..Len(input) /\ consumed \in 0..shown
  /\ pState \in States /\ end \in Ends
  /\ decoded \in Seq(Byte) /\ Len(decoded) <= consumed
  /\ crc \subseteq Register
  /\ calls \in 0..MaxCalls

\* How much has been read: behind the end of the data nothing, and a line end
\* left unread counts, as the State has it.
ReadSoFar == IF end = "none" THEN shown ELSE consumed

Reader == INSTANCE BodyReader WITH
            body <- input,
            read <- ReadSoFar,
            result <- [state |-> pState, out |-> decoded, end |-> end]

\* The calls, wherever the input is cut and however its pieces are aligned, read
\* the body as the reference does, to its end and not behind it: whatever the
\* portable head, the blocks and the portable tail of a call leave to each other.
ImplementsReader == Reader!BodySpec

\* What a call leaves unread, when it has not met the end, is nothing or a line
\* end: although a line end that the head leaves is not in the length from which
\* decodeSIMD reckons what is left for the tail.
UnreadIsLineEnd ==
  end = "none" =>
    \/ consumed = shown
    \/ SubSeq(input, consumed + 1, shown) = NewLine /\ pState = "CRLF"

\* The CRC is that of all the data, by pieces of any length: "crcUpdate must be
\* indistinguishable from crc32.Update at every length"
\* (crc32_multistream_test.go:11).
CrcIsOfData == crc = Update({}, AsBits(decoded))
=============================================================================
