--------------------------- MODULE DecoderProofs ---------------------------
(***************************************************************************)
(* Proofs about module Decoder, for all streams, sizes and options: the    *)
(* decoder uses its read buffer as module ReadBuffer allows, what it       *)
(* decodes fits where it is stored, and a body is decoded as reading it    *)
(* character by character would, wherever reads and buffer cut it.         *)
(***************************************************************************)
EXTENDS Decoder, ReadBufferProofs, DecodeReferenceProofs

-----------------------------------------------------------------------------
(* The words of a header.                                                  *)

\* Of words with the same key the first one is found.
LEMMA FirstFound ==
  ASSUME NEW n \in Nat, NEW found, found \subseteq 1..n, found # {}
  PROVE  \E i \in found : \A j \in found : i <= j
PROOF
  <1> DEFINE rank == [i \in 1..n |-> i]
  <1>1. rank \in [1..n -> Nat]
    OBVIOUS
  <1>2. \E i \in found : \A j \in found : rank[i] <= rank[j]
    <2> HIDE DEF rank
    <2> QED BY <1>1, LeastRank
  <1> QED BY <1>2

\* A number of a header is a number, and it is known whether it parsed.
LEMMA ExtractNumber ==
  ASSUME NEW words \in Seq(HeaderWords), NEW key, key \notin CrcKeys
  PROVE  /\ Extract(words, key).ok \in BOOLEAN
         /\ Extract(words, key).value \in Int
PROOF
  <1> DEFINE found == {i \in 1..Len(words) : words[i].key = key}
             i == CHOOSE i \in found : \A j \in found : i <= j
  <1>1. CASE found = {}
    BY <1>1 DEF Extract
  <1>2. CASE found # {}
    <2>1. i \in found
      <3>1. found \subseteq 1..Len(words) /\ Len(words) \in Nat
        OBVIOUS
      <3> HIDE DEF found
      <3>2. \E j \in found : \A l \in found : j <= l
        BY <1>2, <3>1, FirstFound
      <3> QED BY <3>2
    <2>2. Extract(words, key) = words[i]
      BY <1>2 DEF Extract
    <2>3. words[i] \in HeaderWords /\ words[i].key = key
      BY <2>1
    <2> HIDE DEF i, found
    <2>4. words[i].ok \in BOOLEAN /\ words[i].value \in -IntMax-1..IntMax
      BY <2>3 DEF HeaderWords
    <2> QED BY <2>2, <2>4, ResponseAssumption
  <1> QED BY <1>1, <1>2

\* A CRC that parsed is that of some data.
LEMMA ExtractCrc ==
  ASSUME NEW words \in Seq(HeaderWords), NEW key \in CrcKeys
  PROVE  /\ Extract(words, key).ok \in BOOLEAN
         /\ Extract(words, key).ok => Extract(words, key).value \in Seq(Byte)
PROOF
  <1> DEFINE found == {i \in 1..Len(words) : words[i].key = key}
             i == CHOOSE i \in found : \A j \in found : i <= j
  <1>1. CASE found = {}
    BY <1>1 DEF Extract
  <1>2. CASE found # {}
    <2>1. i \in found
      <3>1. found \subseteq 1..Len(words) /\ Len(words) \in Nat
        OBVIOUS
      <3> HIDE DEF found
      <3>2. \E j \in found : \A l \in found : j <= l
        BY <1>2, <3>1, FirstFound
      <3> QED BY <3>2
    <2>2. Extract(words, key) = words[i]
      BY <1>2 DEF Extract
    <2>3. words[i] \in HeaderWords /\ words[i].key = key
      BY <2>1
    <2> HIDE DEF i, found
    <2>4. words[i].ok \in BOOLEAN /\ words[i].value \in Seq(Byte)
      BY <2>3 DEF HeaderWords
    <2> QED BY <2>2, <2>4
  <1> QED BY <1>1, <1>2

-----------------------------------------------------------------------------
(* What a line does to the Response.                                       *)

\* What a header leaves alone.
Kept(r, q) ==
  /\ q.format = r.format /\ q.data = r.data /\ q.cap = r.cap
  /\ q.state = r.state /\ q.eof = r.eof

\* A number in a line that is no character stands for a text.
LEMMA IsTextOf ==
  ASSUME NEW line \in Seq(Characters), NEW i \in 1..Len(line), IsText(line[i])
  PROVE  line[i] \in DOMAIN Text
PROOF
  <1>1. line[i] \in Characters
    OBVIOUS
  <1>2. \A c \in 0..255 : ~(c > 255)
    OBVIOUS
  <1> QED BY <1>1, <1>2, Zenon DEF Characters, IsText

\* A line that begins "=y" and has a text behind that has one of its kinds.
LEMMA YencText ==
  ASSUME NEW line \in Seq(Characters), YKind(line) # "none"
  PROVE  /\ Len(line) = 3
         /\ YKind(line) \in HeaderKinds => Words(line) \in Seq(HeaderWords)
PROOF
  <1>1. Len(line) = 3 /\ IsText(line[3]) /\ YKind(line) = Text[line[3]].kind
    BY DEF YKind
  <1>2. line[3] \in DOMAIN Text
    BY <1>1, IsTextOf
  <1> QED BY ZenonT(30), <1>1, <1>2, TextAssumption DEF Words

\* The fields the first two headers set.
LEMMA BeginFields ==
  ASSUME NEW r \in Responses, NEW yes \in BOOLEAN, NEW inBody \in BOOLEAN,
         NEW size \in Int, NEW part \in Int, NEW q,
         q = [r EXCEPT !.hasBegin = yes, !.fileSize = size,
                       !.body = inBody, !.partSize = part]
  PROVE  q \in Responses /\ Kept(r, q)
PROOF
  <1>1. q \in Responses
    <2>1. [r EXCEPT !.hasBegin = yes, !.fileSize = size,
                    !.body = inBody, !.partSize = part] \in Responses
      BY DEF Responses
    <2> QED BY <2>1
  <1>2. Kept(r, q)
    BY DEF Responses, Kept
  <1> QED BY <1>1, <1>2

\* The same for a part header.
LEMMA PartFields ==
  ASSUME NEW r \in Responses, NEW yes \in BOOLEAN, NEW inBody \in BOOLEAN,
         NEW offset \in Nat, NEW part \in Int, NEW q,
         q = [r EXCEPT !.hasPart = yes, !.body = inBody,
                       !.offset = offset, !.partSize = part]
  PROVE  q \in Responses /\ Kept(r, q)
PROOF
  <1>1. q \in Responses
    BY ZenonT(30) DEF Responses
  <1>2. Kept(r, q)
    BY DEF Responses, Kept
  <1> QED BY <1>1, <1>2

\* The header that begins a file.
LEMMA YbeginResponse ==
  ASSUME NEW r \in Responses, NEW words \in Seq(HeaderWords)
  PROVE  Ybegin(r, words) \in Responses /\ Kept(r, Ybegin(r, words))
PROOF
  <1> DEFINE size == Extract(words, "size").value
             single == ~Extract(words, "part").ok
             yes == TRUE
             inBody == r.body \/ single
             part == IF single THEN size ELSE r.partSize
  <1>1. size \in Int /\ single \in BOOLEAN
    <2>1. "size" \notin CrcKeys /\ "part" \notin CrcKeys
      BY DEF CrcKeys
    <2> QED BY <2>1, ExtractNumber
  <1>2. Ybegin(r, words) =
          [r EXCEPT !.hasBegin = yes, !.fileSize = size, !.body = inBody,
                    !.partSize = part]
    BY DEF Ybegin
  <1>3. yes \in BOOLEAN /\ inBody \in BOOLEAN
    OBVIOUS
  <1>4. part \in Int
    <2>1. r.partSize \in Int
      BY DEF Responses
    <2> HIDE DEF size, single
    <2> QED BY <1>1, <2>1
  <1> HIDE DEF size, single, yes, inBody, part
  <1> QED BY <1>1, <1>2, <1>3, <1>4, BeginFields

\* The header that begins a part.
LEMMA YpartResponse ==
  ASSUME NEW r \in Responses, NEW words \in Seq(HeaderWords)
  PROVE  Ypart(r, words) \in Responses /\ Kept(r, Ypart(r, words))
PROOF
  <1> DEFINE begin == Extract(words, "begin")
             end == Extract(words, "end")
  <1>1. begin.value \in Int /\ begin.ok \in BOOLEAN
    <2>1. "begin" \notin CrcKeys
      BY DEF CrcKeys
    <2> QED BY <2>1, ExtractNumber
  <1>2. end.value \in Int /\ end.ok \in BOOLEAN
    <2>1. "end" \notin CrcKeys
      BY DEF CrcKeys
    <2> QED BY <2>1, ExtractNumber
  <1> DEFINE from == IF begin.ok /\ begin.value >= 1 THEN begin.value ELSE 0
             offset == IF from > 0 THEN from - 1 ELSE r.offset
             size == IF end.ok /\ end.value >= from
                       THEN end.value - offset ELSE r.partSize
             yes == TRUE
  <1>3. Ypart(r, words) =
          [r EXCEPT !.hasPart = yes, !.body = yes, !.offset = offset,
                    !.partSize = size]
    BY DEF Ypart
  <1> HIDE DEF begin, end
  <1>4. from \in Nat
    BY <1>1
  <1>5. offset \in Nat
    <2>1. r.offset \in Nat
      BY DEF Responses
    <2> HIDE DEF from
    <2> QED BY <1>4, <2>1
  <1>6. size \in Int
    <2>1. r.partSize \in Int
      BY DEF Responses
    <2> HIDE DEF from, offset
    <2> QED BY <1>2, <1>5, <2>1
  <1>7. yes \in BOOLEAN
    OBVIOUS
  <1> HIDE DEF from, offset, size, yes
  <1> QED BY <1>3, <1>5, <1>6, <1>7, PartFields

\* The header that ends the data.
LEMMA YendResponse ==
  ASSUME NEW r \in Responses, NEW words \in Seq(HeaderWords)
  PROVE  Yend(r, words) \in Responses /\ Kept(r, Yend(r, words))
PROOF
  <1> DEFINE crc == CrcWord(words)
  <1>1. crc.ok \in BOOLEAN /\ (crc.ok => crc.value \in Seq(Byte))
    <2>1. "pcrc32" \in CrcKeys /\ "crc32" \in CrcKeys
      BY DEF CrcKeys
    <2> QED BY <2>1, ExtractCrc DEF CrcWord
  <1>2. Yend(r, words) =
          [r EXCEPT !.hasEnd = TRUE, !.hasCrc = @ \/ crc.ok,
                    !.expectedCRC = IF crc.ok THEN crc.value ELSE @]
    BY DEF Yend
  <1> HIDE DEF crc
  <1> QED BY ZenonT(30), <1>1, <1>2 DEF Responses, Kept

\* Any line of a yEnc response; only a header begins a body.
LEMMA HeaderResponse ==
  ASSUME NEW r \in Responses, NEW line \in Seq(Characters)
  PROVE  /\ ProcessYencHeader(r, line) \in Responses
         /\ Kept(r, ProcessYencHeader(r, line))
         /\ ProcessYencHeader(r, line).body /\ ~r.body => Len(line) = 3
PROOF
  <1> DEFINE q == ProcessYencHeader(r, line)
  <1>1. CASE YKind(line) \in HeaderKinds
    <2>1. Len(line) = 3 /\ Words(line) \in Seq(HeaderWords)
      BY <1>1, YencText DEF HeaderKinds
    <2>2. q \in {Ybegin(r, Words(line)), Ypart(r, Words(line)),
                 Yend(r, Words(line))}
      BY <1>1 DEF ProcessYencHeader, HeaderKinds
    <2> HIDE DEF q
    <2>3. q \in Responses /\ Kept(r, q)
      BY <2>1, <2>2, YbeginResponse, YpartResponse, YendResponse
    <2> QED BY <2>1, <2>3 DEF q
  <1>2. CASE YKind(line) \notin HeaderKinds
    <2>1. q = r
      BY <1>2 DEF ProcessYencHeader, HeaderKinds
    <2> HIDE DEF q
    <2> QED BY <2>1 DEF Kept, q
  <1> QED BY <1>1, <1>2

-----------------------------------------------------------------------------
(* Status lines, the format and UU lines.                                  *)

\* Bytes and texts alike are numbers.
LEMMA CharactersAreNat == Characters \subseteq Nat
PROOF
  <1>1. 0..255 \subseteq Nat /\ DOMAIN Text \subseteq Nat
    BY TextAssumption
  <1> QED BY <1>1, Zenon DEF Characters

\* The characters of a line are a sequence, whether or not it is a text.
LEMMA LineChars ==
  ASSUME NEW line \in Seq(Characters)
  PROVE  Chars(line) \in Seq(Nat)
PROOF
  <1>1. line \in Seq(Nat)
    BY CharactersAreNat, SeqMonotonic, Zenon
  <1>2. ASSUME Len(line) = 1, IsText(line[1]), Kind(line) \in ReadByChars
        PROVE  Text[line[1]].chars \in Seq(Nat)
    <2>1. 1 \in 1..Len(line) /\ Kind(line) = Text[line[1]].kind
      BY <1>2 DEF Kind
    <2>2. line[1] \in DOMAIN Text
      BY <1>2, <2>1, IsTextOf
    <2>3. Text[line[1]].chars \in Seq(0..255)
      <3>1. Text[line[1]].kind \in ReadByChars
        BY <1>2, <2>1
      <3> QED BY <2>2, <3>1, TextAssumption, Zenon
    <2>4. 0..255 \subseteq Nat
      OBVIOUS
    <2> QED BY <2>3, <2>4, SeqMonotonic, Zenon
  <1> QED BY <1>1, <1>2 DEF Chars

\* A status is a number of three characters, or none.
LEMMA StatusResponse ==
  ASSUME NEW r \in Responses, NEW line \in Seq(Characters)
  PROVE  /\ StatusLine(r, line) \in Responses
         /\ StatusLine(r, line).format = r.format
         /\ StatusLine(r, line).body = r.body
         /\ StatusLine(r, line).data = r.data
         /\ StatusLine(r, line).cap = r.cap
         /\ StatusLine(r, line).state = r.state
PROOF
  <1> DEFINE code == IF Kind(line) = "status" THEN Text[line[1]].code ELSE 0
             ends == code \notin Multiline
  <1>1. code \in Codes
    <2>1. CASE Kind(line) = "status"
      <3>1. 1 \in 1..Len(line) /\ IsText(line[1])
            /\ Text[line[1]].kind = "status"
        BY <2>1 DEF Kind
      <3>2. line[1] \in DOMAIN Text
        BY <3>1, IsTextOf
      <3> QED BY <2>1, <3>1, <3>2, TextAssumption
    <2>2. CASE Kind(line) # "status"
      BY <2>2 DEF Codes
    <2> QED BY <2>1, <2>2
  <1>2. ends \in BOOLEAN
    OBVIOUS
  <1>3. StatusLine(r, line) = [r EXCEPT !.code = code, !.eof = ends]
    BY DEF StatusLine
  <1>4. ASSUME NEW c \in Codes, NEW e \in BOOLEAN, NEW q,
               q = [r EXCEPT !.code = c, !.eof = e]
        PROVE  q \in Responses /\ q.format = r.format /\ q.body = r.body
               /\ q.data = r.data /\ q.cap = r.cap /\ q.state = r.state
    BY <1>4 DEF Responses
  <1> HIDE DEF code, ends
  <1> QED BY ZenonT(30), <1>1, <1>2, <1>3, <1>4

\* The format is found without touching the data, and a yEnc body has not begun
\* when it is.
LEMMA DetectResponse ==
  ASSUME NEW r \in Responses, NEW line
  PROVE  /\ DetectFormat(r, line) \in Responses
         /\ DetectFormat(r, line).data = r.data
         /\ DetectFormat(r, line).cap = r.cap
         /\ DetectFormat(r, line).state = r.state
         /\ DetectFormat(r, line).format # "uu" =>
              DetectFormat(r, line).body = r.body
         /\ DetectFormat(r, line).format = "unknown" => r.format = "unknown"
PROOF
  <1> DEFINE q == DetectFormat(r, line)
             yes == TRUE
  <1>1. \/ q = r
        \/ q = [r EXCEPT !.hasEmptyLine = yes]
        \/ q = [r EXCEPT !.format = "yenc"]
        \/ q = [r EXCEPT !.format = "uu"]
        \/ q = [r EXCEPT !.format = "uu", !.body = yes]
    <2>1. CASE ~r.statusRead /\ r.code \notin MaybeBinary
      BY <2>1 DEF DetectFormat
    <2>2. CASE ~(~r.statusRead /\ r.code \notin MaybeBinary)
      BY <2>2 DEF DetectFormat
    <2> QED BY <2>1, <2>2
  <1>2. yes \in BOOLEAN
    OBVIOUS
  <1>3. ASSUME NEW b \in BOOLEAN
        PROVE  /\ [r EXCEPT !.hasEmptyLine = b] \in Responses
               /\ [r EXCEPT !.format = "yenc"] \in Responses
               /\ [r EXCEPT !.format = "uu"] \in Responses
               /\ [r EXCEPT !.format = "uu", !.body = b] \in Responses
    <2>1. [r EXCEPT !.hasEmptyLine = b] \in Responses
      BY DEF Responses
    <2>2. [r EXCEPT !.format = "yenc"] \in Responses
      BY DEF Responses
    <2>3. [r EXCEPT !.format = "uu"] \in Responses
      BY DEF Responses
    <2>4. [r EXCEPT !.format = "uu", !.body = b] \in Responses
      BY DEF Responses
    <2> QED BY <2>1, <2>2, <2>3, <2>4
  <1>4. ASSUME NEW b, NEW p,
               \/ p = r
               \/ p = [r EXCEPT !.hasEmptyLine = b]
               \/ p = [r EXCEPT !.format = "yenc"]
               \/ p = [r EXCEPT !.format = "uu"]
               \/ p = [r EXCEPT !.format = "uu", !.body = b]
        PROVE  /\ p.data = r.data /\ p.cap = r.cap /\ p.state = r.state
               /\ p.format # "uu" => p.body = r.body
               /\ p.format = "unknown" => r.format = "unknown"
    <2>1. CASE p = r
      BY <2>1
    <2>2. CASE p = [r EXCEPT !.hasEmptyLine = b]
      BY <2>2
    <2>3. CASE p = [r EXCEPT !.format = "yenc"]
      BY <2>3 DEF Responses
    <2>4. CASE p = [r EXCEPT !.format = "uu"]
      BY <2>4 DEF Responses
    <2>5. CASE p = [r EXCEPT !.format = "uu", !.body = b]
      BY <2>5 DEF Responses
    <2> QED BY <1>4, <2>1, <2>2, <2>3, <2>4, <2>5
  <1> HIDE DEF q, yes
  <1> QED BY <1>1, <1>2, <1>3, <1>4, ZenonT(30) DEF q

\* A byte of a line that has all the characters of its group is of eight bits.
LEMMA ByteOfGroup ==
  ASSUME NEW line \in Seq(Nat), NEW j \in Nat, 4 * (j \div 3) + 5 <= Len(line)
  PROVE  ByteAt(line, j) \in Byte
PROOF
  <1> DEFINE x(i) == decodeUUChar(line[4 * (j \div 3) + 1 + i])
             byte0(a, b) == (a * 4 + b \div 16) % 256
             byte1(b, c) == ((b * 16) % 256) + c \div 4
             byte2(c, d) == ((c * 64) % 256) + d
  <1>1. ByteAt(line, j) = CASE j % 3 = 0 -> byte0(x(1), x(2))
                            [] j % 3 = 1 -> byte1(x(2), x(3))
                            [] j % 3 = 2 -> byte2(x(3), x(4))
    BY Zenon DEF ByteAt
  <1>2. \A i \in 1..4 : x(i) \in 0..63
    <2>1. ASSUME NEW i \in 1..4 PROVE line[4 * (j \div 3) + 1 + i] \in Nat
      <3> DEFINE n == 4 * (j \div 3) + 1 + i
      <3>1. n \in 1..Len(line)
        OBVIOUS
      <3> HIDE DEF n
      <3> QED BY <3>1
    <2>2. \A c \in Nat : decodeUUChar(c) \in 0..63
      BY DEF decodeUUChar, SP
    <2> QED BY <2>1, <2>2, Zenon
  <1>3. j % 3 \in {0, 1, 2}
    OBVIOUS
  <1> HIDE DEF x
  <1>4. ASSUME NEW a \in 0..63, NEW b \in 0..63, NEW c \in 0..63, NEW d \in 0..63,
               a = x(1), b = x(2), c = x(3), d = x(4)
        PROVE  ByteAt(line, j) \in Byte
    <2>1. byte0(a, b) \in Byte
      BY DEF Byte
    <2>2. byte1(b, c) \in Byte
      BY DEF Byte
    <2>3. byte2(c, d) \in Byte
      BY DEF Byte
    <2> HIDE DEF byte0, byte1, byte2
    <2>4. ByteAt(line, j) = CASE j % 3 = 0 -> byte0(a, b)
                              [] j % 3 = 1 -> byte1(b, c)
                              [] j % 3 = 2 -> byte2(c, d)
      BY <1>1, <1>4, Zenon
    <2> QED BY <1>3, <2>1, <2>2, <2>3, <2>4
  <1>5. x(1) \in 0..63 /\ x(2) \in 0..63 /\ x(3) \in 0..63 /\ x(4) \in 0..63
    BY <1>2
  <1> QED BY <1>4, <1>5, Zenon

\* A UU line decodes to bytes: they are taken from characters it has.
LEMMA UUBytes ==
  ASSUME NEW line \in Seq(Nat), line # <<>>
  PROVE  UUDecoded(line).bytes \in Seq(Byte) /\ UUDecoded(line).bad \in BOOLEAN
PROOF
  <1> DEFINE whole == 3 * ((Len(line) - 1) \div 4)
             taken(n) == IF n < whole THEN n ELSE whole
  <1>1. CASE Lengths(line) = {}
    <2>1. UUDecoded(line) = [bytes |-> <<>>, bad |-> TRUE]
      BY <1>1 DEF UUDecoded
    <2> QED BY <2>1
  <1>2. CASE Lengths(line) # {}
    <2> DEFINE n == CHOOSE n \in Lengths(line) : TRUE
               bytes == [j \in 1..taken(n) |-> ByteAt(line, j - 1)]
    <2>1. n \in Nat
      <3>1. n \in Lengths(line)
        BY <1>2
      <3>2. line[1] \in Nat
        OBVIOUS
      <3>3. decodeUUChar(line[1]) \in Nat
        BY <3>2 DEF decodeUUChar, SP
      <3>4. Lengths(line) \subseteq Nat
        BY <3>3 DEF Lengths
      <3> QED BY <3>1, <3>4
    <2>2. UUDecoded(line) = [bytes |-> bytes, bad |-> n > whole]
      BY <1>2 DEF UUDecoded
    <2>3. taken(n) \in Nat /\ taken(n) <= whole
      BY <2>1
    <2>4. ASSUME NEW j \in 1..taken(n)
          PROVE  ByteAt(line, j - 1) \in Byte
      <3> HIDE DEF n
      <3> DEFINE g == (j - 1) \div 3
      <3>1. g \in Nat /\ 4 * g + 5 <= Len(line)
        <4> DEFINE m == (Len(line) - 1) \div 4
        <4>1. Len(line) \in Nat /\ Len(line) > 0
          OBVIOUS
        <4>2. m \in Nat /\ 4 * m <= Len(line) - 1
          BY <4>1
        <4>3. j \in Nat /\ 1 <= j /\ j <= 3 * m
          BY <2>3
        <4> HIDE DEF m
        <4>4. g \in Nat /\ g <= m - 1
          BY <4>2, <4>3
        <4> QED BY <4>1, <4>2, <4>4
      <3>2. j - 1 \in Nat
        OBVIOUS
      <3> QED BY <3>1, <3>2, ByteOfGroup
    <2> HIDE DEF n, taken
    <2>5. bytes \in Seq(Byte)
      BY <2>3, <2>4
    <2> QED BY <2>2, <2>5
  <1> QED BY <1>1, <1>2

\* The fields a UU line sets.
LEMMA UUFields ==
  ASSUME NEW r \in Responses, NEW inBody \in BOOLEAN, NEW size \in Int,
         NEW data \in Seq(Byte), NEW bad \in BOOLEAN
  PROVE  /\ [r EXCEPT !.body = inBody] \in Responses
         /\ [r EXCEPT !.body = inBody, !.fileSize = size] \in Responses
         /\ [r EXCEPT !.body = inBody, !.data = data, !.badData = bad] \in Responses
PROOF
  <1>1. [r EXCEPT !.body = inBody] \in Responses
    BY DEF Responses
  <1>2. [r EXCEPT !.body = inBody, !.fileSize = size] \in Responses
    BY DEF Responses
  <1>3. [r EXCEPT !.body = inBody, !.data = data, !.badData = bad] \in Responses
    BY DEF Responses
  <1> QED BY <1>1, <1>2, <1>3

\* A line of a UU body, or one that is not part of it.
LEMMA UUResponse ==
  ASSUME NEW r \in Responses, NEW line \in Seq(Characters)
  PROVE  /\ DecodeUU(r, line) \in Responses
         /\ DecodeUU(r, line).format = r.format
         /\ DecodeUU(r, line).cap = r.cap
         /\ DecodeUU(r, line).state = r.state
PROOF
  <1> DEFINE chars == Chars(line)
             d == UUDecoded(Unstuffed(chars))
             q == DecodeUU(r, line)
             yes == TRUE
             no == FALSE
             data == r.data \o d.bytes
             bad == r.badData \/ d.bad
             size == Len(r.data)
  <1>1. \/ q = r
        \/ q = [r EXCEPT !.body = yes]
        \/ q = [r EXCEPT !.body = no, !.fileSize = size]
        \/ chars # <<>> /\ q = [r EXCEPT !.body = yes, !.data = data, !.badData = bad]
    BY DEF DecodeUU, IsJunk
  <1>2. ASSUME chars # <<>>
        PROVE  data \in Seq(Byte) /\ bad \in BOOLEAN
    <2>1. chars \in Seq(Nat)
      BY LineChars
    <2> HIDE DEF chars
    <2>2. Unstuffed(chars) \in Seq(Nat) /\ Unstuffed(chars) # <<>>
      <3>1. CASE Unstuffed(chars) = chars
        BY <1>2, <2>1, <3>1
      <3>2. CASE Unstuffed(chars) # chars
        <4>1. Len(chars) > 1 /\ Unstuffed(chars) = Tail(chars)
          BY <3>2 DEF Unstuffed
        <4> DEFINE t == Tail(chars)
        <4>2. t \in Seq(Nat) /\ Len(t) = Len(chars) - 1
          BY <1>2, <2>1, HeadTailProperties
        <4> HIDE DEF t
        <4>3. Len(chars) \in Nat
          BY <2>1
        <4>4. t # <<>>
          BY <4>1, <4>2, <4>3
        <4> QED BY <4>1, <4>2, <4>4 DEF t
      <3> QED BY <3>1, <3>2
    <2>3. d.bytes \in Seq(Byte) /\ d.bad \in BOOLEAN
      BY <2>2, UUBytes
    <2>4. r.data \in Seq(Byte) /\ r.badData \in BOOLEAN
      BY DEF Responses
    <2> HIDE DEF d
    <2>5. data \in Seq(Byte)
      BY <2>3, <2>4, ConcatProperties
    <2>6. bad \in BOOLEAN
      OBVIOUS
    <2> QED BY <2>5, <2>6
  <1>3. yes \in BOOLEAN /\ no \in BOOLEAN
    OBVIOUS
  <1>4. size \in Int
    BY DEF Responses
  <1> HIDE DEF chars, d, q, yes, no, data, bad, size
  <1>5. q \in Responses
    <2>1. CASE q = r
      BY <2>1
    <2>2. CASE q = [r EXCEPT !.body = yes]
      <3>1. r.data \in Seq(Byte) /\ r.badData \in BOOLEAN
        BY DEF Responses
      <3> QED BY <1>3, <1>4, <2>2, <3>1, UUFields, Zenon
    <2>3. CASE q = [r EXCEPT !.body = no, !.fileSize = size]
      <3>1. r.data \in Seq(Byte) /\ r.badData \in BOOLEAN
        BY DEF Responses
      <3> QED BY <1>3, <1>4, <2>3, <3>1, UUFields, Zenon
    <2>4. CASE /\ chars # <<>>
               /\ q = [r EXCEPT !.body = yes, !.data = data, !.badData = bad]
      BY <1>2, <1>3, <1>4, <2>4, UUFields, Zenon
    <2> QED BY <1>1, <2>1, <2>2, <2>3, <2>4
  <1>6. q.format = r.format /\ q.cap = r.cap /\ q.state = r.state
    <2>1. CASE q = [r EXCEPT !.body = yes]
      BY <2>1 DEF Responses
    <2>2. CASE q = [r EXCEPT !.body = no, !.fileSize = size]
      BY <2>2 DEF Responses
    <2>3. CASE q = [r EXCEPT !.body = yes, !.data = data, !.badData = bad]
      BY <2>3 DEF Responses
    <2> QED BY <1>1, <2>1, <2>2, <2>3
  <1> QED BY <1>5, <1>6 DEF q

-----------------------------------------------------------------------------
(* A call of the kernel, in a text of which it is shown the beginning.     *)

\* The end of the data as the line parser finds it, n characters behind where the
\* reading t of the text s began: it has come to State st and what is in data.
EndsAt(s, t, n, st, data) ==
  \/ /\ n + 2 <= Len(s) /\ s[n + 1] = EQ /\ s[n + 2] = Y
     /\ t[n + 1].end = "none"
     /\ t[n + 2] = [state |-> st, out |-> data, end |-> "control"]
  \/ /\ n + 3 <= Len(s) /\ s[n + 1] = DOT /\ s[n + 2] = CR /\ s[n + 3] = LF
     /\ t[n + 2].end = "none"
     /\ t[n + 3] = [state |-> st, out |-> data, end |-> "article"]

\* Where decodeYenc stops in the text, and the State it keeps.
Leaves(k) == k.pos - GivenBack(k)
KeptState(k) == IF GivenBack(k) = 1 THEN "CRLF" ELSE k.state

\* A call that has met no end of the data: reading on from behind what it consumed
\* and does not give back, in the State that decodeYenc keeps, comes to the result
\* that reading the whole text has.
LEMMA PieceGoesOn ==
  ASSUME NEW cx, Context(cx), cx.upto > 0, NEW first \in Readings,
         cx.reads = Reading(cx.text, first),
         NEW k \in Config, k.pos <= cx.upto, k.end = "none", NEW o \in Seq(Byte),
         Reaches(cx, k.pos, k.state, o, "none")
  PROVE  /\ Leaves(k) \in 0..Len(cx.text) /\ ReadTo(cx, Leaves(k)).end = "none"
         /\ KeptState(k) # "CRLFEQ"
         /\ Outcome(SubSeq(cx.text, Leaves(k) + 1, Len(cx.text)), At(KeptState(k), o))
              = Outcome(cx.text, first)
PROOF
  <1> DEFINE s == cx.text
             t == cx.reads
             m == cx.upto
             p == k.pos
             st == k.state
             n == Leaves(k)
             q == KeptState(k)
  <1>0. /\ s \in Seq(Nat) /\ m \in 1..Len(s) /\ t = Reading(s, first)
        /\ p \in 0..m /\ st \in States /\ n = p - GivenBack(k)
        /\ q = IF GivenBack(k) = 1 THEN "CRLF" ELSE st
        /\ cx.text = s /\ cx.reads = t /\ cx.upto = m
    BY DEF Config, Leaves, KeptState, Context
  <1>01. Reaches(cx, p, st, o, "none") /\ (p = 0 => st # "CRLFEQ")
    <2>1. p = 0 => p # m
      BY <1>0
    <2> QED BY <2>1 DEF Reaches
  <1>00. GivenBack(k) = IF st = "CRLFEQ" THEN 1 ELSE 0
    BY DEF GivenBack, st
  <1>02. SUFFICES /\ n \in 0..Len(s) /\ t[n].end = "none" /\ q # "CRLFEQ"
                  /\ Outcome(SubSeq(s, n + 1, Len(s)), At(q, o)) = Outcome(s, first)
    BY DEF ReadTo
  <1> HIDE DEF s, t, m, p, st, n, q
  <1> USE <1>0
  <1>1. /\ Len(s) \in Nat /\ m \in Nat /\ m <= Len(s) /\ p \in Nat /\ p <= m
        /\ \A i \in 1..Len(s) : t[i] = Transition(t[i-1], s[i]) /\ t[i-1] \in Readings
        /\ \A i \in 0..Len(s) : t[i] \in Readings
    <2>1. Len(s) \in Nat /\ m \in Nat /\ m <= Len(s) /\ p \in Nat /\ p <= m
      BY <1>0
    <2>2. \A i \in 1..Len(s) : i - 1 \in 0..Len(s)
      BY <2>1
    <2>3. /\ \A i \in 1..Len(s) : t[i] = Transition(t[i-1], s[i])
          /\ \A i \in 0..Len(s) : t[i] \in Readings
      BY ReadingFacts, SMTT(30)
    <2> QED BY <2>1, <2>2, <2>3
  <1>2. \A i : ReadTo(cx, i) = t[i]
    BY DEF ReadTo
  <1>3. Open(cx, p)
    BY <1>01 DEF Reaches
  <1>4. {"CRLF", "CRLFEQ", "CR"} \subseteq States
    BY DEF States
  <1>5. ASSUME NEW a \in States
        PROVE  At(a, o) \in Readings
    BY DEF At, Readings, Ends
  <1>6. ASSUME NEW i \in 0..Len(s), NEW a \in States,
               NEW j \in 0..Len(s)-i, j \in {0, 1},
               t[i + j] = IF j = 0 THEN At(a, o) ELSE Transition(At(a, o), s[i + 1])
        PROVE  Outcome(SubSeq(s, i + 1, Len(s)), At(a, o)) = Outcome(s, first)
    <2> DEFINE u == SubSeq(s, i + 1, Len(s))
               f == Reading(u, At(a, o))
    <2>1. i \in Nat /\ i <= Len(s)
      BY <1>1
    <2>2. /\ u \in Seq(Nat) /\ Len(u) = Len(s) - i
          /\ \A l \in 1..(Len(s) - i) : u[l] = s[i + l]
      BY <1>1, <2>1, SliceIsSeq, SMTT(30)
    <2>3. At(a, o) \in Readings
      BY <1>5
    <2> HIDE DEF u
    <2>4. f[0] = At(a, o) /\ \A l \in 1..Len(u) : f[l] = Transition(f[l-1], u[l])
      BY <2>2, <2>3, ReadingFacts
    <2> HIDE DEF f
    <2>5. f[j] = t[i + j]
      <3>1. CASE j = 0
        BY <1>6, <2>4, <3>1
      <3>2. CASE j = 1
        <4>1. 1 \in 1..Len(u) /\ 1 \in 1..(Len(s) - i) /\ 1 - 1 = 0
          <5>1. 1 \in 0..Len(s)-i
            BY <3>2
          <5>2. Len(s) - i \in Nat /\ 1 <= Len(s) - i
            BY <1>1, <2>1, <5>1
          <5> QED BY <2>2, <5>2
        <4>2. f[1] = Transition(f[0], u[1])
          BY <2>4, <4>1
        <4>3. u[1] = s[i + 1]
          BY <2>2, <4>1
        <4> QED BY <1>6, <2>4, <3>2, <4>2, <4>3
      <3> QED BY <1>6, <3>1, <3>2
    <2>6. Reading(SubSeq(s, i + 1, Len(s)), At(a, o))[j] = Reading(s, first)[i + j]
      BY <2>5 DEF u, f
    <2> QED BY <1>6, <2>3, <2>6, ReadingsMeet
  <1>7. CASE p = m /\ t[p] = At(st, o) /\ st # "CRLFEQ"
    <2>1. GivenBack(k) = 0
      BY <1>00, <1>7
    <2>2. n = p /\ q = st
      BY <1>1, <2>1
    <2>3. p \in 0..Len(s) /\ 0 \in 0..Len(s)-p /\ p + 0 = p
      BY <1>1
    <2>4. t[p].end = "none"
      BY <1>7 DEF At
    <2>5. Outcome(SubSeq(s, p + 1, Len(s)), At(st, o)) = Outcome(s, first)
      <3>1. t[p + 0] = (IF 0 = 0 THEN At(st, o) ELSE Transition(At(st, o), s[p + 1]))
        BY <1>7, <2>3
      <3>2. 0 \in {0, 1}
        OBVIOUS
      <3> QED BY <1>6, <2>3, <3>1, <3>2, Zenon
    <2> QED BY <1>7, <2>2, <2>3, <2>4, <2>5
  <1>8. CASE p = m /\ t[p] = At(st, o) /\ st = "CRLFEQ"
    <2>1. GivenBack(k) = 1
      BY <1>00, <1>8
    <2>2. n = p - 1 /\ q = "CRLF"
      BY <1>1, <2>1
    <2>3. p \in 1..Len(s) /\ n \in 0..Len(s) /\ n \in 0..p /\ 1 \in 0..Len(s)-n /\ n + 1 = p
      BY <1>1, <1>8, <2>2
    <2>4. /\ t[p] = Transition(t[n], s[p]) /\ t[n] \in Readings /\ s[p] \in Nat
      BY <1>1, <2>2, <2>3, ElementOfSeq
    <2>5. t[n].end = "none"
      BY <1>2, <1>3, <2>3 DEF Open
    <2>6. s[p] = EQ
      <3>1. t[p].state = "CRLFEQ"
        BY <1>8 DEF At
      <3> QED BY <2>4, <2>5, <3>1, LeadsToEnd
    <2>7. Transition(At("CRLF", o), EQ) = At("CRLFEQ", o)
      <3>1. Classified("CRLF", EQ) = To("CRLFEQ", <<>>, "none")
        BY DEF Classified, EQ, LF, CR, DOT, Y
      <3>2. EQ \in Nat /\ "none" \in Ends
        BY DEF EQ, Ends
      <3> HIDE DEF EQ
      <3>3. Transition(At("CRLF", o), EQ) = [state |-> "CRLFEQ", out |-> o, end |-> "none"]
        BY <1>4, <3>1, <3>2, ReadsDropped
      <3> QED BY <3>3 DEF At
    <2>8. t[n + 1] = Transition(At("CRLF", o), s[n + 1])
      BY <1>8, <2>3, <2>6, <2>7
    <2>9. Outcome(SubSeq(s, n + 1, Len(s)), At("CRLF", o)) = Outcome(s, first)
      BY <1>4, <1>6, <2>3, <2>8
    <2> QED BY <2>2, <2>3, <2>5, <2>9
  <1>9. CASE st = "CRLF" /\ LineEndUnread(cx, p, o)
    <2>1. GivenBack(k) = 0
      BY <1>00, <1>9
    <2>2. n = p /\ q = "CRLF"
      BY <1>1, <1>9, <2>1
    <2>3. p + 2 = m /\ s[p + 1] = CR /\ t[p + 1] = At("CR", o)
      BY <1>2, <1>9 DEF LineEndUnread
    <2>4. p \in 0..Len(s) /\ 1 \in 0..Len(s)-p /\ p \in 0..p
      BY <1>1, <2>3
    <2>5. t[p].end = "none"
      BY <1>2, <1>3, <2>4 DEF Open
    <2>6. Transition(At("CRLF", o), CR) = At("CR", o)
      <3>1. CR \in Nat /\ CR \notin {DOT, EQ}
        BY DEF CR, DOT, EQ
      <3> QED BY <3>1, ReadsAsInLine, ReadsInLine
    <2>7. Outcome(SubSeq(s, p + 1, Len(s)), At("CRLF", o)) = Outcome(s, first)
      <3>1. t[p + 1] = (IF 1 = 0 THEN At("CRLF", o)
                                 ELSE Transition(At("CRLF", o), s[p + 1]))
        BY <2>3, <2>6
      <3>2. 1 \in {0, 1} /\ "CRLF" \in States
        BY <1>4
      <3> QED BY <1>6, <2>4, <3>1, <3>2, Zenon
    <2> QED BY <2>2, <2>4, <2>5, <2>7
  <1> QED BY <1>01, <1>2, <1>7, <1>8, <1>9 DEF Reaches

\* The text s begins within the terminator of an article: what came before it is in
\* the State st, and has the "." or the ".\r".
IsCutEnd(st, s) ==
  \/ st = "CRLFDTCR" /\ Len(s) >= 1 /\ s[1] = LF
  \/ st = "CRLFDT" /\ Len(s) >= 2 /\ s[1] = CR /\ s[2] = LF

\* A call that has met the end of the data: it is where the line parser goes on, if
\* all of it is in this piece, and it is unless the piece begins within it.
LEMMA PieceEnds ==
  ASSUME NEW cx, Context(cx), cx.upto > 0, NEW first \in Readings,
         cx.reads = Reading(cx.text, first),
         NEW k \in Config, k.pos <= cx.upto, k.end # "none", NEW o \in Seq(Byte),
         Reaches(cx, k.pos, k.state, o, k.end)
  PROVE  /\ KeptState(k) = k.state /\ k.state \in {"CRLF", "NONE"}
         /\ Leaves(k) >= 0 => /\ Leaves(k) \in 0..Len(cx.text)
                              /\ EndsAt(cx.text, cx.reads, Leaves(k), k.state, o)
         /\ Leaves(k) < 0 /\ ReadTo(cx, 0).state # "CRLFEQ" =>
              IsCutEnd(ReadTo(cx, 0).state, cx.text)
PROOF
  <1> DEFINE s == cx.text
             t == cx.reads
             m == cx.upto
             p == k.pos
             st == k.state
             e == k.end
             n == Leaves(k)
  <1>0. /\ s \in Seq(Nat) /\ m \in 1..Len(s) /\ t = Reading(s, first)
        /\ p \in 0..m /\ st \in States /\ e \in Ends \ {"none"}
        /\ n = p - GivenBack(k) /\ Reaches(cx, p, st, o, e)
        /\ cx.text = s /\ cx.reads = t /\ cx.upto = m
    BY DEF Config, Context, Leaves
  <1>00. GivenBack(k) = CASE e = "control" -> 2 [] e = "article" -> 3
                          [] OTHER -> GivenBack(k)
    BY DEF GivenBack, e
  <1>01. ReadTo(cx, 0).state = first.state
    <2>1. t[0] = first
      BY <1>0, ReadingFacts
    <2> QED BY <2>1 DEF ReadTo
  <1> HIDE DEF s, t, m, p, st, e, n
  <1> USE <1>0
  <1>1. p > 0 /\ Open(cx, p - 1) /\ t[p] = [state |-> st, out |-> o, end |-> e]
    BY DEF Reaches, ReadTo, Ends
  <1>2. /\ Len(s) \in Nat /\ p \in 1..Len(s) /\ p \in Nat /\ p <= Len(s)
        /\ p - 1 \in 0..(p - 1)
    BY <1>1
  <1>3. \A j \in 0..(p - 1) : t[j].end = "none"
    BY <1>1 DEF Open, ReadTo
  <1>4. t[p].end = e /\ t[p].state = st
    BY <1>1
  <1>5. e \in {"control", "article"}
    BY DEF Ends
  <1>8. /\ t[p].end = "control" =>
             /\ s[p] = Y /\ t[p].state = "NONE"
             /\ p = 1 => first.state = "CRLFEQ"
             /\ p > 1 => s[p - 1] = EQ
        /\ t[p].end = "article" =>
             /\ s[p] = LF /\ t[p].state = "CRLF"
             /\ p = 1 => first.state = "CRLFDTCR"
             /\ p > 1 => s[p - 1] = CR
             /\ p = 2 => first.state = "CRLFDT"
             /\ p > 2 => s[p - 2] = DOT
    BY <1>2, <1>3, EndInText, SMTT(30)
  <1>6. CASE e = "control"
    <2>1. GivenBack(k) = 2
      BY <1>00, <1>6
    <2>2. /\ s[p] = Y /\ st = "NONE"
          /\ p = 1 => first.state = "CRLFEQ"
          /\ p > 1 => s[p - 1] = EQ
      BY <1>4, <1>6, <1>8
    <2>3. n = p - 2
      BY <2>1
    <2>4. n >= 0 => /\ n \in 0..Len(s) /\ n + 2 = p /\ n + 1 = p - 1 /\ p > 1
      BY <1>2, <2>3
    <2>5. n >= 0 => EndsAt(s, t, n, st, o)
      BY <1>1, <1>2, <1>3, <1>6, <2>2, <2>4 DEF EndsAt
    <2>6. n < 0 => p = 1
      BY <1>2, <2>3
    <2> QED BY <1>01, <2>1, <2>2, <2>4, <2>5, <2>6 DEF KeptState, s, t, st, n
  <1>7. CASE e = "article"
    <2>1. GivenBack(k) = 3
      BY <1>00, <1>7
    <2>2. /\ s[p] = LF /\ st = "CRLF"
          /\ p = 1 => first.state = "CRLFDTCR"
          /\ p > 1 => s[p - 1] = CR
          /\ p = 2 => first.state = "CRLFDT"
          /\ p > 2 => s[p - 2] = DOT
      BY <1>4, <1>7, <1>8
    <2>3. n = p - 3
      BY <2>1
    <2>4. n >= 0 => /\ n \in 0..Len(s) /\ n + 3 = p /\ n + 2 = p - 1
                    /\ n + 1 = p - 2 /\ p > 1 /\ p > 2
      <3>1. p \in Nat /\ Len(s) \in Nat /\ p <= Len(s)
        BY <1>2
      <3> QED BY <2>3, <3>1, SMTT(30)
    <2>5. n >= 0 => EndsAt(s, t, n, st, o)
      BY <1>1, <1>2, <1>3, <1>7, <2>2, <2>4 DEF EndsAt
    <2>6. n < 0 => IsCutEnd(first.state, s)
      <3>1. n < 0 => p = 1 \/ p = 2
        BY <1>2, <2>3
      <3>2. p = 1 => first.state = "CRLFDTCR" /\ Len(s) >= 1 /\ s[1] = LF
        BY <1>2, <2>2
      <3>3. p = 2 => first.state = "CRLFDT" /\ Len(s) >= 2 /\ s[1] = CR /\ s[2] = LF
        <4>1. p = 2 => p > 1 /\ p - 1 = 1 /\ Len(s) >= 2
          BY <1>2
        <4> QED BY <2>2, <4>1
      <3> QED BY <3>1, <3>2, <3>3 DEF IsCutEnd
    <2> QED BY <1>01, <2>1, <2>2, <2>4, <2>5, <2>6 DEF KeptState, s, t, st, n
  <1> QED BY <1>5, <1>6, <1>7

\* A call of decodeYenc on the first m characters of s, which are read from first on.
LEMMA PieceReads ==
  ASSUME NEW s \in Seq(Nat), NEW m \in 1..Len(s),
         NEW st \in States, st # "CRLFEQ", NEW o \in Seq(Byte),
         NEW k, k = Decode(SubSeq(s, 1, m), st)
  PROVE  /\ k.end = "none" =>
              /\ Leaves(k) \in 0..Len(s) /\ KeptState(k) # "CRLFEQ"
              /\ Reading(s, At(st, o))[Leaves(k)].end = "none"
              /\ Outcome(SubSeq(s, Leaves(k) + 1, Len(s)), At(KeptState(k), o \o k.out))
                   = Outcome(s, At(st, o))
         /\ k.end # "none" =>
              /\ KeptState(k) \in {"CRLF", "NONE"}
              /\ Leaves(k) >= 0 =>
                   /\ Leaves(k) \in 0..Len(s)
                   /\ EndsAt(s, Reading(s, At(st, o)), Leaves(k), KeptState(k), o \o k.out)
         /\ Leaves(k) < 0 => IsCutEnd(st, s)
PROOF
  <1> DEFINE first == At(st, o)
             t == Reading(s, first)
             n == Leaves(k)
             q == KeptState(k)
             data == o \o k.out
  <1>0. /\ first = At(st, o) /\ t = Reading(s, first) /\ n = Leaves(k)
        /\ q = KeptState(k) /\ data = o \o k.out
    OBVIOUS
  <1>00. SUFFICES /\ k.end = "none" =>
                       /\ n \in 0..Len(s) /\ t[n].end = "none" /\ q # "CRLFEQ"
                       /\ Outcome(SubSeq(s, n + 1, Len(s)), At(q, data)) = Outcome(s, first)
                  /\ k.end # "none" =>
                       /\ q \in {"CRLF", "NONE"}
                       /\ n >= 0 => n \in 0..Len(s) /\ EndsAt(s, t, n, q, data)
                  /\ n < 0 => IsCutEnd(st, s)
    OBVIOUS
  <1> HIDE DEF first, t, n, q, data
  <1> USE <1>0
  <1> DEFINE cx == [text |-> s, reads |-> t, from |-> 0, upto |-> m, before |-> o]
  <1>1. /\ cx.text = s /\ cx.reads = t /\ cx.from = 0 /\ cx.upto = m
        /\ cx.before = o
    OBVIOUS
  <1>2. Len(s) \in Nat /\ m \in Nat /\ m <= Len(s) /\ m > 0
    OBVIOUS
  <1> HIDE DEF cx
  <1>3. first \in Readings /\ IsReading(s, t) /\ t[0] = At(st, o)
    BY ReadingIsReading DEF At, Readings, Ends
  <1>4. Context(cx)
    BY <1>1, <1>2, <1>3 DEF Context
  <1>5. Slice(cx) = SubSeq(s, 1, m)
    BY <1>1 DEF Slice
  <1>6. Begins(cx, cx.from, st, cx.before)
    <2>1. ReadTo(cx, 0) = At(st, o)
      BY <1>1, <1>3 DEF ReadTo
    <2>2. Open(cx, 0)
      <3>1. ReadTo(cx, 0).end = "none"
        BY <2>1 DEF At
      <3>2. \A j \in 0..0 : j = 0
        OBVIOUS
      <3> QED BY <3>1, <3>2 DEF Open
    <2> QED BY <1>1, <2>1, <2>2 DEF Begins
  <1>7. Reaches(cx, Pos(cx, k), k.state, Out(cx, k), k.end)
    BY <1>1, <1>2, <1>4, <1>5, <1>6, CallAgrees
  <1>8. SubSeq(s, 1, m) \in Seq(Nat) /\ Len(SubSeq(s, 1, m)) = m
    <2>1. 0 \in Nat /\ 0 <= m /\ 0 + 1 = 1 /\ m - 0 = m
      BY <1>2
    <2> QED BY <1>2, <2>1, SliceIsSeq
  <1>9. k \in Config /\ k.pos \in 0..m
    <2>1. Bounded(SubSeq(s, 1, m), k)
      BY <1>8, DecodeEnds
    <2> QED BY <1>2, <1>8, <2>1 DEF Bounded, Config
  <1>10. /\ k.pos \in Nat /\ k.out \in Seq(Byte) /\ k.state \in States /\ k.end \in Ends
    BY <1>9 DEF Config
  <1>11. Pos(cx, k) = k.pos /\ Out(cx, k) = data
    BY <1>1, <1>10 DEF Pos, Out
  <1>12. data \in Seq(Byte)
    BY <1>10, ConcatProperties
  <1>13. Reaches(cx, k.pos, k.state, data, k.end)
    BY <1>7, <1>11
  <1>14. ReadTo(cx, 0).state = st
    BY <1>1, <1>3 DEF At, ReadTo
  <1>15. cx.upto > 0 /\ k.pos <= cx.upto /\ cx.reads = Reading(cx.text, first)
    BY <1>1, <1>2, <1>9
  <1>16. ReadTo(cx, n) = t[n]
    BY <1>1 DEF ReadTo
  <1>17. CASE k.end = "none"
    <2>1. Reaches(cx, k.pos, k.state, data, "none")
      BY <1>13, <1>17
    <2>2. /\ n \in 0..Len(s) /\ ReadTo(cx, n).end = "none" /\ q # "CRLFEQ"
          /\ Outcome(SubSeq(s, n + 1, Len(s)), At(q, data)) = Outcome(s, first)
      <3>1. /\ Leaves(k) \in 0..Len(cx.text) /\ ReadTo(cx, Leaves(k)).end = "none"
            /\ KeptState(k) # "CRLFEQ"
            /\ Outcome(SubSeq(cx.text, Leaves(k) + 1, Len(cx.text)),
                       At(KeptState(k), data)) = Outcome(cx.text, first)
        BY <1>3, <1>4, <1>9, <1>12, <1>15, <1>17, <2>1, PieceGoesOn, ZenonT(30)
      <3> QED BY <1>1, <3>1
    <2>3. ~(n < 0)
      BY <1>2, <2>2
    <2> QED BY <1>16, <1>17, <2>2, <2>3
  <1>18. CASE k.end # "none"
    <2>1. /\ q = k.state /\ k.state \in {"CRLF", "NONE"}
          /\ n >= 0 => n \in 0..Len(s) /\ EndsAt(s, t, n, k.state, data)
          /\ n < 0 => IsCutEnd(st, s)
      <3>1. /\ KeptState(k) = k.state /\ k.state \in {"CRLF", "NONE"}
            /\ Leaves(k) >= 0 =>
                 /\ Leaves(k) \in 0..Len(cx.text)
                 /\ EndsAt(cx.text, cx.reads, Leaves(k), k.state, data)
            /\ Leaves(k) < 0 => IsCutEnd(st, cx.text)
        <4>1. KeptState(k) = k.state
          BY <1>3, <1>4, <1>9, <1>12, <1>13, <1>15, <1>18, PieceEnds
        <4>2. k.state \in {"CRLF", "NONE"}
          BY <1>3, <1>4, <1>9, <1>12, <1>13, <1>15, <1>18, PieceEnds
        <4>3. Leaves(k) >= 0 =>
                 /\ Leaves(k) \in 0..Len(cx.text)
                 /\ EndsAt(cx.text, cx.reads, Leaves(k), k.state, data)
          BY <1>3, <1>4, <1>9, <1>12, <1>13, <1>15, <1>18, PieceEnds
        <4>4. Leaves(k) < 0 /\ ReadTo(cx, 0).state # "CRLFEQ" =>
                 IsCutEnd(ReadTo(cx, 0).state, cx.text)
          BY <1>3, <1>4, <1>9, <1>12, <1>13, <1>15, <1>18, PieceEnds
        <4> QED BY <1>14, <4>1, <4>2, <4>3, <4>4
      <3> QED BY <1>1, <3>1
    <2> QED BY <1>14, <1>18, <2>1
  <1> QED BY <1>17, <1>18

-----------------------------------------------------------------------------
(* A piece of a yEnc body.                                                 *)

(***************************************************************************)
(* What holds of a Response between the steps of feed: a body begins only  *)
(* once the format is known, only a yEnc one allocates a buffer, with its  *)
(* first data, and the data fits in it.  A "=" that begins a line is given *)
(* back, so that no piece of a body begins behind it, and no body begins   *)
(* behind a "." that does.                                                 *)
(***************************************************************************)
Sound(r) ==
  /\ r.format = "unknown" => ~r.body /\ r.data = <<>>
  /\ r.format # "yenc" => r.cap = -1
  /\ r.format = "yenc" /\ r.cap = -1 => r.data = <<>>
  /\ r.cap # -1 => Len(r.data) <= r.cap
  /\ r.state # "CRLFEQ"
  /\ (r.format = "yenc" /\ r.body) \/ r.state \in {"CRLF", "NONE"}

\* The size the buffer is first made for is within its bounds.
LEMMA ExpectedIsNat ==
  ASSUME NEW r \in Responses
  PROVE  ExpectedSize(r) \in Nat
PROOF
  <1> DEFINE padded == Int64(AtMost(Declared(r), YencMaxPartSize) + SizeMargin)
             min == AtLeast(padded, YencMinBufferSize)
  <1>1. Declared(r) \in Int
    BY DEF Declared, Responses
  <1>2. padded \in Int
    BY <1>1, ResponseAssumption DEF Int64, AtMost
  <1> HIDE DEF padded
  <1>3. min \in Nat
    BY <1>2, ResponseAssumption DEF AtLeast
  <1> HIDE DEF min
  <1>4. AtMost(min, YencMaxPartSize) \in Nat
    BY <1>3, ResponseAssumption DEF AtMost
  <1> QED BY <1>4 DEF ExpectedSize, min, padded

\* ensureData leaves a buffer with room behind the data, and changes nothing else.
LEMMA DataBuffer ==
  ASSUME NEW r \in Responses, r.format = "yenc", Sound(r),
         NEW pooled \in Nat, NEW buf \in Seq(Nat), buf # <<>>
  PROVE  \E cap \in Nat : /\ WithData(r, buf, pooled) = [r EXCEPT !.cap = cap]
                          /\ Len(r.data) < cap
PROOF
  <1>1. r.data \in Seq(Byte) /\ Len(r.data) \in Nat /\ r.cap \in Nat \cup {-1}
    BY DEF Responses
  <1>2. "cap" \in DOMAIN r
    BY DEF Responses
  <1>3. PICK cap0 \in Nat : /\ Allocated(r, pooled) = [r EXCEPT !.cap = cap0]
                            /\ Len(r.data) <= cap0
    <2>1. CASE r.cap = -1
      <3> DEFINE cap == AtLeast(pooled, ExpectedSize(r))
      <3>1. cap \in Nat
        BY ExpectedIsNat DEF AtLeast
      <3>2. Allocated(r, pooled) = [r EXCEPT !.cap = cap]
        BY <2>1 DEF Allocated
      <3>3. Len(r.data) = 0
        BY <2>1 DEF Sound
      <3> HIDE DEF cap
      <3>4. Len(r.data) <= cap
        BY <3>1, <3>3
      <3> QED BY <3>1, <3>2, <3>4
    <2>2. CASE r.cap # -1
      <3>1. Allocated(r, pooled) = [r EXCEPT !.cap = r.cap]
        BY <2>2 DEF Allocated, Responses
      <3>2. r.cap \in Nat /\ Len(r.data) <= r.cap
        BY <1>1, <2>2 DEF Sound
      <3> QED BY <3>1, <3>2
    <2> QED BY <2>1, <2>2
  <1> DEFINE a == Allocated(r, pooled)
             need == Len(a.data) + Len(buf)
             grown == AtLeast(need, 2 * a.cap)
  <1>4. a.cap = cap0 /\ a.data = r.data
    BY <1>2, <1>3
  <1>5. CASE Space(a) > 0
    <2>1. WithData(r, buf, pooled) = a
      BY <1>5 DEF WithData
    <2>2. Len(r.data) < cap0
      BY <1>1, <1>4, <1>5 DEF Space
    <2> QED BY <1>3, <2>1, <2>2
  <1>6. CASE ~(Space(a) > 0)
    <2>1. WithData(r, buf, pooled) = [a EXCEPT !.cap = grown]
      BY <1>6 DEF WithData
    <2>2. grown \in Nat /\ Len(r.data) < grown
      <3>1. Len(buf) \in Nat /\ Len(buf) > 0
        OBVIOUS
      <3> QED BY <1>1, <1>4, <3>1 DEF AtLeast
    <2> HIDE DEF grown
    <2>3. [a EXCEPT !.cap = grown] = [r EXCEPT !.cap = grown]
      BY <1>2, <1>3
    <2> QED BY <2>1, <2>2, <2>3
  <1> QED BY <1>5, <1>6

\* A Response with the fields a piece of a body sets.
WithPiece(r, cap, data, st, inBody) ==
  [r EXCEPT !.cap = cap, !.data = data, !.state = st, !.body = inBody]

\* They have the types of the fields.
LEMMA PieceFields ==
  ASSUME NEW r \in Responses, NEW cap \in Nat, NEW data \in Seq(Byte),
         NEW st \in States, NEW inBody \in BOOLEAN
  PROVE  /\ WithPiece(r, cap, data, st, inBody) \in Responses
         /\ WithPiece(r, cap, data, st, inBody).format = r.format
         /\ WithPiece(r, cap, data, st, inBody).cap = cap
         /\ WithPiece(r, cap, data, st, inBody).data = data
         /\ WithPiece(r, cap, data, st, inBody).state = st
         /\ WithPiece(r, cap, data, st, inBody).body = inBody
PROOF BY DEF Responses, WithPiece

\* What has been given back is not more than was consumed and three characters.
LEMMA GivenBackBounds ==
  ASSUME NEW c \in Config
  PROVE  GivenBack(c) \in 0..3
PROOF BY DEF GivenBack

\* What decodeYenc does with a piece of a body: the kernel is called on the part of
\* it that there is room for, and what it returns is added to the data.
IsPiece(r, buf, d, cap, k) ==
  /\ \E m \in 1..Len(buf) : k = Decode(SubSeq(buf, 1, m), r.state) /\ k.pos <= m
  /\ r.data \o k.out \in Seq(Byte) /\ Len(r.data \o k.out) <= cap
  /\ d.resp = WithPiece(r, cap, r.data \o k.out, KeptState(k), k.end = "none")
  /\ d.n = Leaves(k)

\* This is what it does.
LEMMA YencPiece ==
  ASSUME NEW r \in Responses, r.format = "yenc", Sound(r),
         NEW buf \in Seq(Nat), buf # <<>>, NEW pooled \in Nat, NEW d,
         d = DecodeYenc(r, buf, pooled)
  PROVE  \E cap \in Nat, k \in Config : IsPiece(r, buf, d, cap, k)
PROOF
  <1>1. PICK cap \in Nat : /\ WithData(r, buf, pooled) = [r EXCEPT !.cap = cap]
                           /\ Len(r.data) < cap
    BY DataBuffer
  <1> DEFINE a == WithData(r, buf, pooled)
             m == AtMost(Space(a), Len(buf))
             src == SubSeq(buf, 1, m)
             k == Decode(src, r.state)
             data == r.data \o k.out
  <1>2. /\ a = [r EXCEPT !.cap = cap] /\ a.cap = cap /\ a.data = r.data
        /\ a.state = r.state
    <2>1. [r EXCEPT !.cap = cap].cap = cap /\ [r EXCEPT !.cap = cap].data = r.data
          /\ [r EXCEPT !.cap = cap].state = r.state
      BY DEF Responses
    <2> QED BY <1>1, <2>1
  <1>3. r.data \in Seq(Byte) /\ Len(r.data) \in Nat /\ r.state \in States
    BY DEF Responses
  <1>4. Len(buf) \in Nat /\ Len(buf) > 0
    OBVIOUS
  <1> HIDE DEF a
  <1>5. m \in 1..Len(buf) /\ m <= cap - Len(r.data)
    <2>1. Space(a) = cap - Len(r.data)
      BY <1>2 DEF Space
    <2> QED BY <1>1, <1>3, <1>4, <2>1 DEF AtMost
  <1>6. Decodable(a, buf) = src
    BY DEF Decodable
  <1> HIDE DEF m
  <1>7. src \in Seq(Nat) /\ Len(src) = m
    <2>1. 0 \in Nat /\ m \in Nat /\ 0 <= m /\ m <= Len(buf) /\ 0 + 1 = 1 /\ m - 0 = m
      BY <1>4, <1>5
    <2> QED BY <2>1, SliceIsSeq
  <1> HIDE DEF src
  <1>8. Bounded(src, k)
    BY <1>3, <1>7, DecodeEnds
  <1>9. d = Decoded(a, k)
    <2> DEFINE decoded == [c \in Config |-> Decoded(a, c)]
    <2>1. d = decoded[k]
      BY <1>2, <1>6 DEF DecodeYenc, a
    <2>2. decoded[k] = Decoded(a, k)
      BY <1>8 DEF Bounded
    <2> QED BY <2>1, <2>2
  <1>10. /\ k = Decode(SubSeq(buf, 1, m), r.state)
         /\ data = r.data \o k.out
    BY DEF src
  <1> HIDE DEF k
  <1>11. k \in Config /\ k.pos \in Nat /\ k.pos <= m
         /\ k.out \in Seq(Byte) /\ Len(k.out) \in Nat /\ Len(k.out) <= k.pos
    BY <1>7, <1>8 DEF Bounded, Config
  <1>12. data \in Seq(Byte) /\ Len(data) = Len(r.data) + Len(k.out)
    BY <1>3, <1>11, ConcatProperties
  <1>13. d.resp = WithPiece(r, cap, data, KeptState(k), k.end = "none")
    BY <1>2, <1>9 DEF Decoded, WithPiece, KeptState
  <1>14. d.n = Leaves(k)
    BY <1>9 DEF Decoded, Leaves
  <1> HIDE DEF data
  <1>15. Len(data) <= cap
    <2> DEFINE x == Len(r.data)
               y == Len(k.out)
               z == k.pos
    <2>1. x \in Nat /\ y \in Nat /\ z \in Nat /\ m \in Nat /\ cap \in Nat
          /\ y <= z /\ z <= m /\ m <= cap - x /\ Len(data) = x + y
      BY <1>3, <1>4, <1>5, <1>11, <1>12
    <2> HIDE DEF x, y, z
    <2> QED BY <2>1
  <1>16. \E c \in 1..Len(buf) : k = Decode(SubSeq(buf, 1, c), r.state) /\ k.pos <= c
    BY <1>5, <1>10, <1>11
  <1>17. IsPiece(r, buf, d, cap, k)
    BY <1>10, <1>12, <1>13, <1>14, <1>15, <1>16 DEF IsPiece
  <1> QED BY <1>11, <1>17

\* Its bytes fit the buffer, and at most the piece itself has been consumed, less
\* what is given back to the line parser; of what came before it, only the beginning of
\* a terminator.
LEMMA YencResponse ==
  ASSUME NEW r \in Responses, r.format = "yenc", r.body, Sound(r),
         NEW buf \in Seq(Nat), NEW pooled \in Nat, NEW d,
         d = DecodeYenc(r, buf, pooled)
  PROVE  /\ d.resp \in Responses /\ d.resp.format = "yenc" /\ Sound(d.resp)
         /\ d.n \in Int /\ -3 <= d.n /\ d.n <= Len(buf)
         /\ d.n < 0 => IsCutEnd(r.state, buf)
         /\ d.resp.body => d.n >= 0
PROOF
  <1>1. CASE buf = <<>>
    <2>1. d = [resp |-> r, n |-> 0]
      BY <1>1 DEF DecodeYenc
    <2> QED BY <1>1, <2>1
  <1>2. CASE buf # <<>>
    <2>1. PICK cap \in Nat, k \in Config : IsPiece(r, buf, d, cap, k)
      BY <1>2, YencPiece
    <2>2. PICK m \in 1..Len(buf) : k = Decode(SubSeq(buf, 1, m), r.state) /\ k.pos <= m
      BY <2>1 DEF IsPiece
    <2> DEFINE data == r.data \o k.out
               st == KeptState(k)
               inBody == k.end = "none"
               n == Leaves(k)
    <2>3. /\ k.pos \in Nat /\ k.state \in States
      BY DEF Config
    <2>4. st \in States /\ inBody \in BOOLEAN /\ data \in Seq(Byte) /\ Len(data) <= cap
      BY <2>1, <2>3 DEF KeptState, States, IsPiece
    <2>5. r.state \in States /\ r.state # "CRLFEQ" /\ r.data \in Seq(Byte)
      BY DEF Responses, Sound
    <2>6. /\ inBody => n \in 0..Len(buf) /\ st # "CRLFEQ"
          /\ ~inBody => st \in {"CRLF", "NONE"}
          /\ n < 0 => IsCutEnd(r.state, buf)
      BY <2>2, <2>5, PieceReads
    <2>7. n \in Int /\ -3 <= n /\ n <= Len(buf)
      <3>1. GivenBack(k) \in 0..3
        BY GivenBackBounds
      <3> QED BY <2>2, <2>3, <3>1 DEF Leaves
    <2>8. d.resp = WithPiece(r, cap, data, st, inBody) /\ d.n = n
      BY <2>1 DEF IsPiece
    <2> HIDE DEF data, st, inBody, n
    <2>9. /\ d.resp \in Responses
          /\ d.resp.format = "yenc" /\ d.resp.cap = cap /\ d.resp.data = data
          /\ d.resp.state = st /\ d.resp.body = inBody
      BY <2>4, <2>8, PieceFields
    <2>10. Sound(d.resp)
      BY <2>4, <2>6, <2>9 DEF Sound
    <2>11. inBody => n >= 0
      BY <2>6
    <2> QED BY <2>6, <2>7, <2>8, <2>9, <2>10, <2>11
  <1> QED BY <1>1, <1>2

-----------------------------------------------------------------------------
(* What a line leaves.                                                     *)

\* A Response of a new call holds nothing.
LEMMA NewSound ==
  ASSUME NEW b \in BOOLEAN
  PROVE  NewResponse(b) \in Responses /\ Sound(NewResponse(b))
PROOF
  <1>1. NewResponse(b) \in Responses
    <2>1. FALSE \in BOOLEAN /\ "CRLF" \in States /\ 0 \in Codes
      BY DEF States, Codes
    <2> QED BY <2>1 DEF NewResponse, Responses
  <1>2. Sound(NewResponse(b))
    BY DEF NewResponse, Sound
  <1> QED BY <1>1, <1>2

\* The line in which a format is found, or is not.
LEMMA DetectSound ==
  ASSUME NEW r \in Responses, Sound(r), r.format = "unknown", NEW line
  PROVE  /\ Sound(DetectFormat(r, line))
         /\ DetectFormat(r, line).format = "yenc" => ~DetectFormat(r, line).body
PROOF
  <1> DEFINE q == DetectFormat(r, line)
  <1>1. /\ q \in Responses /\ q.data = r.data /\ q.cap = r.cap /\ q.state = r.state
        /\ q.format # "uu" => q.body = r.body
    BY DetectResponse
  <1> HIDE DEF q
  <1>2. r.cap = -1 /\ r.data = <<>> /\ ~r.body /\ r.state \in {"CRLF", "NONE"}
    BY DEF Sound
  <1>3. q.format \in {"unknown", "yenc", "uu"}
    BY <1>1 DEF Responses
  <1>4. Sound(q) /\ (q.format = "yenc" => ~q.body)
    BY <1>1, <1>2, <1>3 DEF Sound
  <1> QED BY <1>4 DEF q

\* A line of text is counted.
LEMMA TextSound ==
  ASSUME NEW r \in Responses, Sound(r)
  PROVE  /\ [r EXCEPT !.lines = @ + 1] \in Responses
         /\ Sound([r EXCEPT !.lines = @ + 1])
         /\ [r EXCEPT !.lines = @ + 1].format = r.format
PROOF
  <1> DEFINE n == r.lines + 1
             q == [r EXCEPT !.lines = n]
  <1>1. n \in Nat
    BY DEF Responses
  <1> HIDE DEF n
  <1>2. q \in Responses
    BY <1>1 DEF Responses
  <1>3. /\ q.format = r.format /\ q.body = r.body /\ q.data = r.data /\ q.cap = r.cap
        /\ q.state = r.state
    BY DEF Responses
  <1> HIDE DEF q
  <1>4. Sound(q)
    BY <1>3 DEF Sound
  <1> QED BY <1>2, <1>3, <1>4 DEF q, n

\* The status line comes before any data.
LEMMA StatusSound ==
  ASSUME NEW r \in Responses, Sound(r), NEW line \in Seq(Characters)
  PROVE  Sound(StatusLine(r, line))
PROOF
  <1> DEFINE q == StatusLine(r, line)
  <1>1. /\ q.format = r.format /\ q.body = r.body /\ q.data = r.data /\ q.cap = r.cap
        /\ q.state = r.state
    BY StatusResponse
  <1> HIDE DEF q
  <1>2. Sound(q)
    BY <1>1 DEF Sound
  <1> QED BY <1>2 DEF q

\* UU data is not held in a buffer of the pool.
LEMMA UUSound ==
  ASSUME NEW r \in Responses, Sound(r), r.format = "uu", NEW line \in Seq(Characters)
  PROVE  Sound(DecodeUU(r, line))
PROOF
  <1> DEFINE q == DecodeUU(r, line)
  <1>1. q.format = "uu" /\ q.cap = r.cap /\ q.state = r.state
    BY UUResponse
  <1> HIDE DEF q
  <1>2. r.cap = -1 /\ r.state \in {"CRLF", "NONE"}
    BY DEF Sound
  <1>3. Sound(q)
    BY <1>1, <1>2 DEF Sound
  <1> QED BY <1>3 DEF q

\* A header leaves the data alone.
LEMMA HeaderSound ==
  ASSUME NEW r \in Responses, Sound(r), r.format = "yenc", ~r.body,
         NEW line \in Seq(Characters)
  PROVE  Sound(ProcessYencHeader(r, line))
PROOF
  <1> DEFINE q == ProcessYencHeader(r, line)
  <1>1. Kept(r, q)
    BY HeaderResponse
  <1> HIDE DEF q
  <1>2. Sound(q)
    BY <1>1 DEF Sound, Kept
  <1> QED BY <1>2 DEF q

-----------------------------------------------------------------------------
(* The invariant: what the decoder does with its buffer.                   *)

\* Where a call is: feed runs inside of feedUntilDone, and the caller gets an
\* answer for each call it makes.
Places ==
  /\ pc = "idle" <=> stage \in {"none", "answer"}
  /\ stage \in {"lines", "return", "panic"} => pc = "feed"
  /\ stage = "feed" => read = 0
  /\ stage # "none" => Len(answers) < Len(stream.answers)

(***************************************************************************)
(* The inductive invariant.  The buffer holds a part of the stream that    *)
(* the reader has delivered, feed stays within the window, and lines of a  *)
(* yEnc response are read only outside of its body: so a header that       *)
(* begins a body is a line of its own, which DecodeYenc cannot give back.  *)
(***************************************************************************)
DInv ==
  /\ IInv /\ TypeOK
  /\ received <= Len(input)
  /\ Places
  /\ Sound(resp)
  /\ stage = "lines" /\ resp.format = "yenc" => ~resp.body

\* The line ends in the window leave a line, and what follows it.
LEMMA CutParts ==
  ASSUME NEW s \in Seq(Characters), NEW cut \in Cuts(s)
  PROVE  /\ cut.line \in Seq(Characters) /\ cut.after \in Seq(Characters)
         /\ Len(cut.line) + 2 + Len(cut.after) = Len(s)
PROOF
  <1>1. PICK i \in 1..Len(s)-1 :
          cut = [line |-> SubSeq(s, 1, i - 1), after |-> SubSeq(s, i + 2, Len(s))]
    BY DEF Cuts, FirstLineEnds
  <1> DEFINE line == SubSeq(s, 1, i - 1)
             after == SubSeq(s, i + 2, Len(s))
  <1>2. line \in Seq(Characters) /\ Len(line) = i - 1
    <2>1. \A j \in 1..i-1 : s[j] \in Characters
      OBVIOUS
    <2> QED BY <2>1, SubSeqProperties
  <1>3. after \in Seq(Characters) /\ Len(after) = Len(s) - i - 1
    <2>1. \A j \in i+2..Len(s) : s[j] \in Characters
      OBVIOUS
    <2>2. i + 2 \in Int /\ Len(s) \in Int
      OBVIOUS
    <2> QED BY <2>1, <2>2, SubSeqProperties
  <1>4. cut.line = line /\ cut.after = after
    BY <1>1
  <1> HIDE DEF line, after
  <1> QED BY <1>2, <1>3, <1>4, SMTT(30)

\* The window is the part of the stream that the buffer holds.
LEMMA WindowOfStream ==
  ASSUME DInv
  PROVE  /\ Window \in Seq(Characters) /\ Len(Window) = Pending(rb)
         /\ \A i \in 1..Pending(rb) : Window[i] = input[delivered + i]
         /\ Pending(rb) \in Nat /\ delivered \in Nat
         /\ received = delivered + Pending(rb) /\ received <= Len(input)
         /\ input \in Seq(Characters)
PROOF
  <1>1. /\ IsBuffer(rb) /\ HoldsFrom(rb, delivered)
        /\ received \in Nat /\ delivered \in Nat
        /\ received = delivered + Pending(rb) /\ received <= Len(input)
    BY DEF DInv, IInv, RBTypeOK, WindowIsStream
  <1>2. Pending(rb) \in Nat
    BY <1>1 DEF IsBuffer, Pending
  <1>3. input \in Seq(Characters)
    BY DecoderAssumption DEF DInv, TypeOK, input
  <1>4. \A i \in 1..Pending(rb) :
          /\ rb.buf[rb.start + i - 1] = delivered + i
          /\ delivered + i \in 1..Len(input)
    <2> SUFFICES ASSUME NEW i \in 1..Pending(rb)
                 PROVE  /\ rb.buf[rb.start + i - 1] = delivered + i
                        /\ delivered + i \in 1..Len(input)
      OBVIOUS
    <2>1. i - 1 \in 0..Pending(rb)-1
      BY <1>2
    <2>2. rb.buf[rb.start + (i - 1)] = delivered + (i - 1) + 1
      BY <1>1, <2>1 DEF HoldsFrom
    <2>3. rb.start + (i - 1) = rb.start + i - 1 /\ delivered + (i - 1) + 1 = delivered + i
      BY <1>1 DEF IsBuffer
    <2>4. delivered + i \in 1..Len(input)
      BY <1>1, <1>2, <1>3
    <2> QED BY <2>2, <2>3, <2>4
  <1> DEFINE w == [i \in 1..Pending(rb) |-> input[delivered + i]]
  <1>5. Window = w
    BY <1>4 DEF Window
  <1>6. w \in Seq(Characters) /\ Len(w) = Pending(rb)
    BY <1>2, <1>3, <1>4
  <1> QED BY <1>1, <1>2, <1>3, <1>5, <1>6

\* A line that is read is in the window, with what follows it.
LEMMA LineOfWindow ==
  ASSUME DInv, stage = "lines", NEW cut \in Cuts(Rest)
  PROVE  /\ cut.line \in Seq(Characters) /\ cut.after \in Seq(Nat)
         /\ Len(cut.line) \in Nat /\ Len(cut.after) \in Nat
         /\ read + Len(cut.line) + 2 + Len(cut.after) = Pending(rb)
         /\ read \in Nat
PROOF
  <1>1. Window \in Seq(Characters) /\ Len(Window) = Pending(rb)
        /\ Pending(rb) \in Nat
    BY WindowOfStream
  <1>2. read \in 0..Pending(rb)
    BY DEF DInv, TypeOK
  <1>3. Rest \in Seq(Characters) /\ Len(Rest) = Pending(rb) - read
    <2>1. Rest = SubSeq(Window, read + 1, Pending(rb))
      BY <1>1 DEF Rest
    <2>2. \A j \in read+1..Pending(rb) : Window[j] \in Characters
      BY <1>1, <1>2
    <2>3. read + 1 \in Int /\ Pending(rb) \in Int
      BY <1>1, <1>2
    <2>4. Pending(rb) - (read + 1) + 1 = Pending(rb) - read
          /\ (read + 1 > Pending(rb) => Pending(rb) - read = 0)
      BY <1>1, <1>2
    <2> HIDE DEF Window, Rest
    <2>5. /\ SubSeq(Window, read + 1, Pending(rb)) \in Seq(Characters)
          /\ Len(SubSeq(Window, read + 1, Pending(rb))) =
               IF read + 1 <= Pending(rb) THEN Pending(rb) - (read + 1) + 1 ELSE 0
      BY <2>2, <2>3, SubSeqProperties, Zenon
    <2> QED BY <1>1, <1>2, <2>1, <2>4, <2>5
  <1>4. /\ cut.line \in Seq(Characters) /\ cut.after \in Seq(Characters)
        /\ Len(cut.line) + 2 + Len(cut.after) = Len(Rest)
    BY <1>3, CutParts
  <1>5. Len(cut.line) \in Nat /\ Len(cut.after) \in Nat
    BY <1>4
  <1>6. cut.after \in Seq(Nat)
    BY <1>4, CharactersAreNat, SeqMonotonic, Zenon
  <1> DEFINE n == Len(cut.line)
             m == Len(cut.after)
  <1>7. n + 2 + m = Pending(rb) - read /\ n \in Nat /\ m \in Nat
    BY <1>3, <1>4, <1>5
  <1> HIDE DEF n, m
  <1>8. read + n + 2 + m = Pending(rb) /\ read \in Nat
    BY <1>1, <1>2, <1>7
  <1> QED BY <1>4, <1>5, <1>6, <1>8 DEF n, m

-----------------------------------------------------------------------------
(* The steps of feed.                                                      *)

\* A step of feed leaves the buffer alone.
LEMMA ParsingStep ==
  ASSUME DInv, pc = "feed", UNCHANGED <<rbVars, stream, answers>>,
         stage' \in {"lines", "return", "panic"},
         read' \in Int,
         stage' \in {"lines", "return"} => read' \in 0..Pending(rb),
         resp' \in Responses, Sound(resp)',
         stage' = "lines" /\ resp'.format = "yenc" => ~resp'.body
  PROVE  DInv'
PROOF
  <1>1. /\ IInv /\ RBTypeOK /\ stream \in Streams /\ received <= Len(input)
        /\ answers \in Seq(Answers) /\ Len(answers) <= Len(stream.answers)
        /\ Len(answers) < Len(stream.answers)
    BY DEF DInv, TypeOK, Places
  <1>2. /\ rb' = rb /\ received' = received /\ delivered' = delivered
        /\ pc' = pc /\ outcome' = outcome /\ stream' = stream /\ answers' = answers
    BY DEF rbVars
  <1>3. IInv' /\ RBTypeOK' /\ Pending(rb)' = Pending(rb) /\ input' = input
    BY <1>1, <1>2
    DEF IInv, RBTypeOK, WindowIsStream, ReaderHasRoom, GivesUpOnlyWhenFull, input
  <1>4. stage' \in Stages /\ stage' \notin {"none", "answer", "feed"}
    BY DEF Stages
  <1>5. TypeOK'
    BY <1>1, <1>2, <1>3, <1>4 DEF TypeOK
  <1>6. Places'
    BY <1>1, <1>2, <1>4 DEF Places
  <1> QED BY <1>1, <1>2, <1>3, <1>5, <1>6 DEF DInv

\* A call of feed begins.
LEMMA FeedSteps ==
  ASSUME DInv, FeedBody \/ FeedLines
  PROVE  DInv'
PROOF
  <1>1. /\ resp \in Responses /\ Sound(resp) /\ Pending(rb) \in Nat
        /\ Window \in Seq(Nat) /\ Len(Window) = Pending(rb)
    <2>1. Window \in Seq(Characters) /\ Len(Window) = Pending(rb)
          /\ Pending(rb) \in Nat
      BY WindowOfStream
    <2>2. Window \in Seq(Nat)
      BY <2>1, CharactersAreNat, SeqMonotonic, Zenon
    <2> QED BY <2>1, <2>2 DEF DInv, TypeOK
  <1>2. CASE FeedBody
    <2>1. pc = "feed" /\ UNCHANGED <<rbVars, stream, answers>>
          /\ resp.format = "yenc" /\ resp.body
      BY <1>2 DEF FeedBody, Parsing
    <2>2. PICK pooled \in PoolCaps : \E d \in {DecodeYenc(resp, Window, pooled)} :
            /\ resp' = d.resp
            /\ read' = d.n
            /\ stage' = CASE d.n < 0 -> "panic"
                          [] d.n >= 0 /\ d.resp.body -> "return"
                          [] OTHER -> "lines"
      BY <1>2 DEF FeedBody
    <2>3. PICK d : /\ d = DecodeYenc(resp, Window, pooled)
                   /\ resp' = d.resp
                   /\ read' = d.n
                   /\ stage' = CASE d.n < 0 -> "panic"
                                 [] d.n >= 0 /\ d.resp.body -> "return"
                                 [] OTHER -> "lines"
      BY <2>2
    <2>4. pooled \in Nat
      BY DecoderAssumption
    <2>5. /\ d.resp \in Responses /\ Sound(d.resp)
          /\ d.n \in Int /\ d.n <= Len(Window)
      BY <1>1, <2>1, <2>3, <2>4, YencResponse
    <2>6. resp' \in Responses /\ Sound(resp') /\ read' \in Int /\ read' <= Pending(rb)
      BY <1>1, <2>3, <2>5
    <2>7. stage' = CASE read' < 0 -> "panic"
                     [] read' >= 0 /\ resp'.body -> "return"
                     [] OTHER -> "lines"
      BY <2>3
    <2>8. \/ stage' = "panic"
          \/ stage' = "return" /\ read' >= 0
          \/ stage' = "lines" /\ read' >= 0 /\ ~resp'.body
      BY <2>6, <2>7
    <2>9. stage' \in {"lines", "return"} => read' \in 0..Pending(rb)
      BY <1>1, <2>6, <2>8
    <2> QED BY <2>1, <2>6, <2>8, <2>9, ParsingStep
  <1>3. CASE FeedLines
    <2>1. /\ pc = "feed" /\ UNCHANGED <<rbVars, stream, answers>>
          /\ stage' = IF resp.body THEN "return" ELSE "lines"
          /\ read' = 0 /\ resp' = resp
      BY <1>3 DEF FeedLines, Parsing
    <2>2. read' \in Int /\ read' \in 0..Pending(rb)
      BY <1>1, <2>1
    <2>3. resp' \in Responses /\ Sound(resp')
      BY <1>1, <2>1
    <2>4. stage' \in {"lines", "return", "panic"} /\ (stage' = "lines" => ~resp'.body)
      BY <2>1
    <2> QED BY <2>1, <2>2, <2>3, <2>4, ParsingStep
  <1> QED BY <1>2, <1>3

\* A line is read that begins no body.
LEMMA LineStep ==
  ASSUME DInv, NEW cut \in Cuts(Rest), ReadLine(cut.line, 0),
         UNCHANGED <<rbVars, stream, answers>>,
         stage' \in {"lines", "return", "panic"},
         resp' \in Responses, Sound(resp)',
         stage' = "lines" /\ resp'.format = "yenc" => ~resp'.body
  PROVE  DInv'
PROOF
  <1> DEFINE n == Len(cut.line)
             m == Len(cut.after)
  <1>1. pc = "feed" /\ stage = "lines" /\ read' = read + n + 2 + 0
    BY DEF ReadLine, Parsing
  <1>2. /\ n \in Nat /\ m \in Nat /\ read \in Nat
        /\ read + n + 2 + m = Pending(rb)
    BY <1>1, LineOfWindow
  <1> HIDE DEF n, m
  <1>3. read' \in Int /\ read' \in 0..Pending(rb)
    BY <1>1, <1>2
  <1> QED BY <1>1, <1>3, ParsingStep

\* What a line that is neither the status nor the terminator leaves of the
\* Response when the format has been looked for in it.
LEMMA DetectedSound ==
  ASSUME DInv, stage = "lines", NEW line
  PROVE  /\ Detected(line) \in Responses /\ Sound(Detected(line))
         /\ Detected(line).format = "yenc" => ~Detected(line).body
PROOF
  <1>1. resp \in Responses /\ Sound(resp)
        /\ (resp.format = "yenc" => ~resp.body)
    BY DEF DInv, TypeOK
  <1>2. CASE resp.format = "unknown"
    BY <1>1, <1>2, DetectResponse, DetectSound DEF Detected
  <1>3. CASE resp.format # "unknown"
    BY <1>1, <1>3 DEF Detected
  <1> QED BY <1>2, <1>3

\* The lines outside of a yEnc body.
LEMMA LineSteps ==
  ASSUME DInv,
         \/ NoLine \/ Terminator \/ ReadStatusLine
         \/ TextLine \/ UULine \/ YencLine
  PROVE  DInv'
PROOF
  <1>1. resp \in Responses /\ Sound(resp)
        /\ (stage = "lines" /\ resp.format = "yenc" => ~resp.body)
        /\ (stage = "lines" => read \in 0..Pending(rb)) /\ read \in Int
    BY DEF DInv, TypeOK
  <1>2. CASE NoLine
    <2>1. /\ pc = "feed" /\ UNCHANGED <<rbVars, stream, answers>>
          /\ stage = "lines" /\ stage' = "return" /\ read' = read /\ resp' = resp
      BY <1>2 DEF NoLine, Parsing
    <2> QED BY <1>1, <2>1, ParsingStep
  <1>3. CASE Terminator
    <2>1. PICK cut \in Cuts(Rest) :
            /\ ReadLine(cut.line, 0)
            /\ resp' = [resp EXCEPT !.eof = TRUE]
            /\ stage' = "return"
      BY <1>3 DEF Terminator
    <2>2. UNCHANGED <<rbVars, stream, answers>>
      BY <2>1 DEF ReadLine, Parsing
    <2>3. resp' \in Responses /\ Sound(resp)'
      <3> DEFINE yes == TRUE
                 q == [resp EXCEPT !.eof = yes]
      <3>1. yes \in BOOLEAN
        OBVIOUS
      <3> HIDE DEF yes
      <3>2. q \in Responses
        BY <1>1, <3>1 DEF Responses
      <3>3. q.format = resp.format /\ q.body = resp.body
            /\ q.data = resp.data /\ q.cap = resp.cap /\ q.state = resp.state
        BY <1>1 DEF Responses
      <3>4. resp' = q
        BY <2>1 DEF yes
      <3> HIDE DEF q
      <3>5. Sound(q)
        BY <1>1, <3>3 DEF Sound
      <3> QED BY <3>2, <3>4, <3>5
    <2> QED BY <2>1, <2>2, <2>3, LineStep
  <1>4. CASE ReadStatusLine
    <2>1. PICK cut \in Cuts(Rest) :
            /\ ReadLine(cut.line, 0) /\ IsStatusLine(cut.line)
            /\ resp' = StatusLine(resp, cut.line)
            /\ stage' = IF resp'.eof THEN "return" ELSE "lines"
      BY <1>4 DEF ReadStatusLine
    <2>2. UNCHANGED <<rbVars, stream, answers>> /\ stage = "lines"
      BY <2>1 DEF ReadLine, Parsing
    <2>3. cut.line \in Seq(Characters)
      BY <2>2, LineOfWindow
    <2>4. resp' \in Responses /\ Sound(resp)' /\ resp'.format = resp.format
      BY <1>1, <2>1, <2>3, StatusResponse, StatusSound
    <2>5. resp.format = "unknown"
      BY <2>1 DEF IsStatusLine
    <2>6. stage' \in {"lines", "return", "panic"}
      BY <2>1
    <2> QED BY <2>1, <2>2, <2>4, <2>5, <2>6, LineStep
  <1>5. CASE TextLine
    <2>1. PICK cut \in Cuts(Rest) :
            /\ ReadLine(cut.line, 0) /\ IsOtherLine(cut.line, "unknown")
            /\ resp' = [Detected(cut.line) EXCEPT !.lines = @ + 1]
            /\ stage' = IF DetectPanics(resp, cut.line) THEN "panic" ELSE stage
      BY <1>5 DEF TextLine
    <2>2. UNCHANGED <<rbVars, stream, answers>> /\ stage = "lines"
      BY <2>1 DEF ReadLine, Parsing
    <2> DEFINE r == Detected(cut.line)
    <2>3. r \in Responses /\ Sound(r) /\ r.format = "unknown"
      BY <2>1, <2>2, DetectedSound DEF IsOtherLine
    <2>4. resp' = [r EXCEPT !.lines = @ + 1]
      BY <2>1
    <2> HIDE DEF r
    <2>5. resp' \in Responses /\ Sound(resp)' /\ resp'.format = "unknown"
      BY <2>3, <2>4, TextSound
    <2>6. stage' \in {"lines", "return", "panic"}
      BY <2>1, <2>2
    <2> QED BY <2>1, <2>2, <2>5, <2>6, LineStep
  <1>6. CASE UULine
    <2>1. PICK cut \in Cuts(Rest) :
            /\ ReadLine(cut.line, 0) /\ IsOtherLine(cut.line, "uu")
            /\ resp' = DecodeUU(Detected(cut.line), cut.line)
            /\ stage' = stage
      BY <1>6 DEF UULine
    <2>2. UNCHANGED <<rbVars, stream, answers>> /\ stage = "lines"
      BY <2>1 DEF ReadLine, Parsing
    <2>3. cut.line \in Seq(Characters)
      BY <2>2, LineOfWindow
    <2> DEFINE r == Detected(cut.line)
    <2>4. r \in Responses /\ Sound(r) /\ r.format = "uu"
      BY <2>1, <2>2, DetectedSound DEF IsOtherLine
    <2>5. resp' = DecodeUU(r, cut.line)
      BY <2>1
    <2> HIDE DEF r
    <2>6. resp' \in Responses /\ Sound(resp)' /\ resp'.format = "uu"
      BY <2>3, <2>4, <2>5, UUResponse, UUSound
    <2> QED BY <2>1, <2>2, <2>6, LineStep
  <1>7. CASE YencLine
    <2>1. PICK cut \in Cuts(Rest) :
            /\ ReadLine(cut.line, 0) /\ IsOtherLine(cut.line, "yenc")
            /\ resp' = ProcessYencHeader(Detected(cut.line), cut.line)
            /\ ~resp'.body
            /\ stage' = stage
      BY <1>7 DEF YencLine
    <2>2. UNCHANGED <<rbVars, stream, answers>> /\ stage = "lines"
      BY <2>1 DEF ReadLine, Parsing
    <2>3. cut.line \in Seq(Characters)
      BY <2>2, LineOfWindow
    <2> DEFINE r == Detected(cut.line)
    <2>4. r \in Responses /\ Sound(r) /\ r.format = "yenc" /\ ~r.body
      BY <2>1, <2>2, DetectedSound DEF IsOtherLine
    <2>5. resp' = ProcessYencHeader(r, cut.line)
      BY <2>1
    <2> HIDE DEF r
    <2>6. resp' \in Responses /\ Sound(resp)'
      BY <2>3, <2>4, <2>5, HeaderResponse, HeaderSound
    <2> QED BY <2>1, <2>2, <2>6, LineStep
  <1> QED BY <1>2, <1>3, <1>4, <1>5, <1>6, <1>7

\* The header that begins a body, and the body in the rest of the window.
LEMMA BodyStep ==
  ASSUME DInv, YencBody
  PROVE  DInv'
PROOF
  <1>1. PICK cut \in Cuts(Rest) :
          /\ IsOtherLine(cut.line, "yenc")
          /\ \E q \in {ProcessYencHeader(Detected(cut.line), cut.line)} :
               /\ q.body
               /\ \E e \in {DecodeYenc(q, cut.after, pooled) : pooled \in PoolCaps} :
                    /\ ReadLine(cut.line, e.n)
                    /\ resp' = e.resp
                    /\ stage' = IF e.resp.body THEN "return" ELSE "lines"
    BY DEF YencBody
  <1> DEFINE r == ProcessYencHeader(Detected(cut.line), cut.line)
  <1>2. PICK pooled \in PoolCaps : \E d \in {DecodeYenc(r, cut.after, pooled)} :
          /\ ReadLine(cut.line, d.n)
          /\ resp' = d.resp
          /\ stage' = IF d.resp.body THEN "return" ELSE "lines"
    BY <1>1
  <1> DEFINE d == DecodeYenc(r, cut.after, pooled)
  <1>3. /\ IsOtherLine(cut.line, "yenc")
        /\ r = ProcessYencHeader(Detected(cut.line), cut.line)
        /\ r.body
        /\ d = DecodeYenc(r, cut.after, pooled)
        /\ ReadLine(cut.line, d.n)
        /\ resp' = d.resp
        /\ stage' = IF d.resp.body THEN "return" ELSE "lines"
    BY <1>1, <1>2
  <1> HIDE DEF r, d
  <1>4. /\ UNCHANGED <<rbVars, stream, answers>> /\ stage = "lines" /\ pc = "feed"
        /\ read' = read + Len(cut.line) + 2 + d.n
    BY <1>3 DEF ReadLine, Parsing
  <1>5. /\ cut.line \in Seq(Characters) /\ cut.after \in Seq(Nat)
        /\ Len(cut.line) \in Nat /\ Len(cut.after) \in Nat
        /\ read + Len(cut.line) + 2 + Len(cut.after) = Pending(rb)
        /\ read \in Nat
    BY <1>4, LineOfWindow
  <1> DEFINE q == Detected(cut.line)
  <1>6. q \in Responses /\ Sound(q) /\ q.format = "yenc" /\ ~q.body
    BY <1>3, <1>4, DetectedSound DEF IsOtherLine
  <1>7. r = ProcessYencHeader(q, cut.line)
    BY <1>3
  <1> HIDE DEF q
  <1>8. /\ r \in Responses /\ Sound(r) /\ r.format = "yenc"
        /\ Len(cut.line) = 3
    <2>1. r \in Responses /\ Kept(q, r) /\ (r.body /\ ~q.body => Len(cut.line) = 3)
      BY <1>5, <1>6, <1>7, HeaderResponse
    <2>2. Sound(r)
      BY <1>5, <1>6, <1>7, HeaderSound
    <2>3. r.format = "yenc"
      BY <1>6, <2>1 DEF Kept
    <2> QED BY <1>3, <1>6, <2>1, <2>2, <2>3
  <1>9. pooled \in Nat
    BY DecoderAssumption
  <1>10. /\ d.resp \in Responses /\ Sound(d.resp)
        /\ d.n \in Int /\ -3 <= d.n /\ d.n <= Len(cut.after)
    BY <1>3, <1>5, <1>8, <1>9, YencResponse
  <1> DEFINE m == Len(cut.after)
             n == d.n
  <1>11. /\ read' = read + 3 + 2 + n /\ read + 3 + 2 + m = Pending(rb)
        /\ m \in Nat /\ n \in Int /\ -3 <= n /\ n <= m /\ read \in Nat
    BY <1>4, <1>5, <1>8, <1>10
  <1> HIDE DEF m, n
  <1>12. read' \in Int /\ read' \in 0..Pending(rb)
    BY <1>11
  <1>13. /\ resp' \in Responses /\ Sound(resp)'
         /\ stage' = IF resp'.body THEN "return" ELSE "lines"
    BY <1>3, <1>10
  <1>14. stage' \in {"lines", "return", "panic"} /\ (stage' = "lines" => ~resp'.body)
    BY <1>13
  <1> QED BY <1>4, <1>12, <1>13, <1>14, ParsingStep
-----------------------------------------------------------------------------
(* The steps of feedUntilDone, and the implementation of module ReadBuffer. *)

\* feed reports to feedUntilDone no more of the window than there is.
LEMMA FeedReturnsRefines ==
  ASSUME DInv, FeedReturns
  PROVE  FedAny /\ stage = "return"
PROOF
  <1> DEFINE result == CASE ~resp.eof -> "none"
                         [] resp.eof /\ MetaError(resp) = "none" -> "done"
                         [] OTHER -> "parseError"
  <1>1. stage = "return" /\ Fed(read, result)
    BY DEF FeedReturns
  <1>2. result \in {"none", "done", "parseError"}
    OBVIOUS
  <1>3. read \in 0..Pending(rb)
    BY <1>1 DEF DInv, TypeOK
  <1> HIDE DEF result
  <1> QED BY <1>1, <1>2, <1>3 DEF FedAny

\* The reader delivers what there is of the stream.
LEMMA ReadStepRefines ==
  ASSUME DInv, NEW at, NEW then, ReadStep(at, then)
  PROVE  ReadAny(at, then) /\ received' <= Len(input) /\ pc = at
PROOF
  <1>1. received \in Nat /\ received <= Len(input) /\ Len(input) \in Nat
    BY WindowOfStream DEF DInv, IInv, RBTypeOK
  <1>2. PICK n \in Nat, err \in {"none", "EOF", "readError"} :
          Read(at, then, n, err) /\ received + n <= Len(input)
    <2>1. CASE \E n \in 1..Len(input) :
                 /\ received + n <= Len(input)
                 /\ Read(at, then, n,
                         IF stream.reader = "eofWithData" /\ received + n = Len(input)
                           THEN "EOF" ELSE "none")
      BY <1>1, <2>1
    <2>2. CASE received = Len(input) /\ Read(at, then, 0, "EOF")
      BY <1>1, <2>2
    <2> QED BY <2>1, <2>2 DEF ReadStep, ReadStream
  <1>3. received + n <= StreamLen /\ received' = received + n /\ pc = at
    BY <1>2 DEF Read
  <1>4. n \in 0..StreamLen
    BY <1>1, <1>3, SizesAssumption
  <1> QED BY <1>2, <1>3, <1>4 DEF ReadAny

\* Every step of the decoder is one of feedUntilDone, whose parser consumes what
\* it may, or leaves the buffer and the loop alone.
LEMMA NextRefines == DInv /\ [Next]_vars => [RBNext]_rbVars
PROOF
  <1> SUFFICES ASSUME DInv, [Next]_vars PROVE [RBNext]_rbVars
    OBVIOUS
  <1>1. CASE CallNext
    BY <1>1 DEF CallNext, RBNext
  <1>2. CASE FeedReturns
    BY <1>2, FeedReturnsRefines DEF RBNext
  <1>3. CASE LoopHead /\ UNCHANGED decoderVars
    BY <1>3 DEF RBNext
  <1>4. CASE RoomStep("fill", "fillRead") \/ RoomStep("more", "moreRead")
    BY <1>4 DEF RoomStep, RBNext
  <1>5. CASE ReaderStep
    BY <1>5, ReadStepRefines DEF ReaderStep, RBNext
  <1>6. CASE UNCHANGED rbVars
    BY <1>6
  <1>7. CASE FeedBody \/ FeedLines \/ NoLine
    BY <1>7 DEF FeedBody, FeedLines, NoLine, Parsing
  <1>8. CASE \/ Terminator \/ ReadStatusLine
             \/ TextLine \/ UULine \/ YencLine \/ YencBody
    <2>1. ASSUME NEW line, NEW n, ReadLine(line, n) PROVE UNCHANGED rbVars
      BY <2>1 DEF ReadLine, Parsing
    <2> QED BY <1>8, <2>1 DEF Terminator, ReadStatusLine, TextLine, UULine, YencLine, YencBody
  <1>9. CASE NextReturns
    BY <1>9 DEF NextReturns
  <1>10. CASE UNCHANGED vars
    BY <1>10 DEF vars
  <1> QED
    BY <1>1, <1>2, <1>3, <1>4, <1>5, <1>7, <1>8, <1>9, <1>10 DEF Next, DecoderStep

\* A step of feedUntilDone after which feed is called or Next has its answer.
LEMMA LoopStep ==
  ASSUME DInv, [RBNext]_rbVars,
         stream' = stream, answers' = answers, received' <= Len(input),
         Len(answers) < Len(stream.answers),
         read' = 0, stage' = IF pc' = "idle" THEN "answer" ELSE "feed",
         resp' \in Responses, Sound(resp)'
  PROVE  DInv'
PROOF
  <1>1. IInv'
    BY NextIInv DEF DInv
  <1>2. RBTypeOK' /\ Pending(rb)' \in Nat
    BY <1>1 DEF IInv, RBTypeOK, IsBuffer, Pending
  <1>3. input' = input /\ received' <= Len(input')
    BY DEF input
  <1>4. /\ stream' \in Streams
        /\ answers' \in Seq(Answers) /\ Len(answers') < Len(stream'.answers)
        /\ Len(answers') <= Len(stream'.answers)
    BY DEF DInv, TypeOK
  <1>5. TypeOK'
    BY <1>2, <1>4 DEF TypeOK, Stages
  <1>6. Places'
    BY <1>4 DEF Places
  <1> QED BY <1>1, <1>3, <1>5, <1>6 DEF DInv

\* feed returns to feedUntilDone.
LEMMA FeedReturnsStep == ASSUME DInv, FeedReturns PROVE DInv'
PROOF
  <1>1. [RBNext]_rbVars
    BY NextRefines DEF Next, DecoderStep
  <1>2. /\ received' = received /\ received <= Len(input)
        /\ resp' = resp /\ resp \in Responses /\ Sound(resp)
        /\ stream' = stream /\ answers' = answers /\ read' = 0
        /\ stage' = IF pc' = "idle" THEN "answer" ELSE "feed"
    BY DEF FeedReturns, Fed, DInv, TypeOK
  <1>3. Len(answers) < Len(stream.answers)
    BY DEF FeedReturns, DInv, Places
  <1> QED BY <1>1, <1>2, <1>3, LoopStep

\* The other steps of feedUntilDone.
LEMMA LoopSteps ==
  ASSUME DInv,
         \/ LoopHead /\ UNCHANGED decoderVars
         \/ RoomStep("fill", "fillRead") \/ RoomStep("more", "moreRead")
         \/ ReaderStep
  PROVE  DInv'
PROOF
  <1>1. [RBNext]_rbVars
    BY NextRefines DEF Next, DecoderStep
  <1>2. /\ received <= Len(input) /\ resp \in Responses /\ Sound(resp)
        /\ stage \in Stages
    BY DEF DInv, TypeOK
  <1>3. pc \notin {"idle", "feed"} =>
          stage = "feed" /\ read = 0 /\ Len(answers) < Len(stream.answers)
    BY <1>2 DEF DInv, Places, Stages
  <1>4. CASE LoopHead /\ UNCHANGED decoderVars
    <2>1. pc = "loop" /\ pc' \in {"fill", "feed"} /\ received' = received
      BY <1>4 DEF LoopHead
    <2> QED BY <1>1, <1>2, <1>3, <1>4, <2>1, LoopStep DEF decoderVars
  <1>5. ASSUME NEW at \in {"fill", "more"}, NEW then, RoomStep(at, then)
        PROVE  DInv'
    <2>1. pc = at /\ received' = received
      BY <1>5 DEF RoomStep, EnsureWriteSpace
    <2> QED BY <1>1, <1>2, <1>3, <1>5, <2>1, LoopStep DEF RoomStep
  <1>6. ASSUME NEW at \in ReadLocs, NEW then, ReadStep(at, then)
        PROVE  DInv'
    <2>1. pc = at /\ received' <= Len(input)
      BY <1>6, ReadStepRefines
    <2> QED BY <1>1, <1>2, <1>3, <1>6, <2>1, LoopStep DEF ReadStep, ReadLocs
  <1> QED BY <1>4, <1>5, <1>6 DEF ReaderStep, ReadLocs

\* A call of Next.
LEMMA CallStep == ASSUME DInv, CallNext PROVE DInv'
PROOF
  <1>1. [RBNext]_rbVars
    BY NextRefines DEF Next
  <1>2. /\ received' = received /\ pc' = "loop" /\ received <= Len(input)
        /\ stream \in Streams
    BY DEF CallNext, Call, DInv, TypeOK
  <1>3. stream.statusRead \in BOOLEAN
    BY <1>2, DecoderAssumption
  <1>4. resp' \in Responses /\ Sound(resp)'
    BY <1>3, NewSound DEF CallNext
  <1> QED BY <1>1, <1>2, <1>4, LoopStep DEF CallNext

\* What Next returns.
LEMMA AnswerType ==
  ASSUME NEW r \in Responses, NEW how \in Outcomes
  PROVE  Answer(r, how) \in Answers
PROOF
  <1>1. CASE how = "EOF" /\ ~r.eof
    BY <1>1 DEF Answer, Answers
  <1>2. CASE ~(how = "EOF" /\ ~r.eof)
    <2> DEFINE err == CASE how \in {"done", "EOF"} -> "none"
                        [] how = "parseError" -> MetaError(r)
                        [] OTHER -> how
    <2>1. MetaError(r) \in {"none", "ErrDataMissing", "ErrDataCorruption",
                            "ErrCrcMismatch"}
      BY DEF MetaError
    <2>2. err \in {"none", "tooBig", "readError", "ErrDataMissing",
                   "ErrDataCorruption", "ErrCrcMismatch"}
      BY <2>1 DEF Outcomes
    <2>3. Answer(r, how) = [err |-> err, code |-> r.code, format |-> r.format,
                            lines |-> r.lines, data |-> r.data, bad |-> r.badData]
      BY <1>2 DEF Answer
    <2> HIDE DEF err
    <2> QED BY <2>2, <2>3 DEF Answers, Responses
  <1> QED BY <1>1, <1>2

\* Next returns.
LEMMA ReturnStep == ASSUME DInv, NextReturns PROVE DInv'
PROOF
  <1> DEFINE a == Answer(resp, outcome)
  <1>1. /\ stage = "answer" /\ answers' = Append(answers, a) /\ stage' = "none"
        /\ rb' = rb /\ received' = received /\ delivered' = delivered
        /\ pc' = pc /\ outcome' = outcome
        /\ stream' = stream /\ resp' = resp /\ read' = read
    BY DEF NextReturns, rbVars
  <1>2. /\ IInv /\ RBTypeOK /\ received <= Len(input) /\ Sound(resp) /\ pc = "idle"
        /\ answers \in Seq(Answers) /\ Len(answers) < Len(stream.answers)
        /\ stream \in Streams /\ read \in Int /\ resp \in Responses
        /\ outcome \in Outcomes
    BY <1>1 DEF DInv, TypeOK, Places, RBTypeOK
  <1>3. a \in Answers
    BY <1>2, AnswerType
  <1>4. stream.answers \in Seq(Answers)
    BY <1>2, DecoderAssumption
  <1> HIDE DEF a
  <1>5. answers' \in Seq(Answers) /\ Len(answers') <= Len(stream.answers)
    BY <1>1, <1>2, <1>3, <1>4
  <1>6. IInv' /\ RBTypeOK' /\ input' = input
    BY <1>1, <1>2
    DEF IInv, RBTypeOK, WindowIsStream, ReaderHasRoom, GivesUpOnlyWhenFull, input
  <1>7. TypeOK'
    BY <1>1, <1>2, <1>5, <1>6 DEF TypeOK, Stages
  <1>8. Places'
    BY <1>1, <1>2 DEF Places
  <1> QED BY <1>1, <1>2, <1>6, <1>7, <1>8 DEF DInv

-----------------------------------------------------------------------------
(* The invariant                                                           *)

\* The invariant holds before the first call of Next.
LEMMA InitDInv == Init => DInv
PROOF
  <1> SUFFICES ASSUME Init PROVE DInv
    OBVIOUS
  <1>1. IInv
    BY InitIInv DEF Init
  <1>2. stream \in Streams /\ stream.statusRead \in BOOLEAN
        /\ stream.bytes \in Seq(Characters) /\ stream.answers \in Seq(Answers)
    BY DecoderAssumption DEF Init
  <1>3. resp \in Responses /\ Sound(resp) /\ resp.format = "unknown"
    <2>1. resp = NewResponse(stream.statusRead)
      BY DEF Init
    <2>2. resp.format = "unknown"
      BY <2>1 DEF NewResponse
    <2> QED BY <1>2, <2>1, <2>2, NewSound
  <1>4. /\ stage = "none" /\ read = 0 /\ answers = <<>>
        /\ pc = "idle" /\ received = 0 /\ RBTypeOK
    BY <1>1 DEF Init, RBInit, IInv
  <1>5. TypeOK
    BY <1>2, <1>3, <1>4 DEF TypeOK, Stages
  <1>6. Places
    BY <1>4 DEF Places
  <1>7. received <= Len(input)
    BY <1>2, <1>4 DEF input
  <1> QED BY <1>1, <1>3, <1>4, <1>5, <1>6, <1>7 DEF DInv

\* Each step of the decoder and of its reader preserves the invariant.
LEMMA NextDInv == DInv /\ [Next]_vars => DInv'
PROOF
  <1> SUFFICES ASSUME DInv, [Next]_vars PROVE DInv'
    OBVIOUS
  <1>1. CASE UNCHANGED vars
    <2>1. UNCHANGED <<rb, received, delivered, pc, outcome,
                      stream, resp, stage, read, answers>>
      BY <1>1 DEF vars, rbVars, decoderVars
    <2> QED
      BY <2>1 DEF DInv, IInv, RBTypeOK, WindowIsStream, ReaderHasRoom,
         GivesUpOnlyWhenFull, TypeOK, Places, Sound, input
  <1>2. CASE CallNext
    BY <1>2, CallStep
  <1>3. CASE DecoderStep
    <2>1. CASE FeedBody \/ FeedLines
      BY <2>1, FeedSteps
    <2>2. CASE \/ NoLine \/ Terminator \/ ReadStatusLine
               \/ TextLine \/ UULine \/ YencLine
      BY <2>2, LineSteps
    <2>3. CASE YencBody
      BY <2>3, BodyStep
    <2>4. CASE FeedReturns
      BY <2>4, FeedReturnsStep
    <2>5. CASE LoopHead /\ UNCHANGED decoderVars
      BY <2>5, LoopSteps
    <2>6. CASE RoomStep("fill", "fillRead") \/ RoomStep("more", "moreRead")
      BY <2>6, LoopSteps
    <2>7. CASE NextReturns
      BY <2>7, ReturnStep
    <2> QED
      BY <1>3, <2>1, <2>2, <2>3, <2>4, <2>5, <2>6, <2>7, Zenon DEF DecoderStep
  <1>4. CASE ReaderStep
    BY <1>4, LoopSteps
  <1> QED BY <1>1, <1>2, <1>3, <1>4 DEF Next

\* The invariant holds in every state.
THEOREM DecoderInvariance == Spec => []DInv
PROOF BY InitDInv, NextDInv, PTL DEF Spec

\* The decoder uses its buffer and its reader only as feedUntilDone may: module
\* Decoder implements module ReadBuffer, whose parser is any that consumes a
\* prefix of the window (Response.feed, decoder.go).
THEOREM ImplementsReadBuffer == Spec => RBSpec
PROOF
  <1>1. Init => RBInit
    BY DEF Init
  <1> QED BY <1>1, NextRefines, DecoderInvariance, PTL DEF Spec, RBSpec

\* The Response, the place in feed and the answers have their types; feed never
\* reports more of the window than there is (Response.feed, Decoder.Next).
THEOREM DecoderTypeCorrect == Spec => []TypeOK
PROOF
  <1>1. DInv => TypeOK
    BY DEF DInv
  <1> QED BY <1>1, DecoderInvariance, PTL

\* The window that feed is shown is what the reader has delivered of the stream
\* and feed has not consumed: no byte of a response is lost, repeated or moved
\* (readBuffer.window, feedUntilDone).
THEOREM WindowIsTheStream ==
  Spec => [](Window = SubSeq(input, delivered + 1, received))
PROOF
  <1>1. DInv => Window = SubSeq(input, delivered + 1, received)
    <2> SUFFICES ASSUME DInv PROVE Window = SubSeq(input, delivered + 1, received)
      OBVIOUS
    <2>1. /\ Len(Window) = Pending(rb) /\ Window \in Seq(Characters)
          /\ \A i \in 1..Pending(rb) : Window[i] = input[delivered + i]
          /\ Pending(rb) \in Nat /\ delivered \in Nat
          /\ received = delivered + Pending(rb) /\ received <= Len(input)
          /\ input \in Seq(Characters)
      BY WindowOfStream
    <2> DEFINE s == SubSeq(input, delivered + 1, received)
    <2>2. s \in Seq(Characters) /\ Len(s) = Pending(rb)
          /\ \A i \in 1..Pending(rb) : s[i] = input[delivered + i]
      <3>1. /\ delivered + 1 \in Int /\ received \in Int
            /\ \A i \in delivered+1..received : input[i] \in Characters
        BY <2>1
      <3>2. received - (delivered + 1) + 1 = Pending(rb)
            /\ (delivered + 1 > received => Pending(rb) = 0)
        BY <2>1
      <3>3. /\ s \in Seq(Characters)
            /\ Len(s) = IF delivered + 1 <= received
                          THEN received - (delivered + 1) + 1 ELSE 0
            /\ \A i \in 1..received - (delivered + 1) + 1 :
                  s[i] = input[(delivered + 1) + i - 1]
        <4> DEFINE m == delivered + 1
        <4>1. m \in Int /\ received \in Int /\ \A i \in m..received : input[i] \in Characters
          BY <3>1
        <4> HIDE DEF m
        <4>2. /\ SubSeq(input, m, received) \in Seq(Characters)
              /\ Len(SubSeq(input, m, received)) = IF m <= received THEN received-m+1 ELSE 0
              /\ \A i \in 1..received-m+1 : SubSeq(input, m, received)[i] = input[m+i-1]
          BY <4>1, SubSeqProperties
        <4> QED BY <4>2 DEF m
      <3>4. \A i \in 1..Pending(rb) : (delivered + 1) + i - 1 = delivered + i
        BY <2>1
      <3> HIDE DEF s
      <3>5. Len(s) = Pending(rb)
        BY <2>1, <3>2, <3>3
      <3>6. \A i \in 1..Pending(rb) : s[i] = input[delivered + i]
        <4> SUFFICES ASSUME NEW i \in 1..Pending(rb) PROVE s[i] = input[delivered + i]
          OBVIOUS
        <4>1. s[i] = input[(delivered + 1) + i - 1]
          BY <3>2, <3>3
        <4> QED BY <3>4, <4>1
      <3> QED BY <3>3, <3>5, <3>6
    <2> HIDE DEF s, Window
    <2>3. Window = s
      BY <2>1, <2>2, SeqEqual
    <2> QED BY <2>3 DEF s
  <1> QED BY <1>1, DecoderInvariance, PTL

\* What is decoded of a yEnc body fits the buffer it is stored in, whatever the
\* headers declare and whatever buffer dataFunc returned (decodeYenc, ensureData).
THEOREM DataFitsHolds == Spec => []DataFits
PROOF
  <1>1. DInv => DataFits
    BY DEF DInv, DataFits, Sound
  <1> QED BY <1>1, DecoderInvariance, PTL

-----------------------------------------------------------------------------
(* A body is read character by character.                                  *)

\* A piece of a body that is the beginning of the text s behind it, as decodeYenc
\* decodes it.
LEMMA YencReads ==
  ASSUME NEW r \in Responses, r.format = "yenc", r.body, Sound(r),
         NEW s \in Seq(Nat), NEW l \in 0..Len(s), NEW pooled \in Nat, NEW d,
         d = DecodeYenc(r, SubSeq(s, 1, l), pooled), NEW t,
         t = Reading(s, At(r.state, r.data))
  PROVE  /\ d.resp.body =>
              /\ d.n \in 0..Len(s) /\ t[d.n].end = "none"
              /\ Outcome(SubSeq(s, d.n + 1, Len(s)), At(d.resp.state, d.resp.data))
                   = Outcome(s, At(r.state, r.data))
         /\ ~d.resp.body /\ d.n >= 0 =>
              d.n \in 0..Len(s) /\ EndsAt(s, t, d.n, d.resp.state, d.resp.data)
PROOF
  <1> DEFINE buf == SubSeq(s, 1, l)
             first == At(r.state, r.data)
  <1>1. Len(s) \in Nat /\ l \in Nat /\ l <= Len(s)
    OBVIOUS
  <1>2. /\ buf \in Seq(Nat) /\ Len(buf) = l
        /\ \A i \in 1..l : buf[i] = s[i]
    <2>1. 0 \in Nat /\ 0 <= l /\ 0 + 1 = 1 /\ l - 0 = l /\ \A i \in 1..l : 0 + i = i
      BY <1>1
    <2>2. /\ SubSeq(s, 0 + 1, l) \in Seq(Nat) /\ Len(SubSeq(s, 0 + 1, l)) = l - 0
          /\ \A i \in 1..(l - 0) : SubSeq(s, 0 + 1, l)[i] = s[0 + i]
      BY <1>1, <2>1, SliceIsSeq
    <2> QED BY <2>1, <2>2
  <1>3. r.state \in States /\ r.state # "CRLFEQ" /\ r.data \in Seq(Byte)
    BY DEF Responses, Sound
  <1>4. d = DecodeYenc(r, buf, pooled)
    OBVIOUS
  <1>5. CASE buf = <<>>
    <2>1. d = [resp |-> r, n |-> 0]
      BY <1>5 DEF DecodeYenc
    <2>2. SubSeq(s, 0 + 1, Len(s)) = s
      BY <1>1
    <2>3. t[0].end = "none"
      <3>1. t[0] = first
        BY <1>3, ReadingIsReading
      <3> QED BY <3>1 DEF At
    <2>4. d.n = 0 /\ d.resp = r
      BY <2>1
    <2>5. 0 \in 0..Len(s)
      BY <1>1
    <2> QED BY <2>2, <2>3, <2>4, <2>5
  <1>6. CASE buf # <<>>
    <2> HIDE DEF buf
    <2>1. PICK cap \in Nat, k \in Config : IsPiece(r, buf, d, cap, k)
      BY <1>2, <1>4, <1>6, YencPiece
    <2>2. PICK m \in 1..Len(buf) : k = Decode(SubSeq(buf, 1, m), r.state)
      BY <2>1 DEF IsPiece
    <2>3. m \in 1..Len(s) /\ m \in Nat /\ m <= l
      BY <1>1, <1>2, <2>2
    <2>4. SubSeq(buf, 1, m) = SubSeq(s, 1, m)
      <3> DEFINE u == SubSeq(buf, 1, m)
                 v == SubSeq(s, 1, m)
      <3>1. 0 \in Nat /\ 0 <= m /\ 0 + 1 = 1 /\ m - 0 = m /\ \A i \in 1..m : 0 + i = i
        BY <2>3
      <3>2. u \in Seq(Nat) /\ Len(u) = m /\ \A i \in 1..m : u[i] = buf[i]
        <4>1. /\ SubSeq(buf, 0 + 1, m) \in Seq(Nat) /\ Len(SubSeq(buf, 0 + 1, m)) = m - 0
              /\ \A i \in 1..(m - 0) : SubSeq(buf, 0 + 1, m)[i] = buf[0 + i]
          BY <1>2, <2>3, <3>1, SliceIsSeq, SMTT(30)
        <4> QED BY <3>1, <4>1
      <3>3. v \in Seq(Nat) /\ Len(v) = m /\ \A i \in 1..m : v[i] = s[i]
        <4>1. /\ SubSeq(s, 0 + 1, m) \in Seq(Nat) /\ Len(SubSeq(s, 0 + 1, m)) = m - 0
              /\ \A i \in 1..(m - 0) : SubSeq(s, 0 + 1, m)[i] = s[0 + i]
          BY <1>1, <2>3, <3>1, SliceIsSeq
        <4> QED BY <3>1, <4>1
      <3> HIDE DEF u, v
      <3>4. \A i \in 1..m : u[i] = v[i]
        <4>1. \A i \in 1..m : i \in 1..l
          BY <1>1, <2>3
        <4> QED BY <1>2, <3>2, <3>3, <4>1
      <3>5. u = v
        BY <3>2, <3>3, <3>4, SeqEqual
      <3> QED BY <3>5 DEF u, v
    <2>5. k = Decode(SubSeq(s, 1, m), r.state)
      BY <2>2, <2>4
    <2> DEFINE data == r.data \o k.out
    <2>6. /\ d.resp.state = KeptState(k) /\ d.resp.data = data
          /\ d.resp.body = (k.end = "none") /\ d.n = Leaves(k)
      <3>1. KeptState(k) \in States /\ (k.end = "none") \in BOOLEAN /\ data \in Seq(Byte)
            /\ d.resp = WithPiece(r, cap, data, KeptState(k), k.end = "none")
            /\ d.n = Leaves(k)
        BY <2>1 DEF KeptState, States, Config, IsPiece
      <3> DEFINE inBody == k.end = "none"
                 st == KeptState(k)
      <3>a. st \in States /\ inBody \in BOOLEAN /\ data \in Seq(Byte)
            /\ d.resp = WithPiece(r, cap, data, st, inBody)
        BY <3>1
      <3> HIDE DEF inBody, data, st
      <3>2. d.resp.state = st /\ d.resp.data = data /\ d.resp.body = inBody
        BY <3>a, PieceFields
      <3> QED BY <3>1, <3>2 DEF inBody, st
    <2>7. /\ k.end = "none" =>
               /\ Leaves(k) \in 0..Len(s)
               /\ Reading(s, At(r.state, r.data))[Leaves(k)].end = "none"
               /\ Outcome(SubSeq(s, Leaves(k) + 1, Len(s)), At(KeptState(k), r.data \o k.out))
                    = Outcome(s, At(r.state, r.data))
          /\ k.end # "none" =>
               /\ Leaves(k) >= 0 =>
                    /\ Leaves(k) \in 0..Len(s)
                    /\ EndsAt(s, Reading(s, At(r.state, r.data)), Leaves(k),
                              KeptState(k), r.data \o k.out)
      BY <1>3, <2>3, <2>5, PieceReads
    <2> QED BY <2>6, <2>7
  <1> QED BY <1>5, <1>6

\* There is only one first line end.
LEMMA OneCut ==
  ASSUME NEW s, Len(s) \in Nat, NEW a \in Cuts(s), NEW b \in Cuts(s)
  PROVE  a = b
PROOF
  <1>1. ASSUME NEW i \in FirstLineEnds(s), NEW j \in FirstLineEnds(s)
        PROVE  i = j
    <2>1. /\ i \in 1..Len(s)-1 /\ IsLineEnd(s, i)
          /\ \A l \in 1..i-1 : ~IsLineEnd(s, l)
      BY DEF FirstLineEnds
    <2>2. /\ j \in 1..Len(s)-1 /\ IsLineEnd(s, j)
          /\ \A l \in 1..j-1 : ~IsLineEnd(s, l)
      BY DEF FirstLineEnds
    <2>3. ~(i < j) /\ ~(j < i)
      <3>1. i < j => i \in 1..j-1
        BY <2>1, <2>2
      <3>2. j < i => j \in 1..i-1
        BY <2>1, <2>2
      <3> QED BY <2>1, <2>2, <3>1, <3>2
    <2> QED BY <2>1, <2>2, <2>3
  <1> QED BY <1>1 DEF Cuts

\* The stream from a place in the window on.
LEMMA StreamBehind ==
  ASSUME DInv, NEW n \in 0..Pending(rb)
  PROVE  /\ StreamFrom(n) \in Seq(Nat)
         /\ Len(StreamFrom(n)) = Len(input) - delivered - n
         /\ Pending(rb) - n \in 0..Len(StreamFrom(n))
         /\ \A i \in 1..Len(StreamFrom(n)) :
              StreamFrom(n)[i] = input[delivered + n + i]
PROOF
  <1>1. /\ Pending(rb) \in Nat /\ delivered \in Nat
        /\ received = delivered + Pending(rb) /\ received <= Len(input)
        /\ input \in Seq(Characters)
    BY WindowOfStream
  <1>2. input \in Seq(Nat)
    BY <1>1, CharactersAreNat, SeqMonotonic, Zenon
  <1> DEFINE a == delivered + n
             l == Len(input)
  <1>3. a \in Nat /\ l \in Nat /\ a <= l /\ n \in Nat /\ n <= Pending(rb)
        /\ Pending(rb) - n \in 0..(l - a) /\ l - a = l - delivered - n
    BY <1>1, <1>2
  <1>4. StreamFrom(n) = SubSeq(input, a + 1, l)
    BY DEF StreamFrom
  <1> HIDE DEF a, l
  <1>5. l <= Len(input)
    BY <1>3 DEF l
  <1>6. /\ SubSeq(input, a + 1, l) \in Seq(Nat)
        /\ Len(SubSeq(input, a + 1, l)) = l - a
        /\ \A i \in 1..(l - a) : SubSeq(input, a + 1, l)[i] = input[a + i]
    BY <1>2, <1>3, <1>5, SliceIsSeq
  <1> QED BY <1>3, <1>4, <1>6 DEF a, l

\* What feed is shown is where the stream goes on.
LEMMA WindowBegins ==
  ASSUME DInv
  PROVE  Window = SubSeq(StreamFrom(0), 1, Pending(rb))
PROOF
  <1> DEFINE s == StreamFrom(0)
             p == Pending(rb)
             u == SubSeq(s, 0 + 1, p)
             w == Window
  <1>1. /\ w \in Seq(Characters) /\ Len(w) = p /\ p \in Nat /\ delivered \in Nat
        /\ \A i \in 1..p : w[i] = input[delivered + i]
    BY WindowOfStream
  <1>2. /\ s \in Seq(Nat) /\ p - 0 \in 0..Len(s)
        /\ \A i \in 1..Len(s) : s[i] = input[delivered + 0 + i]
    <2>1. 0 \in 0..Pending(rb)
      BY <1>1
    <2> QED BY <2>1, StreamBehind
  <1> HIDE DEF s, w
  <1>3. u \in Seq(Nat) /\ Len(u) = p /\ \A i \in 1..p : u[i] = s[i]
    <2>1. 0 \in Nat /\ 0 <= p /\ p <= Len(s) /\ p - 0 = p /\ \A i \in 1..p : 0 + i = i
      BY <1>1, <1>2
    <2>2. /\ u \in Seq(Nat) /\ Len(u) = p - 0
          /\ \A i \in 1..(p - 0) : u[i] = s[0 + i]
      BY <1>1, <1>2, <2>1, SliceIsSeq
    <2> HIDE DEF u, p
    <2> QED BY <2>1, <2>2
  <1>4. \A i \in 1..p : i \in 1..Len(s) /\ delivered + 0 + i = delivered + i
    BY <1>1, <1>2
  <1> HIDE DEF u, p
  <1>5. \A i \in 1..p : w[i] = u[i]
    BY <1>1, <1>2, <1>3, <1>4
  <1>6. w = u
    BY <1>1, <1>3, <1>5, SeqEqual
  <1> QED BY <1>6 DEF w, u, s, p

\* Where what follows a line begins in the window.
Behind(cut) == read + Len(cut.line) + 2

\* So is what follows a line.
LEMMA AfterBegins ==
  ASSUME DInv, stage = "lines", NEW cut \in Cuts(Rest),
         NEW from, from = Behind(cut)
  PROVE  /\ from \in 0..Pending(rb)
         /\ cut.after = SubSeq(StreamFrom(from), 1, Pending(rb) - from)
PROOF
  <1> DEFINE s == StreamFrom(from)
             p == Pending(rb)
             q == p - from
             u == SubSeq(s, 0 + 1, q)
             w == Window
             after == cut.after
  <1>1. /\ w \in Seq(Characters) /\ Len(w) = p /\ p \in Nat /\ delivered \in Nat
        /\ \A i \in 1..p : w[i] = input[delivered + i]
    BY WindowOfStream
  <1>2. /\ after \in Seq(Nat) /\ Len(cut.line) \in Nat /\ Len(after) \in Nat
        /\ read + Len(cut.line) + 2 + Len(after) = p
        /\ read \in Nat
    BY LineOfWindow
  <1>3. /\ from \in Nat /\ from \in 0..p /\ from <= p /\ Len(after) = q /\ q \in Nat
    <2> DEFINE x == Len(cut.line)
               y == Len(after)
    <2>1. x \in Nat /\ y \in Nat /\ read + x + 2 + y = p /\ from = read + x + 2
      BY <1>2 DEF Behind
    <2>1a. p \in Nat /\ read \in Nat
      BY <1>1, <1>2
    <2> HIDE DEF x, y, p
    <2>2. from \in Nat /\ from <= p /\ y = p - from
      BY <2>1, <2>1a
    <2>3. y = q /\ q \in Nat /\ from \in 0..p
      BY <2>1, <2>1a, <2>2
    <2> QED BY <2>2, <2>3 DEF y, p
  <1>4. /\ s \in Seq(Nat) /\ q \in 0..Len(s)
        /\ \A i \in 1..Len(s) : s[i] = input[delivered + from + i]
    BY <1>3, StreamBehind
  <1> HIDE DEF s, w, p
  <1>5. u \in Seq(Nat) /\ Len(u) = q /\ \A i \in 1..q : u[i] = s[i]
    <2>1. 0 \in Nat /\ 0 <= q /\ q <= Len(s) /\ q - 0 = q /\ \A i \in 1..q : 0 + i = i
      BY <1>3, <1>4
    <2>2. /\ u \in Seq(Nat) /\ Len(u) = q - 0
          /\ \A i \in 1..(q - 0) : u[i] = s[0 + i]
      BY <1>3, <1>4, <2>1, SliceIsSeq
    <2> HIDE DEF u, q
    <2> QED BY <2>1, <2>2
  <1>6. \A i \in 1..q : after[i] = w[from + i]
    <2>1. PICK i \in 1..Len(Rest)-1 :
            cut = [line |-> SubSeq(Rest, 1, i - 1),
                   after |-> SubSeq(Rest, i + 2, Len(Rest))]
      BY DEF Cuts, FirstLineEnds
    <2> SUFFICES ASSUME NEW j \in 1..q PROVE after[j] = w[from + j]
      OBVIOUS
    <2>2. /\ Rest \in Seq(Characters) /\ Len(Rest) = p - read
          /\ \A l \in 1..(p - read) : Rest[l] = w[read + l]
      <3>1. read \in 0..p
        BY DEF DInv, TypeOK, p
      <3>2. Rest = SubSeq(w, read + 1, p)
        BY <1>1 DEF Rest, w
      <3>3. \A l \in read+1..p : w[l] \in Characters
        BY <1>1, <3>1
      <3>4. /\ SubSeq(w, read + 1, p) \in Seq(Characters)
            /\ Len(SubSeq(w, read + 1, p)) =
                 IF read + 1 <= p THEN p - (read + 1) + 1 ELSE 0
            /\ \A l \in 1..p - (read + 1) + 1 :
                  SubSeq(w, read + 1, p)[l] = w[(read + 1) + l - 1]
        <4>1. read + 1 \in Int /\ p \in Int
          BY <1>1, <1>2
        <4> QED BY <3>3, <4>1, SubSeqProperties
      <3>5. /\ p - (read + 1) + 1 = p - read
            /\ (read + 1 > p => p - read = 0)
            /\ \A l \in 1..(p - read) : (read + 1) + l - 1 = read + l
        BY <1>1, <3>1
      <3> HIDE DEF Rest
      <3>6. Len(Rest) = p - read
        BY <1>1, <3>1, <3>2, <3>4, <3>5
      <3> QED BY <3>2, <3>4, <3>5, <3>6
    <2> HIDE DEF Rest
    <2> DEFINE r == Len(Rest)
    <2>3. r \in Nat /\ i \in Nat /\ i >= 1 /\ i <= r - 1
      BY <2>1, <2>2
    <2>4. Len(cut.line) = i - 1
      <3>1. \A l \in 1..i-1 : Rest[l] \in Characters
        BY <2>2, <2>3
      <3>2. Len(SubSeq(Rest, 1, i - 1)) = i - 1
        BY <2>3, <3>1, SubSeqProperties
      <3> QED BY <2>1, <3>2
    <2>5. \A l \in 1..r - (i + 2) + 1 : after[l] = Rest[i + 2 + l - 1]
      <3>1. \A l \in i+2..r : Rest[l] \in Characters
        BY <2>2, <2>3
      <3>2. i + 2 \in Int /\ r \in Int
        BY <2>3
      <3> DEFINE b == i + 2
      <3> HIDE DEF r, b
      <3>3. \A l \in 1..r - b + 1 : SubSeq(Rest, b, r)[l] = Rest[b + l - 1]
        BY <3>1, <3>2, SubSeqProperties DEF b
      <3> QED BY <2>1, <3>3 DEF b, r
    <2>6. /\ j \in 1..r - (i + 2) + 1 /\ i + 2 + j - 1 \in 1..(p - read)
          /\ read + (i + 2 + j - 1) = from + j
      <3> DEFINE x == Len(cut.line)
      <3>1. x = i - 1 /\ from = read + x + 2 /\ r = p - read /\ j \in 1..(p - from)
        BY <2>2, <2>4 DEF Behind
      <3>2. p \in Nat /\ read \in Nat
        BY <1>1, <1>2 DEF p
      <3>3. i \in Nat /\ r \in Nat
        BY <2>3
      <3> HIDE DEF x, r, p
      <3>4. from = read + i + 1 /\ from \in Nat /\ j \in Nat /\ j >= 1 /\ j <= p - from
        BY <3>1, <3>2, <3>3
      <3> QED BY <3>1, <3>2, <3>3, <3>4
    <2> QED BY <2>2, <2>5, <2>6
  <1>7. \A i \in 1..q : i \in 1..Len(s) /\ from + i \in 1..p
                        /\ delivered + from + i = delivered + (from + i)
    <2> DEFINE l == Len(s)
    <2>1. /\ p \in Nat /\ delivered \in Nat /\ from \in Nat /\ from <= p
          /\ l \in Nat /\ q \in 0..l /\ q = p - from
      BY <1>1, <1>3, <1>4 DEF p
    <2> HIDE DEF l, q
    <2> QED BY <2>1 DEF l
  <1> HIDE DEF u, after
  <1>8. \A i \in 1..q : after[i] = u[i]
    <2> SUFFICES ASSUME NEW i \in 1..q PROVE after[i] = u[i]
      OBVIOUS
    <2>1. after[i] = w[from + i] /\ u[i] = s[i]
      BY <1>5, <1>6
    <2>2. w[from + i] = input[delivered + (from + i)]
      BY <1>1, <1>7 DEF p
    <2>3. s[i] = input[delivered + from + i]
      BY <1>4, <1>7
    <2> QED BY <1>7, <2>1, <2>2, <2>3
  <1>9. after = u
    <2>1. after \in Seq(Nat) /\ Len(after) = q
      BY <1>2, <1>3 DEF after
    <2> HIDE DEF q
    <2> QED BY <1>5, <1>8, <2>1, SeqEqual
  <1>10. 0 + 1 = 1
    OBVIOUS
  <1>11. /\ from \in 0..p /\ after = SubSeq(s, 1, q)
    BY <1>3, <1>9, <1>10 DEF u
  <1> QED BY <1>11 DEF after, s, q, p

\* The rest of the rest of a sequence.
LEMMA RestOfRest ==
  ASSUME NEW s \in Seq(Nat), NEW a \in Nat, NEW n \in Nat, a + n <= Len(s)
  PROVE  SubSeq(SubSeq(s, a + 1, Len(s)), n + 1, Len(s) - a)
           = SubSeq(s, a + n + 1, Len(s))
PROOF
  <1> DEFINE l == Len(s)
             b == l - a
             c == a + n
             r == SubSeq(s, a + 1, l)
             u == SubSeq(r, n + 1, b)
             v == SubSeq(s, c + 1, l)
  <1>1. /\ l \in Nat /\ a <= l /\ b \in Nat /\ n <= b /\ c \in Nat /\ c <= l
        /\ b - n = l - c /\ c = a + n /\ b = l - a
    OBVIOUS
  <1> HIDE DEF l, b, c
  <1>2. r \in Seq(Nat) /\ Len(r) = b /\ \A i \in 1..b : r[i] = s[a + i]
    <2>1. l <= Len(s)
      BY DEF l
    <2> QED BY <1>1, <2>1, SliceIsSeq
  <1> HIDE DEF r
  <1>3. u \in Seq(Nat) /\ Len(u) = b - n /\ \A i \in 1..(b - n) : u[i] = r[n + i]
    BY <1>1, <1>2, SliceIsSeq
  <1>4. v \in Seq(Nat) /\ Len(v) = l - c /\ \A i \in 1..(l - c) : v[i] = s[c + i]
    <2>1. l <= Len(s)
      BY DEF l
    <2> QED BY <1>1, <2>1, SliceIsSeq
  <1> HIDE DEF u, v
  <1>5. \A i \in 1..(b - n) : u[i] = v[i]
    <2> SUFFICES ASSUME NEW i \in 1..(b - n) PROVE u[i] = v[i]
      OBVIOUS
    <2>1. n + i \in 1..b /\ a + (n + i) = c + i /\ i \in 1..(l - c)
      BY <1>1
    <2> QED BY <1>2, <1>3, <1>4, <2>1
  <1>6. u = v
    BY <1>1, <1>3, <1>4, <1>5, SeqEqual
  <1> QED BY <1>6 DEF u, v, r, b, c, l

\* Two or three characters of a sequence.
LEMMA FewCharacters ==
  ASSUME NEW s \in Seq(Nat), NEW a \in Nat
  PROVE  /\ a + 2 <= Len(s) =>
              SubSeq(s, a + 1, a + 2) = <<s[a + 1], s[a + 2]>>
         /\ a + 3 <= Len(s) =>
              SubSeq(s, a + 1, a + 3) = <<s[a + 1], s[a + 2], s[a + 3]>>
PROOF
  <1>1. ASSUME NEW m \in 2..3, a + m <= Len(s)
        PROVE  /\ SubSeq(s, a + 1, a + m) \in Seq(Nat)
               /\ Len(SubSeq(s, a + 1, a + m)) = m
               /\ \A i \in 1..m : SubSeq(s, a + 1, a + m)[i] = s[a + i]
    <2> DEFINE b == a + m
    <2>1. b \in Nat /\ a <= b /\ b <= Len(s) /\ b - a = m
      BY <1>1
    <2> HIDE DEF b
    <2>2. /\ SubSeq(s, a + 1, b) \in Seq(Nat) /\ Len(SubSeq(s, a + 1, b)) = b - a
          /\ \A i \in 1..(b - a) : SubSeq(s, a + 1, b)[i] = s[a + i]
      BY <2>1, SliceIsSeq
    <2> QED BY <2>1, <2>2 DEF b
  <1>2. ASSUME NEW q \in Seq(Nat), Len(q) = 2
        PROVE  q = <<q[1], q[2]>>
    BY <1>2
  <1>3. ASSUME NEW q \in Seq(Nat), Len(q) = 3
        PROVE  q = <<q[1], q[2], q[3]>>
    BY <1>3
  <1>4. a + 2 <= Len(s) => SubSeq(s, a + 1, a + 2) = <<s[a + 1], s[a + 2]>>
    <2> SUFFICES ASSUME a + 2 <= Len(s)
                 PROVE  SubSeq(s, a + 1, a + 2) = <<s[a + 1], s[a + 2]>>
      OBVIOUS
    <2> DEFINE q == SubSeq(s, a + 1, a + 2)
    <2>1. 2 \in 2..3 /\ 1 \in 1..2 /\ 2 \in 1..2
      OBVIOUS
    <2>2. q \in Seq(Nat) /\ Len(q) = 2 /\ \A i \in 1..2 : q[i] = s[a + i]
      BY <1>1, <2>1
    <2> HIDE DEF q
    <2>3. q[1] = s[a + 1] /\ q[2] = s[a + 2]
      BY <2>1, <2>2
    <2>4. q = <<q[1], q[2]>>
      BY <1>2, <2>2
    <2> QED BY <2>3, <2>4 DEF q
  <1>5. a + 3 <= Len(s) => SubSeq(s, a + 1, a + 3) = <<s[a + 1], s[a + 2], s[a + 3]>>
    <2> SUFFICES ASSUME a + 3 <= Len(s)
                 PROVE  SubSeq(s, a + 1, a + 3) = <<s[a + 1], s[a + 2], s[a + 3]>>
      OBVIOUS
    <2> DEFINE q == SubSeq(s, a + 1, a + 3)
    <2>1. 3 \in 2..3 /\ 1 \in 1..3 /\ 2 \in 1..3 /\ 3 \in 1..3
      OBVIOUS
    <2>2. q \in Seq(Nat) /\ Len(q) = 3 /\ \A i \in 1..3 : q[i] = s[a + i]
      BY <1>1, <2>1
    <2> HIDE DEF q
    <2>3. q[1] = s[a + 1] /\ q[2] = s[a + 2] /\ q[3] = s[a + 3]
      BY <2>1, <2>2
    <2>4. q = <<q[1], q[2], q[3]>>
      BY <1>3, <2>2
    <2> QED BY <2>3, <2>4 DEF q
  <1> QED BY <1>4, <1>5

-----------------------------------------------------------------------------
(* The steps of a body.                                                    *)

\* feed comes to the end of the data, and the line parser reads on with it.
LEMMA EndIsNext ==
  ASSUME DInv, NEW from \in 0..Pending(rb), NEW n \in 0..Len(StreamFrom(from)), NEW t,
         EndsAt(StreamFrom(from), t, n, resp'.state, resp'.data),
         stream' = stream, delivered' + read' = delivered + from + n
  PROVE  EndsNext(t, n)'
PROOF
  <1> DEFINE s == StreamFrom(from)
             l == Len(s)
             a == delivered + from + n
             ended(e) == [state |-> resp'.state, out |-> resp'.data, end |-> e]
  <1>1. /\ Len(s) = Len(input) - delivered - from
        /\ \A i \in 1..Len(s) : s[i] = input[delivered + from + i]
        /\ delivered \in Nat /\ Len(input) \in Nat /\ l \in Nat
    BY StreamBehind, WindowOfStream, SMTT(30)
  <1>2. input \in Seq(Nat) /\ input' = input
    <2>1. input \in Seq(Characters)
      BY WindowOfStream
    <2> QED BY <2>1, CharactersAreNat, SeqMonotonic, Zenon DEF input
  <1>3. EndsAt(s, t, n, resp'.state, resp'.data)
    OBVIOUS
  <1>4. a \in Nat /\ delivered' + read' = a /\ n \in Nat /\ from \in Nat
    BY <1>1
  <1>5. ASSUME NEW m \in 1..3, n + m <= l
        PROVE  a + m <= Len(input) /\ input[a + m] = s[n + m]
    <2> DEFINE ll == Len(input)
    <2>1. l = ll - delivered - from /\ ll \in Nat
      BY <1>1
    <2> HIDE DEF l, ll, s
    <2>2. n + m \in 1..l /\ delivered + from + (n + m) = a + m /\ a + m <= ll
      BY <1>1, <1>4, <1>5, <2>1
    <2>3. s[n + m] = input[delivered + from + (n + m)]
      BY <1>1, <2>2 DEF l
    <2> QED BY <2>2, <2>3 DEF ll
  <1>6. EndsNext(t, n)' =
          (\/ /\ SubSeq(input, a + 1, a + 2) = <<EQ, Y>>
              /\ t[n+1].end = "none" /\ t[n+2] = ended("control")
           \/ /\ SubSeq(input, a + 1, a + 3) = <<DOT, CR, LF>>
              /\ t[n+2].end = "none" /\ t[n+3] = ended("article"))
    BY <1>2, <1>4 DEF EndsNext
  <1> HIDE DEF s, l, a
  <1>7. CASE /\ n + 2 <= Len(s) /\ s[n + 1] = EQ /\ s[n + 2] = Y
             /\ t[n + 1].end = "none"
             /\ t[n + 2] = ended("control")
    <2>1. n + 2 <= l /\ n + 1 <= l /\ 1 \in 1..3 /\ 2 \in 1..3
      BY <1>1, <1>4, <1>7 DEF l
    <2>2. a + 2 <= Len(input) /\ input[a + 1] = EQ /\ input[a + 2] = Y
      BY <1>5, <1>7, <2>1
    <2>3. SubSeq(input, a + 1, a + 2) = <<EQ, Y>>
      BY <1>2, <1>4, <2>2, FewCharacters
    <2> QED BY <1>6, <1>7, <2>3
  <1>8. CASE /\ n + 3 <= Len(s) /\ s[n + 1] = DOT /\ s[n + 2] = CR /\ s[n + 3] = LF
             /\ t[n + 2].end = "none"
             /\ t[n + 3] = ended("article")
    <2>1. n + 3 <= l /\ n + 2 <= l /\ n + 1 <= l /\ 1 \in 1..3 /\ 2 \in 1..3 /\ 3 \in 1..3
      BY <1>1, <1>4, <1>8 DEF l
    <2>2. a + 3 <= Len(input) /\ input[a + 1] = DOT /\ input[a + 2] = CR
          /\ input[a + 3] = LF
      BY <1>5, <1>8, <2>1
    <2>3. SubSeq(input, a + 1, a + 3) = <<DOT, CR, LF>>
      BY <1>2, <1>4, <2>2, FewCharacters
    <2> QED BY <1>6, <1>8, <2>3
  <1> QED BY <1>3, <1>7, <1>8 DEF EndsAt

\* A piece of a body is decoded.
LEMMA PieceStep ==
  ASSUME DInv, NEW from \in 0..Pending(rb),
         NEW r \in Responses, r.format = "yenc", r.body, Sound(r),
         r.state = resp.state, r.data = resp.data,
         NEW pooled \in Nat, NEW d,
         d = DecodeYenc(r, SubSeq(StreamFrom(from), 1, Pending(rb) - from), pooled),
         stream' = stream, delivered' = delivered,
         resp' = d.resp, read' = from + d.n,
         stage' = "lines" => ~d.resp.body /\ d.n >= 0
  PROVE  BodyReadFrom(from)
PROOF
  <1> DEFINE s == StreamFrom(from)
             q == Pending(rb) - from
             first == At(resp.state, resp.data)
  <1>1. /\ s \in Seq(Nat) /\ Len(s) = Len(input) - delivered - from
        /\ q \in 0..Len(s) /\ delivered \in Nat /\ Len(input) \in Nat
    BY StreamBehind, WindowOfStream
  <1>2. d = DecodeYenc(r, SubSeq(s, 1, q), pooled)
    OBVIOUS
  <1>3. d.n \in Int
    <2>1. SubSeq(s, 1, q) \in Seq(Nat)
      BY <1>1, SMTT(30)
    <2> HIDE DEF s, q
    <2> QED BY <1>2, <2>1, YencResponse
  <1>4. delivered' + read' - delivered - from = d.n
        /\ delivered' + read' = delivered + from + d.n
    <2> DEFINE n == d.n
    <2> HIDE DEF n
    <2>1. read' = from + n /\ delivered' = delivered /\ n \in Int
      BY <1>3 DEF n
    <2>2. delivered' + read' - delivered - from = n
          /\ delivered' + read' = delivered + from + n
      BY <1>1, <2>1
    <2> QED BY <2>2 DEF n
  <1>5. /\ resp' = d.resp /\ (stage' = "lines" => ~d.resp.body /\ d.n >= 0)
        /\ input' = input /\ first = At(r.state, r.data) /\ first \in Readings
    BY DEF input, At, Readings, Ends, Responses
  <1> SUFFICES ASSUME NEW t \in {ReadingFrom(from)}, NEW result \in {ResultFrom(from)},
                      NEW n \in {delivered' + read' - delivered - from}
               PROVE  /\ InBody' => n \in DOMAIN t /\ t[n].end = "none"
                                     /\ ResultFrom(read)' = result
                      /\ stage' = "lines" => n \in DOMAIN t /\ EndsNext(t, n)'
    BY DEF BodyReadFrom
  <1>6. /\ t = Reading(s, first) /\ result = Outcome(s, first)
        /\ n = d.n /\ delivered' + read' = delivered + from + n
    BY <1>4 DEF ReadingFrom, ResultFrom
  <1>7. DOMAIN t = 0..Len(s)
    <2> HIDE DEF s, first
    <2> QED BY <1>1, <1>5, <1>6, ReadingFacts
  <1>8. /\ d.resp.body =>
             /\ n \in 0..Len(s) /\ t[n].end = "none"
             /\ Outcome(SubSeq(s, n + 1, Len(s)), At(d.resp.state, d.resp.data))
                  = Outcome(s, first)
        /\ ~d.resp.body /\ n >= 0 =>
             n \in 0..Len(s) /\ EndsAt(s, t, n, d.resp.state, d.resp.data)
    <2> DEFINE u == Reading(s, At(r.state, r.data))
    <2>1. t = u /\ first = At(r.state, r.data)
      BY <1>5, <1>6
    <2> HIDE DEF s, q, first
    <2>2. /\ d.resp.body =>
               /\ d.n \in 0..Len(s) /\ u[d.n].end = "none"
               /\ Outcome(SubSeq(s, d.n + 1, Len(s)), At(d.resp.state, d.resp.data))
                    = Outcome(s, At(r.state, r.data))
          /\ ~d.resp.body /\ d.n >= 0 =>
               d.n \in 0..Len(s) /\ EndsAt(s, u, d.n, d.resp.state, d.resp.data)
      <3> HIDE DEF u
      <3> QED BY <1>1, <1>2, YencReads, ZenonT(30) DEF u
    <2> HIDE DEF u
    <2> QED BY <1>6, <2>1, <2>2
  <1>9. InBody' => n \in DOMAIN t /\ t[n].end = "none"
                   /\ ResultFrom(read)' = result
    <2> SUFFICES ASSUME InBody'
                 PROVE  n \in DOMAIN t /\ t[n].end = "none"
                        /\ ResultFrom(read)' = result
      OBVIOUS
    <2>1. d.resp.body
      BY <1>5 DEF InBody
    <2>2. SubSeq(s, n + 1, Len(s)) = SubSeq(input, delivered + from + n + 1, Len(input))
      <3> DEFINE a == delivered + from
                 l == Len(input)
      <3>1. a \in Nat /\ n \in Nat /\ a + n <= l /\ Len(s) = l - a
        <4> DEFINE ls == Len(s)
        <4>1. ls = l - delivered - from /\ l \in Nat /\ n \in 0..ls /\ from \in Nat
              /\ ls \in Nat /\ delivered \in Nat
          BY <1>1, <1>8, <2>1
        <4> HIDE DEF ls, l, s
        <4>2. a \in Nat /\ n \in Nat /\ a + n <= l /\ ls = l - a
          BY <4>1
        <4> QED BY <4>2 DEF ls
      <3>2. input \in Seq(Nat)
        <4>1. input \in Seq(Characters)
          BY WindowOfStream
        <4> QED BY <4>1, CharactersAreNat, SeqMonotonic, Zenon
      <3>3. s = SubSeq(input, a + 1, l)
        BY DEF StreamFrom
      <3> HIDE DEF s, a
      <3>4. SubSeq(SubSeq(input, a + 1, l), n + 1, l - a) = SubSeq(input, a + n + 1, l)
        BY <3>1, <3>2, RestOfRest
      <3> QED BY <3>1, <3>3, <3>4 DEF a
    <2>3. StreamFrom(read)' = SubSeq(input, delivered + from + n + 1, Len(input))
      <3>1. StreamFrom(read)' = SubSeq(input, delivered' + read' + 1, Len(input))
        BY <1>5 DEF StreamFrom
      <3> QED BY <1>6, <3>1
    <2>4. ResultFrom(read)' = Outcome(StreamFrom(read)', At(d.resp.state, d.resp.data))
      BY <1>5 DEF ResultFrom
    <2> HIDE DEF s, first
    <2> QED BY <1>6, <1>7, <1>8, <2>1, <2>2, <2>3, <2>4
  <1>10. stage' = "lines" => n \in DOMAIN t /\ EndsNext(t, n)'
    <2> SUFFICES ASSUME stage' = "lines" PROVE n \in DOMAIN t /\ EndsNext(t, n)'
      OBVIOUS
    <2>1. n \in 0..Len(s) /\ EndsAt(s, t, n, resp'.state, resp'.data)
      <3> HIDE DEF s
      <3> QED BY <1>5, <1>6, <1>8
    <2>2. EndsNext(t, n)'
      <3> QED BY <1>6, <2>1, EndIsNext
    <2> QED BY <1>7, <2>1, <2>2
  <1> QED BY <1>9, <1>10

\* Nothing is decoded.
LEMMA BodyWaits ==
  ASSUME DInv, DInv', NEW from \in 0..Pending(rb), from = read,
         stream' = stream, resp' = resp,
         delivered' + read' = delivered + read, stage' # "lines"
  PROVE  BodyReadFrom(from)
PROOF
  <1> DEFINE s == StreamFrom(from)
             first == At(resp.state, resp.data)
  <1>1. s \in Seq(Nat) /\ delivered \in Nat /\ 0 \in 0..Len(s)
    BY StreamBehind, WindowOfStream
  <1>2. first \in Readings /\ first.end = "none" /\ input' = input
    BY DEF DInv, TypeOK, Responses, At, Readings, Ends, input
  <1>3. delivered' + read' - delivered - from = 0
    <2>1. delivered' \in Nat /\ read' \in Int
      BY DEF DInv, TypeOK, RBTypeOK
    <2>2. ASSUME NEW x \in Int, NEW y \in Int, x + y = delivered + from
          PROVE  x + y - delivered - from = 0
      BY <1>1, <2>2
    <2> QED BY <2>1, <2>2
  <1> SUFFICES ASSUME NEW t \in {ReadingFrom(from)}, NEW result \in {ResultFrom(from)},
                      NEW n \in {delivered' + read' - delivered - from}
               PROVE  n \in DOMAIN t /\ t[n].end = "none" /\ ResultFrom(read)' = result
    BY DEF BodyReadFrom
  <1>4. t = Reading(s, first) /\ result = Outcome(s, first) /\ n = 0
    BY <1>3 DEF ReadingFrom, ResultFrom
  <1>5. ResultFrom(read)' = result
    BY <1>2, <1>4 DEF ResultFrom, StreamFrom
  <1> HIDE DEF s, first
  <1>6. DOMAIN t = 0..Len(s) /\ t[0] = first
    BY <1>1, <1>2, <1>4, ReadingFacts
  <1> QED BY <1>1, <1>2, <1>4, <1>5, <1>6

\* A body under way, one step of the decoder or of the reader.
LEMMA BodyGoesOn ==
  ASSUME DInv, Next, InBody, NEW from \in {read}
  PROVE  BodyReadFrom(from)
PROOF
  <1>1. /\ stage \in {"feed", "return"} /\ resp.body /\ resp.format = "yenc"
        /\ resp \in Responses /\ Sound(resp) /\ from = read
        /\ read \in 0..Pending(rb) /\ Pending(rb) \in Nat
        /\ delivered \in Nat
    BY WindowOfStream DEF DInv, TypeOK, InBody
  <1>2. (stage = "feed" => read = 0) /\ DInv'
    BY NextDInv DEF DInv, Places
  <1>3. CASE FeedBody
    <2>1. PICK pooled \in PoolCaps : \E d \in {DecodeYenc(resp, Window, pooled)} :
            /\ resp' = d.resp
            /\ read' = d.n
            /\ stage' = CASE d.n < 0 -> "panic"
                          [] d.n >= 0 /\ d.resp.body -> "return"
                          [] OTHER -> "lines"
      BY <1>3 DEF FeedBody
    <2>2. PICK d : /\ d = DecodeYenc(resp, Window, pooled)
                   /\ resp' = d.resp
                   /\ read' = d.n
                   /\ stage' = CASE d.n < 0 -> "panic"
                                 [] d.n >= 0 /\ d.resp.body -> "return"
                                 [] OTHER -> "lines"
      BY <2>1
    <2>3. /\ pooled \in Nat /\ stream' = stream /\ delivered' = delivered
          /\ stage = "feed"
      BY <1>3, DecoderAssumption DEF FeedBody, Parsing, rbVars
    <2>4. from = 0 /\ Pending(rb) - from = Pending(rb) /\ from \in 0..Pending(rb)
      BY <1>1, <1>2, <2>3
    <2>5. Window = SubSeq(StreamFrom(from), 1, Pending(rb) - from)
      BY <2>4, WindowBegins
    <2>6. d = DecodeYenc(resp, SubSeq(StreamFrom(from), 1, Pending(rb) - from), pooled)
      BY <2>2, <2>5
    <2>7. d.n \in Int
      <3>1. Window \in Seq(Nat)
        <4>1. Window \in Seq(Characters)
          BY WindowOfStream
        <4> QED BY <4>1, CharactersAreNat, SeqMonotonic, Zenon
      <3> HIDE DEF Window
      <3> QED BY <1>1, <2>2, <2>3, <3>1, YencResponse
    <2>8. /\ read' = from + d.n
          /\ stage' = "lines" => ~d.resp.body /\ d.n >= 0
      <3> DEFINE n == d.n
      <3>1. n \in Int /\ read' = n
            /\ stage' = CASE n < 0 -> "panic"
                          [] n >= 0 /\ d.resp.body -> "return"
                          [] OTHER -> "lines"
        BY <2>2, <2>7
      <3> HIDE DEF n
      <3>2. read' = from + n /\ (stage' = "lines" => ~d.resp.body /\ n >= 0)
        BY <2>4, <3>1
      <3> QED BY <3>2 DEF n
    <2> QED BY <1>1, <2>2, <2>3, <2>4, <2>6, <2>8, PieceStep
  <1>4. CASE FeedReturns
    <2>1. /\ read' = 0 /\ resp' = resp /\ stream' = stream
          /\ delivered' = delivered + read /\ stage' # "lines"
      BY <1>4 DEF FeedReturns, Fed
    <2>2. delivered' + read' = delivered + read
      BY <1>1, <2>1
    <2> QED BY <1>1, <1>2, <2>1, <2>2, BodyWaits
  <1>5. CASE LoopHead /\ UNCHANGED decoderVars
    BY <1>1, <1>2, <1>5, BodyWaits DEF LoopHead, decoderVars
  <1>6. ASSUME NEW at, NEW then, RoomStep(at, then) PROVE BodyReadFrom(from)
    BY <1>1, <1>2, <1>6, BodyWaits DEF RoomStep, EnsureWriteSpace
  <1>7. ASSUME NEW at, NEW then, ReadStep(at, then) PROVE BodyReadFrom(from)
    <2>1. PICK n, err : Read(at, then, n, err)
      BY <1>7, Zenon DEF ReadStep, ReadStream
    <2>2. delivered' = delivered
      BY <2>1 DEF Read
    <2> QED BY <1>1, <1>2, <1>7, <2>2, BodyWaits DEF ReadStep
  <1>8. ~FeedLines
    BY <1>1 DEF FeedLines
  <1>9. /\ ~NoLine /\ ~Terminator /\ ~ReadStatusLine /\ ~TextLine /\ ~UULine
        /\ ~YencLine /\ ~YencBody
    <2>1. ASSUME NEW line, NEW n, ReadLine(line, n) PROVE FALSE
      BY <1>1, <2>1 DEF ReadLine
    <2> QED
      BY <1>1, <2>1
      DEF NoLine, Terminator, ReadStatusLine, TextLine, UULine, YencLine, YencBody
  <1>10. ~CallNext /\ ~NextReturns
    BY <1>1 DEF CallNext, NextReturns
  <1> QED
    BY <1>3, <1>4, <1>5, <1>6, <1>7, <1>8, <1>9, <1>10, Zenon
    DEF Next, DecoderStep, ReaderStep

\* A body begins behind its header.
LEMMA BodyBegins ==
  ASSUME DInv, Next, stage = "lines", NEW cut \in Cuts(Rest), BeginsBody(cut.line)
  PROVE  BodyReadFrom(Behind(cut))
PROOF
  <1> DEFINE line == cut.line
             q == Detected(line)
             r == ProcessYencHeader(q, line)
  <1>1. /\ ~IsTerminator(line) /\ ~IsStatusLine(line) /\ IsOtherLine(line, "yenc")
        /\ q.format = "yenc" /\ r.body
    BY DEF BeginsBody, IsOtherLine
  <1>2. pc = "feed" /\ resp \in Responses /\ Sound(resp)
        /\ (resp.format = "yenc" => ~resp.body)
    BY DEF DInv, Places, TypeOK
  <1>3. Len(Rest) \in Nat
    <2>1. Window \in Seq(Characters) /\ read \in Int /\ Len(Window) \in Nat
      BY WindowOfStream DEF DInv, TypeOK
    <2>2. Rest \in Seq(Characters)
      <3>1. read \in 0..Pending(rb) /\ Len(Window) = Pending(rb)
        BY WindowOfStream DEF DInv, TypeOK
      <3> DEFINE w == Window
                 l == Len(w)
      <3>2. w \in Seq(Characters) /\ l \in Nat /\ read \in 0..l
        BY <2>1, <3>1
      <3> HIDE DEF w
      <3>3. SubSeq(w, read + 1, l) \in Seq(Characters)
        BY <3>2
      <3> QED BY <3>3 DEF Rest, w
    <2> QED BY <2>2
  <1>4. ASSUME NEW other \in Cuts(Rest) PROVE other = cut
    BY <1>3, <1>4, OneCut
  <1>5. YencBody
    <2>1. ~FeedBody /\ ~FeedLines /\ ~FeedReturns /\ ~CallNext /\ ~NextReturns
      BY DEF FeedBody, FeedLines, FeedReturns, CallNext, NextReturns
    <2>2. /\ ~LoopHead
          /\ \A at \in {"fill", "more"} : ~RoomStep(at, "fillRead") /\ ~RoomStep(at, "moreRead")
          /\ ~ReaderStep
      <3>1. ~LoopHead
        BY <1>2 DEF LoopHead
      <3>2. ASSUME NEW at \in {"fill", "more"}, NEW then, RoomStep(at, then) PROVE FALSE
        BY <1>2, <3>2 DEF RoomStep, EnsureWriteSpace
      <3>3. ASSUME NEW at \in {"fillRead", "moreRead"}, NEW then, ReadStep(at, then)
            PROVE  FALSE
        <4>1. PICK n, err : Read(at, then, n, err)
          BY <3>3, Zenon DEF ReadStep, ReadStream
        <4> QED BY <1>2, <4>1 DEF Read
      <3> QED BY <3>1, <3>2, <3>3 DEF ReaderStep
    <2>3. ~NoLine
      BY DEF NoLine
    <2>4. ~Terminator
      <3> SUFFICES ASSUME Terminator PROVE FALSE
        OBVIOUS
      <3>1. PICK other \in Cuts(Rest) : IsTerminator(other.line)
        BY DEF Terminator
      <3> QED BY <1>1, <1>4, <3>1
    <2>5. ~ReadStatusLine
      <3> SUFFICES ASSUME ReadStatusLine PROVE FALSE
        OBVIOUS
      <3>1. PICK other \in Cuts(Rest) : IsStatusLine(other.line)
        BY DEF ReadStatusLine
      <3> QED BY <1>1, <1>4, <3>1
    <2>6. ASSUME NEW other \in Cuts(Rest)
          PROVE  ~IsOtherLine(other.line, "unknown") /\ ~IsOtherLine(other.line, "uu")
      BY <1>1, <1>4 DEF IsOtherLine
    <2>7. ~TextLine
      <3> SUFFICES ASSUME TextLine PROVE FALSE
        OBVIOUS
      <3>1. PICK other \in Cuts(Rest) : IsOtherLine(other.line, "unknown")
        BY DEF TextLine
      <3> QED BY <2>6, <3>1
    <2>8. ~UULine
      <3> SUFFICES ASSUME UULine PROVE FALSE
        OBVIOUS
      <3>1. PICK other \in Cuts(Rest) : IsOtherLine(other.line, "uu")
        BY DEF UULine
      <3> QED BY <2>6, <3>1
    <2>9. ~YencLine
      <3> SUFFICES ASSUME YencLine PROVE FALSE
        OBVIOUS
      <3>1. PICK other \in Cuts(Rest) :
              /\ resp' = ProcessYencHeader(Detected(other.line), other.line)
              /\ ~resp'.body
        BY DEF YencLine
      <3> QED BY <1>1, <1>4, <3>1
    <2> QED
      BY <2>1, <2>2, <2>3, <2>4, <2>5, <2>7, <2>8, <2>9, Zenon DEF Next, DecoderStep
  <1>6. PICK pooled \in PoolCaps : \E e \in {DecodeYenc(r, cut.after, pooled)} :
          /\ ReadLine(line, e.n)
          /\ resp' = e.resp
          /\ stage' = IF e.resp.body THEN "return" ELSE "lines"
    <2>1. PICK other \in Cuts(Rest) :
            \E p \in {ProcessYencHeader(Detected(other.line), other.line)} :
              \E e \in {DecodeYenc(p, other.after, pooled) : pooled \in PoolCaps} :
                /\ ReadLine(other.line, e.n)
                /\ resp' = e.resp
                /\ stage' = IF e.resp.body THEN "return" ELSE "lines"
      BY <1>5 DEF YencBody
    <2>2. other = cut
      BY <1>4
    <2> QED BY <2>1, <2>2
  <1>7. PICK d : /\ d = DecodeYenc(r, cut.after, pooled)
                 /\ ReadLine(line, d.n)
                 /\ resp' = d.resp
                 /\ stage' = IF d.resp.body THEN "return" ELSE "lines"
    BY <1>6
  <1>8. /\ line \in Seq(Characters) /\ cut.after \in Seq(Nat)
        /\ Len(line) \in Nat /\ read \in Nat
    BY LineOfWindow
  <1>9. q \in Responses /\ Sound(q) /\ ~q.body
    BY <1>1, DetectedSound
  <1>10. q.state = resp.state /\ q.data = resp.data
    <2>1. CASE resp.format = "unknown"
      BY <1>2, <2>1, DetectResponse DEF Detected
    <2>2. CASE resp.format # "unknown"
      BY <2>2 DEF Detected
    <2> QED BY <2>1, <2>2
  <1> HIDE DEF q
  <1>11. r \in Responses /\ Sound(r) /\ Kept(q, r)
    BY <1>1, <1>8, <1>9, HeaderResponse, HeaderSound
  <1> HIDE DEF r
  <1>12. /\ r.format = "yenc" /\ r.state = resp.state /\ r.data = resp.data
         /\ r.state \in {"CRLF", "NONE"}
    <2>1. q.state \in {"CRLF", "NONE"}
      BY <1>9 DEF Sound
    <2> QED BY <1>1, <1>10, <1>11, <2>1 DEF Kept
  <1> DEFINE from == Behind(cut)
  <1>13. pooled \in Nat
    BY DecoderAssumption
  <1>14. d.n \in Int /\ d.n >= 0
    <2>1. d.n \in Int /\ (d.n < 0 => IsCutEnd(r.state, cut.after))
      BY <1>1, <1>7, <1>8, <1>11, <1>12, <1>13, YencResponse
    <2>2. ~(d.n < 0)
      BY <1>12, <2>1 DEF IsCutEnd
    <2> QED BY <2>1, <2>2
  <1>15. /\ from \in 0..Pending(rb)
         /\ cut.after = SubSeq(StreamFrom(from), 1, Pending(rb) - from)
    BY AfterBegins
  <1>16. stream' = stream /\ delivered' = delivered
    BY <1>7 DEF ReadLine, Parsing, rbVars
  <1>17. read' = from + d.n
    <2> DEFINE n == d.n
               l == Len(line)
    <2>1. n \in Int /\ l \in Nat /\ read \in Nat /\ read' = read + l + 2 + n
          /\ from = read + l + 2
      BY <1>7, <1>8, <1>14 DEF ReadLine, Behind
    <2> HIDE DEF n, l, from
    <2>2. read' = from + n
      BY <2>1
    <2> QED BY <2>2 DEF n
  <1>18. stage' = "lines" => ~d.resp.body /\ d.n >= 0
    BY <1>7, <1>14
  <1>19. d = DecodeYenc(r, SubSeq(StreamFrom(from), 1, Pending(rb) - from), pooled)
    BY <1>7, <1>15
  <1> HIDE DEF from
  <1>20. BodyReadFrom(from)
    <2>1. PICK f \in 0..Pending(rb) : f = from
      BY <1>15
    <2>2. BodyReadFrom(f)
      BY <1>1, <1>7, <1>11, <1>12, <1>13, <1>16, <1>17, <1>18, <1>19, <2>1, PieceStep
    <2> QED BY <2>1, <2>2
  <1> QED BY <1>20 DEF from

-----------------------------------------------------------------------------
\* A body is decoded as reading it character by character would, however the reads
\* and the buffer cut it: no step changes what it will come to or passes its end,
\* and the line parser goes on with the end of the data (feed, decode, decodeYenc).
THEOREM BodyIsReadHolds == Spec => BodyIsRead
PROOF
  <1>1. ASSUME DInv, Next, NEW from \in PieceFrom PROVE BodyReadFrom(from)
    <2>1. CASE InBody
      <3>1. from \in {read}
        BY <1>1, <2>1 DEF PieceFrom, InBody
      <3> QED BY <1>1, <2>1, <3>1, BodyGoesOn
    <2>2. CASE ~InBody
      <3>1. stage = "lines"
        BY <1>1, <2>2 DEF PieceFrom
      <3>2. PICK cut \in Cuts(Rest) : BeginsBody(cut.line) /\ from = Behind(cut)
        BY <1>1, <2>2, <3>1 DEF PieceFrom, Behind
      <3> QED BY <1>1, <3>1, <3>2, BodyBegins
    <2> QED BY <2>1, <2>2
  <1>2. DInv /\ [Next]_vars => [\A from \in PieceFrom : BodyReadFrom(from)]_vars
    BY <1>1
  <1> QED BY <1>2, DecoderInvariance, PTL DEF Spec, BodyIsRead

-----------------------------------------------------------------------------
(* Where feed may panic.                                                   *)

\* A piece of a body begins within the terminator of an article without a trailer.
CutsTerminator ==
  /\ stage = "feed" /\ resp.body /\ resp.format = "yenc"
  /\ IsCutEnd(resp.state, Window)

\* The next line is one the test for a UU line slices before its beginning.
TriesBlankLine ==
  /\ stage = "lines" /\ resp.format = "unknown"
  /\ \E cut \in Cuts(Rest) : DetectPanics(resp, cut.line)

\* Nothing else makes a step of feed panic.
LEMMA PanicStep ==
  ASSUME DInv, NeverPanics, ~CutsTerminator, ~TriesBlankLine, [Next]_vars
  PROVE  NeverPanics'
PROOF
  <1>1. CASE UNCHANGED vars
    BY <1>1 DEF vars, decoderVars, NeverPanics
  <1>2. CASE FeedBody
    <2>1. PICK pooled \in PoolCaps : \E d \in {DecodeYenc(resp, Window, pooled)} :
            stage' = CASE d.n < 0 -> "panic"
                       [] d.n >= 0 /\ d.resp.body -> "return"
                       [] OTHER -> "lines"
      BY <1>2 DEF FeedBody
    <2>2. PICK d : /\ d = DecodeYenc(resp, Window, pooled)
                   /\ stage' = CASE d.n < 0 -> "panic"
                                 [] d.n >= 0 /\ d.resp.body -> "return"
                                 [] OTHER -> "lines"
      BY <2>1
    <2>3. /\ stage = "feed" /\ resp.body /\ resp.format = "yenc"
          /\ resp \in Responses /\ Sound(resp) /\ pooled \in Nat
      BY <1>2, DecoderAssumption DEF FeedBody, DInv, TypeOK
    <2>4. Window \in Seq(Nat)
      <3>1. Window \in Seq(Characters)
        BY WindowOfStream
      <3> QED BY <3>1, CharactersAreNat, SeqMonotonic, Zenon
    <2>5. ~IsCutEnd(resp.state, Window)
      BY <2>3 DEF CutsTerminator
    <2> HIDE DEF Window
    <2>6. d.n \in Int /\ ~(d.n < 0)
      BY <2>2, <2>3, <2>4, <2>5, YencResponse
    <2>7. stage' \in {"return", "lines"}
      BY <2>2, <2>6
    <2> QED BY <2>7 DEF NeverPanics
  <1>3. CASE TextLine
    <2>1. PICK cut \in Cuts(Rest) :
            /\ stage = "lines" /\ IsOtherLine(cut.line, "unknown")
            /\ stage' = IF DetectPanics(resp, cut.line) THEN "panic" ELSE stage
      BY <1>3 DEF TextLine, ReadLine
    <2>2. resp.format = "unknown"
      BY <2>1 DEF IsOtherLine, Detected
    <2>3. ~DetectPanics(resp, cut.line)
      BY <2>1, <2>2 DEF TriesBlankLine
    <2> QED BY <2>1, <2>3 DEF NeverPanics
  <1>4. CASE FeedLines \/ NoLine \/ Terminator \/ UULine \/ YencLine
    BY <1>4 DEF FeedLines, NoLine, Terminator, UULine, YencLine, NeverPanics
  <1>5. CASE ReadStatusLine \/ YencBody
    <2>1. stage' \in {"return", "lines"}
      BY <1>5 DEF ReadStatusLine, YencBody
    <2> QED BY <2>1 DEF NeverPanics
  <1>6. CASE FeedReturns \/ CallNext \/ NextReturns
    BY <1>6 DEF FeedReturns, CallNext, NextReturns, NeverPanics
  <1>7. CASE LoopHead /\ UNCHANGED decoderVars
    BY <1>7 DEF decoderVars, NeverPanics
  <1>8. ASSUME NEW at, NEW then, RoomStep(at, then) PROVE NeverPanics'
    BY <1>8 DEF RoomStep, NeverPanics
  <1>9. ASSUME NEW at, NEW then, ReadStep(at, then) PROVE NeverPanics'
    BY <1>9 DEF ReadStep, NeverPanics
  <1> QED
    BY <1>1, <1>2, <1>3, <1>4, <1>5, <1>6, <1>7, <1>8, <1>9, Zenon
    DEF Next, DecoderStep, ReaderStep

\* feed panics in two cases only: decodeYenc takes back what an earlier call has
\* consumed of a terminator, or detectFormat tries a line that begins with a character
\* for no bytes.  While the streams have neither, it never does (response.go).
THEOREM NeverPanicsElsewhere ==
  Spec /\ [](~CutsTerminator /\ ~TriesBlankLine) => []NeverPanics
PROOF
  <1>1. Init => NeverPanics
    BY DEF Init, NeverPanics
  <1>2. DInv /\ NeverPanics /\ ~CutsTerminator /\ ~TriesBlankLine /\ [Next]_vars
          => NeverPanics'
    BY PanicStep
  <1> QED BY <1>1, <1>2, DecoderInvariance, PTL DEF Spec
=============================================================================
