------------------------------ MODULE Response ------------------------------
(***************************************************************************)
(* An NNTP response while it is parsed (response.go): what each line, and  *)
(* each piece of a yEnc body, does to the Response.                        *)
(*                                                                         *)
(* The stream is a sequence of numbers.  Those below 256 are characters;   *)
(* a number above stands for the text of a line, or for the rest of a line *)
(* behind its "=y", and Text says what the parser finds in it:             *)
(*   status  a status line, with its code                                  *)
(*   begin   "begin <mode> ...", octal when the mode is                    *)
(*   line    any other line                                                *)
(*   ybegin, ypart, yend   "begin ", "part " or "end ", with its words     *)
(* The first three also have chars, the characters of the line.  A word of *)
(* a header is its key, and what the number behind it parses to: ok unless *)
(* the parser reports an error, and the value it returns in any case.  The *)
(* value of a CRC is the data it is of.  The words of a file's name, which *)
(* may look like any other, come last.                                     *)
(***************************************************************************)
EXTENDS UULine

LOCAL INSTANCE SequencesExt  \* IsPrefix

CONSTANTS
  Text,                \* what the numbers above 255 stand for
  YencMaxPartSize,     \* yencMaxPartSize
  YencMinBufferSize,   \* yencMinBufferSize
  SizeMargin,          \* the margin of computeExpectedSize, 64
  IntMax               \* the largest int64

ASSUME ResponseAssumption ==
  /\ YencMaxPartSize \in Nat \ {0} /\ YencMinBufferSize \in Nat \ {0}
  /\ SizeMargin \in Nat /\ IntMax \in Nat
  /\ YencMaxPartSize + SizeMargin <= IntMax

\* What the parser finds in a line or behind a "=y": a text is no character, a
\* status is read from three of them, and a number is an int64 whether or not it
\* parses.
Codes == -99..999
CrcKeys == {"pcrc32", "crc32"}
ReadByChars == {"status", "begin", "line"}
HeaderKinds == {"ybegin", "ypart", "yend"}
HeaderWords ==
  [key : STRING \ CrcKeys, ok : BOOLEAN, value : -IntMax-1..IntMax]
    \cup [key : CrcKeys, ok : BOOLEAN, value : Seq(Byte)]

ASSUME TextAssumption ==
  /\ DOMAIN Text \subseteq Nat \ 0..255
  /\ \A t \in DOMAIN Text :
       /\ Text[t].kind \in ReadByChars \cup HeaderKinds
       /\ Text[t].kind \in ReadByChars => Text[t].chars \in Seq(0..255)
       /\ Text[t].kind = "status" => Text[t].code \in Codes
       /\ Text[t].kind \in HeaderKinds => Text[t].words \in Seq(HeaderWords)

\* What a server sends.
Characters == 0..255 \cup DOMAIN Text

Multiline == {100, 101, 215, 220, 221, 222, 224, 225, 231}
Body == 222
Article == 220
MaybeBinary == {220, 221, 222, 224}

\* statusRead is the decoder's statusLineConsumed (WithStatusLineAlreadyRead).
NewResponse(statusRead) ==
  [statusRead |-> statusRead, format |-> "unknown", code |-> 0, lines |-> 0,
   data |-> <<>>, cap |-> -1,   \* -1: no buffer has been allocated
   state |-> "CRLF", eof |-> FALSE, body |-> FALSE,
   hasPart |-> FALSE, hasBegin |-> FALSE, hasEnd |-> FALSE, hasCrc |-> FALSE,
   hasEmptyLine |-> FALSE, badData |-> FALSE,
   fileSize |-> 0, partSize |-> 0, offset |-> 0, expectedCRC |-> <<>>]

Responses ==
  [statusRead : BOOLEAN, format : {"unknown", "yenc", "uu"}, code : Codes, lines : Nat,
   data : Seq(Byte), cap : Nat \cup {-1},
   state : States, eof : BOOLEAN, body : BOOLEAN,
   hasPart : BOOLEAN, hasBegin : BOOLEAN, hasEnd : BOOLEAN, hasCrc : BOOLEAN,
   hasEmptyLine : BOOLEAN, badData : BOOLEAN,
   fileSize : Int, partSize : Int, offset : Nat, expectedCRC : Seq(Byte)]

-----------------------------------------------------------------------------
(* What a line is.                                                         *)

IsText(c) == c > 255

\* The characters of a line that is not a "=y" one.
Kind(line) == IF Len(line) = 1 /\ IsText(line[1]) THEN Text[line[1]].kind ELSE "line"
Chars(line) ==
  IF Len(line) = 1 /\ IsText(line[1]) /\ Kind(line) \in ReadByChars
    THEN Text[line[1]].chars ELSE line

\* The kind of a "=y" line, and its words.
YKind(line) ==
  IF Len(line) = 3 /\ line[1] = EQ /\ line[2] = Y /\ IsText(line[3])
    THEN Text[line[3]].kind ELSE "none"
Words(line) == Text[line[3]].words

\* Mutant of Extract: the last word with the key counts.
ExtractLast(words, key) ==
  LET found == {i \in 1..Len(words) : words[i].key = key} IN
  IF found = {} THEN [ok |-> FALSE, value |-> 0]
  ELSE words[CHOOSE i \in found : \A j \in found : i >= j]

\* extractInt, extractCRC: the first word with the key, wherever it is.
Extract(words, key) ==
  LET found == {i \in 1..Len(words) : words[i].key = key} IN
  IF found = {} THEN [ok |-> FALSE, value |-> 0]
  ELSE words[CHOOSE i \in found : \A j \in found : i <= j]

-----------------------------------------------------------------------------
(* Lines                                                                   *)

\* The first line of a response that is not a UU or yEnc one by then: a status
\* that is no number, or not that of a multi-line response, ends it.
StatusLine(r, line) ==
  LET code == IF Kind(line) = "status" THEN Text[line[1]].code ELSE 0 IN
  [r EXCEPT !.code = code, !.eof = code \notin Multiline]

\* detectFormat
BodyOfArticle(r) ==
  r.statusRead \/ r.code = Body \/ (r.code = Article /\ r.hasEmptyLine)

\* The line shows neither a format nor that it has none (a header line has small
\* letters, which no UU line has): its characters are tested.
Doubtful(r, line) ==
  /\ r.statusRead \/ r.code \in MaybeBinary
  /\ BodyOfArticle(r)
  /\ YKind(line) = "none" /\ Kind(line) # "begin" /\ ~IsFullLine(Chars(line))
  /\ Len(Unstuffed(Chars(line))) > 1

DetectFormat(r, line) ==
  IF ~r.statusRead /\ r.code \notin MaybeBinary THEN r
  ELSE CASE line = <<>> -> [r EXCEPT !.hasEmptyLine = TRUE]
         [] YKind(line) = "ybegin" -> [r EXCEPT !.format = "yenc"]
         [] IsFullLine(Chars(line)) -> [r EXCEPT !.format = "uu"]
         [] Kind(line) = "begin" /\ Text[line[1]].octal -> [r EXCEPT !.format = "uu"]
         [] Doubtful(r, line) /\ LooksLikeUU(Unstuffed(Chars(line))) = "uu" ->
              [r EXCEPT !.format = "uu", !.body = TRUE]
         [] OTHER -> r

DetectPanics(r, line) ==
  Doubtful(r, line) /\ LooksLikeUU(Unstuffed(Chars(line))) = "panic"

\* processYencHeader.  Without a part the body begins behind =ybegin; a begin
\* below 1 or an end before it is ignored.
Ybegin(r, words) ==
  LET size == Extract(words, "size").value
      single == ~Extract(words, "part").ok
  IN  [r EXCEPT !.hasBegin = TRUE, !.fileSize = size,
                !.body = @ \/ single,
                !.partSize = IF single THEN size ELSE @]

\* Mutant of Ypart: begin, which counts from 1, is taken for the offset.
YpartFromBegin(r, words) ==
  LET begin == Extract(words, "begin").value
      end == Extract(words, "end").value
  IN  [r EXCEPT !.hasPart = TRUE, !.body = TRUE, !.offset = begin,
                !.partSize = IF end >= begin THEN end - begin ELSE @]

Ypart(r, words) ==
  LET begin == Extract(words, "begin")
      end == Extract(words, "end")
      from == IF begin.ok /\ begin.value >= 1 THEN begin.value ELSE 0
      offset == IF from > 0 THEN from - 1 ELSE r.offset
  IN  [r EXCEPT !.hasPart = TRUE, !.body = TRUE, !.offset = offset,
                !.partSize = IF end.ok /\ end.value >= from THEN end.value - offset ELSE @]

\* Mutant of CrcWord: the CRC of the whole file is looked for first.
CrcWordOfFile(words) ==
  LET file == Extract(words, "crc32") IN
  IF file.ok THEN file ELSE Extract(words, "pcrc32")

\* The CRC of the part, else that of the file.
CrcWord(words) ==
  LET part == Extract(words, "pcrc32") IN
  IF part.ok THEN part ELSE Extract(words, "crc32")

Yend(r, words) ==
  LET crc == CrcWord(words) IN
  [r EXCEPT !.hasEnd = TRUE, !.hasCrc = @ \/ crc.ok,
            !.expectedCRC = IF crc.ok THEN crc.value ELSE @]

ProcessYencHeader(r, line) ==
  CASE YKind(line) = "ybegin" -> Ybegin(r, Words(line))
    [] YKind(line) = "ypart"  -> Ypart(r, Words(line))
    [] YKind(line) = "yend"   -> Yend(r, Words(line))
    [] OTHER -> r

\* decodeUU
EndOfUU == {<<Backtick>>, <<101, 110, 100>>}  \* "`", "end"

\* An empty line, "-- " and "Posted via ..." are no data.
PostedVia == <<80, 111, 115, 116, 101, 100, 32, 118, 105, 97, 32>>
IsJunk(line) == line \in {<<>>, <<45, 45, 32>>} \/ IsPrefix(PostedVia, line)

DecodeUU(r, line) ==
  LET chars == Chars(line)
      inBody == r.body \/ IsFullLine(chars)
      d == UUDecoded(Unstuffed(chars))
  IN  CASE ~r.body /\ Kind(line) = "begin" -> [r EXCEPT !.body = TRUE]
        [] inBody /\ chars \in EndOfUU ->
             [r EXCEPT !.body = FALSE, !.fileSize = Len(r.data)]
        [] inBody /\ chars \notin EndOfUU /\ ~IsJunk(chars) ->
             [r EXCEPT !.body = TRUE, !.data = @ \o d.bytes, !.badData = @ \/ d.bad]
        [] OTHER -> r

-----------------------------------------------------------------------------
(* The yEnc body                                                           *)

AtMost(a, b) == IF a < b THEN a ELSE b
AtLeast(a, b) == IF a > b THEN a ELSE b

\* The size the headers declare.
Declared(r) == IF r.partSize <= 0 THEN r.fileSize ELSE r.partSize

\* An int64 wraps.
Int64(n) == ((n + IntMax + 1) % (2 * (IntMax + 1))) - IntMax - 1

\* Mutants of ExpectedSize: no margin for the end of the data; it is added
\* before the size is clamped.
ExactSize(r) == AtMost(AtLeast(Declared(r), YencMinBufferSize), YencMaxPartSize)
MarginFirst(r) ==
  AtMost(AtLeast(Int64(Declared(r) + SizeMargin), YencMinBufferSize), YencMaxPartSize)

ExpectedSize(r) ==
  LET padded == Int64(AtMost(Declared(r), YencMaxPartSize) + SizeMargin) IN
  AtMost(AtLeast(padded, YencMinBufferSize), YencMaxPartSize)

\* ensureData: the buffer is allocated with the first piece, of the capacity
\* dataFunc gave if that is enough, and grows when it is full.
Allocated(r, pooled) ==
  IF r.cap = -1 THEN [r EXCEPT !.cap = AtLeast(pooled, ExpectedSize(r))] ELSE r

Space(r) == r.cap - Len(r.data)

\* Mutant of WithData: the buffer grows whenever it cannot take all of buf.
WithDataEager(r, buf, pooled) ==
  LET a == Allocated(r, pooled)
      need == Len(a.data) + Len(buf)
  IN  IF Space(a) >= Len(buf) THEN a
      ELSE [a EXCEPT !.cap = AtLeast(need, 2 * @)]

WithData(r, buf, pooled) ==
  LET a == Allocated(r, pooled)
      need == Len(a.data) + Len(buf)
  IN  IF Space(a) > 0 THEN a
      ELSE [a EXCEPT !.cap = AtLeast(need, 2 * @)]

\* Mutant of Decodable: all of the buffer is decoded, whatever the space.
DecodableAll(r, buf) == buf

\* The part of the buffer that can be decoded into that space.
Decodable(r, buf) == SubSeq(buf, 1, AtMost(Space(r), Len(buf)))

\* Mutant of GivenBack: the line end before "=y" is given back with it.
GivenBackWithLineEnd(k) ==
  CASE k.end = "control" -> 4
    [] k.end = "article" -> 3
    [] k.end = "none" /\ k.state = "CRLFEQ" -> 1
    [] OTHER -> 0

\* decodeYenc, as the Response it leaves and the bytes it consumed.  The end of
\* the data is given back to the line parser: "=y", or ".\r\n", or the "=" that
\* may begin it.
GivenBack(k) ==
  CASE k.end = "control" -> 2
    [] k.end = "article" -> 3
    [] k.end = "none" /\ k.state = "CRLFEQ" -> 1
    [] OTHER -> 0

\* Mutant of Decoded: the State is that behind the "=" given back.
DecodedBehindEQ(r, k) ==
  [resp |-> [r EXCEPT !.data = @ \o k.out, !.state = k.state, !.body = (k.end = "none")],
   n |-> k.pos - GivenBack(k)]

Decoded(r, k) ==
  [resp |-> [r EXCEPT !.data = @ \o k.out,
                      !.state = IF GivenBack(k) = 1 THEN "CRLF" ELSE k.state,
                      !.body = (k.end = "none")],
   n |-> k.pos - GivenBack(k)]

DecodeYenc(r, buf, pooled) ==
  LET a == WithData(r, buf, pooled)
      decoded[k \in Config] == Decoded(a, k)
  IN  IF buf = <<>> THEN [resp |-> r, n |-> 0]
      ELSE decoded[Decode(Decodable(a, buf), a.state)]

-----------------------------------------------------------------------------
\* metaError, when the response has ended.
MetaError(r) ==
  CASE r.format # "yenc" -> "none"
    [] r.format = "yenc" /\ ~r.hasBegin -> "ErrDataMissing"
    [] r.format = "yenc" /\ r.hasBegin /\ ~r.hasEnd -> "ErrDataCorruption"
    [] r.format = "yenc" /\ r.hasBegin /\ r.hasEnd ->
         IF \/ ~r.hasPart /\ r.fileSize > 0 /\ r.fileSize # Len(r.data)
            \/ r.hasPart /\ r.partSize # Len(r.data) THEN "ErrDataCorruption"
         ELSE IF r.hasCrc /\ r.expectedCRC # r.data THEN "ErrCrcMismatch"
         ELSE "none"
=============================================================================
