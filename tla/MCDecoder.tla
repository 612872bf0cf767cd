----------------------------- MODULE MCDecoder -----------------------------
(***************************************************************************)
(* Streams for module Decoder, built from what a server sends, each with   *)
(* the answers due for it, which are written down here from the content of *)
(* the articles and not computed by the model.                             *)
(***************************************************************************)
EXTENDS Decoder, SequencesExt

NL == <<CR, LF>>
X == 88

\* Bodies as they are sent, and the data they encode: an escape and a line
\* beginning with a stuffed dot, "=y" within a line, no data at all, and more than
\* the margin.
Bodies ==
  <<[raw |-> <<X, EQ, 125>> \o NL \o <<DOT, DOT>>, data |-> <<46, 19, 4>>],
    [raw |-> <<DOT, DOT, X, EQ, Y>>,               data |-> <<4, 46, 15>>],
    [raw |-> <<X>> \o NL \o <<X>>,                 data |-> <<46, 46>>],
    [raw |-> <<>>,                                 data |-> <<>>],
    [raw |-> [i \in 1..6 |-> X],                   data |-> [i \in 1..6 |-> 46]]>>

-----------------------------------------------------------------------------
(* The texts                                                               *)

Status(code) == 1000 + code
StatusChars(code) == <<48 + code \div 100, 48 + ((code \div 10) % 10), 48 + (code % 10)>>

Word(key, value) == [key |-> key, ok |-> TRUE, value |-> value]
NoNumber(key, value) == [key |-> key, ok |-> FALSE, value |-> value]

\* "=ybegin " and "=ypart " with one-digit numbers; a size that no int64 holds;
\* and a file whose name is "size=9".
YbeginText(size, part) == 300 + 10 * part + size
YpartText(begin, end) == 400 + 10 * begin + end
YbeginHuge == 290
YbeginNamed(size) == 280 + size
Named(size) == <<Word("size", size), NoNumber("name", 0), Word("size", 9)>>

\* "=yend " with the CRC of body i, as that of a part, behind which that of its
\* file comes, of the file, or of the file behind one that is not hexadecimal.
NoCrc == 500
PartCrc(i) == 500 + i
FileCrc(i) == 510 + i
OnlyFileCrc(i) == 520 + i
YendWords(t) ==
  LET i == t % 10  crc == Bodies[i].data IN
  CASE t = NoCrc -> <<>>
    [] t \in 501..509 -> <<Word("pcrc32", crc), Word("crc32", <<0>>)>>
    [] t \in 511..519 -> <<Word("crc32", crc)>>
    [] t \in 521..529 -> <<NoNumber("pcrc32", <<>>), Word("crc32", crc)>>

\* UU lines as an encoder makes them (uuLine of baddata_test.go): whole groups,
\* filled up with zeros.
UUChar(n) == SP + (n % 64)
UUEncoded(data) ==
  LET at(i) == IF i <= Len(data) THEN data[i] ELSE 0
      char(g, k) == CASE k = 0 -> UUChar(at(3 * g + 1) \div 4)
                      [] k = 1 -> UUChar(at(3 * g + 1) * 16 + at(3 * g + 2) \div 16)
                      [] k = 2 -> UUChar(at(3 * g + 2) * 4 + at(3 * g + 3) \div 64)
                      [] k = 3 -> UUChar(at(3 * g + 3))
  IN  <<UUChar(Len(data))>>
        \o [i \in 1..4 * ((Len(data) + 2) \div 3) |-> char((i - 1) \div 4, (i - 1) % 4)]
DotStuffed(line) == IF line[1] = DOT THEN <<DOT>> \o line ELSE line

\* Data of n bytes, and its line; 14 of them give a line that begins with a dot.
UUData(n) == [i \in 1..n |-> (37 * i + n) % 256]
UUText(n) == 600 + n
UULines ==
  CHOOSE f \in {[n \in {1, 2, 3, 14, 45} |-> DotStuffed(UUEncoded(UUData(n)))]} : TRUE

\* Lines of text, the last ones of which decodeUU passes over, and UU lines that
\* lack characters at their end: those of zeros, trimmed as blanks, and others.
TextLines ==
  <<[i \in 1..5 |-> 104],                \* "hhhhh"
    <<33, 104, 105>>,                     \* "!hi"
    <<DOT, DOT, 72, 105>>,                \* "..Hi"
    <<45, 45, 32>>, PostedVia \o <<88>>,
    SubSeq(UUEncoded(UUData(1)), 1, 3),
    SubSeq(UUEncoded(UUData(6)), 1, 7),
    SubSeq(UUEncoded(UUData(6)), 1, 6)>>
Some(i) == 660 + i
Word1 == Some(1)
UUEnd == 670
UUBegin == 671
BadBegin == 672
BeginChars(mode) == <<98, 101, 103, 105, 110, 32, mode, 32, 88>>

TextOf(t) ==
  CASE t \in 1000..1999 -> [kind |-> "status", code |-> t - 1000, chars |-> StatusChars(t - 1000)]
    [] t = YbeginHuge -> [kind |-> "ybegin", words |-> <<NoNumber("size", IntMax)>>]
    [] t \in 281..289 -> [kind |-> "ybegin", words |-> Named(t - 280)]
    [] t \in 300..309 -> [kind |-> "ybegin", words |-> <<Word("size", t % 10)>>]
    [] t \in 310..399 -> [kind |-> "ybegin", words |-> <<Word("part", (t - 300) \div 10), Word("size", t % 10)>>]
    [] t \in 400..499 -> [kind |-> "ypart", words |-> <<Word("begin", (t - 400) \div 10), Word("end", t % 10)>>]
    [] t \in 500..529 /\ t % 10 \in 0..Len(Bodies) -> [kind |-> "yend", words |-> YendWords(t)]
    [] t - 600 \in DOMAIN UULines -> [kind |-> "line", chars |-> UULines[t - 600]]
    [] t \in 661..660+Len(TextLines) -> [kind |-> "line", chars |-> TextLines[t - 660]]
    [] t = UUEnd -> [kind |-> "line", chars |-> <<Backtick>>]
    [] t = UUBegin -> [kind |-> "begin", octal |-> TRUE, chars |-> BeginChars(54)]
    [] t = BadBegin -> [kind |-> "begin", octal |-> FALSE, chars |-> BeginChars(57)]

MCTexts ==
  (281..290) \cup (300..499) \cup {500} \cup {500 + 10 * k + i : k \in 0..2, i \in 1..Len(Bodies)}
    \cup {600 + n : n \in DOMAIN UULines} \cup (661..660+Len(TextLines)) \cup (670..672) \cup {1100, 1220, 1222, 1430}
MCText == [t \in MCTexts |-> TextOf(t)]

Lines(texts) == FlattenSeq([i \in 1..Len(texts) |-> <<texts[i]>> \o NL])
End == <<DOT>> \o NL
Ybegin1(size, part) == <<EQ, Y, YbeginText(size, part)>> \o NL
Ypart1(begin, end) == <<EQ, Y, YpartText(begin, end)>> \o NL
Yend1(text) == <<EQ, Y, text>> \o NL

-----------------------------------------------------------------------------
(* Responses: their bytes and the answer due.                              *)

Response1(bytes, err, code, format, lines, data) ==
  [bytes |-> bytes,
   answer |-> [err |-> err, code |-> code, format |-> format, lines |-> lines,
               data |-> data, bad |-> FALSE]]

\* A yEnc body: what its headers say of it may be wrong.
Headed(ybegin, i, crc, err) ==
  Response1(Lines(<<Status(222)>>) \o <<EQ, Y, ybegin>> \o NL \o Bodies[i].raw \o NL
              \o Yend1(crc) \o End,
            err, 222, "yenc", 0, Bodies[i].data)

Single(i, size, crc, err) == Headed(YbeginText(size, 0), i, crc, err)

Part(i, begin, end, crc, err) ==
  Response1(Lines(<<Status(222)>>) \o Ybegin1(9, 1) \o Ypart1(begin, end)
              \o Bodies[i].raw \o NL \o Yend1(crc) \o End,
            err, 222, "yenc", 0, Bodies[i].data)

Size(i) == Len(Bodies[i].data)

Intact ==
  {Single(i, Size(i), FileCrc(i), "none") : i \in 1..4}
    \cup {Single(3, Size(3), NoCrc, "none"), Single(3, Size(3), OnlyFileCrc(3), "none"),
           Headed(YbeginNamed(Size(3)), 3, FileCrc(3), "none")}
    \cup {Part(i, 3, 2 + Size(i), PartCrc(i), "none") : i \in 2..3}

Damaged ==
  {Single(1, Size(1) + 1, FileCrc(1), "ErrDataCorruption"),
   Single(1, Size(1) - 1, FileCrc(1), "ErrDataCorruption"),
   Single(5, 1, FileCrc(5), "ErrDataCorruption"),
   Headed(YbeginHuge, 1, FileCrc(1), "ErrDataCorruption"),
   Part(2, 1, Size(2) + 1, PartCrc(2), "ErrDataCorruption"),
   Single(3, Size(3), FileCrc(1), "ErrCrcMismatch")}

\* The article ends before its =yend line.  With a declared size that leaves room
\* for all of it, only a read can cut its terminator.
WithoutYend(size) ==
  Response1(Lines(<<Status(222)>>) \o Ybegin1(size, 0) \o Bodies[3].raw \o NL \o End,
            "ErrDataCorruption", 222, "yenc", 0, Bodies[3].data)

\* The body holds more than its header declares, by more than the margin.
Oversize ==
  Response1(Lines(<<Status(222)>>) \o Ybegin1(1, 0)
              \o [i \in 1..SizeMargin |-> X] \o NL \o Bodies[1].raw \o NL
              \o Yend1(FileCrc(1)) \o End,
            "ErrDataCorruption", 222, "yenc", 0,
            [i \in 1..SizeMargin |-> X - 42] \o Bodies[1].data)

\* Responses without binary data.
Refused == Response1(Lines(<<Status(430)>>), "none", 430, "unknown", 0, <<>>)
Help == Response1(Lines(<<Status(100), Word1, Word1>>) \o <<X>> \o NL
                    \o <<DOT, DOT>> \o NL \o End,
                  "none", 100, "unknown", 4, <<>>)

\* A line as long as the largest response that has to come in one read.
LongLine ==
  Response1(Lines(<<Status(100)>>) \o [i \in 1..16 |-> X] \o NL \o End,
            "none", 100, "unknown", 1, <<>>)

\* An article, its headers apart from its body.
Articles ==
  Response1(Lines(<<Status(220), Word1>>) \o NL \o Ybegin1(Size(3), 0)
              \o Bodies[3].raw \o NL \o Yend1(FileCrc(3)) \o End,
            "none", 220, "yenc", 2, Bodies[3].data)

\* UU: a whole file; a later part of one, with lines that hold no data; the last
\* part; and bodies in which a short line alone shows what they are.
UU(texts, data) ==
  Response1(Lines(<<Status(222)>> \o texts) \o End,
            "none", 222, "uu", 0, data)
UUWhole == UU(<<UUBegin, UUText(45), UUEnd>>, UUData(45))
UUPart == UU(<<UUText(45), Some(4), Some(5), UUText(2)>>, UUData(45) \o UUData(2))
UULast == UU(<<UUText(2), UUEnd>>, UUData(2))
UUShort(n) == UU(<<UUText(n), UUText(1)>>, UUData(n) \o UUData(1))

\* Data that is lost is reported: of a line trimmed, or cut off.
UUBad(i, data) ==
  [UU(<<UUText(45), Some(i), UUEnd>>, UUData(45) \o data) EXCEPT !.answer.bad = TRUE]

\* Text, which only looks like UU, and a header with a mode that is none; in an
\* article a header that could be UU is none, in the body it is.
PlainText ==
  Response1(Lines(<<Status(222), Word1, Some(2), BadBegin, Some(3)>>) \o NL \o End,
            "none", 222, "unknown", 5, <<>>)
UUBadBegin ==
  [UU(<<BadBegin, UUText(45), UUEnd>>, UUData(45)) EXCEPT !.answer.lines = 1]
UUArticle ==
  Response1(Lines(<<Status(220), UUText(1)>>) \o NL \o Lines(<<UUText(1), UUEnd>>) \o End,
            "none", 220, "uu", 2, UUData(1))

\* The same responses behind their status line.
Headless(r) ==
  [r EXCEPT !.bytes = SubSeq(r.bytes, 4, Len(r.bytes)), !.answer.code = 0]

-----------------------------------------------------------------------------
(* Streams                                                                 *)

EndsOf(rs) == [i \in 1..Len(rs) |-> Len(FlattenSeq([j \in 1..i |-> rs[j].bytes]))]

\* The reader cuts the responses anywhere and then says nothing more.  The last
\* response shows what the one before it left in the buffer.
AnyCut(rs) ==
  [bytes |-> FlattenSeq([j \in 1..Len(rs) |-> rs[j].bytes]),
   answers |-> [j \in 1..Len(rs) |-> rs[j].answer],
   ends |-> EndsOf(rs), reader |-> "blocks", pieces |-> {}, statusRead |-> FALSE]

\* The second response comes whole, in one read, for which the first one, with a
\* line as long, has made the buffer grow.
SecondWhole(rs) ==
  [AnyCut(rs) EXCEPT !.pieces = {EndsOf(rs)[1]} \cup EndsOf(rs)[2]..EndsOf(rs)[Len(rs)]]

StatusRead(s) == [s EXCEPT !.statusRead = TRUE]

\* The stream ends after n of its bytes, and what comes before is cut after every
\* third byte, at most.  The answers due are those of the whole responses.
Truncated(rs, n) ==
  LET s == AnyCut(rs) IN
  [s EXCEPT !.bytes = SubSeq(s.bytes, 1, n),
            !.reader = "eof", !.pieces = {i \in 1..n : i % 3 = 0} \cup {n}]

Article1 == Single(1, Size(1), FileCrc(1), "none")
UULike ==
  {UUWhole, UUPart, UULast, UUArticle, UUBadBegin,
   UUBad(6, <<>>), UUBad(7, SubSeq(UUData(6), 1, 3)), UUBad(8, <<>>)}
    \cup {UUShort(n) : n \in {1, 3, 14}}

SomeStreams ==
  {AnyCut(<<r, Refused>>) : r \in Intact \cup Damaged \cup {Help, PlainText, Articles}}
    \cup {Truncated(<<Refused, Article1>>, n) : n \in 1..Len(Refused.bytes \o Article1.bytes)}
    \cup {SecondWhole(<<LongLine, r, Refused>>) : r \in UULike \cup {WithoutYend(YencMaxPartSize)}}
    \cup {StatusRead(AnyCut(<<Headless(Article1)>>)),
           StatusRead(SecondWhole(<<Headless(LongLine), Headless(UULast), Headless(Help)>>))}

\* Those that the read buffer's bound on the stream has room for: all of them.
MCStreams == {s \in SomeStreams : Len(s.bytes) <= StreamLen}

\* One stream each for what the decoder does not do as documented.
NoYendStream == {AnyCut(<<WithoutYend(Size(3)), Refused>>)}
UUCutStream == {AnyCut(<<UULast, Refused>>)}
OversizeStream == {AnyCut(<<Oversize, Refused>>)}
EndWithDataStream == {[AnyCut(<<Help, Refused>>) EXCEPT !.reader = "eofWithData"]}
=============================================================================
