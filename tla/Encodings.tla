----------------------------- MODULE Encodings ------------------------------
(***************************************************************************)
(* Base64.cpp, StringUtils.cpp, WwwFormEncodedDict.cpp and the parsing of  *)
(* HttpUtils.cpp, one step per call: what is given is encoded, what is     *)
(* encoded is decoded.                                                     *)
(*                                                                         *)
(* A Base64 string is a sequence of digits: the values 0 .. 63 of the      *)
(* letters, Pad for "=", Invalid for every other character. Other strings  *)
(* are sequences of character codes.                                       *)
(***************************************************************************)
EXTENDS Integers, Sequences, SequencesExt, TLC

CONSTANTS
  Datas,            \* byte arrays to encode
  Digits64,         \* Base64 strings to decode
  Dicts,            \* forms to encode
  Queries,          \* strings to parse as forms and as parameters
  Pad, Invalid,
  Thrown            \* a call that throws

VARIABLES
  given,            \* the value at the beginning
  value,            \* the result of the last call
  state             \* what value is

vars == <<given, value, state>>
-----------------------------------------------------------------------------
(* Base64.                                                                 *)

\* Mutant: the last digit of a group with one byte missing is not padded.
EncodedChunkUnpadded(d) ==
  LET at(k) == IF k <= Len(d) THEN d[k] ELSE 0
      bits == at(1) * 2^16 + at(2) * 2^8 + at(3)
  IN <<(bits \div 2^18) % 64, (bits \div 2^12) % 64,
       IF Len(d) = 1 THEN Pad ELSE (bits \div 2^6) % 64, bits % 64>>

\* The 24 bits of up to three bytes as four digits.
EncodedChunk(d) ==
  LET at(k) == IF k <= Len(d) THEN d[k] ELSE 0
      bits == at(1) * 2^16 + at(2) * 2^8 + at(3)
  IN <<(bits \div 2^18) % 64, (bits \div 2^12) % 64,
       IF Len(d) = 1 THEN Pad ELSE (bits \div 2^6) % 64,
       IF Len(d) < 3 THEN Pad ELSE bits % 64>>

\* A sequence in pieces of n, the last one perhaps shorter.
Pieces(s, n) ==
  [k \in 1 .. (Len(s) + n - 1) \div n |->
     SubSeq(s, n * (k - 1) + 1, IF n * k < Len(s) THEN n * k ELSE Len(s))]

bytesToBase64(d) ==
  FlattenSeq([k \in DOMAIN Pieces(d, 3) |-> EncodedChunk(Pieces(d, 3)[k])])

ChunkThrows(c, isLast) ==
  \/ Invalid \in {c[1], c[2], c[3], c[4]} \/ Pad \in {c[1], c[2]}
  \/ c[3] = Pad /\ ~(isLast /\ c[4] = Pad)
  \/ c[4] = Pad /\ ~isLast

\* The bytes a group of four digits is decoded to.
DecodedChunk(c) ==
  LET at(k) == IF c[k] = Pad THEN 0 ELSE c[k]
      bits == at(1) * 2^18 + at(2) * 2^12 + at(3) * 2^6 + at(4)
      numBytes == IF c[4] # Pad THEN 3 ELSE IF c[3] # Pad THEN 2 ELSE 1
  IN SubSeq(<<bits \div 2^16, (bits \div 2^8) % 2^8, bits % 2^8>>, 1, numBytes)

\* Mutant: the size does not count what the padding stands for.
SizeIgnoresPadding(s) == (Len(s) \div 4) * 3

\* The length of the result, from the length of the string and its padding.
Size(s) ==
  LET rem == Len(s) % 4
  IN (Len(s) \div 4) * 3
       + (IF rem = 3 THEN 2 ELSE IF rem = 2 THEN 1
          ELSE IF Last(s) # Pad THEN 0 ELSE IF s[Len(s) - 1] = Pad THEN -2 ELSE -1)

\* The buffer returned, with the bytes written to it, in order, and its
\* length. The empty string gives no buffer and leaves the length as it is.
base64ToBytes(s) ==
  LET padded == s \o (IF Len(s) % 4 = 3 THEN <<Pad>> ELSE IF Len(s) % 4 = 2 THEN <<Pad, Pad>> ELSE <<>>)
      chunks == Pieces(padded, 4)
  IN IF s = <<>> THEN [len |-> 0, bytes |-> <<>>]
     ELSE IF Len(s) % 4 = 1 \/ \E k \in DOMAIN chunks : ChunkThrows(chunks[k], k = Len(chunks))
       THEN Thrown
     ELSE [len |-> Size(s), bytes |-> FlattenSeq([k \in DOMAIN chunks |-> DecodedChunk(chunks[k])])]
-----------------------------------------------------------------------------
(* Forms and parameters.                                                   *)

Percent == 37
Ampersand == 38
Equals == 61

IsDigit(c) == c \in 48 .. 57
isalnum(c) == IsDigit(c) \/ c \in 65 .. 90 \/ c \in 97 .. 122

\* Pieces of the string and the delimiters between them.
splitWithDelimiter(str, d) ==
  LET Take(parts, c) ==
        IF c = d \/ parts = <<>> \/ Last(parts) = <<d>> THEN Append(parts, <<c>>)
        ELSE Append(Front(parts), Append(Last(parts), c))
  IN FoldLeft(Take, <<>>, str)

split(str, d) == SelectSeq(splitWithDelimiter(str, d), LAMBDA part : part # <<d>>)

\* The digits of "%02x".
HexDigit(n) == IF n < 10 THEN 48 + n ELSE 87 + n

\* A char is signed: the eight hex digits of a negative one are cut to three.
urlencode(str) ==
  FlattenSeq([k \in DOMAIN str |->
    LET c == str[k]
    IN IF isalnum(c) THEN <<c>>
       ELSE IF c < 128 THEN <<Percent, HexDigit(c \div 16), HexDigit(c % 16)>>
       ELSE <<Percent, HexDigit(15), HexDigit(15), HexDigit(15)>>])

HexValue(c) == CHOOSE n \in 0 .. 15 : c = HexDigit(n) \/ (n > 9 /\ c = 55 + n)
IsHex(c) == IsDigit(c) \/ c \in 97 .. 102 \/ c \in 65 .. 70

\* Mutant: the rest of a piece after an escaped character is dropped.
UnescapedAlone(line) == <<HexValue(line[1]) * 16 + HexValue(line[2])>>

\* A piece after a "%". sscanf() takes one or two hex digits.
Unescaped(line) ==
  <<IF IsHex(line[2]) THEN HexValue(line[1]) * 16 + HexValue(line[2]) ELSE HexValue(line[1])>>
    \o SubSeq(line, 3, Len(line))

\* A piece after a "%" must begin with a hex digit and have two characters.
urldecode(str) ==
  LET lines == splitWithDelimiter(str, Percent)
      escaped == {k \in DOMAIN lines : k > 1 /\ lines[k] # <<Percent>> /\ lines[k - 1] = <<Percent>>}
  IN IF \E k \in escaped : Len(lines[k]) < 2 \/ ~IsHex(lines[k][1]) THEN Thrown
     ELSE FlattenSeq([k \in DOMAIN lines |->
            IF k \in escaped THEN Unescaped(lines[k])
            ELSE IF lines[k] = <<Percent>> THEN <<>> ELSE lines[k]])

\* A map of pairs, of which a later one with the same key counts.
Map(pairs) ==
  [key \in {pairs[k][1] : k \in DOMAIN pairs} |->
     Last(SelectSeq(pairs, LAMBDA pair : pair[1] = key))[2]]

\* The constructor of WwwFormEncodedDict from a body.
parse(body) ==
  LET pairs == [k \in DOMAIN split(body, Ampersand) |-> split(split(body, Ampersand)[k], Equals)]
      decoded == [k \in DOMAIN pairs |-> <<urldecode(pairs[k][1]), urldecode(pairs[k][2])>>]
  IN IF \E k \in DOMAIN pairs : Len(pairs[k]) # 2 THEN Thrown
     ELSE IF \E k \in DOMAIN pairs : Thrown \in {decoded[k][1], decoded[k][2]} THEN Thrown
     ELSE Map(decoded)

encode(dict) ==
  LET keys == SetToSeq(DOMAIN dict)
      fields == [k \in DOMAIN keys |-> urlencode(keys[k]) \o <<Equals>> \o urlencode(dict[keys[k]])]
  IN FlattenSeq([k \in DOMAIN fields |-> IF k = 1 THEN fields[k] ELSE <<Ampersand>> \o fields[k]])

\* HttpUtils::split(): getline() with a delimiter, without empty pieces.
SplitLines(s, d) ==
  LET Take(items, c) ==
        IF c = d THEN Append(items, <<>>) ELSE Append(Front(items), Append(Last(items), c))
  IN SelectSeq(FoldLeft(Take, <<<<>>>>, s), LAMBDA item : item # <<>>)

\* Mutant: a parameter may lack its value.
paramsUnchecked(query) ==
  LET pairs == [k \in DOMAIN SplitLines(query, Ampersand) |->
                  SplitLines(SplitLines(query, Ampersand)[k], Equals) \o <<<<>>, <<>>>>]
  IN Map(pairs)

params(query) ==
  LET pairs == [k \in DOMAIN SplitLines(query, Ampersand) |->
                  SplitLines(SplitLines(query, Ampersand)[k], Equals)]
  IN IF \E k \in DOMAIN pairs : Len(pairs[k]) # 2 THEN Thrown ELSE Map(pairs)
-----------------------------------------------------------------------------
Init ==
  /\ \/ state = "bytes" /\ given \in Datas
     \/ state = "base64" /\ given \in Digits64
     \/ state = "dict" /\ given \in Dicts
     \/ state = "query" /\ given \in Queries
  /\ value = given

Call(from, result, to) == state = from /\ value' = result /\ state' = to /\ UNCHANGED given

EncodeBytes == Call("bytes", bytesToBase64(value), "encoded bytes")
\* With its padding or without.
DecodeBytes ==
  \/ Call("encoded bytes", base64ToBytes(value), "decoded bytes")
  \/ Call("encoded bytes", base64ToBytes(SelectSeq(value, LAMBDA c : c # Pad)), "decoded bytes")
DecodeBase64 == Call("base64", base64ToBytes(value), "decoded base64")
EncodeDict == Call("dict", encode(value), "encoded dict")
DecodeDict == Call("encoded dict", parse(value), "decoded dict")
ParseQuery == Call("query", <<params(value), parse(value)>>, "parsed query")

Next == EncodeBytes \/ DecodeBytes \/ DecodeBase64 \/ EncodeDict \/ DecodeDict \/ ParseQuery

Spec == Init /\ [][Next]_vars
-----------------------------------------------------------------------------
(* Properties.                                                             *)

\* Bytes survive Base64, also when the padding is lost on the way.
Base64RoundTrip ==
  state = "decoded bytes" => value = [len |-> Len(given), bytes |-> given]

\* base64ToBytes() takes exactly the digits with at most two Pads that fill
\* them up to groups of four, which may be missing; then it writes as many
\* bytes as it says. Only for three digits and a Pad in a group it does not:
\* "AB=" is taken for "AB==", and its second byte is never written.
DecodedBase64IsWritten ==
  state = "decoded base64" =>
    LET digits == SelectSeq(given, LAMBDA c : c # Pad)
        pads == Len(given) - Len(digits)
        short == given # <<>> /\ Len(given) % 4 = 3 /\ Last(given) = Pad
        proper == /\ Invalid \notin Range(given)
                  /\ \A k \in 1 .. Len(digits) : given[k] # Pad
                  /\ Len(digits) % 4 # 1
                  /\ pads = 0 \/ pads = (4 - (Len(digits) % 4)) % 4
    IN /\ value # Thrown <=> proper \/ (short /\ Len(digits) % 4 = 2 /\ pads = 1
                                          /\ Invalid \notin Range(given))
       /\ value # Thrown => value.len = Len(value.bytes) + (IF short THEN 1 ELSE 0)

\* A form survives exactly if no key and no value is empty and all characters
\* are of 7 bits: an empty value leaves a pair that parse() throws for, and a
\* larger character is written as "%fff".
FormRoundTrip ==
  state = "decoded dict" =>
    (value = given <=>
       \A s \in DOMAIN given \cup Range(given) : s # <<>> /\ \A k \in DOMAIN s : s[k] < 128)

\* The two parsers agree: params() gives the raw pairs of what parse() takes,
\* and where nothing is escaped they give the same map or both throw.
ParamsAgreeWithForms ==
  state = "parsed query" =>
    LET raw == value[1] form == value[2]
    IN /\ raw = Thrown => form = Thrown
       /\ Percent \notin Range(given) => raw = form
       /\ form # Thrown => DOMAIN form = {urldecode(key) : key \in DOMAIN raw}
=============================================================================
