----------------------------- MODULE HttpProofs -----------------------------
(***************************************************************************)
(* Theorems about the two directions of a connection. HTTPRequest: for any *)
(* bytes in any reads, what the parser makes of a request does not depend  *)
(* on where the reads end. FileService: for any directories, pages and     *)
(* paths, what the wrap-around of endswith() does to the type of a page,   *)
(* and what a client makes of an answer wherever the connection ends.      *)
(***************************************************************************)
EXTENDS FileService, HTTPRequest, SequenceTheorems, WellFoundedInduction, TLAPS
-----------------------------------------------------------------------------
(* Reading a request: types.                                               *)

Word == Seq(STRING)

HTTPObject ==
  [m_state : {"INIT", "HEADER", "FIELD", "VALUE", "DONE"},
   m_path : Word, m_query : Word, m_url : Word,
   m_field : Word \cup {Null}, m_value : Word \cup {Null},
   m_headers : Seq(Word \X Word), m_body : Word,
   m_headerDone : BOOLEAN, m_doneParsing : BOOLEAN,
   m_method : SupportedMethods \cup {Null},
   failed : Assertions \cup {"none"}]

TargetStates ==
  {"req_schema", "req_schema_slash", "req_schema_slash_slash", "req_host", "req_port", "req_path",
   "req_query_string_start", "req_query_string", "req_fragment_start", "req_fragment"}

State ==
  {"dead", "start_req", "req_method", "req_spaces_before_url", "req_http_start", "req_http_HTTP",
   "req_first_http_major", "req_http_major", "req_first_http_minor", "req_http_minor",
   "req_line_almost_done", "header_field_start", "header_field", "header_value_start",
   "header_value", "header_almost_done", "headers_almost_done"}
    \cup TargetStates \cup BodyStates

HeaderState ==
  {"general"} \cup {w[1] : w \in DOMAIN FieldWord} \cup Recognized
    \cup {ValueWord[w] : w \in DOMAIN ValueWord}

AnyMethod == FirstLetter \cup {Method[w] : w \in DOMAIN Method} \cup {Null}

Parser ==
  [state : State, header_state : HeaderState, flags : SUBSET (Flag \cup {"upgrade", "trailing"}),
   content_length : Int, major : Nat, minor : Nat, method : AnyMethod,
   nread : 0 .. HTTP_MAX_HEADER_SIZE, ret : {"none", "error", "upgrade"},
   mark : [Fields -> Word \cup {Null}], http : HTTPObject]

\* The tokens a parser is inside of.
Open(state) ==
  CASE state = "req_path" -> {"url", "path"}
    [] state = "req_query_string" -> {"url", "query_string"}
    [] state = "req_fragment" -> {"url", "fragment"}
    [] state \in TargetStates \ {"req_path", "req_query_string", "req_fragment"} -> {"url"}
    [] state = "header_field" -> {"header_field"}
    [] state = "header_value" -> {"header_value"}
    [] OTHER -> {}

Marked(p) == {f \in Fields : p.mark[f] # Null}

\* A parser has something to wait for: a body has bytes left, and the marks
\* are those of the tokens it is inside of.
Waits(p) ==
  /\ p.state \in {"chunk_size", "chunk_size_almost_done", "chunk_parameters"} => p.content_length >= 0
  /\ p.state \in {"body_identity", "chunk_data"} => p.content_length > 0
  /\ p.ret # "error" => Marked(p) = Open(p.state)
  /\ Done(p) => p.http.m_state = "DONE" /\ (p.ret = "none" /\ Alive(p.http) => p.state \in {"start_req", "dead"})
  /\ p.ret = "upgrade" => p.state \in {"headers_almost_done", "header_field_start"}

Hand(p) == EndOfData(p).http

Alike(p, q) ==
  /\ p.state = q.state /\ p.header_state = q.header_state /\ p.flags = q.flags
  /\ p.content_length = q.content_length /\ p.minor = q.minor /\ p.method = q.method
  /\ p.nread = q.nread /\ p.ret = q.ret
  /\ p.state = "req_http_major" => p.major = q.major
  /\ Marked(p) = Marked(q)
  /\ Hand(p) = Hand(q)

\* The request is complete, whatever the parser makes of what follows it.
Over(p) == Done(p) /\ p.state \in {"start_req", "dead"} /\ Marked(p) = {}

\* p is the parser of a request whose reads end anywhere, u that of the same
\* bytes in one read.
Follows(p, u) ==
  /\ u \in Parser /\ Waits(u) /\ Alive(u.http)
  /\ \/ Alike(p, u)
     \/ Over(p) /\ Over(u) /\ p.http = u.http

\* While it reads, the parser follows that of the uncut request, unless the end
\* of the data would stop the process: then no request is completed.
ReadingInv ==
  outcome = "reading" =>
    /\ parser.ret = "none" /\ Alive(parser.http)
    /\ Alive(Hand(parser)) => Follows(parser, Unbroken[at])

RequestInv ==
  /\ sent \in Requests
  /\ TypeOK
  /\ parser \in Parser /\ Waits(parser)
  /\ ReadingInv
  /\ CutsDoNotMatter

Good(p) == p \in Parser /\ Waits(p) /\ p.ret = "none" /\ Alive(p.http)
-----------------------------------------------------------------------------
(* The characters.                                                         *)

LEMMA Domains ==
  /\ DOMAIN Method = {<<"G", "ET">>, <<"P", "OST">>, <<"P", "UT">>, <<"C", "ONNECT">>, <<"O", "PTIONS">>}
  /\ DOMAIN FieldWord = {<<"con", "nection">>, <<"con", "tent-length">>,
                         <<"transfer-", "encoding">>, <<"up", "grade">>}
  /\ DOMAIN ValueWord = {<<"transfer_encoding", "chun">>, <<"chun", "ked">>, <<"connection", "keep-">>,
                         <<"keep-", "alive">>, <<"connection", "clo">>, <<"clo", "se">>}
  /\ DOMAIN Digit = {"0", "1", "2"}
  BY DEF Method, FieldWord, ValueWord, Digit

LEMMA FirstLetters == FirstLetter = {"G", "P", "C", "O"}
<1>1. ASSUME NEW x \in FirstLetter PROVE x \in {"G", "P", "C", "O"}
  BY Domains DEF FirstLetter
<1>2. ASSUME NEW x \in {"G", "P", "C", "O"} PROVE x \in FirstLetter
  <2>1. \E w \in DOMAIN Method : x = w[1]
    <3>1. CASE x = "G"
      BY <3>1, Domains
    <3>2. CASE x = "P"
      BY <3>2, Domains
    <3>3. CASE x = "C"
      BY <3>3, Domains
    <3>4. CASE x = "O"
      BY <3>4, Domains
    <3> QED BY <1>2, <3>1, <3>2, <3>3, <3>4
  <2> QED BY <2>1 DEF FirstLetter
<1> QED BY <1>1, <1>2

\* No letter is a separator.
LEMMA LettersSeparate ==
  /\ \A ch \in Letters : ch \notin {" ", CR, LF, "/", ":", ".", "(", "?", "#"} \cup DOMAIN Digit
  /\ FirstLetter \subseteq Letters
<1>1. ASSUME NEW ch \in Letters PROVE ch \notin {" ", CR, LF, "/", ":", ".", "(", "?", "#"} \cup DOMAIN Digit
  <2>1. CASE ch \in {"x", "HTTP"}
    BY <2>1, Domains DEF CR, LF
  <2>2. CASE \E w \in DOMAIN Method \cup DOMAIN FieldWord : ch \in {w[1], w[2]}
    <3>1. PICK w \in DOMAIN Method \cup DOMAIN FieldWord : ch = w[1] \/ ch = w[2]
      BY <2>2
    <3>2. CASE w \in DOMAIN Method
      <4>1. w[1] \in {"G", "P", "C", "O"} /\ w[2] \in {"ET", "OST", "UT", "ONNECT", "PTIONS"}
        BY <3>2, Domains
      <4> QED BY <3>1, <4>1, Domains DEF CR, LF
    <3>3. CASE w \in DOMAIN FieldWord
      <4>1. /\ w[1] \in {"con", "transfer-", "up"}
            /\ w[2] \in {"nection", "tent-length", "encoding", "grade"}
        BY <3>3, Domains
      <4> QED BY <3>1, <4>1, Domains DEF CR, LF
    <3> QED BY <3>1, <3>2, <3>3
  <2>3. CASE \E w \in DOMAIN ValueWord : ch = w[2]
    <3>1. PICK w \in DOMAIN ValueWord : ch = w[2]
      BY <2>3
    <3>2. w[2] \in {"chun", "ked", "keep-", "alive", "clo", "se"}
      BY <3>1, Domains
    <3> QED BY <3>1, <3>2, Domains DEF CR, LF
  <2>4. \/ ch \in {"x", "HTTP"}
        \/ ch \in UNION {{w[1], w[2]} : w \in DOMAIN Method \cup DOMAIN FieldWord}
        \/ ch \in {w[2] : w \in DOMAIN ValueWord}
    BY <1>1 DEF Letters
  <2> QED BY <2>1, <2>2, <2>3, <2>4
<1>2. FirstLetter \subseteq Letters
  <2>1. ASSUME NEW x \in FirstLetter
        PROVE  x \in UNION {{w[1], w[2]} : w \in DOMAIN Method \cup DOMAIN FieldWord}
    <3>1. PICK w \in DOMAIN Method : x = w[1]
      BY <2>1 DEF FirstLetter
    <3> QED BY <3>1
  <2> QED BY <2>1 DEF Letters
<1> QED BY <1>1, <1>2

LEMMA Characters ==
  ASSUME NEW ch
  PROVE  /\ UrlChar(ch) => ch \notin {" ", CR, LF, "?", "#"}
         /\ Token(ch) => ch \notin {":", CR, LF}
         /\ Acceptable(ch) => ch \notin {CR, LF}
         /\ ch \in FirstLetter => ch \notin {CR, LF}
         /\ ch \in Letters \/ ch \in DOMAIN Digit => ch \notin {" ", CR, LF, "/", ":", ".", "(", "?", "#"}
         /\ ch \in Letters => ch \notin DOMAIN Digit
<1>1. ch \in DOMAIN Digit => ch \notin {" ", CR, LF, "/", ":", ".", "(", "?", "#"}
  BY Domains DEF CR, LF
<1>2. ch \in Letters => ch \notin {" ", CR, LF, "/", ":", ".", "(", "?", "#"} \cup DOMAIN Digit
  BY LettersSeparate
<1>3. UrlChar(ch) => ch \notin {" ", CR, LF, "?", "#"}
  BY <1>1, <1>2 DEF UrlChar, Alphanumeric, CR, LF
<1>4. Token(ch) => ch \notin {":", CR, LF}
  BY <1>1, <1>2 DEF Token, Alphanumeric, CR, LF
<1>5. Acceptable(ch) => ch \notin {CR, LF}
  BY <1>1, <1>2 DEF Acceptable, Alphanumeric, CR, LF
<1> QED BY <1>1, <1>3, <1>4, <1>5, LettersSeparate
-----------------------------------------------------------------------------
(* The callbacks.                                                          *)

LEMMA Digits == DOMAIN Digit = {"0", "1", "2"} /\ \A ch \in DOMAIN Digit : Digit[ch] \in Nat
  BY DEF Digit

LEMMA NullIsNoWord == Null \notin Word
  BY NullAssumption DEF Word

LEMMA SequencesJoin ==
  ASSUME NEW C
  PROVE  /\ <<>> \in Seq(C)
         /\ \A a, b \in Seq(C) : a \o b \in Seq(C)
         /\ \A a, b, c \in Seq(C) : (a \o b) \o c = a \o (b \o c)
         /\ \A a \in Seq(C) : a \o <<>> = a
         /\ \A ch \in C : <<ch>> \in Seq(C)
         /\ \A a \in Seq(C), ch \in C : Append(a, ch) = a \o <<ch>> /\ Append(a, ch) \in Seq(C)
<1>1. \A a, b \in Seq(C) : a \o b \in Seq(C)
  OBVIOUS
<1>2. \A a, b, c \in Seq(C) : (a \o b) \o c = a \o (b \o c)
  OBVIOUS
<1>3. \A a \in Seq(C) : a \o <<>> = a
  OBVIOUS
<1>4. \A a \in Seq(C), ch \in C : Append(a, ch) = a \o <<ch>>
  OBVIOUS
<1>5. <<>> \in Seq(C) /\ \A ch \in C : <<ch>> \in Seq(C)
  OBVIOUS
<1>6. \A a \in Seq(C), ch \in C : Append(a, ch) \in Seq(C)
  OBVIOUS
<1> QED BY <1>1, <1>2, <1>3, <1>4, <1>5, <1>6

LEMMA WordsJoin ==
  /\ <<>> \in Word
  /\ \A a, b \in Word : a \o b \in Word
  /\ \A a, b, c \in Word : (a \o b) \o c = a \o (b \o c)
  /\ \A a \in Word : a \o <<>> = a
  /\ \A ch \in STRING : <<ch>> \in Word
  /\ \A a \in Word, ch \in STRING : Append(a, ch) = a \o <<ch>> /\ Append(a, ch) \in Word
  BY SequencesJoin, Zenon DEF Word

LEMMA FieldAdded ==
  ASSUME NEW h \in HTTPObject
  PROVE  /\ addHeaderField(h) \in HTTPObject
         /\ addHeaderField(h).m_doneParsing = h.m_doneParsing
         /\ addHeaderField(h).m_state = h.m_state
<1>1. CASE h.m_field = Null
  BY <1>1 DEF HTTPObject, addHeaderField, Asserted, Assertions
<1>2. CASE h.m_field # Null /\ h.m_value = Null
  BY <1>2 DEF HTTPObject, addHeaderField, Asserted, Assertions
<1>3. CASE h.m_field # Null /\ h.m_value # Null
  <2>1. PICK hs : hs = Append(h.m_headers, <<h.m_field, h.m_value>>)
    OBVIOUS
  <2>2. <<h.m_field, h.m_value>> \in Word \X Word /\ h.m_headers \in Seq(Word \X Word)
    BY <1>3 DEF HTTPObject
  <2>3. hs \in Seq(Word \X Word)
    BY <2>1, <2>2
  <2>4. addHeaderField(h) = [h EXCEPT !.m_headers = hs, !.m_field = Null, !.m_value = Null]
    BY <1>3, <2>1 DEF addHeaderField, Asserted
  <2> QED BY <2>3, <2>4 DEF HTTPObject
<1> QED BY <1>1, <1>2, <1>3

LEMMA FieldBegun ==
  ASSUME NEW h \in HTTPObject, NEW m \in Word
  PROVE  /\ newHeaderField(h, m) \in HTTPObject
         /\ newHeaderField(h, m).m_doneParsing = h.m_doneParsing
<1>1. PICK added : added = addHeaderField(h)
  OBVIOUS
<1>2. added \in HTTPObject /\ added.m_doneParsing = h.m_doneParsing
  BY <1>1, FieldAdded
<1>3. newHeaderField(h, m) =
        IF Alive(added) THEN [added EXCEPT !.m_field = m, !.m_value = <<>>, !.m_state = "FIELD"]
        ELSE added
  BY <1>1 DEF newHeaderField
<1>4. PICK e \in Word : e = <<>>
  BY WordsJoin
<1>5. CASE Alive(added)
  <2>1. newHeaderField(h, m) = [added EXCEPT !.m_field = m, !.m_value = e, !.m_state = "FIELD"]
    BY <1>3, <1>4, <1>5
  <2>2. PICK g : g = [added EXCEPT !.m_field = m, !.m_value = e, !.m_state = "FIELD"]
    OBVIOUS
  <2>3. g \in HTTPObject /\ g.m_doneParsing = added.m_doneParsing
    BY <1>2, <1>4, <2>2 DEF HTTPObject
  <2> QED BY <1>2, <2>1, <2>2, <2>3
<1>6. CASE ~Alive(added)
  BY <1>2, <1>3, <1>6
<1> QED BY <1>5, <1>6

LEMMA CalledTyped ==
  ASSUME NEW h \in HTTPObject, NEW f \in Fields, NEW m \in Word
  PROVE  /\ Called(h, f, m) \in HTTPObject
         /\ Called(h, f, m).m_doneParsing = h.m_doneParsing
         /\ h.m_state = "DONE" => Called(h, f, m).m_state = "DONE"
         /\ ~Alive(h) => Called(h, f, m) = h
<1>1. CASE ~Alive(h)
  BY <1>1 DEF Called
<1>2. CASE Alive(h) /\ f = "header_field"
  <2>1. Called(h, f, m) = header_field_cb(h, m)
    BY <1>2 DEF Called
  <2>2. CASE h.m_state = "FIELD"
    <3>1. header_field_cb(h, m) =
            IF h.m_field # Null THEN [h EXCEPT !.m_field = @ \o m] ELSE [h EXCEPT !.failed = "HTTP.cpp:379"]
      BY <2>2 DEF header_field_cb, Asserted
    <3>2. CASE h.m_field # Null
      <4>1. PICK w : w = h.m_field \o m
        OBVIOUS
      <4>2. w \in Word
        BY <3>2, <4>1, WordsJoin DEF HTTPObject
      <4>3. Called(h, f, m) = [h EXCEPT !.m_field = w]
        BY <2>1, <3>1, <3>2, <4>1
      <4> QED BY <1>2, <2>2, <4>2, <4>3 DEF HTTPObject
    <3>3. CASE h.m_field = Null
      <4>1. Called(h, f, m) = [h EXCEPT !.failed = "HTTP.cpp:379"]
        BY <2>1, <3>1, <3>3
      <4> QED BY <1>2, <2>2, <4>1 DEF HTTPObject, Assertions
    <3> QED BY <3>2, <3>3
  <2>3. CASE h.m_state \in {"VALUE", "HEADER"}
    <3>1. header_field_cb(h, m) = newHeaderField(h, m)
      BY <2>3 DEF header_field_cb
    <3> QED BY <1>2, <2>1, <2>3, <3>1, FieldBegun
  <2>4. CASE h.m_state \notin {"FIELD", "VALUE", "HEADER"}
    <3>1. header_field_cb(h, m) = [h EXCEPT !.failed = "HTTP.cpp:61"]
      BY <2>4 DEF header_field_cb
    <3> QED BY <1>2, <2>1, <2>4, <3>1 DEF HTTPObject, Assertions
  <2> QED BY <2>2, <2>3, <2>4
<1>3. CASE Alive(h) /\ f = "header_value"
  <2>1. Called(h, f, m) = header_value_cb(h, m)
    BY <1>3 DEF Called
  <2>2. CASE h.m_state \in {"FIELD", "VALUE"} /\ h.m_value # Null
    <3>1. PICK w : w = h.m_value \o m
      OBVIOUS
    <3>2. w \in Word
      BY <2>2, <3>1, WordsJoin DEF HTTPObject
    <3>3. Called(h, f, m) = [h EXCEPT !.m_state = "VALUE", !.m_value = w]
      BY <2>1, <2>2, <3>1 DEF header_value_cb, Asserted
    <3> QED BY <1>3, <2>2, <3>2, <3>3 DEF HTTPObject
  <2>3. CASE ~(h.m_state \in {"FIELD", "VALUE"} /\ h.m_value # Null)
    <3>1. Called(h, f, m) = [h EXCEPT !.failed = "HTTP.cpp:73"]
      BY <2>1, <2>3 DEF header_value_cb, Asserted
    <3> QED BY <1>3, <3>1 DEF HTTPObject, Assertions
  <2> QED BY <2>2, <2>3
<1>4. CASE Alive(h) /\ f = "fragment"
  BY <1>4 DEF Called, fragment_cb, HTTPObject, Assertions
<1>5. CASE Alive(h) /\ f \in {"query_string", "path", "url"}
  <2>1. /\ f = "query_string" => Called(h, f, m) = [h EXCEPT !.m_query = @ \o m]
        /\ f = "path" => Called(h, f, m) = [h EXCEPT !.m_path = @ \o m]
        /\ f = "url" => Called(h, f, m) = [h EXCEPT !.m_url = @ \o m]
    BY <1>5 DEF Called, query_string_cb, path_cb, url_cb
  <2>2. h.m_query \o m \in Word /\ h.m_path \o m \in Word /\ h.m_url \o m \in Word
    BY WordsJoin DEF HTTPObject
  <2>3. PICK a, b, c \in Word : a = h.m_query \o m /\ b = h.m_path \o m /\ c = h.m_url \o m
    BY <2>2
  <2>4. CASE f = "query_string"
    BY <1>5, <2>1, <2>3, <2>4 DEF HTTPObject
  <2>5. CASE f = "path"
    BY <1>5, <2>1, <2>3, <2>5 DEF HTTPObject
  <2>6. CASE f = "url"
    BY <1>5, <2>1, <2>3, <2>6 DEF HTTPObject
  <2> QED BY <1>5, <2>4, <2>5, <2>6
<1>6. f \in {"header_field", "header_value", "fragment", "query_string", "path", "url"}
  BY DEF Fields
<1> QED BY <1>1, <1>2, <1>3, <1>4, <1>5, <1>6

LEMMA CalledTwice ==
  ASSUME NEW h \in HTTPObject, Alive(h), NEW f \in Fields, NEW m \in Word, NEW n \in Word,
         Alive(Called(h, f, m))
  PROVE  Called(Called(h, f, m), f, n) = Called(h, f, m \o n)
<1>1. PICK g : g = Called(h, f, m)
  OBVIOUS
<1>2. g \in HTTPObject /\ Alive(g)
  BY <1>1, CalledTyped
<1>3. CASE f = "header_field"
  <2>1. g = header_field_cb(h, m) /\ Called(h, f, m \o n) = header_field_cb(h, m \o n)
        /\ Called(g, f, n) = header_field_cb(g, n)
    BY <1>1, <1>2, <1>3 DEF Called
  <2>2. CASE h.m_state = "FIELD"
    <3>1. \A x : header_field_cb(h, x) =
            IF h.m_field # Null THEN [h EXCEPT !.m_field = @ \o x] ELSE [h EXCEPT !.failed = "HTTP.cpp:379"]
      BY <2>2 DEF header_field_cb, Asserted
    <3>2. h.m_field \in Word
      BY <1>2, <2>1, <3>1 DEF Alive, HTTPObject
    <3>3. g = [h EXCEPT !.m_field = @ \o m]
      BY <2>1, <3>1, <3>2, NullIsNoWord
    <3>4. g.m_state = "FIELD" /\ g.m_field = h.m_field \o m /\ g.m_field # Null
      <4>1. PICK w : w = h.m_field \o m
        OBVIOUS
      <4>2. w \in Word
        BY <3>2, <4>1, WordsJoin
      <4>3. g = [h EXCEPT !.m_field = w]
        BY <3>3, <4>1
      <4> QED BY <2>2, <4>1, <4>2, <4>3, NullIsNoWord DEF HTTPObject
    <3>5. header_field_cb(g, n) = [g EXCEPT !.m_field = @ \o n]
      BY <3>4 DEF header_field_cb, Asserted
    <3>6. (h.m_field \o m) \o n = h.m_field \o (m \o n)
      BY <3>2, WordsJoin
    <3>7. header_field_cb(h, m \o n) = [h EXCEPT !.m_field = h.m_field \o (m \o n)]
      BY <3>1, <3>2, NullIsNoWord
    <3>8. header_field_cb(g, n) = [h EXCEPT !.m_field = (h.m_field \o m) \o n]
      BY <3>3, <3>4, <3>5 DEF HTTPObject
    <3> QED BY <1>1, <2>1, <3>6, <3>7, <3>8
  <2>3. CASE h.m_state \in {"VALUE", "HEADER"}
    <3>1. PICK added : added = addHeaderField(h)
      OBVIOUS
    <3>2. added \in HTTPObject
      BY <3>1, FieldAdded
    <3>3. \A x : header_field_cb(h, x) =
            IF Alive(added) THEN [added EXCEPT !.m_field = x, !.m_value = <<>>, !.m_state = "FIELD"]
            ELSE added
      BY <2>3, <3>1 DEF header_field_cb, newHeaderField
    <3>4. g = [added EXCEPT !.m_field = m, !.m_value = <<>>, !.m_state = "FIELD"] /\ Alive(added)
      BY <1>2, <2>1, <3>3
    <3>5. g.m_state = "FIELD" /\ g.m_field = m /\ g.m_field # Null
      BY <3>2, <3>4, NullIsNoWord DEF HTTPObject
    <3>6. header_field_cb(g, n) = [g EXCEPT !.m_field = m \o n]
      BY <3>5 DEF header_field_cb, Asserted
    <3>7. [g EXCEPT !.m_field = m \o n] =
            [added EXCEPT !.m_field = m \o n, !.m_value = <<>>, !.m_state = "FIELD"]
      BY <3>2, <3>4 DEF HTTPObject
    <3> QED BY <1>1, <2>1, <3>3, <3>4, <3>6, <3>7
  <2>4. CASE h.m_state \notin {"FIELD", "VALUE", "HEADER"}
    <3>1. header_field_cb(h, m) = [h EXCEPT !.failed = "HTTP.cpp:61"]
      BY <2>4 DEF header_field_cb
    <3> QED BY <1>2, <2>1, <3>1 DEF Alive, HTTPObject
  <2> QED BY <2>2, <2>3, <2>4
<1>4. CASE f = "header_value"
  <2>1. \A x : Called(h, f, x) = header_value_cb(h, x)
    BY <1>4 DEF Called
  <2>2. Called(g, f, n) = header_value_cb(g, n)
    BY <1>2, <1>4 DEF Called
  <2>3. h.m_state \in {"FIELD", "VALUE"} /\ h.m_value \in Word
    BY <1>1, <1>2, <2>1 DEF header_value_cb, Asserted, Alive, HTTPObject
  <2>4. \A x : header_value_cb(h, x) = [h EXCEPT !.m_state = "VALUE", !.m_value = h.m_value \o x]
    BY <2>3, NullIsNoWord DEF header_value_cb, Asserted
  <2>5. g = [h EXCEPT !.m_state = "VALUE", !.m_value = h.m_value \o m]
    BY <1>1, <2>1, <2>4
  <2>6. g.m_state = "VALUE" /\ g.m_value = h.m_value \o m /\ g.m_value # Null
    <3>1. PICK w : w = h.m_value \o m
      OBVIOUS
    <3>2. w \in Word
      BY <2>3, <3>1, WordsJoin
    <3>3. g = [h EXCEPT !.m_state = "VALUE", !.m_value = w]
      BY <2>5, <3>1
    <3> QED BY <3>1, <3>2, <3>3, NullIsNoWord DEF HTTPObject
  <2>7. header_value_cb(g, n) = [g EXCEPT !.m_state = "VALUE", !.m_value = (h.m_value \o m) \o n]
    BY <2>6 DEF header_value_cb, Asserted
  <2>8. (h.m_value \o m) \o n = h.m_value \o (m \o n)
    BY <2>3, WordsJoin
  <2>9. [g EXCEPT !.m_state = "VALUE", !.m_value = (h.m_value \o m) \o n] =
          [h EXCEPT !.m_state = "VALUE", !.m_value = (h.m_value \o m) \o n]
    BY <2>5 DEF HTTPObject
  <2> QED BY <1>1, <2>1, <2>2, <2>4, <2>7, <2>8, <2>9
<1>5. CASE f = "fragment"
  BY <1>1, <1>2, <1>5 DEF Called, fragment_cb, Alive, HTTPObject
<1>6. CASE f = "path"
  <2>1. PICK a, b, c : a = h.m_path /\ b = a \o m /\ c = a \o (m \o n)
    OBVIOUS
  <2>2. g = [h EXCEPT !.m_path = b] /\ Called(h, f, m \o n) = [h EXCEPT !.m_path = c]
    BY <1>1, <1>6, <2>1 DEF Called, path_cb
  <2>3. a \in Word
    BY <2>1 DEF HTTPObject
  <2>4. b \o n = c
    BY <2>1, <2>3, WordsJoin
  <2>5. g.m_path = b
    BY <2>2 DEF HTTPObject
  <2>6. Called(g, f, n) = [g EXCEPT !.m_path = c]
    BY <1>2, <1>6, <2>4, <2>5 DEF Called, path_cb
  <2> QED BY <1>1, <2>2, <2>6 DEF HTTPObject
<1>7. CASE f = "query_string"
  <2>1. PICK a, b, c : a = h.m_query /\ b = a \o m /\ c = a \o (m \o n)
    OBVIOUS
  <2>2. g = [h EXCEPT !.m_query = b] /\ Called(h, f, m \o n) = [h EXCEPT !.m_query = c]
    BY <1>1, <1>7, <2>1 DEF Called, query_string_cb
  <2>3. a \in Word
    BY <2>1 DEF HTTPObject
  <2>4. b \o n = c
    BY <2>1, <2>3, WordsJoin
  <2>5. g.m_query = b
    BY <2>2 DEF HTTPObject
  <2>6. Called(g, f, n) = [g EXCEPT !.m_query = c]
    BY <1>2, <1>7, <2>4, <2>5 DEF Called, query_string_cb
  <2> QED BY <1>1, <2>2, <2>6 DEF HTTPObject
<1>8. CASE f = "url"
  <2>1. PICK a, b, c : a = h.m_url /\ b = a \o m /\ c = a \o (m \o n)
    OBVIOUS
  <2>2. g = [h EXCEPT !.m_url = b] /\ Called(h, f, m \o n) = [h EXCEPT !.m_url = c]
    BY <1>1, <1>8, <2>1 DEF Called, url_cb
  <2>3. a \in Word
    BY <2>1 DEF HTTPObject
  <2>4. b \o n = c
    BY <2>1, <2>3, WordsJoin
  <2>5. g.m_url = b
    BY <2>2 DEF HTTPObject
  <2>6. Called(g, f, n) = [g EXCEPT !.m_url = c]
    BY <1>2, <1>8, <2>4, <2>5 DEF Called, url_cb
  <2> QED BY <1>1, <2>2, <2>6 DEF HTTPObject
<1> QED BY <1>3, <1>4, <1>5, <1>6, <1>7, <1>8 DEF Fields

\* Whether a callback fails is not up to the characters.
LEMMA CalledFails ==
  ASSUME NEW h \in HTTPObject, NEW f \in Fields, NEW m \in Word, NEW n \in Word,
         Alive(Called(h, f, m))
  PROVE  Alive(Called(h, f, n))
<1>1. CASE ~Alive(h)
  BY <1>1, CalledTyped
<1>2. CASE Alive(h) /\ f = "header_field"
  <2>1. \A x : Called(h, f, x) = header_field_cb(h, x)
    BY <1>2 DEF Called
  <2>2. CASE h.m_state = "FIELD"
    <3>1. \A x : header_field_cb(h, x) =
            IF h.m_field # Null THEN [h EXCEPT !.m_field = @ \o x] ELSE [h EXCEPT !.failed = "HTTP.cpp:379"]
      BY <2>2 DEF header_field_cb, Asserted
    <3> QED BY <1>2, <2>1, <3>1 DEF Alive, HTTPObject
  <2>3. CASE h.m_state \in {"VALUE", "HEADER"}
    <3>1. PICK added : added = addHeaderField(h)
      OBVIOUS
    <3>2. added \in HTTPObject
      BY <3>1, FieldAdded
    <3>3. \A x : header_field_cb(h, x) =
            IF Alive(added) THEN [added EXCEPT !.m_field = x, !.m_value = <<>>, !.m_state = "FIELD"]
            ELSE added
      BY <2>3, <3>1 DEF header_field_cb, newHeaderField
    <3>4. Alive(added)
      BY <2>1, <3>3
    <3>5. Called(h, f, n) = [added EXCEPT !.m_field = n, !.m_value = <<>>, !.m_state = "FIELD"]
      BY <2>1, <3>3, <3>4
    <3> QED BY <3>2, <3>4, <3>5 DEF Alive, HTTPObject
  <2>4. CASE h.m_state \notin {"FIELD", "VALUE", "HEADER"}
    <3>1. \A x : header_field_cb(h, x) = [h EXCEPT !.failed = "HTTP.cpp:61"]
      BY <2>4 DEF header_field_cb
    <3> QED BY <2>1, <3>1
  <2> QED BY <2>2, <2>3, <2>4
<1>3. CASE Alive(h) /\ f = "header_value"
  BY <1>3 DEF Called, header_value_cb, Asserted, Alive, HTTPObject
<1>4. CASE Alive(h) /\ f \in {"fragment", "query_string", "path", "url"}
  BY <1>4 DEF Called, fragment_cb, query_string_cb, path_cb, url_cb, Alive, HTTPObject
<1> QED BY <1>1, <1>2, <1>3, <1>4 DEF Fields

\* The target goes into the object in either order.
LEMMA UrlCommutes ==
  ASSUME NEW h \in HTTPObject, Alive(h), NEW f \in {"path", "query_string"},
         NEW m \in Word, NEW n \in Word
  PROVE  /\ Called(Called(h, "url", m), f, n) = Called(Called(h, f, n), "url", m)
         /\ Alive(Called(h, "url", m)) /\ Alive(Called(h, f, n)) 
         /\ Alive(Called(Called(h, f, n), "url", m))
<1>1. Called(h, "url", m) = [h EXCEPT !.m_url = @ \o m]
  BY DEF Called, url_cb
<1>2. CASE f = "path"
  BY <1>1, <1>2 DEF Called, url_cb, path_cb, HTTPObject, Alive
<1>3. CASE f = "query_string"
  BY <1>1, <1>3 DEF Called, url_cb, query_string_cb, HTTPObject, Alive
<1> QED BY <1>2, <1>3
-----------------------------------------------------------------------------
(* The macros.                                                             *)

\* All but the state, the marks and the object.
Rest(p, r) ==
  /\ r.header_state = p.header_state /\ r.flags = p.flags /\ r.content_length = p.content_length
  /\ r.major = p.major /\ r.minor = p.minor /\ r.method = p.method /\ r.nread = p.nread

LEMMA MarkTyped ==
  ASSUME NEW p \in Parser, NEW f \in Fields
  PROVE  /\ Mark(p, f) \in Parser /\ Rest(p, Mark(p, f))
         /\ Mark(p, f).ret = p.ret /\ Mark(p, f).http = p.http /\ Mark(p, f).state = p.state
         /\ Marked(Mark(p, f)) = Marked(p) \cup {f}
         /\ Mark(p, f).mark = [p.mark EXCEPT ![f] = <<>>]
<1>1. PICK w : w = <<>>
  OBVIOUS
<1>2. w \in Word /\ w # Null
  BY <1>1, WordsJoin, NullIsNoWord
<1>3. Mark(p, f) = [p EXCEPT !.mark[f] = w]
  BY <1>1 DEF Mark
<1>4. p.mark \in [Fields -> Word \cup {Null}]
  BY DEF Parser
<1>5. PICK m : m = [p.mark EXCEPT ![f] = w]
  OBVIOUS
<1>6. m \in [Fields -> Word \cup {Null}] /\ m[f] # Null /\ \A g \in Fields \ {f} : m[g] = p.mark[g]
  BY <1>2, <1>4, <1>5
<1>7. Mark(p, f) = [p EXCEPT !.mark = m]
  BY <1>3, <1>5
<1>8. /\ Mark(p, f) \in Parser /\ Rest(p, Mark(p, f))
      /\ Mark(p, f).mark = m /\ Mark(p, f).http = p.http /\ Mark(p, f).state = p.state
      /\ Mark(p, f).ret = p.ret
  BY <1>6, <1>7 DEF Parser, Rest
<1> QED BY <1>1, <1>5, <1>6, <1>8 DEF Marked

LEMMA NoClearTyped ==
  ASSUME NEW p \in Parser, NEW f \in Fields
  PROVE  /\ CALLBACK_NOCLEAR(p, f) \in Parser /\ Rest(p, CALLBACK_NOCLEAR(p, f))
         /\ CALLBACK_NOCLEAR(p, f).ret = p.ret /\ CALLBACK_NOCLEAR(p, f).state = p.state
         /\ CALLBACK_NOCLEAR(p, f).mark = p.mark
         /\ CALLBACK_NOCLEAR(p, f).http =
              IF f \in Marked(p) THEN Called(p.http, f, p.mark[f]) ELSE p.http
         /\ Done(CALLBACK_NOCLEAR(p, f)) <=> Done(p)
         /\ p.http.m_state = "DONE" => CALLBACK_NOCLEAR(p, f).http.m_state = "DONE"
<1>1. CASE f \notin Marked(p)
  BY <1>1 DEF Marked, CALLBACK_NOCLEAR, Rest
<1>2. CASE f \in Marked(p)
  <2>1. p.mark[f] \in Word /\ p.mark[f] # Null /\ p.http \in HTTPObject
    BY <1>2 DEF Marked, Parser
  <2>2. PICK h : h = Called(p.http, f, p.mark[f])
    OBVIOUS
  <2>3. /\ h \in HTTPObject /\ h.m_doneParsing = p.http.m_doneParsing
        /\ p.http.m_state = "DONE" => h.m_state = "DONE"
    BY <2>1, <2>2, CalledTyped
  <2>4. CALLBACK_NOCLEAR(p, f) = [p EXCEPT !.http = h]
    BY <2>1, <2>2 DEF CALLBACK_NOCLEAR
  <2>5. /\ [p EXCEPT !.http = h] \in Parser /\ Rest(p, [p EXCEPT !.http = h])
        /\ [p EXCEPT !.http = h].ret = p.ret /\ [p EXCEPT !.http = h].state = p.state
        /\ [p EXCEPT !.http = h].mark = p.mark /\ [p EXCEPT !.http = h].http = h
    BY <2>3 DEF Parser, Rest
  <2> QED BY <1>2, <2>2, <2>3, <2>4, <2>5 DEF Done
<1> QED BY <1>1, <1>2

LEMMA CallbackTyped ==
  ASSUME NEW p \in Parser, NEW f \in Fields
  PROVE  /\ CALLBACK(p, f) \in Parser /\ Rest(p, CALLBACK(p, f))
         /\ CALLBACK(p, f).ret = p.ret /\ CALLBACK(p, f).state = p.state
         /\ Marked(CALLBACK(p, f)) = Marked(p) \ {f}
         /\ \A g \in Fields \ {f} : CALLBACK(p, f).mark[g] = p.mark[g]
         /\ CALLBACK(p, f).http = IF f \in Marked(p) THEN Called(p.http, f, p.mark[f]) ELSE p.http
         /\ Done(CALLBACK(p, f)) <=> Done(p)
         /\ p.http.m_state = "DONE" => CALLBACK(p, f).http.m_state = "DONE"
<1>1. PICK q : q = CALLBACK_NOCLEAR(p, f)
  OBVIOUS
<1>2. /\ q \in Parser /\ Rest(p, q) /\ q.ret = p.ret /\ q.state = p.state /\ q.mark = p.mark
      /\ q.http = IF f \in Marked(p) THEN Called(p.http, f, p.mark[f]) ELSE p.http
      /\ Done(q) <=> Done(p)
      /\ p.http.m_state = "DONE" => q.http.m_state = "DONE"
  BY <1>1, NoClearTyped
<1>3. PICK m : m = [p.mark EXCEPT ![f] = Null]
  OBVIOUS
<1>4. /\ m \in [Fields -> Word \cup {Null}] /\ m[f] = Null
      /\ \A g \in Fields \ {f} : m[g] = p.mark[g]
  BY <1>3 DEF Parser
<1>5. CALLBACK(p, f) = [q EXCEPT !.mark = m]
  BY <1>1, <1>2, <1>3 DEF CALLBACK
<1>6. PICK r : r = [q EXCEPT !.mark = m]
  OBVIOUS
<1>7. /\ r \in Parser /\ Rest(q, r) /\ r.ret = q.ret /\ r.state = q.state
      /\ r.mark = m /\ r.http = q.http
  BY <1>2, <1>4, <1>6 DEF Parser, Rest
<1>8. Marked(r) = Marked(p) \ {f}
  BY <1>4, <1>7 DEF Marked
<1> QED BY <1>2, <1>4, <1>5, <1>6, <1>7, <1>8 DEF Rest, Done

LEMMA ToTyped ==
  ASSUME NEW p \in Parser, NEW s \in State
  PROVE  /\ To(p, s) \in Parser /\ Rest(p, To(p, s))
         /\ To(p, s).ret = p.ret /\ To(p, s).state = s
         /\ To(p, s).mark = p.mark /\ To(p, s).http = p.http
         /\ Marked(To(p, s)) = Marked(p)
         /\ Done(To(p, s)) <=> Done(p)
  BY DEF Parser, To, Rest, Marked, Done

LEMMA ErrorTyped ==
  ASSUME NEW p \in Parser, Done(p) => p.http.m_state = "DONE"
  PROVE  /\ Error(p) \in Parser /\ Waits(Error(p))
         /\ Error(p).ret = "error" /\ Error(p).mark = p.mark /\ Error(p).http = p.http
  BY DEF Parser, Error, Waits, Done, State

\* What is left of the states to know.
LEMMA States ==
  /\ "dead" \in State /\ "start_req" \in State
  /\ \A s \in TargetStates \cup BodyStates : s \in State
  /\ \A s \in {"req_method", "req_spaces_before_url", "req_http_start", "req_http_HTTP",
               "req_first_http_major", "req_http_major", "req_first_http_minor",
               "req_http_minor", "req_line_almost_done", "header_field_start",
               "header_value_start", "header_almost_done", "headers_almost_done", "start_req", "dead"} :
       s \in State /\ Open(s) = {}
  /\ \A s \in BodyStates : Open(s) = {}
  /\ Open("req_path") = {"url", "path"}
  /\ Open("req_query_string") = {"url", "query_string"}
  /\ Open("req_fragment") = {"url", "fragment"}
  /\ \A s \in {"req_schema", "req_schema_slash", "req_schema_slash_slash", "req_host", "req_port",
               "req_query_string_start", "req_fragment_start"} : s \in State /\ Open(s) = {"url"}
  /\ "header_field" \in State /\ Open("header_field") = {"header_field"}
  /\ "header_value" \in State /\ Open("header_value") = {"header_value"}
  /\ {"req_path", "req_query_string", "req_fragment"} \subseteq State
  BY DEF State, Open, TargetStates, BodyStates

LEMMA WaitsEarly ==
  ASSUME NEW r \in Parser, r.state \notin BodyStates, Marked(r) = Open(r.state), ~Done(r), r.ret = "none"
  PROVE  Waits(r)
  BY DEF Waits, BodyStates

LEMMA Places ==
  /\ \A s \in {"req_spaces_before_url", "req_http_start", "req_http_HTTP", "req_first_http_major",
               "req_http_major", "req_first_http_minor", "req_http_minor", "req_line_almost_done",
               "req_method", "header_field_start", "header_value_start", "header_almost_done",
               "headers_almost_done"} :
       s \in State \ BodyStates /\ Open(s) = {}
  /\ \A s \in {"req_schema", "req_schema_slash", "req_schema_slash_slash", "req_host", "req_port",
               "req_query_string_start", "req_fragment_start"} :
       s \in State \ BodyStates /\ Open(s) = {"url"}
  /\ "req_path" \in State \ BodyStates /\ Open("req_path") = {"url", "path"}
  /\ "req_query_string" \in State \ BodyStates /\ Open("req_query_string") = {"url", "query_string"}
  /\ "req_fragment" \in State \ BodyStates /\ Open("req_fragment") = {"url", "fragment"}
  /\ "header_field" \in State \ BodyStates /\ Open("header_field") = {"header_field"}
  /\ "header_value" \in State \ BodyStates /\ Open("header_value") = {"header_value"}
  BY DEF State, Open, TargetStates, BodyStates
LEMMA ReqSchemaTyped ==
  ASSUME NEW p, Good(p), NEW ch \in STRING, p.state \in {"req_schema"}
  PROVE  req_schema(p, ch) \in Parser /\ Waits(req_schema(p, ch))
  BY DEF Parser, Waits, Good, req_schema, To, Error, State, TargetStates, BodyStates, Marked, Done, Open

LEMMA ReqSchemaSlashTyped ==
  ASSUME NEW p, Good(p), NEW ch \in STRING, p.state \in {"req_schema_slash", "req_schema_slash_slash"}
  PROVE  req_schema_slash(p, ch) \in Parser /\ Waits(req_schema_slash(p, ch))
  BY DEF Parser, Waits, Good, req_schema_slash, To, Error, State, TargetStates, BodyStates, Marked, Done, Open

\* Between two tokens of the request line.
LEMMA LineMovesOn ==
  ASSUME NEW p, Good(p), p.state \in {"req_http_start", "req_line_almost_done"},
         NEW s \in {"req_http_HTTP", "header_field_start"}
  PROVE  To(p, s) \in Parser /\ Waits(To(p, s)) /\ Error(p) \in Parser /\ Waits(Error(p))
<1>1. p \in Parser /\ Waits(p) /\ p.ret = "none" /\ Marked(p) = {} /\ ~Done(p)
  BY DEF Good, Waits, Open, TargetStates
<1>2. s \in State /\ s \notin BodyStates /\ Open(s) = {}
  BY States DEF BodyStates
<1>3. To(p, s) \in Parser /\ Waits(To(p, s))
  <2>1. PICK q : q = To(p, s)
    OBVIOUS
  <2>2. q \in Parser /\ q.ret = p.ret /\ q.state = s /\ Marked(q) = Marked(p) /\ (Done(q) <=> Done(p))
    BY <1>1, <1>2, <2>1, ToTyped
  <2>3. Waits(q)
    BY <1>1, <1>2, <2>2, WaitsEarly
  <2> QED BY <2>1, <2>2, <2>3
<1>4. Error(p) \in Parser /\ Waits(Error(p))
  BY <1>1, ErrorTyped
<1> QED BY <1>3, <1>4

LEMMA ReqHttpStartTyped ==
  ASSUME NEW p, Good(p), NEW ch \in STRING, p.state \in {"req_http_start"}
  PROVE  req_http_start(p, ch) \in Parser /\ Waits(req_http_start(p, ch))
<1>1. req_http_start(p, ch) \in {To(p, "req_http_HTTP"), p, Error(p)}
  BY DEF req_http_start
<1> QED BY <1>1, LineMovesOn DEF Good

LEMMA ReqLineAlmostDoneTyped ==
  ASSUME NEW p, Good(p), NEW ch \in STRING, p.state \in {"req_line_almost_done"}
  PROVE  req_line_almost_done(p, ch) \in Parser /\ Waits(req_line_almost_done(p, ch))
<1>1. req_line_almost_done(p, ch) \in {To(p, "header_field_start"), Error(p)}
  BY DEF req_line_almost_done
<1> QED BY <1>1, LineMovesOn DEF Good

LEMMA HeaderAlmostDoneTyped ==
  ASSUME NEW p, Good(p), NEW ch \in STRING, p.state \in {"header_almost_done"}
  PROVE  header_almost_done(p, ch) \in Parser /\ Waits(header_almost_done(p, ch))
  BY DEF Parser, Waits, Good, header_almost_done, To, Error, State, TargetStates, BodyStates, Marked, Done, Open

LEMMA ChunkParametersTyped ==
  ASSUME NEW p, Good(p), NEW ch \in STRING, p.state \in {"chunk_parameters"}
  PROVE  chunk_parameters(p, ch) \in Parser /\ Waits(chunk_parameters(p, ch))
  BY DEF Parser, Waits, Good, chunk_parameters, To, Error, State, TargetStates, BodyStates, Marked, Done, Open

LEMMA ChunkDataDoneTyped ==
  ASSUME NEW p, Good(p), NEW ch \in STRING, p.state \in {"chunk_data_almost_done", "chunk_data_done"}
  PROVE  chunk_data_done(p, ch) \in Parser /\ Waits(chunk_data_done(p, ch))
  BY DEF Parser, Waits, Good, chunk_data_done, To, Error, State, TargetStates, BodyStates, Marked, Done, Open

-----------------------------------------------------------------------------
(* Types: the states that mark or call.                                    *)

Early(p) == p \in Parser /\ p.ret = "none" /\ ~Done(p)

LEMMA EarlyWaits ==
  ASSUME NEW p, Early(p), p.state \notin BodyStates, Marked(p) = Open(p.state)
  PROVE  p \in Parser /\ Waits(p)
  BY WaitsEarly DEF Early

LEMMA GoodIsEarly ==
  ASSUME NEW p, Good(p), p.state \notin {"start_req", "dead"}
  PROVE  Early(p) /\ Marked(p) = Open(p.state)
  BY DEF Good, Waits, Early

LEMMA EarlyTo ==
  ASSUME NEW p, Early(p), NEW s \in State \ BodyStates, Marked(p) = Open(s)
  PROVE  /\ To(p, s) \in Parser /\ Waits(To(p, s))
<1>1. PICK r : r = To(p, s)
  OBVIOUS
<1>2. Early(r) /\ r.state = s /\ Marked(r) = Marked(p)
  BY <1>1, ToTyped DEF Early
<1>3. r.state \notin BodyStates /\ Marked(r) = Open(r.state)
  BY <1>2
<1>4. r \in Parser /\ Waits(r)
  BY <1>2, <1>3, EarlyWaits
<1> QED BY <1>1, <1>4

LEMMA EarlyMark ==
  ASSUME NEW p, Early(p), NEW f \in Fields
  PROVE  Early(Mark(p, f)) /\ Marked(Mark(p, f)) = Marked(p) \cup {f}
  BY MarkTyped DEF Early, Done

LEMMA EarlyCallback ==
  ASSUME NEW p, Early(p), NEW f \in Fields
  PROVE  Early(CALLBACK(p, f)) /\ Marked(CALLBACK(p, f)) = Marked(p) \ {f}
  BY CallbackTyped DEF Early, Done

LEMMA EarlyError ==
  ASSUME NEW p, Early(p)
  PROVE  Error(p) \in Parser /\ Waits(Error(p))
  BY ErrorTyped DEF Early

LEMMA ReqMethodTyped ==
  ASSUME NEW p, Good(p), NEW ch \in STRING, p.state = "req_method"
  PROVE  req_method(p, ch) \in Parser /\ Waits(req_method(p, ch))
<1>1. Early(p) /\ Marked(p) = {}
  BY GoodIsEarly, States
<1>2. CASE <<p.method, ch>> \in DOMAIN Method
  <2>1. PICK m : m = Method[<<p.method, ch>>]
    OBVIOUS
  <2>2. m \in AnyMethod
    BY <1>2, <2>1 DEF AnyMethod
  <2>3. req_method(p, ch) = [p EXCEPT !.method = m]
    <3>1. req_method(p, ch) = [p EXCEPT !.method = Method[<<p.method, ch>>]]
      BY <1>2, Domains DEF req_method
    <3> QED BY <2>1, <3>1
  <2>4. /\ [p EXCEPT !.method = m] \in Parser
        /\ Waits([p EXCEPT !.method = m])
    BY <2>2 DEF Good, Parser, Waits, Marked, Done
  <2> QED BY <2>3, <2>4
<1>3. CASE <<p.method, ch>> \notin DOMAIN Method /\ ch = " " /\ p.method \notin FirstLetter
  <2>1. req_method(p, ch) = To(p, "req_spaces_before_url")
    BY <1>3 DEF req_method
  <2>2. "req_spaces_before_url" \in State \ BodyStates /\ Open("req_spaces_before_url") = {}
    BY States DEF BodyStates
  <2> QED BY <1>1, <2>1, <2>2, EarlyTo
<1>4. CASE <<p.method, ch>> \notin DOMAIN Method /\ ~(ch = " " /\ p.method \notin FirstLetter)
  <2>1. req_method(p, ch) = Error(p)
    BY <1>4 DEF req_method
  <2> QED BY <1>1, <2>1, EarlyError
<1> QED BY <1>2, <1>3, <1>4

LEMMA ChunkSizeTyped ==
  ASSUME NEW p, Good(p), NEW ch \in STRING, p.state \in {"chunk_size_start", "chunk_size"}
  PROVE  chunk_size(p, ch) \in Parser /\ Waits(chunk_size(p, ch))
<1>1. CASE ch \in DOMAIN Digit
  <2>1. PICK d \in Nat : d = Digit[ch]
    BY <1>1, Digits
  <2>2. PICK n : n = (IF p.state = "chunk_size" THEN 16 * p.content_length ELSE 0) + d
    OBVIOUS
  <2>3. n \in Int /\ n >= 0
    <3>1. CASE p.state = "chunk_size"
      <4>1. p.content_length \in Int /\ p.content_length >= 0
        BY <3>1 DEF Good, Waits, Parser
      <4> QED BY <2>1, <2>2, <3>1, <4>1
    <3>2. CASE p.state # "chunk_size"
      BY <2>1, <2>2, <3>2
    <3> QED BY <3>1, <3>2
  <2>4. chunk_size(p, ch) = [p EXCEPT !.state = "chunk_size", !.content_length = n]
    <3>1. chunk_size(p, ch) =
            [p EXCEPT !.state = "chunk_size",
               !.content_length = (IF p.state = "chunk_size" THEN 16 * @ ELSE 0) + Digit[ch]]
      BY <1>1, Domains DEF chunk_size, CR
    <3> QED BY <2>1, <2>2, <3>1
  <2>5. /\ [p EXCEPT !.state = "chunk_size", !.content_length = n] \in Parser
        /\ Waits([p EXCEPT !.state = "chunk_size", !.content_length = n])
    BY <2>3 DEF Good, Parser, Waits, Marked, Done, Open, State, BodyStates, TargetStates
  <2> QED BY <2>4, <2>5
<1>2. CASE ch \notin DOMAIN Digit
  BY <1>2 DEF Parser, Waits, Good, chunk_size, To, Error, State, TargetStates, BodyStates, Marked, Done, Open
<1> QED BY <1>1, <1>2

LEMMA ChunkSizeAlmostDoneTyped ==
  ASSUME NEW p, Good(p), NEW ch \in STRING, p.state = "chunk_size_almost_done"
  PROVE  chunk_size_almost_done(p, ch) \in Parser /\ Waits(chunk_size_almost_done(p, ch))
<1>1. CASE ch # LF
  <2>1. chunk_size_almost_done(p, ch) = Error(p)
    BY <1>1 DEF chunk_size_almost_done
  <2>2. Early(p)
    BY GoodIsEarly
  <2> QED BY <2>1, <2>2, EarlyError
<1>2. CASE ch = LF /\ p.content_length = 0
  <2>1. PICK fs : fs = p.flags \cup {"trailing"}
    OBVIOUS
  <2>2. fs \in SUBSET (Flag \cup {"upgrade", "trailing"})
    BY <2>1 DEF Good, Parser
  <2>3. chunk_size_almost_done(p, ch) = [p EXCEPT !.flags = fs, !.state = "header_field_start"]
    BY <1>2, <2>1 DEF chunk_size_almost_done
  <2>4. /\ [p EXCEPT !.flags = fs, !.state = "header_field_start"] \in Parser
        /\ Waits([p EXCEPT !.flags = fs, !.state = "header_field_start"])
    BY <2>2 DEF Good, Parser, Waits, Marked, Done, Open, State, BodyStates, TargetStates
  <2> QED BY <2>3, <2>4
<1>3. CASE ch = LF /\ p.content_length # 0
  BY <1>3 DEF Parser, Waits, Good, chunk_size_almost_done, To, Error, State, TargetStates, BodyStates, Marked, Done, Open
<1> QED BY <1>1, <1>2, <1>3

LEMMA HttpVersionTyped ==
  ASSUME NEW p, Good(p), NEW ch \in STRING,
         p.state \in {"req_http_HTTP", "req_first_http_major", "req_http_major",
                      "req_first_http_minor", "req_http_minor"}
  PROVE  http_version(p, ch) \in Parser /\ Waits(http_version(p, ch))
<1>1. CASE ch \notin DOMAIN Digit
  <2>1. Early(p) /\ Marked(p) = {}
    BY GoodIsEarly, States
  <2>2. \/ \E s \in {"req_first_http_major", "req_first_http_minor", "req_line_almost_done",
                     "header_field_start"} : http_version(p, ch) = To(p, s)
        \/ http_version(p, ch) = Error(p)
    BY <1>1 DEF http_version
  <2>3. ASSUME NEW s \in {"req_first_http_major", "req_first_http_minor", "req_line_almost_done",
                          "header_field_start"}
        PROVE  s \in State \ BodyStates /\ Open(s) = {}
    BY DEF State, BodyStates, Open, TargetStates
  <2> QED BY <2>1, <2>2, <2>3, EarlyTo, EarlyError
<1>2. CASE ch \in DOMAIN Digit
  <2>1. PICK d \in Nat : d = Digit[ch]
    BY <1>2, Digits
  <2>2. ch \notin {"/", ".", CR, LF}
    BY <1>2, Digits DEF CR, LF
  <2>3. p.major \in Nat /\ p.minor \in Nat
    BY DEF Good, Parser
  <2>4. PICK a, b : a = 10 * p.major + d /\ b = 10 * p.minor + d
    OBVIOUS
  <2>5. a \in Nat /\ b \in Nat
    BY <2>1, <2>3, <2>4
  <2>6. Early(p) /\ Marked(p) = {}
    BY GoodIsEarly, States
  <2>7. \/ http_version(p, ch) = [p EXCEPT !.major = d, !.state = "req_http_major"]
        \/ http_version(p, ch) = [p EXCEPT !.major = a] /\ p.state = "req_http_major"
        \/ http_version(p, ch) = [p EXCEPT !.minor = d, !.state = "req_http_minor"]
        \/ http_version(p, ch) = [p EXCEPT !.minor = b] /\ p.state = "req_http_minor"
        \/ http_version(p, ch) = Error(p)
    <3>1. CASE p.state = "req_http_HTTP"
      BY <1>2, <2>2, <3>1 DEF http_version
    <3>2. CASE p.state = "req_first_http_major"
      <4>1. http_version(p, ch) = [p EXCEPT !.major = Digit[ch], !.state = "req_http_major"]
            \/ http_version(p, ch) = Error(p)
        BY <1>2, <2>2, <3>2 DEF http_version
      <4> QED BY <2>1, <4>1
    <3>3. CASE p.state = "req_http_major"
      <4>1. http_version(p, ch) = [p EXCEPT !.major = 10 * @ + Digit[ch]]
            \/ http_version(p, ch) = Error(p)
        BY <1>2, <2>2, <3>3 DEF http_version
      <4> QED BY <2>1, <2>4, <3>3, <4>1
    <3>4. CASE p.state = "req_first_http_minor"
      <4>1. http_version(p, ch) = [p EXCEPT !.minor = Digit[ch], !.state = "req_http_minor"]
            \/ http_version(p, ch) = Error(p)
        BY <1>2, <2>2, <3>4 DEF http_version
      <4> QED BY <2>1, <4>1
    <3>5. CASE p.state = "req_http_minor"
      <4>1. http_version(p, ch) = [p EXCEPT !.minor = 10 * @ + Digit[ch]]
            \/ http_version(p, ch) = Error(p)
        BY <1>2, <2>2, <3>5 DEF http_version
      <4> QED BY <2>1, <2>4, <3>5, <4>1
    <3> QED BY <3>1, <3>2, <3>3, <3>4, <3>5
  <2>8. ASSUME NEW r, \/ r = [p EXCEPT !.major = d, !.state = "req_http_major"]
                      \/ r = [p EXCEPT !.major = a] /\ p.state = "req_http_major"
                      \/ r = [p EXCEPT !.minor = d, !.state = "req_http_minor"]
                      \/ r = [p EXCEPT !.minor = b] /\ p.state = "req_http_minor"
        PROVE  r \in Parser /\ Waits(r)
    <3>1. CASE r = [p EXCEPT !.major = d, !.state = "req_http_major"]
      BY <2>1, <3>1 DEF Parser, Waits, Good, State, TargetStates, BodyStates, Marked, Done, Open
    <3>2. CASE r = [p EXCEPT !.major = a] /\ p.state = "req_http_major"
      BY <2>5, <3>2 DEF Parser, Waits, Good, State, TargetStates, BodyStates, Marked, Done, Open
    <3>3. CASE r = [p EXCEPT !.minor = d, !.state = "req_http_minor"]
      BY <2>1, <3>3 DEF Parser, Waits, Good, State, TargetStates, BodyStates, Marked, Done, Open
    <3>4. CASE r = [p EXCEPT !.minor = b] /\ p.state = "req_http_minor"
      BY <2>5, <3>4 DEF Parser, Waits, Good, State, TargetStates, BodyStates, Marked, Done, Open
    <3> QED BY <2>8, <3>1, <3>2, <3>3, <3>4
  <2> QED BY <2>6, <2>7, <2>8, EarlyError
<1> QED BY <1>1, <1>2

LEMMA EndOfTargetTyped ==
  ASSUME NEW p, Early(p), Marked(p) = {}, NEW ch \in {" ", CR, LF}
  PROVE  EndOfTarget(p, ch) \in Parser /\ Waits(EndOfTarget(p, ch))
<1>1. CASE ch = " "
  <2>1. EndOfTarget(p, ch) = To(p, "req_http_start")
    BY <1>1 DEF EndOfTarget, CR, LF
  <2>2. "req_http_start" \in State \ BodyStates /\ Marked(p) = Open("req_http_start")
    BY Places
  <2>3. To(p, "req_http_start") \in Parser /\ Waits(To(p, "req_http_start"))
    BY <2>2, EarlyTo
  <2> QED BY <2>1, <2>3
<1>2. CASE ch # " "
  <2>1. PICK q : q = [p EXCEPT !.minor = 9]
    OBVIOUS
  <2>2. Early(q) /\ Marked(q) = {}
    BY <2>1 DEF Early, Parser, Done, Marked
  <2>3. /\ [p EXCEPT !.minor = 9, !.state = "req_line_almost_done"] = To(q, "req_line_almost_done")
        /\ [p EXCEPT !.minor = 9, !.state = "header_field_start"] = To(q, "header_field_start")
    BY <2>1 DEF To, Early, Parser
  <2>4. \/ EndOfTarget(p, ch) = To(q, "req_line_almost_done")
        \/ EndOfTarget(p, ch) = To(q, "header_field_start")
    BY <1>2, <2>3 DEF EndOfTarget, CR, LF
  <2>5. /\ To(q, "req_line_almost_done") \in Parser /\ Waits(To(q, "req_line_almost_done"))
        /\ To(q, "header_field_start") \in Parser /\ Waits(To(q, "header_field_start"))
    BY <2>2, EarlyTo, Places
  <2> QED BY <2>4, <2>5
<1> QED BY <1>1, <1>2

LEMMA ReqSpacesTyped ==
  ASSUME NEW p, Good(p), NEW ch \in STRING, p.state = "req_spaces_before_url"
  PROVE  req_spaces_before_url(p, ch) \in Parser /\ Waits(req_spaces_before_url(p, ch))
<1>1. Early(p) /\ Marked(p) = {}
  BY GoodIsEarly, States
<1>2. CASE ch = " "
  BY <1>2, Characters DEF req_spaces_before_url, Good
<1>3. CASE ch = "/"
  <2>1. req_spaces_before_url(p, ch) = To(Mark(Mark(p, "url"), "path"), "req_path")
    BY <1>3, Characters DEF req_spaces_before_url
  <2>2. Early(Mark(p, "url")) /\ Marked(Mark(p, "url")) = {"url"}
    BY <1>1, EarlyMark DEF Fields
  <2>3. PICK a : a = Mark(p, "url")
    OBVIOUS
  <2>4. Early(Mark(a, "path")) /\ Marked(Mark(a, "path")) = {"url", "path"}
    BY <2>2, <2>3, EarlyMark DEF Fields
  <2>5. "req_path" \in State \ BodyStates /\ Open("req_path") = {"url", "path"}
    BY Places
  <2> QED BY <2>1, <2>3, <2>4, <2>5, EarlyTo
<1>4. CASE ch \in Letters
  <2>1. req_spaces_before_url(p, ch) = To(Mark(p, "url"), "req_schema")
    BY <1>4, Characters DEF req_spaces_before_url
  <2>2. Early(Mark(p, "url")) /\ Marked(Mark(p, "url")) = {"url"}
    BY <1>1, EarlyMark DEF Fields
  <2>3. "req_schema" \in State \ BodyStates /\ Open("req_schema") = {"url"}
    BY Places
  <2> QED BY <2>1, <2>2, <2>3, EarlyTo
<1>5. CASE ch \notin Letters \cup {" ", "/"}
  <2>1. req_spaces_before_url(p, ch) = Error(p)
    BY <1>5 DEF req_spaces_before_url
  <2> QED BY <1>1, <2>1, EarlyError
<1> QED BY <1>2, <1>3, <1>4, <1>5

LEMMA ReqHostTyped ==
  ASSUME NEW p, Good(p), NEW ch \in STRING, p.state \in {"req_host", "req_port"}
  PROVE  req_host(p, ch) \in Parser /\ Waits(req_host(p, ch))
<1>1. Early(p) /\ Marked(p) = {"url"}
  BY GoodIsEarly, States
<1>2. CASE ch = "/"
  <2>1. req_host(p, ch) = To(Mark(p, "path"), "req_path")
    BY <1>2, Characters DEF req_host
  <2>2. Early(Mark(p, "path")) /\ Marked(Mark(p, "path")) = {"url", "path"}
    BY <1>1, EarlyMark DEF Fields
  <2>3. "req_path" \in State \ BodyStates /\ Open("req_path") = {"url", "path"}
    BY Places
  <2> QED BY <2>1, <2>2, <2>3, EarlyTo
<1>3. CASE ch = " "
  <2>1. req_host(p, ch) = To(CALLBACK(p, "url"), "req_http_start")
    BY <1>3, Characters DEF req_host
  <2>2. Early(CALLBACK(p, "url")) /\ Marked(CALLBACK(p, "url")) = {}
    BY <1>1, EarlyCallback DEF Fields
  <2>3. "req_http_start" \in State \ BodyStates /\ Open("req_http_start") = {}
    BY Places
  <2> QED BY <2>1, <2>2, <2>3, EarlyTo
<1>4. CASE ch \notin {" ", "/"}
  <2>1. req_host(p, ch) \in {p, To(p, "req_port"), Error(p)}
    BY <1>4, Characters, Zenon DEF req_host
  <2>2. To(p, "req_port") \in Parser /\ Waits(To(p, "req_port"))
    BY <1>1, EarlyTo, Places
  <2> QED BY <1>1, <2>1, <2>2, EarlyError DEF Good
<1> QED BY <1>2, <1>3, <1>4

LEMMA ReqPathTyped ==
  ASSUME NEW p, Good(p), NEW ch \in STRING, p.state = "req_path"
  PROVE  req_path(p, ch) \in Parser /\ Waits(req_path(p, ch))
<1>1. Early(p) /\ Marked(p) = {"url", "path"}
  BY GoodIsEarly, States
<1>2. CASE UrlChar(ch)
  BY <1>2, Characters DEF req_path, Good
<1>3. PICK a : a = CALLBACK(p, "url")
  OBVIOUS
<1>4. Early(a) /\ Marked(a) = {"path"}
  BY <1>1, <1>3, EarlyCallback DEF Fields
<1>5. PICK b : b = CALLBACK(a, "path")
  OBVIOUS
<1>6. Early(b) /\ Marked(b) = {}
  BY <1>4, <1>5, EarlyCallback DEF Fields
<1>7. PICK c : c = CALLBACK(p, "path")
  OBVIOUS
<1>8. Early(c) /\ Marked(c) = {"url"}
  BY <1>1, <1>7, EarlyCallback DEF Fields
<1>9. CASE ch \in {" ", CR, LF}
  <2>1. req_path(p, ch) = EndOfTarget(b, ch)
    BY <1>3, <1>5, <1>9, Characters DEF req_path, CR, LF
  <2> QED BY <1>6, <1>9, <2>1, EndOfTargetTyped
<1>10. CASE ~UrlChar(ch) /\ ch \notin {" ", CR, LF}
  <2>1. req_path(p, ch) \in {To(c, "req_query_string_start"), To(c, "req_fragment_start"), Error(p)}
    BY <1>7, <1>10 DEF req_path
  <2>2. /\ To(c, "req_query_string_start") \in Parser /\ Waits(To(c, "req_query_string_start"))
        /\ To(c, "req_fragment_start") \in Parser /\ Waits(To(c, "req_fragment_start"))
    BY <1>8, EarlyTo, Places
  <2> QED BY <1>1, <2>1, <2>2, EarlyError
<1> QED BY <1>2, <1>9, <1>10

LEMMA ReqQueryStringStartTyped ==
  ASSUME NEW p, Good(p), NEW ch \in STRING, p.state = "req_query_string_start"
  PROVE  req_query_string_start(p, ch) \in Parser /\ Waits(req_query_string_start(p, ch))
<1>1. Early(p) /\ Marked(p) = {"url"}
  BY GoodIsEarly, States
<1>2. CASE UrlChar(ch)
  <2>1. req_query_string_start(p, ch) = To(Mark(p, "query_string"), "req_query_string")
    BY <1>2, Characters DEF req_query_string_start
  <2>2. Early(Mark(p, "query_string")) /\ Marked(Mark(p, "query_string")) = {"url", "query_string"}
    BY <1>1, EarlyMark DEF Fields
  <2>3. "req_query_string" \in State \ BodyStates /\ Open("req_query_string") = {"url", "query_string"}
    BY Places
  <2> QED BY <2>1, <2>2, <2>3, EarlyTo
<1>3. CASE ch \in {" ", CR, LF}
  <2>1. PICK a : a = CALLBACK(p, "url")
    OBVIOUS
  <2>2. Early(a) /\ Marked(a) = {}
    BY <1>1, <2>1, EarlyCallback DEF Fields
  <2>3. req_query_string_start(p, ch) = EndOfTarget(a, ch)
    BY <1>3, <2>1, Characters DEF req_query_string_start, CR, LF
  <2> QED BY <1>3, <2>2, <2>3, EndOfTargetTyped
<1>4. CASE ~UrlChar(ch) /\ ch \notin {" ", CR, LF}
  <2>1. req_query_string_start(p, ch) \in {p, To(p, "req_fragment_start"), Error(p)}
    BY <1>4 DEF req_query_string_start
  <2>2. To(p, "req_fragment_start") \in Parser /\ Waits(To(p, "req_fragment_start"))
    BY <1>1, EarlyTo, Places
  <2> QED BY <1>1, <2>1, <2>2, EarlyError DEF Good
<1> QED BY <1>2, <1>3, <1>4

LEMMA ReqQueryStringTyped ==
  ASSUME NEW p, Good(p), NEW ch \in STRING, p.state = "req_query_string"
  PROVE  req_query_string(p, ch) \in Parser /\ Waits(req_query_string(p, ch))
<1>1. Early(p) /\ Marked(p) = {"url", "query_string"}
  BY GoodIsEarly, States
<1>2. CASE UrlChar(ch) \/ ch = "?"
  BY <1>2, Characters DEF req_query_string, Good, CR, LF
<1>3. PICK a : a = CALLBACK(p, "url")
  OBVIOUS
<1>4. Early(a) /\ Marked(a) = {"query_string"}
  BY <1>1, <1>3, EarlyCallback DEF Fields
<1>5. PICK b : b = CALLBACK(a, "query_string")
  OBVIOUS
<1>6. Early(b) /\ Marked(b) = {}
  BY <1>4, <1>5, EarlyCallback DEF Fields
<1>7. PICK c : c = CALLBACK(p, "query_string")
  OBVIOUS
<1>8. Early(c) /\ Marked(c) = {"url"}
  BY <1>1, <1>7, EarlyCallback DEF Fields
<1>9. CASE ch \in {" ", CR, LF}
  <2>1. req_query_string(p, ch) = EndOfTarget(b, ch)
    BY <1>3, <1>5, <1>9, Characters DEF req_query_string, CR, LF
  <2> QED BY <1>6, <1>9, <2>1, EndOfTargetTyped
<1>10. CASE ~UrlChar(ch) /\ ch \notin {"?", " ", CR, LF}
  <2>1. req_query_string(p, ch) \in {To(c, "req_fragment_start"), Error(p)}
    BY <1>7, <1>10 DEF req_query_string
  <2>2. To(c, "req_fragment_start") \in Parser /\ Waits(To(c, "req_fragment_start"))
    BY <1>8, EarlyTo, Places
  <2> QED BY <1>1, <2>1, <2>2, EarlyError
<1> QED BY <1>2, <1>9, <1>10

LEMMA ReqFragmentStartTyped ==
  ASSUME NEW p, Good(p), NEW ch \in STRING, p.state = "req_fragment_start"
  PROVE  req_fragment_start(p, ch) \in Parser /\ Waits(req_fragment_start(p, ch))
<1>1. Early(p) /\ Marked(p) = {"url"}
  BY GoodIsEarly, States
<1>2. CASE UrlChar(ch) \/ ch = "?"
  <2>1. req_fragment_start(p, ch) = To(Mark(p, "fragment"), "req_fragment")
    BY <1>2, Characters DEF req_fragment_start, CR, LF
  <2>2. Early(Mark(p, "fragment")) /\ Marked(Mark(p, "fragment")) = {"url", "fragment"}
    BY <1>1, EarlyMark DEF Fields
  <2>3. "req_fragment" \in State \ BodyStates /\ Open("req_fragment") = {"url", "fragment"}
    BY Places
  <2> QED BY <2>1, <2>2, <2>3, EarlyTo
<1>3. CASE ch \in {" ", CR, LF}
  <2>1. PICK a : a = CALLBACK(p, "url")
    OBVIOUS
  <2>2. Early(a) /\ Marked(a) = {}
    BY <1>1, <2>1, EarlyCallback DEF Fields
  <2>3. req_fragment_start(p, ch) = EndOfTarget(a, ch)
    BY <1>3, <2>1, Characters DEF req_fragment_start, CR, LF
  <2> QED BY <1>3, <2>2, <2>3, EndOfTargetTyped
<1>4. CASE ~UrlChar(ch) /\ ch \notin {"?", " ", CR, LF}
  <2>1. req_fragment_start(p, ch) \in {p, Error(p)}
    BY <1>4 DEF req_fragment_start
  <2> QED BY <1>1, <2>1, EarlyError DEF Good
<1> QED BY <1>2, <1>3, <1>4

LEMMA ReqFragmentTyped ==
  ASSUME NEW p, Good(p), NEW ch \in STRING, p.state = "req_fragment"
  PROVE  req_fragment(p, ch) \in Parser /\ Waits(req_fragment(p, ch))
<1>1. Early(p) /\ Marked(p) = {"url", "fragment"}
  BY GoodIsEarly, States
<1>2. CASE ch \notin {" ", CR, LF}
  <2>1. req_fragment(p, ch) \in {p, Error(p)}
    BY <1>2 DEF req_fragment
  <2> QED BY <1>1, <2>1, EarlyError DEF Good
<1>3. CASE ch \in {" ", CR, LF}
  <2>1. PICK a : a = CALLBACK(p, "url")
    OBVIOUS
  <2>2. Early(a) /\ Marked(a) = {"fragment"}
    BY <1>1, <2>1, EarlyCallback DEF Fields
  <2>3. PICK b : b = CALLBACK(a, "fragment")
    OBVIOUS
  <2>4. Early(b) /\ Marked(b) = {}
    BY <2>2, <2>3, EarlyCallback DEF Fields
  <2>5. req_fragment(p, ch) = EndOfTarget(b, ch)
    BY <1>3, <2>1, <2>3, Characters DEF req_fragment, CR, LF
  <2> QED BY <1>3, <2>4, <2>5, EndOfTargetTyped
<1> QED BY <1>2, <1>3

-----------------------------------------------------------------------------
(* Types: the headers and the body.                                        *)

LEMMA HeadersCompleteTyped ==
  ASSUME NEW h \in HTTPObject
  PROVE  /\ headers_complete_cb(h) \in HTTPObject
         /\ headers_complete_cb(h).m_doneParsing = h.m_doneParsing
         /\ headers_complete_cb(h).m_state = h.m_state
<1>1. PICK g : g = addHeaderField(h)
  OBVIOUS
<1>2. g \in HTTPObject /\ g.m_doneParsing = h.m_doneParsing /\ g.m_state = h.m_state
  BY <1>1, FieldAdded
<1>3. headers_complete_cb(h) = [g EXCEPT !.m_headerDone = TRUE]
  BY <1>1 DEF headers_complete_cb
<1>4. PICK k : k = [g EXCEPT !.m_headerDone = TRUE]
  OBVIOUS
<1>5. k \in HTTPObject /\ k.m_doneParsing = g.m_doneParsing /\ k.m_state = g.m_state
  BY <1>2, <1>4 DEF HTTPObject
<1> QED BY <1>2, <1>3, <1>4, <1>5

LEMMA MessageCompleteTyped ==
  ASSUME NEW h \in HTTPObject, NEW m, ~h.m_doneParsing
  PROVE  /\ message_complete_cb(h, m) \in HTTPObject
         /\ message_complete_cb(h, m).m_doneParsing => message_complete_cb(h, m).m_state = "DONE"
<1>1. CASE h.m_state \in {"VALUE", "BODY"} /\ m \in SupportedMethods
  <2>1. message_complete_cb(h, m) = [h EXCEPT !.m_state = "DONE", !.m_method = m, !.m_doneParsing = TRUE]
    BY <1>1 DEF message_complete_cb, Asserted
  <2> QED BY <1>1, <2>1 DEF HTTPObject
<1>2. CASE h.m_state \in {"VALUE", "BODY"} /\ m \notin SupportedMethods
  <2>1. message_complete_cb(h, m) = [h EXCEPT !.failed = "HTTP.cpp:391"]
    BY <1>2 DEF message_complete_cb, Asserted
  <2> QED BY <2>1 DEF HTTPObject, Assertions
<1>3. CASE h.m_state \notin {"VALUE", "BODY"}
  <2>1. message_complete_cb(h, m) = [h EXCEPT !.failed = "HTTP.cpp:130"]
    BY <1>3 DEF message_complete_cb, Asserted
  <2> QED BY <2>1 DEF HTTPObject, Assertions
<1> QED BY <1>1, <1>2, <1>3

LEMMA BodyTyped ==
  ASSUME NEW h \in HTTPObject, NEW ch \in STRING
  PROVE  /\ body_cb(h, <<ch>>) \in HTTPObject
         /\ body_cb(h, <<ch>>).m_doneParsing = h.m_doneParsing
         /\ body_cb(h, <<ch>>).m_state = h.m_state
         /\ Alive(body_cb(h, <<ch>>)) <=> Alive(h)
<1>1. PICK w : w = h.m_body \o <<ch>>
  OBVIOUS
<1>2. w \in Word
  BY <1>1, WordsJoin DEF HTTPObject
<1>3. body_cb(h, <<ch>>) = [h EXCEPT !.m_body = w]
  BY <1>1 DEF body_cb
<1> QED BY <1>2, <1>3 DEF HTTPObject, Alive

LEMMA MessageBeginTyped ==
  ASSUME NEW h \in HTTPObject
  PROVE  /\ message_begin_cb(h) \in HTTPObject
         /\ message_begin_cb(h).m_doneParsing = h.m_doneParsing
         /\ h.m_state = "DONE" => message_begin_cb(h).m_state = "DONE" /\ ~Alive(message_begin_cb(h))
<1>1. CASE h.m_state = "INIT"
  <2>1. message_begin_cb(h) = [h EXCEPT !.m_state = "HEADER"]
    BY <1>1 DEF message_begin_cb, Asserted
  <2> QED BY <1>1, <2>1 DEF HTTPObject
<1>2. CASE h.m_state # "INIT"
  <2>1. message_begin_cb(h) = [h EXCEPT !.failed = "HTTP.cpp:17"]
    BY <1>2 DEF message_begin_cb, Asserted
  <2> QED BY <2>1 DEF HTTPObject, Assertions, Alive
<1> QED BY <1>1, <1>2

\* The parts of a parser, and what Waits() asks of one whose marks are empty
\* and whose object is not complete.
LEMMA Changed ==
  ASSUME NEW p \in Parser, NEW s \in State, NEW hs \in HeaderState,
         NEW fs \in SUBSET (Flag \cup {"upgrade", "trailing"}), NEW cl \in Int, NEW me \in AnyMethod,
         NEW n \in 0 .. HTTP_MAX_HEADER_SIZE, NEW h \in HTTPObject
  PROVE  /\ [p EXCEPT !.state = s] \in Parser
         /\ [p EXCEPT !.header_state = hs] \in Parser
         /\ [p EXCEPT !.flags = fs] \in Parser
         /\ [p EXCEPT !.content_length = cl] \in Parser
         /\ [p EXCEPT !.method = me] \in Parser
         /\ [p EXCEPT !.nread = n] \in Parser
         /\ [p EXCEPT !.http = h] \in Parser
  BY DEF Parser

LEMMA StartReqTyped ==
  ASSUME NEW p, Good(p), NEW ch \in STRING, p.state = "start_req"
  PROVE  start_req(p, ch) \in Parser /\ Waits(start_req(p, ch))
<1>1. PICK h : h = message_begin_cb(p.http)
  OBVIOUS
<1>2. /\ h \in HTTPObject /\ h.m_doneParsing = p.http.m_doneParsing
      /\ p.http.m_state = "DONE" => h.m_state = "DONE"
  BY <1>1, MessageBeginTyped DEF Good, Parser
<1>3. PICK b : b = [p EXCEPT !.flags = {}, !.content_length = -1, !.http = h]
  OBVIOUS
<1>4. /\ b \in Parser /\ b.ret = "none" /\ b.state = "start_req" /\ Marked(b) = {}
      /\ b.http = h
      /\ Done(b) => h.m_state = "DONE"
      /\ Done(b) => ~Alive(h)
  <2>1. p \in Parser /\ p.ret = "none" /\ Marked(p) = {} /\ (p.http.m_doneParsing => p.http.m_state = "DONE")
    BY States DEF Good, Waits, Done
  <2>2. b \in Parser /\ b.ret = p.ret /\ b.state = p.state /\ b.mark = p.mark /\ b.http = h
    <3>1. PICK n : n = -1
      OBVIOUS
    <3>2. n \in Int /\ {} \in SUBSET (Flag \cup {"upgrade", "trailing"})
      BY <3>1
    <3>3. b = [p EXCEPT !.flags = {}, !.content_length = n, !.http = h]
      BY <1>3, <3>1
    <3> QED BY <1>2, <2>1, <3>2, <3>3 DEF Parser
  <2>3. (p.http.m_doneParsing => h.m_state = "DONE") /\ (p.http.m_doneParsing => ~Alive(h))
    BY <1>1, <2>1, MessageBeginTyped DEF Parser
  <2> QED BY <1>2, <2>1, <2>2, <2>3 DEF Marked, Done
<1>5. CASE ch \in {CR, LF}
  <2>1. start_req(p, ch) = p
    BY <1>5, Characters DEF start_req
  <2> QED BY <2>1 DEF Good
<1>6. CASE ch \in FirstLetter
  <2>1. start_req(p, ch) = [b EXCEPT !.method = ch, !.state = "req_method"]
    BY <1>1, <1>3, <1>6, Characters DEF start_req
  <2>2. PICK c : c = [b EXCEPT !.method = ch, !.state = "req_method"]
    OBVIOUS
  <2>3. c \in Parser /\ c.ret = "none" /\ c.state = "req_method" /\ Marked(c) = {} /\ c.http = h
    <3>1. ch \in AnyMethod /\ "req_method" \in State
      BY <1>6, Places DEF AnyMethod
    <3>2. /\ c \in Parser /\ c.ret = b.ret /\ c.state = "req_method" /\ c.mark = b.mark
          /\ c.http = b.http
      BY <1>4, <2>2, <3>1 DEF Parser
    <3> QED BY <1>4, <3>2 DEF Marked
  <2>4. CASE ~Done(c)
    <3>1. Marked(c) = Open(c.state) /\ c.state \notin BodyStates
      BY <2>3, Places
    <3>2. Waits(c)
      BY <2>3, <2>4, <3>1, WaitsEarly
    <3> QED BY <2>1, <2>2, <2>3, <3>2
  <2>5. CASE Done(c)
    <3>1. h.m_state = "DONE" /\ ~Alive(h)
      BY <1>4, <2>3, <2>5 DEF Done
    <3>2. Marked(c) = Open(c.state) /\ c.state \notin BodyStates
      BY <2>3, Places
    <3>3. Waits(c)
      BY <2>3, <3>1, <3>2 DEF Waits, BodyStates
    <3> QED BY <2>1, <2>2, <2>3, <3>3
  <2> QED BY <2>4, <2>5
<1>7. CASE ch \notin {CR, LF} \cup FirstLetter
  <2>1. start_req(p, ch) = Error(b)
    BY <1>1, <1>3, <1>7 DEF start_req
  <2>2. b \in Parser /\ (Done(b) => b.http.m_state = "DONE")
    BY <1>4
  <2>3. Error(b) \in Parser /\ Waits(Error(b))
    BY <2>2, ErrorTyped
  <2> QED BY <2>1, <2>3
<1> QED BY <1>5, <1>6, <1>7

LEMMA CompleteTyped ==
  ASSUME NEW p, Early(p), Marked(p) = {}, Alive(p.http)
  PROVE  /\ Complete(p) \in Parser /\ Waits(Complete(p)) /\ Complete(p).ret = "none"
         /\ Complete(p).state = NEW_MESSAGE(p) /\ Marked(Complete(p)) = {}
         /\ Complete(p).http = message_complete_cb(p.http, p.method)
<1>1. PICK h : h = message_complete_cb(p.http, p.method)
  OBVIOUS
<1>2. h \in HTTPObject /\ (h.m_doneParsing => h.m_state = "DONE")
  BY <1>1, MessageCompleteTyped DEF Early, Parser, Done
<1>3. PICK s : s = NEW_MESSAGE(p)
  OBVIOUS
<1>4. s \in {"start_req", "dead"} /\ s \in State /\ Open(s) = {} /\ s \notin BodyStates
  BY <1>3, States DEF NEW_MESSAGE, BodyStates
<1>5. Complete(p) = [p EXCEPT !.http = h, !.state = s]
  BY <1>1, <1>3 DEF Complete
<1>6. PICK r : r = [p EXCEPT !.http = h, !.state = s]
  OBVIOUS
<1>7. r \in Parser /\ r.http = h /\ r.state = s /\ r.ret = "none" /\ r.mark = p.mark
  BY <1>2, <1>4, <1>6 DEF Early, Parser
<1>8. Marked(r) = {}
  BY <1>7 DEF Marked
<1>9. Waits(r)
  BY <1>2, <1>4, <1>7, <1>8 DEF Waits, Done, BodyStates
<1> QED BY <1>1, <1>3, <1>5, <1>6, <1>7, <1>8, <1>9

LEMMA HeadersAlmostDoneTyped ==
  ASSUME NEW p, Good(p), NEW ch \in STRING, p.state \in {"headers_almost_done", "header_field_start"}
  PROVE  headers_almost_done(p, ch) \in Parser /\ Waits(headers_almost_done(p, ch))
<1>1. Early(p) /\ Marked(p) = {} /\ Alive(p.http)
  BY GoodIsEarly, Places DEF Good
<1>2. PICK h : h = headers_complete_cb(p.http)
  OBVIOUS
<1>3. h \in HTTPObject /\ h.m_doneParsing = p.http.m_doneParsing
  BY <1>1, <1>2, HeadersCompleteTyped DEF Early, Parser
<1>4. PICK q : q = [p EXCEPT !.nread = 0, !.http = h]
  OBVIOUS
<1>5. q \in Parser /\ q.http = h /\ q.state = p.state /\ q.ret = "none" /\ q.mark = p.mark
      /\ q.method = p.method /\ q.flags = p.flags /\ q.content_length = p.content_length
  <2>1. 0 \in 0 .. HTTP_MAX_HEADER_SIZE
    BY HeaderSizeAssumption
  <2> QED BY <1>1, <1>3, <1>4, <2>1 DEF Early, Parser
<1>6. Early(q) /\ Marked(q) = {}
  BY <1>1, <1>3, <1>5 DEF Early, Marked, Done
<1>7. headers_almost_done(p, ch) =
        IF ch # LF THEN Error(p)
        ELSE IF "trailing" \in p.flags THEN Complete(p)
        ELSE IF ~Alive(q.http) THEN q
        ELSE IF "upgrade" \in q.flags \/ q.method = "CONNECT"
          THEN [q EXCEPT !.http = message_complete_cb(@, q.method), !.ret = "upgrade"]
        ELSE IF "chunked" \in q.flags THEN To(q, "chunk_size_start")
        ELSE IF q.content_length > 0 THEN To(q, "body_identity")
        ELSE Complete(q)
  BY <1>2, <1>4 DEF headers_almost_done
<1>8. CASE ch # LF
  BY <1>1, <1>7, <1>8, EarlyError
<1>9. CASE ch = LF /\ "trailing" \in p.flags
  BY <1>1, <1>7, <1>9, CompleteTyped
<1>10. CASE ch = LF /\ "trailing" \notin p.flags /\ ~Alive(q.http)
  <2>1. q \in Parser /\ Waits(q)
    <3>1. Marked(q) = Open(q.state) /\ q.state \notin BodyStates
      BY <1>1, <1>5, <1>6, Places
    <3> QED BY <1>6, <3>1, EarlyWaits
  <2> QED BY <1>7, <1>10, <2>1
<1>11. CASE ch = LF /\ "trailing" \notin p.flags /\ Alive(q.http)
              /\ ("upgrade" \in q.flags \/ q.method = "CONNECT")
  <2>1. PICK g : g = message_complete_cb(h, q.method)
    OBVIOUS
  <2>2. g \in HTTPObject /\ (g.m_doneParsing => g.m_state = "DONE")
    BY <1>3, <1>1, <2>1, MessageCompleteTyped DEF Early, Done
  <2>3. PICK r : r = [q EXCEPT !.http = g, !.ret = "upgrade"]
    OBVIOUS
  <2>4. r \in Parser /\ r.http = g /\ r.state = p.state /\ r.ret = "upgrade" /\ r.mark = q.mark
    BY <1>5, <2>2, <2>3 DEF Parser
  <2>5. Waits(r)
    BY <1>6, <2>2, <2>4, Places DEF Waits, Done, Marked, BodyStates
  <2>6. headers_almost_done(p, ch) = r
    BY <1>5, <1>7, <1>11, <2>1, <2>3
  <2> QED BY <2>4, <2>5, <2>6
<1>12. CASE ch = LF /\ "trailing" \notin p.flags /\ Alive(q.http)
              /\ ~("upgrade" \in q.flags \/ q.method = "CONNECT") /\ "chunked" \in q.flags
  <2>1. PICK r : r = To(q, "chunk_size_start")
    OBVIOUS
  <2>2. r \in Parser /\ r.ret = "none" /\ r.state = "chunk_size_start" /\ Marked(r) = {} /\ ~Done(r)
    BY <1>5, <1>6, <2>1, ToTyped, States DEF BodyStates, Early
  <2>3. Waits(r)
    BY <2>2, States DEF Waits, BodyStates
  <2> QED BY <1>7, <1>12, <2>1, <2>2, <2>3
<1>13. CASE ch = LF /\ "trailing" \notin p.flags /\ Alive(q.http)
              /\ ~("upgrade" \in q.flags \/ q.method = "CONNECT") /\ "chunked" \notin q.flags
              /\ q.content_length > 0
  <2>1. PICK r : r = To(q, "body_identity")
    OBVIOUS
  <2>2. /\ r \in Parser /\ r.ret = "none" /\ r.state = "body_identity" /\ Marked(r) = {} /\ ~Done(r)
        /\ r.content_length = q.content_length
    <3>1. "body_identity" \in State
      BY States DEF BodyStates
    <3>2. To(q, "body_identity").content_length = q.content_length
      BY <1>5, <3>1, ToTyped DEF Rest
    <3> QED BY <1>5, <1>6, <2>1, <3>1, <3>2, ToTyped DEF Early
  <2>3. Waits(r)
    BY <1>13, <2>2, States DEF Waits, BodyStates
  <2> QED BY <1>7, <1>13, <2>1, <2>2, <2>3
<1>14. CASE ch = LF /\ "trailing" \notin p.flags /\ Alive(q.http)
              /\ ~("upgrade" \in q.flags \/ q.method = "CONNECT") /\ "chunked" \notin q.flags
              /\ ~(q.content_length > 0)
  BY <1>6, <1>7, <1>14, CompleteTyped
<1> QED BY <1>8, <1>9, <1>10, <1>11, <1>12, <1>13, <1>14

\* A header that ends goes on to the next one, its state among the flags.
LEMMA HeaderEndTyped ==
  ASSUME NEW p, Early(p), Marked(p) = {}, NEW ch
  PROVE  header_almost_done(p, ch) \in Parser /\ Waits(header_almost_done(p, ch))
<1>1. CASE ch # LF
  BY <1>1, EarlyError DEF header_almost_done
<1>2. CASE ch = LF
  <2>1. PICK fs : fs = p.flags \cup ({p.header_state} \cap Flag)
    OBVIOUS
  <2>2. fs \in SUBSET (Flag \cup {"upgrade", "trailing"})
    BY <2>1 DEF Early, Parser
  <2>3. header_almost_done(p, ch) = [p EXCEPT !.state = "header_field_start", !.flags = fs]
    BY <1>2, <2>1 DEF header_almost_done
  <2>4. PICK r : r = [p EXCEPT !.state = "header_field_start", !.flags = fs]
    OBVIOUS
  <2>5. /\ r \in Parser /\ r.http = p.http /\ r.state = "header_field_start" /\ r.ret = "none"
        /\ r.mark = p.mark
    BY <2>2, <2>4, Places DEF Early, Parser
  <2>6. Early(r) /\ Marked(r) = {}
    BY <2>5 DEF Early, Marked, Done
  <2>7. r \in Parser /\ Waits(r)
    <3>1. Open(r.state) = {} /\ r.state \notin BodyStates
      BY <2>5, Places
    <3> QED BY <2>6, <3>1, EarlyWaits
  <2> QED BY <2>3, <2>4, <2>7
<1> QED BY <1>1, <1>2

LEMMA WordTypes ==
  /\ \A w \in DOMAIN FieldWord : w[1] \in HeaderState /\ FieldWord[w] \in Recognized
  /\ Recognized \subseteq HeaderState /\ "general" \in HeaderState
  /\ \A w \in DOMAIN ValueWord : ValueWord[w] \in HeaderState
  BY DEF HeaderState, Recognized

\* A parser with another header state waits as before.
LEMMA HeaderStateTyped ==
  ASSUME NEW p, Early(p), p.state \notin BodyStates, Marked(p) = Open(p.state), NEW hs \in HeaderState
  PROVE  /\ [p EXCEPT !.header_state = hs] \in Parser
         /\ Waits([p EXCEPT !.header_state = hs])
<1>1. PICK r : r = [p EXCEPT !.header_state = hs]
  OBVIOUS
<1>2. r \in Parser /\ r.http = p.http /\ r.state = p.state /\ r.ret = p.ret /\ r.mark = p.mark
  BY <1>1 DEF Early, Parser
<1>3. Early(r) /\ Marked(r) = Open(r.state) /\ r.state \notin BodyStates
  BY <1>2 DEF Early, Marked, Done
<1> QED BY <1>1, <1>3, EarlyWaits

LEMMA HeaderFieldStartTyped ==
  ASSUME NEW p, Good(p), NEW ch \in STRING, p.state = "header_field_start"
  PROVE  header_field_start(p, ch) \in Parser /\ Waits(header_field_start(p, ch))
<1>1. Early(p) /\ Marked(p) = {}
  BY GoodIsEarly, Places
<1>2. CASE ch = CR
  <2>1. header_field_start(p, ch) = To(p, "headers_almost_done")
    BY <1>2, Characters DEF header_field_start, CR, LF
  <2>2. "headers_almost_done" \in State \ BodyStates /\ Marked(p) = Open("headers_almost_done")
    BY <1>1, Places
  <2> QED BY <1>1, <2>1, <2>2, EarlyTo
<1>3. CASE ch = LF
  <2>1. header_field_start(p, ch) = headers_almost_done(p, ch)
    BY <1>3, Characters DEF header_field_start, CR, LF
  <2> QED BY <2>1, HeadersAlmostDoneTyped
<1>4. CASE Token(ch)
  <2>1. PICK a : a = Mark(p, "header_field")
    OBVIOUS
  <2>2. Early(a) /\ Marked(a) = {"header_field"}
    BY <1>1, <2>1, EarlyMark DEF Fields
  <2>3. PICK hs : hs = IF \E w \in DOMAIN FieldWord : w[1] = ch THEN ch ELSE "general"
    OBVIOUS
  <2>4. hs \in HeaderState
    BY <2>3, WordTypes
  <2>5. header_field_start(p, ch) = [a EXCEPT !.state = "header_field", !.header_state = hs]
    BY <1>4, <2>1, <2>3, Characters DEF header_field_start
  <2>6. PICK b : b = To(a, "header_field")
    OBVIOUS
  <2>7. Early(b) /\ Marked(b) = Open(b.state) /\ b.state \notin BodyStates
    <3>1. a \in Parser /\ "header_field" \in State
      BY <2>2, Places DEF Early
    <3>2. Early(b) /\ Marked(b) = Marked(a) /\ b.state = "header_field"
      BY <2>2, <2>6, <3>1, ToTyped DEF Early
    <3> QED BY <2>2, <3>2, Places
  <2>8. [b EXCEPT !.header_state = hs] = [a EXCEPT !.state = "header_field", !.header_state = hs]
    BY <2>2, <2>6 DEF To, Early, Parser
  <2> QED BY <2>4, <2>5, <2>7, <2>8, HeaderStateTyped
<1>5. CASE ch \notin {CR, LF} /\ ~Token(ch)
  <2>1. header_field_start(p, ch) = Error(p)
    BY <1>5 DEF header_field_start
  <2> QED BY <1>1, <2>1, EarlyError
<1> QED BY <1>2, <1>3, <1>4, <1>5

LEMMA HeaderFieldTyped ==
  ASSUME NEW p, Good(p), NEW ch \in STRING, p.state = "header_field"
  PROVE  header_field(p, ch) \in Parser /\ Waits(header_field(p, ch))
<1>1. Early(p) /\ Marked(p) = {"header_field"} /\ p.state \notin BodyStates
  BY GoodIsEarly, Places
<1>2. CASE Token(ch)
  <2>1. PICK hs : hs = CASE <<p.header_state, ch>> \in DOMAIN FieldWord -> FieldWord[<<p.header_state, ch>>]
                         [] p.header_state \in Recognized /\ ch = " " -> p.header_state
                         [] OTHER -> "general"
    OBVIOUS
  <2>2. hs \in HeaderState
    BY <2>1, WordTypes, Domains
  <2>3. header_field(p, ch) = [p EXCEPT !.header_state = hs]
    BY <1>2, <2>1, Characters DEF header_field
  <2>4. Marked(p) = Open(p.state)
    BY <1>1, Places
  <2> QED BY <1>1, <2>2, <2>3, <2>4, HeaderStateTyped
<1>3. CASE ~Token(ch)
  <2>1. PICK a : a = CALLBACK(p, "header_field")
    OBVIOUS
  <2>2. Early(a) /\ Marked(a) = {}
    BY <1>1, <2>1, EarlyCallback DEF Fields
  <2>3. header_field(p, ch) \in {To(a, "header_value_start"), To(a, "header_almost_done"),
                                 To(a, "header_field_start"), Error(p)}
    BY <1>3, <2>1 DEF header_field, CR, LF
  <2>4. ASSUME NEW s \in {"header_value_start", "header_almost_done", "header_field_start"}
        PROVE  To(a, s) \in Parser /\ Waits(To(a, s))
    BY <2>2, EarlyTo, Places
  <2> QED BY <1>1, <2>3, <2>4, EarlyError
<1> QED BY <1>2, <1>3

LEMMA HeaderValueStartTyped ==
  ASSUME NEW p, Good(p), NEW ch \in STRING, p.state = "header_value_start"
  PROVE  header_value_start(p, ch) \in Parser /\ Waits(header_value_start(p, ch))
<1>1. Early(p) /\ Marked(p) = {}
  BY GoodIsEarly, Places
<1>2. PICK a : a = Mark(p, "header_value")
  OBVIOUS
<1>3. Early(a) /\ Marked(a) = {"header_value"}
  BY <1>1, <1>2, EarlyMark DEF Fields
<1>4. PICK q : q = To(a, "header_value")
  OBVIOUS
<1>5. Early(q) /\ Marked(q) = {"header_value"} /\ q.state = "header_value"
  <2>1. a \in Parser /\ "header_value" \in State
    BY <1>3, Places DEF Early
  <2> QED BY <1>3, <1>4, <2>1, ToTyped DEF Early
<1>6. q.state \notin BodyStates /\ Marked(q) = Open(q.state)
  BY <1>5, Places
<1>7. PICK g : g = [q EXCEPT !.header_state = "general"]
  OBVIOUS
<1>8. Early(g) /\ Marked(g) = {"header_value"} /\ g \in Parser /\ Waits(g)
  <2>1. g \in Parser /\ Waits(g)
    BY <1>5, <1>6, <1>7, HeaderStateTyped, WordTypes
  <2>2. g.ret = q.ret /\ g.mark = q.mark /\ g.http = q.http
    BY <1>5, <1>7 DEF Early, Parser
  <2> QED BY <1>5, <2>1, <2>2 DEF Early, Marked, Done
<1>9. header_value_start(p, ch) =
        IF ch = " " THEN p
        ELSE IF ch = CR THEN To(CALLBACK(g, "header_value"), "header_almost_done")
        ELSE IF ch = LF THEN To(CALLBACK(q, "header_value"), "header_field_start")
        ELSE IF ~Acceptable(ch) THEN g
        ELSE IF p.header_state = "upgrade" THEN [g EXCEPT !.flags = @ \cup {"upgrade"}]
        ELSE IF p.header_state = "content_length"
          THEN IF ch \in DOMAIN Digit THEN [q EXCEPT !.content_length = Digit[ch]] ELSE Error(q)
        ELSE IF <<p.header_state, ch>> \in DOMAIN ValueWord
          THEN [q EXCEPT !.header_state = ValueWord[<<p.header_state, ch>>]]
        ELSE g
  BY <1>2, <1>4, <1>7, Zenon DEF header_value_start
<1>10. CASE ch = " "
  BY <1>9, <1>10 DEF Good
<1>11. CASE ch # " " /\ ch = CR
  <2>1. PICK c : c = CALLBACK(g, "header_value")
    OBVIOUS
  <2>2. Early(c) /\ Marked(c) = {}
    BY <1>8, <2>1, EarlyCallback DEF Fields
  <2>3. "header_almost_done" \in State \ BodyStates /\ Marked(c) = Open("header_almost_done")
    BY <2>2, Places
  <2> QED BY <1>9, <1>11, <2>1, <2>2, <2>3, EarlyTo
<1>12. CASE ch # " " /\ ch # CR /\ ch = LF
  <2>1. PICK c : c = CALLBACK(q, "header_value")
    OBVIOUS
  <2>2. Early(c) /\ Marked(c) = {}
    BY <1>5, <2>1, EarlyCallback DEF Fields
  <2>3. "header_field_start" \in State \ BodyStates /\ Marked(c) = Open("header_field_start")
    BY <2>2, Places
  <2> QED BY <1>9, <1>12, <2>1, <2>2, <2>3, EarlyTo
<1>13. CASE ch # " " /\ ch # CR /\ ch # LF
  <2>1. [g EXCEPT !.flags = @ \cup {"upgrade"}] \in Parser /\ Waits([g EXCEPT !.flags = @ \cup {"upgrade"}])
    <3>1. PICK fs : fs = g.flags \cup {"upgrade"}
      OBVIOUS
    <3>2. fs \in SUBSET (Flag \cup {"upgrade", "trailing"})
      BY <1>8, <3>1 DEF Parser
    <3>3. PICK r : r = [g EXCEPT !.flags = fs]
      OBVIOUS
    <3>4. r \in Parser /\ r.ret = g.ret /\ r.mark = g.mark /\ r.http = g.http /\ r.state = g.state
      BY <1>8, <3>2, <3>3 DEF Parser
    <3>5. g.state = "header_value"
      BY <1>5, <1>7 DEF Early, Parser
    <3>6. Early(r) /\ Marked(r) = Open(r.state) /\ r.state \notin BodyStates
      BY <1>8, <3>4, <3>5, Places DEF Early, Marked, Done
    <3>7. Waits(r)
      BY <3>6, EarlyWaits
    <3> QED BY <3>1, <3>3, <3>4, <3>7
  <2>2. ASSUME ch \in DOMAIN Digit
        PROVE  [q EXCEPT !.content_length = Digit[ch]] \in Parser
               /\ Waits([q EXCEPT !.content_length = Digit[ch]])
    <3>1. PICK d \in Nat : d = Digit[ch]
      BY <2>2, Digits
    <3>2. PICK r : r = [q EXCEPT !.content_length = d]
      OBVIOUS
    <3>3. r \in Parser /\ r.ret = q.ret /\ r.mark = q.mark /\ r.http = q.http /\ r.state = q.state
      BY <1>5, <3>1, <3>2 DEF Parser, Early
    <3>4. Early(r) /\ Marked(r) = Open(r.state) /\ r.state \notin BodyStates
      BY <1>5, <1>6, <3>3 DEF Early, Marked, Done
    <3>5. Waits(r)
      BY <3>4, EarlyWaits
    <3> QED BY <3>1, <3>2, <3>3, <3>5
  <2>3. ASSUME <<p.header_state, ch>> \in DOMAIN ValueWord
        PROVE  [q EXCEPT !.header_state = ValueWord[<<p.header_state, ch>>]] \in Parser
               /\ Waits([q EXCEPT !.header_state = ValueWord[<<p.header_state, ch>>]])
    <3>1. PICK hs \in HeaderState : hs = ValueWord[<<p.header_state, ch>>]
      BY <2>3, WordTypes
    <3>2. [q EXCEPT !.header_state = hs] \in Parser /\ Waits([q EXCEPT !.header_state = hs])
      BY <1>5, <1>6, HeaderStateTyped
    <3> QED BY <3>1, <3>2
  <2>4. Error(q) \in Parser /\ Waits(Error(q))
    BY <1>5, EarlyError
  <2>5. \/ header_value_start(p, ch) = g
        \/ header_value_start(p, ch) = [g EXCEPT !.flags = @ \cup {"upgrade"}]
        \/ ch \in DOMAIN Digit /\ header_value_start(p, ch) = [q EXCEPT !.content_length = Digit[ch]]
        \/ header_value_start(p, ch) = Error(q)
        \/ /\ <<p.header_state, ch>> \in DOMAIN ValueWord
           /\ header_value_start(p, ch) = [q EXCEPT !.header_state = ValueWord[<<p.header_state, ch>>]]
    BY <1>9, <1>13, Zenon
  <2> QED BY <1>8, <2>1, <2>2, <2>3, <2>4, <2>5
<1> QED BY <1>10, <1>11, <1>12, <1>13

LEMMA HeaderValueTyped ==
  ASSUME NEW p, Good(p), NEW ch \in STRING, p.state = "header_value"
  PROVE  header_value(p, ch) \in Parser /\ Waits(header_value(p, ch))
<1>1. Early(p) /\ Marked(p) = {"header_value"} /\ p.state \notin BodyStates /\ Marked(p) = Open(p.state)
  BY GoodIsEarly, Places
<1>2. PICK c : c = CALLBACK(p, "header_value")
  OBVIOUS
<1>3. Early(c) /\ Marked(c) = {}
  BY <1>1, <1>2, EarlyCallback DEF Fields
<1>4. header_value(p, ch) =
        IF ch = CR THEN To(c, "header_almost_done")
        ELSE IF ch = LF THEN header_almost_done(c, ch)
        ELSE IF ~Acceptable(ch) THEN p
        ELSE IF ch = " " /\ p.header_state \in Flag \cup {"content_length"} THEN p
        ELSE IF p.header_state = "content_length"
          THEN IF ch \in DOMAIN Digit THEN [p EXCEPT !.content_length = 10 * @ + Digit[ch]] ELSE Error(p)
        ELSE [p EXCEPT !.header_state =
                IF <<p.header_state, ch>> \in DOMAIN ValueWord
                  THEN ValueWord[<<p.header_state, ch>>] ELSE "general"]
  BY <1>2, Zenon DEF header_value
<1>5. CASE ch = CR
  <2>1. "header_almost_done" \in State \ BodyStates /\ Marked(c) = Open("header_almost_done")
    BY <1>3, Places
  <2> QED BY <1>3, <1>4, <1>5, <2>1, EarlyTo
<1>6. CASE ch # CR /\ ch = LF
  BY <1>3, <1>4, <1>6, HeaderEndTyped
<1>7. CASE ch # CR /\ ch # LF
  <2>1. ASSUME ch \in DOMAIN Digit
        PROVE  [p EXCEPT !.content_length = 10 * @ + Digit[ch]] \in Parser
               /\ Waits([p EXCEPT !.content_length = 10 * @ + Digit[ch]])
    <3>1. PICK d \in Nat : d = Digit[ch]
      BY <2>1, Digits
    <3>2. PICK n : n = 10 * p.content_length + d
      OBVIOUS
    <3>3. n \in Int
      BY <1>1, <3>1, <3>2 DEF Early, Parser
    <3>4. PICK r : r = [p EXCEPT !.content_length = n]
      OBVIOUS
    <3>5. r \in Parser /\ r.ret = p.ret /\ r.mark = p.mark /\ r.http = p.http /\ r.state = p.state
      BY <1>1, <3>3, <3>4 DEF Parser, Early
    <3>6. Early(r) /\ Marked(r) = Open(r.state) /\ r.state \notin BodyStates
      BY <1>1, <3>5 DEF Early, Marked, Done
    <3>7. Waits(r)
      BY <3>6, EarlyWaits
    <3> QED BY <3>1, <3>2, <3>4, <3>5, <3>7
  <2>2. PICK hs : hs = IF <<p.header_state, ch>> \in DOMAIN ValueWord
                         THEN ValueWord[<<p.header_state, ch>>] ELSE "general"
    OBVIOUS
  <2>3. hs \in HeaderState
    BY <2>2, WordTypes
  <2>4. [p EXCEPT !.header_state = hs] \in Parser /\ Waits([p EXCEPT !.header_state = hs])
    BY <1>1, <2>3, HeaderStateTyped
  <2>5. Error(p) \in Parser /\ Waits(Error(p))
    BY <1>1, EarlyError
  <2>6. \/ header_value(p, ch) = p
        \/ ch \in DOMAIN Digit /\ header_value(p, ch) = [p EXCEPT !.content_length = 10 * @ + Digit[ch]]
        \/ header_value(p, ch) = Error(p)
        \/ header_value(p, ch) = [p EXCEPT !.header_state = hs]
    BY <1>4, <1>7, <2>2, Zenon
  <2> QED BY <2>1, <2>4, <2>5, <2>6 DEF Good
<1> QED BY <1>5, <1>6, <1>7

LEMMA BodyIdentityTyped ==
  ASSUME NEW p, Good(p), NEW ch \in STRING, p.state = "body_identity"
  PROVE  body_identity(p, ch) \in Parser /\ Waits(body_identity(p, ch))
<1>1. Early(p) /\ Marked(p) = {} /\ Alive(p.http) /\ p.content_length > 0 /\ p.content_length \in Int
  BY GoodIsEarly, States DEF Good, Waits, Parser, BodyStates
<1>2. PICK h : h = body_cb(p.http, <<ch>>)
  OBVIOUS
<1>3. h \in HTTPObject /\ h.m_doneParsing = p.http.m_doneParsing /\ Alive(h)
  BY <1>1, <1>2, BodyTyped DEF Early, Parser
<1>4. PICK n : n = p.content_length - 1
  OBVIOUS
<1>5. n \in Int /\ n >= 0
  BY <1>1, <1>4
<1>6. PICK q : q = [p EXCEPT !.http = h, !.content_length = n]
  OBVIOUS
<1>7. /\ q \in Parser /\ q.ret = "none" /\ q.mark = p.mark /\ q.http = h /\ q.state = "body_identity"
      /\ q.content_length = n
  BY <1>1, <1>3, <1>5, <1>6 DEF Parser, Early
<1>8. Early(q) /\ Marked(q) = {} /\ Alive(q.http)
  BY <1>1, <1>3, <1>7 DEF Early, Marked, Done
<1>9. body_identity(p, ch) = IF q.content_length = 0 THEN Complete(q) ELSE q
  BY <1>2, <1>4, <1>6 DEF body_identity
<1>10. CASE n = 0
  BY <1>7, <1>8, <1>9, <1>10, CompleteTyped
<1>11. CASE n # 0
  <2>1. n > 0
    BY <1>5, <1>11
  <2>2. Waits(q)
    BY <1>7, <1>8, <2>1, States DEF Waits, BodyStates, Early
  <2> QED BY <1>7, <1>9, <1>11, <2>2
<1> QED BY <1>10, <1>11

LEMMA ChunkDataTyped ==
  ASSUME NEW p, Good(p), NEW ch \in STRING, p.state = "chunk_data"
  PROVE  chunk_data(p, ch) \in Parser /\ Waits(chunk_data(p, ch))
<1>1. Early(p) /\ Marked(p) = {} /\ p.content_length > 0 /\ p.content_length \in Int
  BY GoodIsEarly, States DEF Good, Waits, Parser, BodyStates
<1>2. PICK h : h = body_cb(p.http, <<ch>>)
  OBVIOUS
<1>3. h \in HTTPObject /\ h.m_doneParsing = p.http.m_doneParsing
  BY <1>1, <1>2, BodyTyped DEF Early, Parser
<1>4. PICK n : n = p.content_length - 1
  OBVIOUS
<1>5. n \in Int /\ (p.content_length # 1 => n > 0)
  BY <1>1, <1>4
<1>6. PICK s : s = IF p.content_length = 1 THEN "chunk_data_almost_done" ELSE "chunk_data"
  OBVIOUS
<1>7. chunk_data(p, ch) = [p EXCEPT !.http = h, !.content_length = n, !.state = s]
  BY <1>2, <1>4, <1>6 DEF chunk_data
<1>8. s \in State /\ s \in BodyStates
  BY <1>6, States DEF BodyStates
<1>9. PICK r : r = [p EXCEPT !.http = h, !.content_length = n, !.state = s]
  OBVIOUS
<1>10. /\ r \in Parser /\ r.ret = "none" /\ r.mark = p.mark /\ r.http = h /\ r.state = s
       /\ r.content_length = n
  BY <1>1, <1>3, <1>5, <1>8, <1>9 DEF Parser, Early
<1>11. Early(r) /\ Marked(r) = {}
  BY <1>1, <1>3, <1>10 DEF Early, Marked, Done
<1>12. Waits(r)
  BY <1>5, <1>6, <1>8, <1>10, <1>11, States DEF Waits, Early
<1> QED BY <1>7, <1>9, <1>10, <1>12
-----------------------------------------------------------------------------
(* One character.                                                          *)

\* The operator each state leads to.
LEMMA SwitchLeads ==
  ASSUME NEW p, NEW ch
  PROVE  /\ p.state = "dead" => Switch(p, ch) = Error(p)
         /\ p.state = "start_req" => Switch(p, ch) = start_req(p, ch)
         /\ p.state = "req_method" => Switch(p, ch) = req_method(p, ch)
         /\ p.state = "req_spaces_before_url" => Switch(p, ch) = req_spaces_before_url(p, ch)
         /\ p.state = "req_schema" => Switch(p, ch) = req_schema(p, ch)
         /\ p.state \in {"req_schema_slash", "req_schema_slash_slash"} => Switch(p, ch) = req_schema_slash(p, ch)
         /\ p.state \in {"req_host", "req_port"} => Switch(p, ch) = req_host(p, ch)
         /\ p.state = "req_path" => Switch(p, ch) = req_path(p, ch)
         /\ p.state = "req_query_string_start" => Switch(p, ch) = req_query_string_start(p, ch)
         /\ p.state = "req_query_string" => Switch(p, ch) = req_query_string(p, ch)
         /\ p.state = "req_fragment_start" => Switch(p, ch) = req_fragment_start(p, ch)
         /\ p.state = "req_fragment" => Switch(p, ch) = req_fragment(p, ch)
         /\ p.state = "req_http_start" => Switch(p, ch) = req_http_start(p, ch)
         /\ p.state \in {"req_http_HTTP", "req_first_http_major", "req_http_major", "req_first_http_minor", "req_http_minor"} => Switch(p, ch) = http_version(p, ch)
         /\ p.state = "req_line_almost_done" => Switch(p, ch) = req_line_almost_done(p, ch)
         /\ p.state = "header_field_start" => Switch(p, ch) = header_field_start(p, ch)
         /\ p.state = "header_field" => Switch(p, ch) = header_field(p, ch)
         /\ p.state = "header_value_start" => Switch(p, ch) = header_value_start(p, ch)
         /\ p.state = "header_value" => Switch(p, ch) = header_value(p, ch)
         /\ p.state = "header_almost_done" => Switch(p, ch) = header_almost_done(p, ch)
         /\ p.state = "headers_almost_done" => Switch(p, ch) = headers_almost_done(p, ch)
         /\ p.state = "body_identity" => Switch(p, ch) = body_identity(p, ch)
         /\ p.state \in {"chunk_size_start", "chunk_size"} => Switch(p, ch) = chunk_size(p, ch)
         /\ p.state = "chunk_parameters" => Switch(p, ch) = chunk_parameters(p, ch)
         /\ p.state = "chunk_size_almost_done" => Switch(p, ch) = chunk_size_almost_done(p, ch)
         /\ p.state = "chunk_data" => Switch(p, ch) = chunk_data(p, ch)
         /\ p.state \in {"chunk_data_almost_done", "chunk_data_done"} => Switch(p, ch) = chunk_data_done(p, ch)
  BY DEF Switch

LEMMA SwitchTyped ==
  ASSUME NEW p, Good(p), NEW ch \in STRING
  PROVE  Switch(p, ch) \in Parser /\ Waits(Switch(p, ch))
<1>1. CASE p.state = "dead"
  <2>1. Switch(p, ch) = Error(p) /\ (Done(p) => p.http.m_state = "DONE")
    BY <1>1, SwitchLeads DEF Good, Waits
  <2> QED BY <2>1, ErrorTyped DEF Good
<1>2. CASE p.state = "start_req"
  <2>1. Switch(p, ch) = start_req(p, ch)
    BY <1>2, SwitchLeads
  <2> QED BY <1>2, <2>1, StartReqTyped
<1>3. CASE p.state = "req_method"
  <2>1. Switch(p, ch) = req_method(p, ch)
    BY <1>3, SwitchLeads
  <2> QED BY <1>3, <2>1, ReqMethodTyped
<1>4. CASE p.state = "req_spaces_before_url"
  <2>1. Switch(p, ch) = req_spaces_before_url(p, ch)
    BY <1>4, SwitchLeads
  <2> QED BY <1>4, <2>1, ReqSpacesTyped
<1>5. CASE p.state = "req_schema"
  <2>1. Switch(p, ch) = req_schema(p, ch)
    BY <1>5, SwitchLeads
  <2> QED BY <1>5, <2>1, ReqSchemaTyped
<1>6. CASE p.state \in {"req_schema_slash", "req_schema_slash_slash"}
  <2>1. Switch(p, ch) = req_schema_slash(p, ch)
    BY <1>6, SwitchLeads
  <2> QED BY <1>6, <2>1, ReqSchemaSlashTyped
<1>7. CASE p.state \in {"req_host", "req_port"}
  <2>1. Switch(p, ch) = req_host(p, ch)
    BY <1>7, SwitchLeads
  <2> QED BY <1>7, <2>1, ReqHostTyped
<1>8. CASE p.state = "req_path"
  <2>1. Switch(p, ch) = req_path(p, ch)
    BY <1>8, SwitchLeads
  <2> QED BY <1>8, <2>1, ReqPathTyped
<1>9. CASE p.state = "req_query_string_start"
  <2>1. Switch(p, ch) = req_query_string_start(p, ch)
    BY <1>9, SwitchLeads
  <2> QED BY <1>9, <2>1, ReqQueryStringStartTyped
<1>10. CASE p.state = "req_query_string"
  <2>1. Switch(p, ch) = req_query_string(p, ch)
    BY <1>10, SwitchLeads
  <2> QED BY <1>10, <2>1, ReqQueryStringTyped
<1>11. CASE p.state = "req_fragment_start"
  <2>1. Switch(p, ch) = req_fragment_start(p, ch)
    BY <1>11, SwitchLeads
  <2> QED BY <1>11, <2>1, ReqFragmentStartTyped
<1>12. CASE p.state = "req_fragment"
  <2>1. Switch(p, ch) = req_fragment(p, ch)
    BY <1>12, SwitchLeads
  <2> QED BY <1>12, <2>1, ReqFragmentTyped
<1>13. CASE p.state = "req_http_start"
  <2>1. Switch(p, ch) = req_http_start(p, ch)
    BY <1>13, SwitchLeads
  <2> QED BY <1>13, <2>1, ReqHttpStartTyped
<1>14. CASE p.state \in {"req_http_HTTP", "req_first_http_major", "req_http_major", "req_first_http_minor", "req_http_minor"}
  <2>1. Switch(p, ch) = http_version(p, ch)
    BY <1>14, SwitchLeads
  <2> QED BY <1>14, <2>1, HttpVersionTyped
<1>15. CASE p.state = "req_line_almost_done"
  <2>1. Switch(p, ch) = req_line_almost_done(p, ch)
    BY <1>15, SwitchLeads
  <2> QED BY <1>15, <2>1, ReqLineAlmostDoneTyped
<1>16. CASE p.state = "header_field_start"
  <2>1. Switch(p, ch) = header_field_start(p, ch)
    BY <1>16, SwitchLeads
  <2> QED BY <1>16, <2>1, HeaderFieldStartTyped
<1>17. CASE p.state = "header_field"
  <2>1. Switch(p, ch) = header_field(p, ch)
    BY <1>17, SwitchLeads
  <2> QED BY <1>17, <2>1, HeaderFieldTyped
<1>18. CASE p.state = "header_value_start"
  <2>1. Switch(p, ch) = header_value_start(p, ch)
    BY <1>18, SwitchLeads
  <2> QED BY <1>18, <2>1, HeaderValueStartTyped
<1>19. CASE p.state = "header_value"
  <2>1. Switch(p, ch) = header_value(p, ch)
    BY <1>19, SwitchLeads
  <2> QED BY <1>19, <2>1, HeaderValueTyped
<1>20. CASE p.state = "header_almost_done"
  <2>1. Switch(p, ch) = header_almost_done(p, ch)
    BY <1>20, SwitchLeads
  <2> QED BY <1>20, <2>1, HeaderAlmostDoneTyped
<1>21. CASE p.state = "headers_almost_done"
  <2>1. Switch(p, ch) = headers_almost_done(p, ch)
    BY <1>21, SwitchLeads
  <2> QED BY <1>21, <2>1, HeadersAlmostDoneTyped
<1>22. CASE p.state = "body_identity"
  <2>1. Switch(p, ch) = body_identity(p, ch)
    BY <1>22, SwitchLeads
  <2> QED BY <1>22, <2>1, BodyIdentityTyped
<1>23. CASE p.state \in {"chunk_size_start", "chunk_size"}
  <2>1. Switch(p, ch) = chunk_size(p, ch)
    BY <1>23, SwitchLeads
  <2> QED BY <1>23, <2>1, ChunkSizeTyped
<1>24. CASE p.state = "chunk_parameters"
  <2>1. Switch(p, ch) = chunk_parameters(p, ch)
    BY <1>24, SwitchLeads
  <2> QED BY <1>24, <2>1, ChunkParametersTyped
<1>25. CASE p.state = "chunk_size_almost_done"
  <2>1. Switch(p, ch) = chunk_size_almost_done(p, ch)
    BY <1>25, SwitchLeads
  <2> QED BY <1>25, <2>1, ChunkSizeAlmostDoneTyped
<1>26. CASE p.state = "chunk_data"
  <2>1. Switch(p, ch) = chunk_data(p, ch)
    BY <1>26, SwitchLeads
  <2> QED BY <1>26, <2>1, ChunkDataTyped
<1>27. CASE p.state \in {"chunk_data_almost_done", "chunk_data_done"}
  <2>1. Switch(p, ch) = chunk_data_done(p, ch)
    BY <1>27, SwitchLeads
  <2> QED BY <1>27, <2>1, ChunkDataDoneTyped
<1>28. p.state \in State
  BY DEF Good, Parser
<1> QED
  BY <1>1, <1>2, <1>3, <1>4, <1>5, <1>6, <1>7, <1>8, <1>9, <1>10, <1>11, <1>12, <1>13, <1>14, <1>15, <1>16, <1>17, <1>18, <1>19, <1>20, <1>21, <1>22, <1>23, <1>24, <1>25, <1>26, <1>27, <1>28 DEF State, TargetStates, BodyStates

\* The marks reach past one more character.
Reached(q, ch) ==
  [q EXCEPT !.mark = [f \in Fields |-> IF q.mark[f] = Null THEN Null ELSE Append(q.mark[f], ch)]]

LEMMA ReachedTyped ==
  ASSUME NEW q \in Parser, NEW ch \in STRING
  PROVE  /\ Reached(q, ch) \in Parser /\ Rest(q, Reached(q, ch))
         /\ Reached(q, ch).ret = q.ret /\ Reached(q, ch).state = q.state
         /\ Reached(q, ch).http = q.http /\ Marked(Reached(q, ch)) = Marked(q)
         /\ \A f \in Marked(q) : q.mark[f] \in Word /\ Reached(q, ch).mark[f] = q.mark[f] \o <<ch>>
         /\ Waits(q) => Waits(Reached(q, ch))
<1>1. PICK m : m = [f \in Fields |-> IF q.mark[f] = Null THEN Null ELSE Append(q.mark[f], ch)]
  OBVIOUS
<1>2. \A f \in Fields : m[f] = IF q.mark[f] = Null THEN Null ELSE Append(q.mark[f], ch)
  BY <1>1
<1>3. \A f \in Fields : q.mark[f] \in Word \cup {Null}
  BY DEF Parser
<1>4. \A f \in Marked(q) : q.mark[f] \in Word /\ m[f] = q.mark[f] \o <<ch>> /\ m[f] \in Word /\ m[f] # Null
  <2>1. ASSUME NEW f \in Marked(q)
        PROVE  q.mark[f] \in Word /\ m[f] = q.mark[f] \o <<ch>> /\ m[f] \in Word /\ m[f] # Null
    <3>1. PICK w : w = q.mark[f]
      OBVIOUS
    <3>2. w \in Word /\ w # Null /\ f \in Fields
      BY <1>3, <3>1 DEF Marked
    <3>3. m[f] = Append(w, ch)
      BY <1>2, <3>1, <3>2
    <3>4. Append(w, ch) = w \o <<ch>> /\ Append(w, ch) \in Word
      BY <3>2, WordsJoin
    <3> QED BY <3>1, <3>2, <3>3, <3>4, NullIsNoWord
  <2> QED BY <2>1
<1>5. \A f \in Fields \ Marked(q) : m[f] = Null
  BY <1>2 DEF Marked
<1>6. m \in [Fields -> Word \cup {Null}]
  <2>1. \A f \in Fields : m[f] \in Word \cup {Null}
    BY <1>4, <1>5
  <2> QED BY <1>1, <2>1
<1>7. Reached(q, ch) = [q EXCEPT !.mark = m]
  BY <1>1 DEF Reached
<1>8. PICK r : r = [q EXCEPT !.mark = m]
  OBVIOUS
<1>9. /\ r \in Parser /\ Rest(q, r) /\ r.ret = q.ret /\ r.state = q.state /\ r.http = q.http /\ r.mark = m
  BY <1>6, <1>8 DEF Parser, Rest
<1>10. Marked(r) = Marked(q)
  BY <1>4, <1>5, <1>9 DEF Marked
<1>11. Waits(q) => Waits(r)
  BY <1>9, <1>10 DEF Waits, Rest, Done
<1> QED BY <1>4, <1>7, <1>8, <1>9, <1>10, <1>11

\* The parser with the character counted, as the switch sees it.
Counted(p) ==
  [p EXCEPT !.nread = IF p.state \notin BodyStates /\ "trailing" \notin p.flags THEN @ + 1 ELSE @]

LEMMA CharacterIs ==
  ASSUME NEW p, NEW ch
  PROVE  Character(p, ch) =
           IF p.state \notin BodyStates /\ "trailing" \notin p.flags /\ p.nread >= HTTP_MAX_HEADER_SIZE
             THEN Error(p) ELSE Reached(Switch(Counted(p), ch), ch)
<1>1. CASE p.state \notin BodyStates /\ "trailing" \notin p.flags
  BY <1>1 DEF Character, Reached, Counted
<1>2. CASE ~(p.state \notin BodyStates /\ "trailing" \notin p.flags)
  BY <1>2 DEF Character, Reached, Counted
<1> QED BY <1>1, <1>2

LEMMA CountedTyped ==
  ASSUME NEW p, Good(p),
         ~(p.state \notin BodyStates /\ "trailing" \notin p.flags /\ p.nread >= HTTP_MAX_HEADER_SIZE)
  PROVE  /\ Good(Counted(p)) /\ Counted(p).state = p.state
         /\ Counted(p).mark = p.mark /\ Counted(p).http = p.http
<1>1. PICK n : n = IF p.state \notin BodyStates /\ "trailing" \notin p.flags THEN p.nread + 1 ELSE p.nread
  OBVIOUS
<1>2. n \in 0 .. HTTP_MAX_HEADER_SIZE
  <2>1. p.nread \in 0 .. HTTP_MAX_HEADER_SIZE
    BY DEF Good, Parser
  <2>2. CASE p.state \notin BodyStates /\ "trailing" \notin p.flags
    <3>1. ~(p.nread >= HTTP_MAX_HEADER_SIZE) /\ n = p.nread + 1
      BY <1>1, <2>2
    <3> QED BY <2>1, <3>1, HeaderSizeAssumption
  <2>3. CASE ~(p.state \notin BodyStates /\ "trailing" \notin p.flags)
    BY <1>1, <2>1, <2>3
  <2> QED BY <2>2, <2>3
<1>3. Counted(p) = [p EXCEPT !.nread = n]
  BY <1>1 DEF Counted
<1>4. PICK r : r = [p EXCEPT !.nread = n]
  OBVIOUS
<1>5. /\ r \in Parser /\ r.ret = p.ret /\ r.mark = p.mark /\ r.http = p.http /\ r.state = p.state
      /\ r.content_length = p.content_length
  BY <1>2, <1>4 DEF Good, Parser
<1>6. Waits(r)
  BY <1>5 DEF Good, Waits, Marked, Done
<1> QED BY <1>3, <1>4, <1>5, <1>6 DEF Good

LEMMA CharacterTyped ==
  ASSUME NEW p, Good(p), NEW ch \in STRING
  PROVE  Character(p, ch) \in Parser /\ Waits(Character(p, ch))
<1>1. CASE p.state \notin BodyStates /\ "trailing" \notin p.flags /\ p.nread >= HTTP_MAX_HEADER_SIZE
  <2>1. Character(p, ch) = Error(p)
    BY <1>1, CharacterIs
  <2>2. p \in Parser /\ (Done(p) => p.http.m_state = "DONE")
    BY DEF Good, Waits
  <2> QED BY <2>1, <2>2, ErrorTyped
<1>2. CASE ~(p.state \notin BodyStates /\ "trailing" \notin p.flags /\ p.nread >= HTTP_MAX_HEADER_SIZE)
  <2>1. Character(p, ch) = Reached(Switch(Counted(p), ch), ch)
    BY <1>2, CharacterIs
  <2>2. Good(Counted(p))
    BY <1>2, CountedTyped
  <2>3. PICK q : q = Switch(Counted(p), ch)
    OBVIOUS
  <2>4. q \in Parser /\ Waits(q)
    BY <2>2, <2>3, SwitchTyped
  <2> QED BY <2>1, <2>3, <2>4, ReachedTyped
<1> QED BY <1>1, <1>2
-----------------------------------------------------------------------------
(* The object when the data ends here.                                     *)

\* What the end of the data adds to an object.
Given(h, mark, f) == IF mark[f] = Null THEN h ELSE Called(h, f, mark[f])

LEMMA EndIs ==
  ASSUME NEW p \in Parser
  PROVE  /\ EndOfData(p) \in Parser /\ Rest(p, EndOfData(p)) /\ EndOfData(p).ret = p.ret
         /\ EndOfData(p).state = p.state /\ EndOfData(p).mark = p.mark
         /\ Done(EndOfData(p)) <=> Done(p)
         /\ p.http.m_state = "DONE" => EndOfData(p).http.m_state = "DONE"
         /\ Hand(p) = Given(Given(Given(Given(Given(Given(p.http, p.mark, "header_field"),
                        p.mark, "header_value"), p.mark, "fragment"), p.mark, "query_string"),
                        p.mark, "path"), p.mark, "url")
<1> DEFINE N(q, r, f) ==
             /\ r \in Parser /\ Rest(q, r) /\ r.ret = q.ret /\ r.state = q.state /\ r.mark = q.mark
             /\ r.http = Given(q.http, q.mark, f)
             /\ Done(r) <=> Done(q)
             /\ q.http.m_state = "DONE" => r.http.m_state = "DONE"
<1>1. ASSUME NEW q \in Parser, NEW f \in Fields PROVE N(q, CALLBACK_NOCLEAR(q, f), f)
  BY NoClearTyped DEF Given, Marked
<1>2. PICK a : a = CALLBACK_NOCLEAR(p, "header_field")
  OBVIOUS
<1>3. PICK b : b = CALLBACK_NOCLEAR(a, "header_value")
  OBVIOUS
<1>4. PICK c : c = CALLBACK_NOCLEAR(b, "fragment")
  OBVIOUS
<1>5. PICK d : d = CALLBACK_NOCLEAR(c, "query_string")
  OBVIOUS
<1>6. PICK e : e = CALLBACK_NOCLEAR(d, "path")
  OBVIOUS
<1>7. PICK g : g = CALLBACK_NOCLEAR(e, "url")
  OBVIOUS
<1>8. EndOfData(p) = g
  BY <1>2, <1>3, <1>4, <1>5, <1>6, <1>7 DEF EndOfData
<1>9. \A f \in {"header_field", "header_value", "fragment", "query_string", "path", "url"} : f \in Fields
  BY DEF Fields
<1> HIDE DEF N
<1>10. N(p, a, "header_field")
  BY <1>1, <1>2, <1>9
<1>11. N(a, b, "header_value")
  BY <1>1, <1>3, <1>9, <1>10 DEF N
<1>12. N(b, c, "fragment")
  BY <1>1, <1>4, <1>9, <1>11 DEF N
<1>13. N(c, d, "query_string")
  BY <1>1, <1>5, <1>9, <1>12 DEF N
<1>14. N(d, e, "path")
  BY <1>1, <1>6, <1>9, <1>13 DEF N
<1>15. N(e, g, "url")
  BY <1>1, <1>7, <1>9, <1>14 DEF N
<1> USE DEF N
<1>16. g \in Parser /\ Rest(p, g) /\ g.ret = p.ret /\ g.state = p.state /\ g.mark = p.mark
  BY <1>10, <1>11, <1>12, <1>13, <1>14, <1>15 DEF Rest
<1>17. (Done(g) <=> Done(p)) /\ (p.http.m_state = "DONE" => g.http.m_state = "DONE")
  BY <1>10, <1>11, <1>12, <1>13, <1>14, <1>15
<1>18. g.http = Given(Given(Given(Given(Given(Given(p.http, p.mark, "header_field"),
                  p.mark, "header_value"), p.mark, "fragment"), p.mark, "query_string"),
                  p.mark, "path"), p.mark, "url")
  BY <1>10, <1>11, <1>12, <1>13, <1>14, <1>15
<1> QED BY <1>8, <1>16, <1>17, <1>18 DEF Hand

\* The sets of tokens a parser can be inside of and still have an object.
Shape == {{}, {"url", "path"}, {"url", "query_string"}} \cup {{f} : f \in Fields}

LEMMA HandIs ==
  ASSUME NEW p \in Parser
  PROVE  /\ Marked(p) = {} => Hand(p) = p.http
         /\ \A f \in Fields : Marked(p) = {f} => Hand(p) = Called(p.http, f, p.mark[f])
         /\ Marked(p) = {"url", "path"} =>
              Hand(p) = Called(Called(p.http, "path", p.mark["path"]), "url", p.mark["url"])
         /\ Marked(p) = {"url", "query_string"} =>
              Hand(p) = Called(Called(p.http, "query_string", p.mark["query_string"]), "url", p.mark["url"])
         /\ Marked(p) = {"url", "fragment"} => ~Alive(Hand(p))
<1>1. \A f \in Fields : p.mark[f] # Null <=> f \in Marked(p)
  BY DEF Marked
<1>2. \A h, f : Given(h, p.mark, f) = IF p.mark[f] = Null THEN h ELSE Called(h, f, p.mark[f])
  BY DEF Given
<1>3. Hand(p) = Given(Given(Given(Given(Given(Given(p.http, p.mark, "header_field"),
                  p.mark, "header_value"), p.mark, "fragment"), p.mark, "query_string"),
                  p.mark, "path"), p.mark, "url")
  BY EndIs
<1>4. CASE Marked(p) = {}
  <2>1. \A h : \A f \in Fields : Given(h, p.mark, f) = h
    BY <1>1, <1>2, <1>4
  <2> QED BY <1>3, <1>4, <2>1 DEF Fields
<1>5. ASSUME NEW f \in Fields, Marked(p) = {f} PROVE Hand(p) = Called(p.http, f, p.mark[f])
  <2>1. \A h : \A g \in Fields \ {f} : Given(h, p.mark, g) = h
    BY <1>1, <1>2, <1>5
  <2>2. \A h : Given(h, p.mark, f) = Called(h, f, p.mark[f])
    BY <1>1, <1>2, <1>5
  <2> QED BY <1>3, <2>1, <2>2 DEF Fields
<1>6. ASSUME NEW f \in {"path", "query_string", "fragment"}, Marked(p) = {"url", f}
      PROVE  Hand(p) = Called(Called(p.http, f, p.mark[f]), "url", p.mark["url"])
  <2>1. \A h : \A g \in Fields \ {"url", f} : Given(h, p.mark, g) = h
    BY <1>1, <1>2, <1>6
  <2>2. \A h : Given(h, p.mark, f) = Called(h, f, p.mark[f])
    BY <1>1, <1>2, <1>6 DEF Fields
  <2>3. \A h : Given(h, p.mark, "url") = Called(h, "url", p.mark["url"])
    BY <1>1, <1>2, <1>6 DEF Fields
  <2> QED BY <1>3, <2>1, <2>2, <2>3 DEF Fields
<1>7. ASSUME Marked(p) = {"url", "fragment"} PROVE ~Alive(Hand(p))
  <2>1. p.http \in HTTPObject /\ p.mark["fragment"] \in Word /\ p.mark["url"] \in Word
    BY <1>1, <1>7 DEF Parser, Fields
  <2>2. PICK h : h = Called(p.http, "fragment", p.mark["fragment"])
    OBVIOUS
  <2>3. h \in HTTPObject /\ ~Alive(h)
    <3>1. CASE Alive(p.http)
      BY <2>1, <2>2, <3>1 DEF Called, fragment_cb, Alive, HTTPObject, Assertions
    <3>2. CASE ~Alive(p.http)
      BY <2>1, <2>2, <3>2, CalledTyped DEF Fields
    <3> QED BY <3>1, <3>2
  <2>4. Hand(p) = Called(h, "url", p.mark["url"])
    BY <1>6, <1>7, <2>2
  <2>5. Called(h, "url", p.mark["url"]) = h
    BY <2>1, <2>3, CalledTyped DEF Fields
  <2> QED BY <2>3, <2>4, <2>5
<1> QED BY <1>4, <1>5, <1>6, <1>7

\* A process the assertions have stopped stays stopped.
LEMMA HandAlive ==
  ASSUME NEW p \in Parser, Marked(p) \in Shape, Alive(Hand(p))
  PROVE  Alive(p.http)
<1>1. p.http \in HTTPObject /\ \A f \in Marked(p) : p.mark[f] \in Word
  BY DEF Parser, Marked
<1>2. SUFFICES ASSUME ~Alive(p.http) PROVE Hand(p) = p.http
  OBVIOUS
<1>3. ASSUME NEW f \in Marked(p) PROVE Called(p.http, f, p.mark[f]) = p.http
  BY <1>1, <1>2, <1>3, CalledTyped DEF Marked
<1> QED BY <1>3, HandIs, Zenon DEF Shape

LEMMA HandTyped ==
  ASSUME NEW p \in Parser
  PROVE  Hand(p) \in HTTPObject /\ Hand(p).m_doneParsing = p.http.m_doneParsing
<1>1. PICK e : e = EndOfData(p)
  OBVIOUS
<1>2. e \in Parser /\ (Done(e) <=> Done(p))
  BY <1>1, EndIs
<1>3. e.http \in HTTPObject /\ p.http \in HTTPObject
  BY <1>2 DEF Parser
<1>4. e.http.m_doneParsing \in BOOLEAN /\ p.http.m_doneParsing \in BOOLEAN
  BY <1>3 DEF HTTPObject
<1> QED BY <1>1, <1>2, <1>3, <1>4 DEF Hand, Done

\* The object depends on nothing else.
LEMMA HandDepends ==
  ASSUME NEW p \in Parser, NEW q \in Parser, p.http = q.http, p.mark = q.mark
  PROVE  Hand(p) = Hand(q) /\ Marked(p) = Marked(q)
  BY EndIs DEF Marked

LEMMA ReachedHand ==
  ASSUME NEW p \in Parser, Marked(p) \in Shape, NEW ch \in STRING, Alive(Hand(Reached(p, ch)))
  PROVE  /\ Alive(Hand(p))
         /\ Marked(p) = {} => Hand(Reached(p, ch)) = Hand(p)
         /\ \A f \in Fields : Marked(p) = {f} => Hand(Reached(p, ch)) = Called(Hand(p), f, <<ch>>)
         /\ \A f \in {"path", "query_string"} :
              Marked(p) = {"url", f} =>
                Hand(Reached(p, ch)) = Called(Called(Hand(p), f, <<ch>>), "url", <<ch>>)
<1>1. PICK r : r = Reached(p, ch)
  OBVIOUS
<1>2. /\ r \in Parser /\ r.http = p.http /\ Marked(r) = Marked(p)
      /\ \A f \in Marked(p) : p.mark[f] \in Word /\ r.mark[f] = p.mark[f] \o <<ch>>
  BY <1>1, ReachedTyped
<1>3. Alive(p.http) /\ p.http \in HTTPObject
  BY <1>1, <1>2, HandAlive DEF Parser
<1>4. PICK c : c = <<ch>>
  OBVIOUS
<1>5. c \in Word
  BY <1>4, WordsJoin
<1>6. CASE Marked(p) = {}
  <2>1. Hand(p) = p.http /\ Hand(r) = r.http
    BY <1>2, <1>6, HandIs
  <2> QED BY <1>1, <1>2, <1>3, <1>6, <2>1
<1>7. ASSUME NEW f \in Fields, Marked(p) = {f}
      PROVE  Alive(Hand(p)) /\ Hand(r) = Called(Hand(p), f, c)
  <2>1. PICK m : m = p.mark[f]
    OBVIOUS
  <2>2. m \in Word /\ r.mark[f] = m \o c
    BY <1>2, <1>4, <1>7, <2>1
  <2>3. PICK n : n = m \o c
    OBVIOUS
  <2>4. n \in Word
    BY <1>5, <2>2, <2>3, WordsJoin
  <2>5. Hand(p) = Called(p.http, f, m) /\ Hand(r) = Called(p.http, f, n)
    BY <1>2, <1>7, <2>1, <2>2, <2>3, HandIs
  <2>6. Alive(Called(p.http, f, m))
    BY <1>1, <1>3, <2>2, <2>4, <2>5, CalledFails
  <2>7. Called(Called(p.http, f, m), f, c) = Called(p.http, f, m \o c)
    BY <1>3, <1>5, <2>2, <2>6, CalledTwice
  <2> QED BY <2>3, <2>5, <2>6, <2>7
<1>8. ASSUME NEW f \in {"path", "query_string"}, Marked(p) = {"url", f}
      PROVE  Alive(Hand(p)) /\ Hand(r) = Called(Called(Hand(p), f, c), "url", c)
  <2>1. PICK m, n : m = p.mark[f] /\ n = p.mark["url"]
    OBVIOUS
  <2>2. m \in Word /\ n \in Word /\ r.mark[f] = m \o c /\ r.mark["url"] = n \o c
    BY <1>2, <1>4, <1>8, <2>1
  <2>3. m \o c \in Word /\ n \o c \in Word
    BY <1>5, <2>2, WordsJoin
  <2>4. f \in Fields /\ "url" \in Fields
    BY DEF Fields
  <2>5. PICK h, k, j : h = p.http /\ k = Called(h, f, m) /\ j = Called(k, f, c)
    OBVIOUS
  <2>6. h \in HTTPObject /\ Alive(h) /\ k \in HTTPObject /\ Alive(k) /\ j \in HTTPObject /\ Alive(j)
    <3>1. h \in HTTPObject /\ Alive(h)
      BY <1>3, <2>5
    <3>2. k \in HTTPObject /\ Alive(k)
      BY <2>2, <2>4, <2>5, <3>1, CalledTyped, UrlCommutes
    <3>3. j \in HTTPObject /\ Alive(j)
      BY <1>5, <2>2, <2>4, <2>5, <3>2, CalledTyped, UrlCommutes
    <3> QED BY <3>1, <3>2, <3>3
  <2>7. Hand(p) = Called(k, "url", n)
    BY <1>8, <2>1, <2>5, HandIs
  <2>8. Hand(r) = Called(Called(h, f, m \o c), "url", n \o c)
    BY <1>2, <1>8, <2>2, <2>5, HandIs
  <2>9. Called(h, f, m \o c) = j
    BY <1>5, <2>2, <2>4, <2>5, <2>6, CalledTwice
  <2>10. Alive(Called(j, "url", n)) /\ Alive(Called(k, "url", n))
    BY <1>5, <2>2, <2>6, UrlCommutes
  <2>11. Called(j, "url", n \o c) = Called(Called(j, "url", n), "url", c)
    BY <1>5, <2>2, <2>4, <2>6, <2>10, CalledTwice
  <2>12. Called(j, "url", n) = Called(Called(k, "url", n), f, c)
    BY <1>5, <2>2, <2>5, <2>6, UrlCommutes
  <2> QED BY <2>7, <2>8, <2>9, <2>10, <2>11, <2>12
<1>9. Alive(Hand(p))
  BY <1>6, <1>7, <1>8, <1>1, <1>2 DEF Shape
<1>10. Marked(p) = {} => Hand(r) = Hand(p)
  BY <1>2, HandIs
<1> QED BY <1>1, <1>4, <1>7, <1>8, <1>9, <1>10

LEMMA CallbackHand ==
  ASSUME NEW p \in Parser, Marked(p) \in Shape, NEW f \in Marked(p), Marked(p) = {f} \/ Alive(Hand(p))
  PROVE  Hand(CALLBACK(p, f)) = Hand(p) /\ Marked(CALLBACK(p, f)) \in Shape
<1>1. PICK r : r = CALLBACK(p, f)
  OBVIOUS
<1>2. f \in Fields
  BY DEF Marked
<1>3. /\ r \in Parser /\ Marked(r) = Marked(p) \ {f} /\ r.http = Called(p.http, f, p.mark[f])
      /\ \A g \in Fields \ {f} : r.mark[g] = p.mark[g]
  BY <1>1, <1>2, CallbackTyped
<1>4. \A g \in Marked(p) : p.mark[g] \in Word /\ g \in Fields
  BY DEF Marked, Parser
<1>5. CASE Marked(p) = {f}
  <2>1. Marked(r) = {}
    BY <1>3, <1>5
  <2>2. Hand(p) = Called(p.http, f, p.mark[f])
    BY <1>2, <1>5, HandIs
  <2>3. Hand(r) = r.http
    BY <1>3, <2>1, HandIs
  <2> QED BY <1>1, <1>3, <2>1, <2>2, <2>3 DEF Shape
<1>6. ASSUME NEW g \in {"path", "query_string"}, Marked(p) = {"url", g}
      PROVE  Hand(r) = Hand(p) /\ Marked(r) \in Shape
  <2>1. Alive(p.http) /\ p.http \in HTTPObject
    <3>1. Marked(p) # {f}
      BY <1>6
    <3> QED BY <3>1, HandAlive DEF Parser
  <2>2. Hand(p) = Called(Called(p.http, g, p.mark[g]), "url", p.mark["url"])
    BY <1>6, HandIs
  <2>3. p.mark[g] \in Word /\ p.mark["url"] \in Word /\ g \in Fields /\ "url" \in Fields
    BY <1>4, <1>6
  <2>4. CASE f = g
    <3>1. Marked(r) = {"url"} /\ r.mark["url"] = p.mark["url"]
      BY <1>3, <1>6, <2>3, <2>4
    <3>2. Hand(r) = Called(r.http, "url", r.mark["url"])
      BY <1>3, <2>3, <3>1, HandIs
    <3> QED BY <1>3, <2>2, <2>3, <2>4, <3>1, <3>2 DEF Shape
  <2>5. CASE f = "url"
    <3>1. Marked(r) = {g} /\ r.mark[g] = p.mark[g]
      BY <1>3, <1>6, <2>3, <2>5
    <3>2. Hand(r) = Called(r.http, g, r.mark[g])
      BY <1>3, <2>3, <3>1, HandIs
    <3>3. Called(Called(p.http, "url", p.mark["url"]), g, p.mark[g]) = Hand(p)
      BY <2>1, <2>2, <2>3, UrlCommutes
    <3> QED BY <1>3, <2>3, <2>5, <3>1, <3>2, <3>3 DEF Shape
  <2> QED BY <1>6, <2>4, <2>5
<1>7. \/ Marked(p) = {f}
      \/ \E g \in {"path", "query_string"} : Marked(p) = {"url", g}
  BY DEF Shape
<1> QED BY <1>1, <1>5, <1>6, <1>7

LEMMA MarkHand ==
  ASSUME NEW p \in Parser, NEW f \in Fields
  PROVE  /\ Marked(p) = {} => Hand(Mark(p, f)) = Called(Hand(p), f, <<>>)
         /\ Marked(p) = {"url"} /\ f \in {"path", "query_string"} /\ Alive(Hand(p)) =>
              Hand(Mark(p, f)) = Called(Hand(p), f, <<>>)
<1>1. PICK r : r = Mark(p, f)
  OBVIOUS
<1>2. PICK w : w = <<>>
  OBVIOUS
<1>3. w \in Word
  BY <1>2, WordsJoin
<1>4. r \in Parser /\ r.http = p.http /\ Marked(r) = Marked(p) \cup {f} /\ r.mark = [p.mark EXCEPT ![f] = w]
  BY <1>1, <1>2, MarkTyped
<1>5. p.mark \in [Fields -> Word \cup {Null}]
  BY DEF Parser
<1>6. r.mark[f] = w /\ \A g \in Fields \ {f} : r.mark[g] = p.mark[g]
  BY <1>4, <1>5
<1>7. CASE Marked(p) = {}
  <2>1. Marked(r) = {f}
    BY <1>4, <1>7
  <2>2. Hand(r) = Called(r.http, f, r.mark[f])
    BY <1>4, <2>1, HandIs
  <2>3. Hand(p) = p.http
    BY <1>7, HandIs
  <2> QED BY <1>1, <1>2, <1>4, <1>6, <1>7, <2>2, <2>3
<1>8. CASE Marked(p) = {"url"} /\ f \in {"path", "query_string"} /\ Alive(Hand(p))
  <2>1. "url" \in Fields /\ "url" \in Marked(p) /\ p.mark["url"] \in Word
    BY <1>5, <1>8 DEF Marked
  <2>2. Marked(p) \in Shape
    BY <1>8, <2>1 DEF Shape
  <2>3. Alive(p.http) /\ p.http \in HTTPObject
    BY <1>8, <2>2, HandAlive DEF Parser
  <2>4. Hand(p) = Called(p.http, "url", p.mark["url"])
    BY <1>8, <2>1, HandIs
  <2>5. Marked(r) = {"url", f} /\ r.mark["url"] = p.mark["url"]
    BY <1>4, <1>6, <1>8, <2>1
  <2>6. Hand(r) = Called(Called(p.http, f, w), "url", p.mark["url"])
    BY <1>4, <1>6, <1>8, <2>5, HandIs
  <2>7. Called(Called(p.http, "url", p.mark["url"]), f, w) = Called(Called(p.http, f, w), "url", p.mark["url"])
    BY <1>3, <1>8, <2>1, <2>3, UrlCommutes
  <2> QED BY <1>1, <1>2, <1>8, <2>4, <2>6, <2>7
<1> QED BY <1>7, <1>8

\* Whether more characters stop the process is not up to them.
LEMMA ReachedAlive ==
  ASSUME NEW p \in Parser, Marked(p) \in Shape, NEW ch \in STRING, Alive(Hand(p))
  PROVE  Alive(Hand(Reached(p, ch)))
<1>1. PICK r : r = Reached(p, ch)
  OBVIOUS
<1>2. /\ r \in Parser /\ r.http = p.http /\ Marked(r) = Marked(p)
      /\ \A f \in Marked(p) : p.mark[f] \in Word /\ r.mark[f] \in Word
  <2>1. r \in Parser /\ r.http = p.http /\ Marked(r) = Marked(p) /\ \A f \in Marked(p) : p.mark[f] \in Word
    BY <1>1, ReachedTyped
  <2>2. \A f \in Marked(r) : r.mark[f] \in Word
    BY <2>1 DEF Parser, Marked
  <2> QED BY <2>1, <2>2
<1>3. Alive(p.http) /\ p.http \in HTTPObject
  BY HandAlive DEF Parser
<1>4. CASE Marked(p) = {}
  BY <1>1, <1>2, <1>3, <1>4, HandIs
<1>5. ASSUME NEW f \in Fields, Marked(p) = {f} PROVE Alive(Hand(r))
  <2>1. Hand(p) = Called(p.http, f, p.mark[f]) /\ Hand(r) = Called(p.http, f, r.mark[f])
    BY <1>2, <1>5, HandIs
  <2> QED BY <1>2, <1>3, <1>5, <2>1, CalledFails
<1>6. ASSUME NEW f \in {"path", "query_string"}, Marked(p) = {"url", f} PROVE Alive(Hand(r))
  <2>1. Hand(r) = Called(Called(p.http, f, r.mark[f]), "url", r.mark["url"])
    BY <1>2, <1>6, HandIs
  <2> QED BY <1>2, <1>3, <1>6, <2>1, UrlCommutes
<1> QED BY <1>1, <1>4, <1>5, <1>6 DEF Shape
-----------------------------------------------------------------------------
(* Parsers that differ in where the last read ended.                       *)

\* Same control.
Even(r, s) ==
  /\ r.state = s.state /\ r.header_state = s.header_state /\ r.flags = s.flags
  /\ r.content_length = s.content_length /\ r.minor = s.minor /\ r.method = s.method
  /\ r.nread = s.nread /\ r.ret = s.ret
  /\ r.state = "req_http_major" => r.major = s.major

LEMMA AlikeKept ==
  ASSUME NEW p \in Parser, NEW q \in Parser, Alike(p, q), NEW r \in Parser, NEW s \in Parser,
         r.http = p.http, r.mark = p.mark, s.http = q.http, s.mark = q.mark, Even(r, s)
  PROVE  Alike(r, s) /\ Hand(r) = Hand(p) /\ Marked(r) = Marked(p)
<1>1. Hand(r) = Hand(p) /\ Marked(r) = Marked(p) /\ Hand(s) = Hand(q) /\ Marked(s) = Marked(q)
  BY HandDepends
<1> QED BY <1>1 DEF Alike, Even

LEMMA AlikePlain ==
  ASSUME NEW r \in Parser, NEW s \in Parser, r.http = s.http, Marked(r) = {}, Marked(s) = {}, Even(r, s)
  PROVE  Alike(r, s)
<1>1. Hand(r) = Hand(s)
  BY HandIs
<1> QED BY <1>1 DEF Alike, Even

LEMMA AlikeEven ==
  ASSUME NEW p, NEW q, Alike(p, q)
  PROVE  Even(p, q)
  BY DEF Alike, Even

LEMMA AlikeHeaderState ==
  ASSUME NEW p \in Parser, NEW q \in Parser, Alike(p, q), NEW x \in HeaderState
  PROVE  /\ [p EXCEPT !.header_state = x] \in Parser /\ [q EXCEPT !.header_state = x] \in Parser
         /\ Alike([p EXCEPT !.header_state = x], [q EXCEPT !.header_state = x])
         /\ Hand([p EXCEPT !.header_state = x]) = Hand(p)
         /\ Marked([p EXCEPT !.header_state = x]) = Marked(p)
<1>1. PICK r, s : r = [p EXCEPT !.header_state = x] /\ s = [q EXCEPT !.header_state = x]
  OBVIOUS
<1>2. /\ r \in Parser /\ r.http = p.http /\ r.mark = p.mark
      /\ s \in Parser /\ s.http = q.http /\ s.mark = q.mark
  BY <1>1 DEF Parser
<1>3. Even(r, s)
  BY <1>1, AlikeEven DEF Even, Parser
<1> QED BY <1>1, <1>2, <1>3, AlikeKept

LEMMA AlikeFlags ==
  ASSUME NEW p \in Parser, NEW q \in Parser, Alike(p, q), NEW x \in SUBSET (Flag \cup {"upgrade", "trailing"})
  PROVE  /\ [p EXCEPT !.flags = x] \in Parser /\ [q EXCEPT !.flags = x] \in Parser
         /\ Alike([p EXCEPT !.flags = x], [q EXCEPT !.flags = x])
         /\ Hand([p EXCEPT !.flags = x]) = Hand(p)
         /\ Marked([p EXCEPT !.flags = x]) = Marked(p)
<1>1. PICK r, s : r = [p EXCEPT !.flags = x] /\ s = [q EXCEPT !.flags = x]
  OBVIOUS
<1>2. /\ r \in Parser /\ r.http = p.http /\ r.mark = p.mark
      /\ s \in Parser /\ s.http = q.http /\ s.mark = q.mark
  BY <1>1 DEF Parser
<1>3. Even(r, s)
  BY <1>1, AlikeEven DEF Even, Parser
<1> QED BY <1>1, <1>2, <1>3, AlikeKept

LEMMA AlikeLength ==
  ASSUME NEW p \in Parser, NEW q \in Parser, Alike(p, q), NEW x \in Int
  PROVE  /\ [p EXCEPT !.content_length = x] \in Parser /\ [q EXCEPT !.content_length = x] \in Parser
         /\ Alike([p EXCEPT !.content_length = x], [q EXCEPT !.content_length = x])
         /\ Hand([p EXCEPT !.content_length = x]) = Hand(p)
         /\ Marked([p EXCEPT !.content_length = x]) = Marked(p)
<1>1. PICK r, s : r = [p EXCEPT !.content_length = x] /\ s = [q EXCEPT !.content_length = x]
  OBVIOUS
<1>2. /\ r \in Parser /\ r.http = p.http /\ r.mark = p.mark
      /\ s \in Parser /\ s.http = q.http /\ s.mark = q.mark
  BY <1>1 DEF Parser
<1>3. Even(r, s)
  BY <1>1, AlikeEven DEF Even, Parser
<1> QED BY <1>1, <1>2, <1>3, AlikeKept

LEMMA AlikeMinor ==
  ASSUME NEW p \in Parser, NEW q \in Parser, Alike(p, q), NEW x \in Nat
  PROVE  /\ [p EXCEPT !.minor = x] \in Parser /\ [q EXCEPT !.minor = x] \in Parser
         /\ Alike([p EXCEPT !.minor = x], [q EXCEPT !.minor = x])
         /\ Hand([p EXCEPT !.minor = x]) = Hand(p)
         /\ Marked([p EXCEPT !.minor = x]) = Marked(p)
<1>1. PICK r, s : r = [p EXCEPT !.minor = x] /\ s = [q EXCEPT !.minor = x]
  OBVIOUS
<1>2. /\ r \in Parser /\ r.http = p.http /\ r.mark = p.mark
      /\ s \in Parser /\ s.http = q.http /\ s.mark = q.mark
  BY <1>1 DEF Parser
<1>3. Even(r, s)
  BY <1>1, AlikeEven DEF Even, Parser
<1> QED BY <1>1, <1>2, <1>3, AlikeKept

LEMMA AlikeMethod ==
  ASSUME NEW p \in Parser, NEW q \in Parser, Alike(p, q), NEW x \in AnyMethod
  PROVE  /\ [p EXCEPT !.method = x] \in Parser /\ [q EXCEPT !.method = x] \in Parser
         /\ Alike([p EXCEPT !.method = x], [q EXCEPT !.method = x])
         /\ Hand([p EXCEPT !.method = x]) = Hand(p)
         /\ Marked([p EXCEPT !.method = x]) = Marked(p)
<1>1. PICK r, s : r = [p EXCEPT !.method = x] /\ s = [q EXCEPT !.method = x]
  OBVIOUS
<1>2. /\ r \in Parser /\ r.http = p.http /\ r.mark = p.mark
      /\ s \in Parser /\ s.http = q.http /\ s.mark = q.mark
  BY <1>1 DEF Parser
<1>3. Even(r, s)
  BY <1>1, AlikeEven DEF Even, Parser
<1> QED BY <1>1, <1>2, <1>3, AlikeKept

LEMMA AlikeNread ==
  ASSUME NEW p \in Parser, NEW q \in Parser, Alike(p, q), NEW x \in 0 .. HTTP_MAX_HEADER_SIZE
  PROVE  /\ [p EXCEPT !.nread = x] \in Parser /\ [q EXCEPT !.nread = x] \in Parser
         /\ Alike([p EXCEPT !.nread = x], [q EXCEPT !.nread = x])
         /\ Hand([p EXCEPT !.nread = x]) = Hand(p)
         /\ Marked([p EXCEPT !.nread = x]) = Marked(p)
<1>1. PICK r, s : r = [p EXCEPT !.nread = x] /\ s = [q EXCEPT !.nread = x]
  OBVIOUS
<1>2. /\ r \in Parser /\ r.http = p.http /\ r.mark = p.mark
      /\ s \in Parser /\ s.http = q.http /\ s.mark = q.mark
  BY <1>1 DEF Parser
<1>3. Even(r, s)
  BY <1>1, AlikeEven DEF Even, Parser
<1> QED BY <1>1, <1>2, <1>3, AlikeKept

LEMMA AlikeState ==
  ASSUME NEW p \in Parser, NEW q \in Parser, Alike(p, q), NEW x \in State \ {"req_http_major"}
  PROVE  /\ [p EXCEPT !.state = x] \in Parser /\ [q EXCEPT !.state = x] \in Parser
         /\ Alike([p EXCEPT !.state = x], [q EXCEPT !.state = x])
         /\ Hand([p EXCEPT !.state = x]) = Hand(p)
         /\ Marked([p EXCEPT !.state = x]) = Marked(p)
<1>1. PICK r, s : r = [p EXCEPT !.state = x] /\ s = [q EXCEPT !.state = x]
  OBVIOUS
<1>2. /\ r \in Parser /\ r.http = p.http /\ r.mark = p.mark
      /\ s \in Parser /\ s.http = q.http /\ s.mark = q.mark
  BY <1>1 DEF Parser
<1>3. Even(r, s)
  BY <1>1, AlikeEven DEF Even, Parser
<1> QED BY <1>1, <1>2, <1>3, AlikeKept

LEMMA AlikeTo ==
  ASSUME NEW p \in Parser, NEW q \in Parser, Alike(p, q), NEW x \in State \ {"req_http_major"}
  PROVE  /\ To(p, x) \in Parser /\ To(q, x) \in Parser
         /\ Alike(To(p, x), To(q, x))
         /\ Hand(To(p, x)) = Hand(p) /\ Marked(To(p, x)) = Marked(p)
  BY AlikeState DEF To

LEMMA AlikeCallback ==
  ASSUME NEW p \in Parser, NEW q \in Parser, Alike(p, q), Marked(p) \in Shape, NEW f \in Marked(p),
         Marked(p) = {f} \/ Alive(Hand(p))
  PROVE  /\ CALLBACK(p, f) \in Parser /\ CALLBACK(q, f) \in Parser
         /\ Alike(CALLBACK(p, f), CALLBACK(q, f))
         /\ Hand(CALLBACK(p, f)) = Hand(p)
         /\ Marked(CALLBACK(p, f)) = Marked(p) \ {f} /\ Marked(CALLBACK(p, f)) \in Shape
<1>1. PICK r, s : r = CALLBACK(p, f) /\ s = CALLBACK(q, f)
  OBVIOUS
<1>2. f \in Fields /\ Marked(q) = Marked(p) /\ Hand(q) = Hand(p)
  BY DEF Marked, Alike
<1>3. /\ r \in Parser /\ Rest(p, r) /\ r.ret = p.ret /\ r.state = p.state /\ Marked(r) = Marked(p) \ {f}
      /\ s \in Parser /\ Rest(q, s) /\ s.ret = q.ret /\ s.state = q.state /\ Marked(s) = Marked(q) \ {f}
  BY <1>1, <1>2, CallbackTyped
<1>4. Hand(r) = Hand(p) /\ Hand(s) = Hand(q) /\ Marked(r) \in Shape
  BY <1>1, <1>2, CallbackHand
<1>5. Alike(r, s)
  BY <1>2, <1>3, <1>4 DEF Alike, Rest
<1> QED BY <1>1, <1>3, <1>4, <1>5

\* A mark set: not alive only for a fragment.
LEMMA AlikeMark ==
  ASSUME NEW p \in Parser, NEW q \in Parser, Alike(p, q), Alive(Hand(p)), NEW f \in Fields,
         Marked(p) = {} \/ (Marked(p) = {"url"} /\ f \in {"path", "query_string"})
  PROVE  /\ Mark(p, f) \in Parser /\ Mark(q, f) \in Parser
         /\ Alike(Mark(p, f), Mark(q, f))
         /\ Hand(Mark(p, f)) = Called(Hand(p), f, <<>>)
         /\ Marked(Mark(p, f)) = Marked(p) \cup {f}
<1>1. PICK r, s : r = Mark(p, f) /\ s = Mark(q, f)
  OBVIOUS
<1>2. Marked(q) = Marked(p) /\ Hand(q) = Hand(p)
  BY DEF Alike
<1>3. /\ r \in Parser /\ Rest(p, r) /\ r.ret = p.ret /\ r.state = p.state /\ Marked(r) = Marked(p) \cup {f}
      /\ s \in Parser /\ Rest(q, s) /\ s.ret = q.ret /\ s.state = q.state /\ Marked(s) = Marked(q) \cup {f}
  BY <1>1, MarkTyped
<1>4. Hand(r) = Called(Hand(p), f, <<>>) /\ Hand(s) = Called(Hand(p), f, <<>>)
  BY <1>1, <1>2, MarkHand
<1>5. r.state = "req_http_major" => r.major = s.major
  BY <1>3 DEF Alike, Rest
<1>6. Alike(r, s)
  BY <1>2, <1>3, <1>4, <1>5 DEF Alike, Rest
<1> QED BY <1>1, <1>3, <1>4, <1>6

LEMMA AlikeReached ==
  ASSUME NEW p \in Parser, NEW q \in Parser, Alike(p, q), Marked(p) \in Shape, NEW ch \in STRING,
         Alive(Hand(Reached(p, ch)))
  PROVE  Alike(Reached(p, ch), Reached(q, ch)) 
<1>1. PICK r, s : r = Reached(p, ch) /\ s = Reached(q, ch)
  OBVIOUS
<1>2. Marked(q) = Marked(p) /\ Hand(q) = Hand(p)
  BY DEF Alike
<1>3. /\ r \in Parser /\ Rest(p, r) /\ r.ret = p.ret /\ r.state = p.state /\ Marked(r) = Marked(p)
      /\ s \in Parser /\ Rest(q, s) /\ s.ret = q.ret /\ s.state = q.state /\ Marked(s) = Marked(q)
  BY <1>1, ReachedTyped
<1>4. ASSUME Alive(Hand(s)) PROVE Hand(r) = Hand(s)
  <2>1. CASE Marked(p) = {}
    BY <1>1, <1>2, <1>4, <2>1, ReachedHand
  <2>2. CASE \E f \in Fields : Marked(p) = {f}
    <3>1. PICK f \in Fields : Marked(p) = {f}
      BY <2>2
    <3>2. Hand(r) = Called(Hand(p), f, <<ch>>) /\ Hand(s) = Called(Hand(q), f, <<ch>>)
      BY <1>1, <1>2, <1>4, <3>1, ReachedHand
    <3> QED BY <1>2, <3>2
  <2>3. CASE \E f \in {"path", "query_string"} : Marked(p) = {"url", f}
    <3>1. PICK f \in {"path", "query_string"} : Marked(p) = {"url", f}
      BY <2>3
    <3>2. /\ Hand(r) = Called(Called(Hand(p), f, <<ch>>), "url", <<ch>>)
          /\ Hand(s) = Called(Called(Hand(q), f, <<ch>>), "url", <<ch>>)
      BY <1>1, <1>2, <1>4, <3>1, ReachedHand
    <3> QED BY <1>2, <3>2
  <2> QED BY <2>1, <2>2, <2>3 DEF Shape
<1>5. Alive(Hand(s))
  <2>1. Alive(Hand(q)) /\ Marked(q) \in Shape
    BY <1>1, <1>2, ReachedHand
  <2> QED BY <1>1, <2>1, ReachedAlive
<1>6. Alike(r, s)
  BY <1>2, <1>3, <1>4, <1>5 DEF Alike, Rest
<1> QED BY <1>1, <1>6
-----------------------------------------------------------------------------
(* The same character, for parsers that are alike.                         *)

Twins(p, q) == Good(p) /\ Good(q) /\ Alike(p, q) /\ Alive(Hand(p))

Agree(r, s) ==
  r.ret # "error" /\ Alive(Hand(r)) => Alike(r, s) \/ (Over(r) /\ Over(s) /\ r.http = s.http)

LEMMA TwinsAre ==
  ASSUME NEW p, NEW q, Twins(p, q)
  PROVE  /\ p \in Parser /\ q \in Parser /\ Alike(p, q) /\ Even(p, q) /\ Alive(Hand(p)) /\ Agree(p, q)
         /\ Marked(p) = Open(p.state) /\ Marked(q) = Open(p.state) /\ Hand(q) = Hand(p)
         /\ Open(p.state) = {} => p.http = q.http /\ p.http = Hand(p)
<1>1. p \in Parser /\ q \in Parser /\ Alike(p, q) /\ Even(p, q) /\ Alive(Hand(p)) /\ Agree(p, q)
  BY DEF Twins, Good, Agree, Alike, Even
<1>2. Marked(p) = Open(p.state) /\ Marked(q) = Open(p.state) /\ Hand(q) = Hand(p)
  BY DEF Twins, Good, Waits, Alike
<1> QED BY <1>1, <1>2, HandIs

LEMMA AgreeTo ==
  ASSUME NEW p, NEW q, Twins(p, q), NEW x \in State \ {"req_http_major"}
  PROVE  Agree(To(p, x), To(q, x))
  BY TwinsAre, AlikeTo DEF Agree

LEMMA AgreeError ==
  ASSUME NEW p, NEW s
  PROVE  Agree(Error(p), s)
<1>1. Error(p).ret = "error"
  BY DEF Error
<1> QED BY <1>1 DEF Agree

LEMMA ReqSchemaAgrees ==
  ASSUME NEW p, NEW q, Twins(p, q), NEW ch \in STRING, p.state = "req_schema"
  PROVE  Agree(req_schema(p, ch), req_schema(q, ch))
<1>1. p.state = q.state
  BY TwinsAre DEF Even
<1>2. \/ req_schema(p, ch) = p /\ req_schema(q, ch) = q
      \/ \E x \in {"req_schema_slash", "req_host"} : req_schema(p, ch) = To(p, x) /\ req_schema(q, ch) = To(q, x)
      \/ req_schema(p, ch) = Error(p)
  BY <1>1, Characters DEF req_schema, CR, LF, Alphanumeric
<1>3. \A x \in {"req_schema_slash", "req_host"} : x \in State \ {"req_http_major"}
  BY DEF State, TargetStates, BodyStates
<1> QED BY <1>2, <1>3, TwinsAre, AgreeTo, AgreeError

LEMMA ReqSchemaSlashAgrees ==
  ASSUME NEW p, NEW q, Twins(p, q), NEW ch \in STRING, p.state \in {"req_schema_slash", "req_schema_slash_slash"}
  PROVE  Agree(req_schema_slash(p, ch), req_schema_slash(q, ch))
<1>1. p.state = q.state
  BY TwinsAre DEF Even
<1>2. \/ req_schema_slash(p, ch) = p /\ req_schema_slash(q, ch) = q
      \/ \E x \in {"req_schema_slash_slash", "req_host"} : req_schema_slash(p, ch) = To(p, x) /\ req_schema_slash(q, ch) = To(q, x)
      \/ req_schema_slash(p, ch) = Error(p)
  BY <1>1, Characters DEF req_schema_slash, CR, LF
<1>3. \A x \in {"req_schema_slash_slash", "req_host"} : x \in State \ {"req_http_major"}
  BY DEF State, TargetStates, BodyStates
<1> QED BY <1>2, <1>3, TwinsAre, AgreeTo, AgreeError

LEMMA ReqHttpStartAgrees ==
  ASSUME NEW p, NEW q, Twins(p, q), NEW ch \in STRING, p.state = "req_http_start"
  PROVE  Agree(req_http_start(p, ch), req_http_start(q, ch))
<1>1. p.state = q.state
  BY TwinsAre DEF Even
<1>2. \/ req_http_start(p, ch) = p /\ req_http_start(q, ch) = q
      \/ \E x \in {"req_http_HTTP"} : req_http_start(p, ch) = To(p, x) /\ req_http_start(q, ch) = To(q, x)
      \/ req_http_start(p, ch) = Error(p)
  BY <1>1, Characters DEF req_http_start, CR, LF
<1>3. \A x \in {"req_http_HTTP"} : x \in State \ {"req_http_major"}
  BY DEF State, TargetStates, BodyStates
<1> QED BY <1>2, <1>3, TwinsAre, AgreeTo, AgreeError

LEMMA ReqLineAlmostDoneAgrees ==
  ASSUME NEW p, NEW q, Twins(p, q), NEW ch \in STRING, p.state = "req_line_almost_done"
  PROVE  Agree(req_line_almost_done(p, ch), req_line_almost_done(q, ch))
<1>1. p.state = q.state
  BY TwinsAre DEF Even
<1>2. \/ req_line_almost_done(p, ch) = p /\ req_line_almost_done(q, ch) = q
      \/ \E x \in {"header_field_start"} : req_line_almost_done(p, ch) = To(p, x) /\ req_line_almost_done(q, ch) = To(q, x)
      \/ req_line_almost_done(p, ch) = Error(p)
  BY <1>1, Characters DEF req_line_almost_done, CR, LF
<1>3. \A x \in {"header_field_start"} : x \in State \ {"req_http_major"}
  BY DEF State, TargetStates, BodyStates
<1> QED BY <1>2, <1>3, TwinsAre, AgreeTo, AgreeError

LEMMA ChunkParametersAgrees ==
  ASSUME NEW p, NEW q, Twins(p, q), NEW ch \in STRING, p.state = "chunk_parameters"
  PROVE  Agree(chunk_parameters(p, ch), chunk_parameters(q, ch))
<1>1. p.state = q.state
  BY TwinsAre DEF Even
<1>2. \/ chunk_parameters(p, ch) = p /\ chunk_parameters(q, ch) = q
      \/ \E x \in {"chunk_size_almost_done"} : chunk_parameters(p, ch) = To(p, x) /\ chunk_parameters(q, ch) = To(q, x)
      \/ chunk_parameters(p, ch) = Error(p)
  BY <1>1, Characters DEF chunk_parameters, CR, LF
<1>3. \A x \in {"chunk_size_almost_done"} : x \in State \ {"req_http_major"}
  BY DEF State, TargetStates, BodyStates
<1> QED BY <1>2, <1>3, TwinsAre, AgreeTo, AgreeError

LEMMA ChunkDataDoneAgrees ==
  ASSUME NEW p, NEW q, Twins(p, q), NEW ch \in STRING, p.state \in {"chunk_data_almost_done", "chunk_data_done"}
  PROVE  Agree(chunk_data_done(p, ch), chunk_data_done(q, ch))
<1>1. p.state = q.state
  BY TwinsAre DEF Even
<1>2. \/ chunk_data_done(p, ch) = p /\ chunk_data_done(q, ch) = q
      \/ \E x \in {"chunk_data_done", "chunk_size_start"} : chunk_data_done(p, ch) = To(p, x) /\ chunk_data_done(q, ch) = To(q, x)
      \/ chunk_data_done(p, ch) = Error(p)
  BY <1>1, Characters DEF chunk_data_done, CR, LF
<1>3. \A x \in {"chunk_data_done", "chunk_size_start"} : x \in State \ {"req_http_major"}
  BY DEF State, TargetStates, BodyStates
<1> QED BY <1>2, <1>3, TwinsAre, AgreeTo, AgreeError

LEMMA ReqMethodAgrees ==
  ASSUME NEW p, NEW q, Twins(p, q), NEW ch \in STRING, p.state = "req_method"
  PROVE  Agree(req_method(p, ch), req_method(q, ch))
<1>1. p.method = q.method /\ p \in Parser /\ q \in Parser /\ Alike(p, q)
  BY TwinsAre DEF Even
<1>2. CASE <<p.method, ch>> \in DOMAIN Method
  <2>1. PICK m \in AnyMethod : m = Method[<<p.method, ch>>]
    BY <1>2 DEF AnyMethod
  <2>2. req_method(p, ch) = [p EXCEPT !.method = m]
    <3>1. req_method(p, ch) = [p EXCEPT !.method = Method[<<p.method, ch>>]]
      BY <1>2, Domains DEF req_method
    <3> QED BY <2>1, <3>1
  <2>3. req_method(q, ch) = [q EXCEPT !.method = m]
    <3>1. req_method(q, ch) = [q EXCEPT !.method = Method[<<q.method, ch>>]]
      BY <1>1, <1>2, Domains DEF req_method
    <3> QED BY <1>1, <2>1, <3>1
  <2> QED BY <1>1, <2>2, <2>3, AlikeMethod DEF Agree
<1>3. CASE <<p.method, ch>> \notin DOMAIN Method
  <2>1. \/ req_method(p, ch) = Error(p)
        \/ req_method(p, ch) = To(p, "req_spaces_before_url") /\ req_method(q, ch) = To(q, "req_spaces_before_url")
    BY <1>1, <1>3 DEF req_method
  <2>2. "req_spaces_before_url" \in State \ {"req_http_major"}
    BY Places
  <2> QED BY <2>1, <2>2, AgreeTo, AgreeError
<1> QED BY <1>2, <1>3

LEMMA HttpVersionAgrees ==
  ASSUME NEW p, NEW q, Twins(p, q), NEW ch \in STRING,
         p.state \in {"req_http_HTTP", "req_first_http_major", "req_http_major",
                      "req_first_http_minor", "req_http_minor"}
  PROVE  Agree(http_version(p, ch), http_version(q, ch))
<1>1. /\ p.state = q.state /\ p.minor = q.minor /\ p \in Parser /\ q \in Parser /\ Alike(p, q)
      /\ p.state = "req_http_major" => p.major = q.major
  BY TwinsAre DEF Even
<1>2. CASE ch \notin DOMAIN Digit
  <2>1. \/ \E x \in {"req_first_http_major", "req_first_http_minor", "req_line_almost_done",
                     "header_field_start"} :
              http_version(p, ch) = To(p, x) /\ http_version(q, ch) = To(q, x)
        \/ http_version(p, ch) = Error(p)
    <3>1. CASE p.state \in {"req_http_HTTP", "req_first_http_major"}
      BY <1>1, <1>2, <3>1 DEF http_version, CR, LF
    <3>2. CASE p.state \in {"req_http_major", "req_first_http_minor"}
      BY <1>1, <1>2, <3>2 DEF http_version, CR, LF
    <3>3. CASE p.state = "req_http_minor"
      BY <1>1, <1>2, <3>3 DEF http_version, CR, LF
    <3> QED BY <3>1, <3>2, <3>3
  <2>2. \A x \in {"req_first_http_major", "req_first_http_minor", "req_line_almost_done",
                  "header_field_start"} : x \in State \ {"req_http_major"}
    BY Places
  <2> QED BY <2>1, <2>2, AgreeTo, AgreeError
<1>3. CASE ch \in DOMAIN Digit
  <2>1. PICK d \in Nat : d = Digit[ch]
    BY <1>3, Digits
  <2>2. ch \notin {"/", ".", CR, LF}
    BY <1>3, Digits DEF CR, LF
  <2>3. PICK a, b : a = 10 * p.major + d /\ b = 10 * p.minor + d
    OBVIOUS
  <2>4. a \in Nat /\ b \in Nat
    BY <1>1, <2>1, <2>3 DEF Parser
  <2>5. \/ http_version(p, ch) = Error(p)
        \/ \E x \in Nat : /\ http_version(p, ch) = [p EXCEPT !.major = x, !.state = "req_http_major"]
                          /\ http_version(q, ch) = [q EXCEPT !.major = x, !.state = "req_http_major"]
        \/ \E x \in Nat : /\ http_version(p, ch) = [p EXCEPT !.minor = x, !.state = "req_http_minor"]
                          /\ http_version(q, ch) = [q EXCEPT !.minor = x, !.state = "req_http_minor"]
    <3>1. CASE p.state = "req_http_HTTP"
      <4>1. http_version(p, ch) = Error(p)
        BY <2>2, <3>1 DEF http_version
      <4> QED BY <4>1
    <3>2. CASE p.state = "req_first_http_major"
      <4>1. \/ /\ http_version(p, ch) = [p EXCEPT !.major = Digit[ch], !.state = "req_http_major"]
               /\ http_version(q, ch) = [q EXCEPT !.major = Digit[ch], !.state = "req_http_major"]
            \/ http_version(p, ch) = Error(p)
        BY <1>1, <1>3, <2>2, <3>2 DEF http_version
      <4> QED BY <2>1, <4>1
    <3>3. CASE p.state = "req_http_major"
      <4>1. \/ /\ http_version(p, ch) = [p EXCEPT !.major = 10 * p.major + Digit[ch]]
               /\ http_version(q, ch) = [q EXCEPT !.major = 10 * p.major + Digit[ch]]
            \/ http_version(p, ch) = Error(p)
        BY <1>1, <1>3, <2>2, <3>3 DEF http_version
      <4>2. /\ [p EXCEPT !.major = a] = [p EXCEPT !.major = a, !.state = "req_http_major"]
            /\ [q EXCEPT !.major = a] = [q EXCEPT !.major = a, !.state = "req_http_major"]
        BY <1>1, <3>3 DEF Parser
      <4> QED BY <2>1, <2>3, <2>4, <4>1, <4>2
    <3>4. CASE p.state = "req_first_http_minor"
      <4>1. \/ /\ http_version(p, ch) = [p EXCEPT !.minor = Digit[ch], !.state = "req_http_minor"]
               /\ http_version(q, ch) = [q EXCEPT !.minor = Digit[ch], !.state = "req_http_minor"]
            \/ http_version(p, ch) = Error(p)
        BY <1>1, <1>3, <2>2, <3>4 DEF http_version
      <4> QED BY <2>1, <4>1
    <3>5. CASE p.state = "req_http_minor"
      <4>1. \/ /\ http_version(p, ch) = [p EXCEPT !.minor = 10 * p.minor + Digit[ch]]
               /\ http_version(q, ch) = [q EXCEPT !.minor = 10 * p.minor + Digit[ch]]
            \/ http_version(p, ch) = Error(p)
        BY <1>1, <1>3, <2>2, <3>5 DEF http_version
      <4>2. /\ [p EXCEPT !.minor = b] = [p EXCEPT !.minor = b, !.state = "req_http_minor"]
            /\ [q EXCEPT !.minor = b] = [q EXCEPT !.minor = b, !.state = "req_http_minor"]
        BY <1>1, <3>5 DEF Parser
      <4> QED BY <2>1, <2>3, <2>4, <4>1, <4>2
    <3> QED BY <3>1, <3>2, <3>3, <3>4, <3>5
  <2>6. ASSUME NEW x \in Nat, NEW r, NEW s,
               \/ /\ r = [p EXCEPT !.major = x, !.state = "req_http_major"]
                  /\ s = [q EXCEPT !.major = x, !.state = "req_http_major"]
               \/ /\ r = [p EXCEPT !.minor = x, !.state = "req_http_minor"]
                  /\ s = [q EXCEPT !.minor = x, !.state = "req_http_minor"]
        PROVE  Alike(r, s)
    <3>1. "req_http_major" \in State /\ "req_http_minor" \in State /\ Even(p, q)
      BY TwinsAre, Places
    <3>2. CASE /\ r = [p EXCEPT !.major = x, !.state = "req_http_major"]
               /\ s = [q EXCEPT !.major = x, !.state = "req_http_major"]
      <4>1. /\ r \in Parser /\ r.http = p.http /\ r.mark = p.mark
            /\ s \in Parser /\ s.http = q.http /\ s.mark = q.mark
        BY <1>1, <3>1, <3>2 DEF Parser
      <4>2. Even(r, s)
        BY <1>1, <3>1, <3>2 DEF Even, Parser
      <4> QED BY <1>1, <4>1, <4>2, AlikeKept
    <3>3. CASE /\ r = [p EXCEPT !.minor = x, !.state = "req_http_minor"]
               /\ s = [q EXCEPT !.minor = x, !.state = "req_http_minor"]
      <4>1. /\ r \in Parser /\ r.http = p.http /\ r.mark = p.mark
            /\ s \in Parser /\ s.http = q.http /\ s.mark = q.mark
        BY <1>1, <3>1, <3>3 DEF Parser
      <4>2. Even(r, s)
        BY <1>1, <3>1, <3>3 DEF Even, Parser
      <4> QED BY <1>1, <4>1, <4>2, AlikeKept
    <3> QED BY <2>6, <3>2, <3>3
  <2> QED BY <2>5, <2>6, AgreeError DEF Agree
<1> QED BY <1>2, <1>3

LEMMA ChunkSizeAgrees ==
  ASSUME NEW p, NEW q, Twins(p, q), NEW ch \in STRING, p.state \in {"chunk_size_start", "chunk_size"}
  PROVE  Agree(chunk_size(p, ch), chunk_size(q, ch))
<1>1. p.state = q.state /\ p.content_length = q.content_length /\ p \in Parser /\ q \in Parser /\ Alike(p, q)
  BY TwinsAre DEF Even
<1>2. CASE ch \in DOMAIN Digit
  <2>1. PICK d \in Nat : d = Digit[ch]
    BY <1>2, Digits
  <2>2. PICK n : n = (IF p.state = "chunk_size" THEN 16 * p.content_length ELSE 0) + d
    OBVIOUS
  <2>3. n \in Int
    BY <1>1, <2>1, <2>2 DEF Parser
  <2>4. chunk_size(p, ch) = [p EXCEPT !.state = "chunk_size", !.content_length = n]
    <3>1. chunk_size(p, ch) =
            [p EXCEPT !.state = "chunk_size",
               !.content_length = (IF p.state = "chunk_size" THEN 16 * @ ELSE 0) + Digit[ch]]
      BY <1>2, Domains DEF chunk_size, CR
    <3> QED BY <2>1, <2>2, <3>1
  <2>5. chunk_size(q, ch) = [q EXCEPT !.state = "chunk_size", !.content_length = n]
    <3>1. chunk_size(q, ch) =
            [q EXCEPT !.state = "chunk_size",
               !.content_length = (IF q.state = "chunk_size" THEN 16 * @ ELSE 0) + Digit[ch]]
      BY <1>2, Domains DEF chunk_size, CR
    <3> QED BY <1>1, <2>1, <2>2, <3>1
  <2>6. PICK r, s : /\ r = [p EXCEPT !.state = "chunk_size", !.content_length = n]
                    /\ s = [q EXCEPT !.state = "chunk_size", !.content_length = n]
    OBVIOUS
  <2>7. "chunk_size" \in State
    BY States DEF BodyStates
  <2>8. /\ r \in Parser /\ r.http = p.http /\ r.mark = p.mark
        /\ s \in Parser /\ s.http = q.http /\ s.mark = q.mark
    BY <1>1, <2>3, <2>6, <2>7 DEF Parser
  <2>9. Even(r, s)
    BY <1>1, <2>6, TwinsAre DEF Even, Parser
  <2>10. Alike(r, s)
    BY <1>1, <2>8, <2>9, AlikeKept
  <2> QED BY <2>4, <2>5, <2>6, <2>10 DEF Agree
<1>3. CASE ch \notin DOMAIN Digit
  <2>1. \/ \E x \in {"chunk_size_almost_done", "chunk_parameters"} :
              chunk_size(p, ch) = To(p, x) /\ chunk_size(q, ch) = To(q, x)
        \/ chunk_size(p, ch) = Error(p)
    BY <1>1, <1>3 DEF chunk_size, CR
  <2>2. \A x \in {"chunk_size_almost_done", "chunk_parameters"} : x \in State \ {"req_http_major"}
    BY States DEF BodyStates
  <2> QED BY <2>1, <2>2, AgreeTo, AgreeError
<1> QED BY <1>2, <1>3

LEMMA ChunkSizeAlmostDoneAgrees ==
  ASSUME NEW p, NEW q, Twins(p, q), NEW ch \in STRING, p.state = "chunk_size_almost_done"
  PROVE  Agree(chunk_size_almost_done(p, ch), chunk_size_almost_done(q, ch))
<1>1. p.content_length = q.content_length /\ p.flags = q.flags /\ p \in Parser /\ q \in Parser /\ Alike(p, q)
  BY TwinsAre DEF Even
<1>2. CASE ch # LF
  BY <1>2, AgreeError DEF chunk_size_almost_done
<1>3. CASE ch = LF /\ p.content_length = 0
  <2>1. PICK fs : fs = p.flags \cup {"trailing"}
    OBVIOUS
  <2>2. fs \in SUBSET (Flag \cup {"upgrade", "trailing"})
    BY <1>1, <2>1 DEF Parser
  <2>3. /\ chunk_size_almost_done(p, ch) = [p EXCEPT !.flags = fs, !.state = "header_field_start"]
        /\ chunk_size_almost_done(q, ch) = [q EXCEPT !.flags = fs, !.state = "header_field_start"]
    BY <1>1, <1>3, <2>1 DEF chunk_size_almost_done
  <2>4. PICK r, s : /\ r = [p EXCEPT !.flags = fs, !.state = "header_field_start"]
                    /\ s = [q EXCEPT !.flags = fs, !.state = "header_field_start"]
    OBVIOUS
  <2>5. /\ r \in Parser /\ r.http = p.http /\ r.mark = p.mark
        /\ s \in Parser /\ s.http = q.http /\ s.mark = q.mark
    BY <1>1, <2>2, <2>4, Places DEF Parser
  <2>6. Even(r, s)
    BY <1>1, <2>4, TwinsAre DEF Even, Parser
  <2>7. Alike(r, s)
    BY <1>1, <2>5, <2>6, AlikeKept
  <2> QED BY <2>3, <2>4, <2>7 DEF Agree
<1>4. CASE ch = LF /\ p.content_length # 0
  <2>1. /\ chunk_size_almost_done(p, ch) = To(p, "chunk_data")
        /\ chunk_size_almost_done(q, ch) = To(q, "chunk_data")
    BY <1>1, <1>4 DEF chunk_size_almost_done
  <2>2. "chunk_data" \in State \ {"req_http_major"}
    BY States DEF BodyStates
  <2> QED BY <2>1, <2>2, AgreeTo
<1> QED BY <1>2, <1>3, <1>4

LEMMA EndOfTargetAgrees ==
  ASSUME NEW p \in Parser, NEW q \in Parser, Alike(p, q), NEW ch \in {" ", CR, LF}
  PROVE  Agree(EndOfTarget(p, ch), EndOfTarget(q, ch))
<1>1. CASE ch = " "
  <2>1. EndOfTarget(p, ch) = To(p, "req_http_start") /\ EndOfTarget(q, ch) = To(q, "req_http_start")
    BY <1>1 DEF EndOfTarget, CR, LF
  <2>2. "req_http_start" \in State \ {"req_http_major"}
    BY Places
  <2> QED BY <2>1, <2>2, AlikeTo DEF Agree
<1>2. CASE ch # " "
  <2>1. PICK a, b : a = [p EXCEPT !.minor = 9] /\ b = [q EXCEPT !.minor = 9]
    OBVIOUS
  <2>2. a \in Parser /\ b \in Parser /\ Alike(a, b)
    BY <2>1, AlikeMinor
  <2>3. \A x : /\ [p EXCEPT !.minor = 9, !.state = x] = To(a, x)
               /\ [q EXCEPT !.minor = 9, !.state = x] = To(b, x)
    BY <2>1 DEF To, Parser
  <2>4. \E x \in {"req_line_almost_done", "header_field_start"} :
            EndOfTarget(p, ch) = To(a, x) /\ EndOfTarget(q, ch) = To(b, x)
    BY <1>2, <2>3 DEF EndOfTarget, CR, LF
  <2>5. \A x \in {"req_line_almost_done", "header_field_start"} : x \in State \ {"req_http_major"}
    BY Places
  <2> QED BY <2>2, <2>4, <2>5, AlikeTo DEF Agree
<1> QED BY <1>1, <1>2

LEMMA ReqSpacesAgrees ==
  ASSUME NEW p, NEW q, Twins(p, q), NEW ch \in STRING, p.state = "req_spaces_before_url"
  PROVE  Agree(req_spaces_before_url(p, ch), req_spaces_before_url(q, ch))
<1>1. p \in Parser /\ q \in Parser /\ Alike(p, q) /\ Alive(Hand(p)) /\ Marked(p) = {} /\ Hand(p) \in HTTPObject
  BY TwinsAre, HandTyped, Places
<1>2. PICK a, b : a = Mark(p, "url") /\ b = Mark(q, "url")
  OBVIOUS
<1>3. /\ a \in Parser /\ b \in Parser /\ Alike(a, b) /\ Marked(a) = {"url"}
      /\ Hand(a) = Called(Hand(p), "url", <<>>)
  <2>1. "url" \in Fields
    BY DEF Fields
  <2>2. Marked(a) = Marked(p) \cup {"url"}
    BY <1>1, <1>2, <2>1, AlikeMark
  <2>3. a \in Parser /\ b \in Parser /\ Alike(a, b) /\ Hand(a) = Called(Hand(p), "url", <<>>)
    BY <1>1, <1>2, <2>1, AlikeMark
  <2> QED BY <1>1, <2>2, <2>3
<1>4. Alive(Hand(a))
  BY <1>1, <1>3, UrlCommutes, WordsJoin
<1>5. CASE ch = " "
  BY <1>5, Characters, TwinsAre DEF req_spaces_before_url
<1>6. CASE ch = "/"
  <2>1. PICK c, d : c = Mark(a, "path") /\ d = Mark(b, "path")
    OBVIOUS
  <2>2. c \in Parser /\ d \in Parser /\ Alike(c, d)
    BY <1>3, <1>4, <2>1, AlikeMark DEF Fields
  <2>3. req_spaces_before_url(p, ch) = To(c, "req_path") /\ req_spaces_before_url(q, ch) = To(d, "req_path")
    BY <1>2, <1>6, <2>1, Characters DEF req_spaces_before_url
  <2>4. "req_path" \in State \ {"req_http_major"}
    BY Places
  <2> QED BY <2>2, <2>3, <2>4, AlikeTo DEF Agree
<1>7. CASE ch \in Letters
  <2>1. req_spaces_before_url(p, ch) = To(a, "req_schema") /\ req_spaces_before_url(q, ch) = To(b, "req_schema")
    BY <1>2, <1>7, Characters DEF req_spaces_before_url
  <2>2. "req_schema" \in State \ {"req_http_major"}
    BY Places
  <2> QED BY <1>3, <2>1, <2>2, AlikeTo DEF Agree
<1>8. CASE ch \notin Letters \cup {" ", "/"}
  BY <1>8, AgreeError DEF req_spaces_before_url
<1> QED BY <1>5, <1>6, <1>7, <1>8

LEMMA ReqHostAgrees ==
  ASSUME NEW p, NEW q, Twins(p, q), NEW ch \in STRING, p.state \in {"req_host", "req_port"}
  PROVE  Agree(req_host(p, ch), req_host(q, ch))
<1>1. /\ p \in Parser /\ q \in Parser /\ Alike(p, q) /\ Alive(Hand(p)) /\ Marked(p) = {"url"}
      /\ p.state = q.state /\ Marked(p) \in Shape /\ "url" \in Marked(p)
  BY TwinsAre, Places DEF Even, Shape, Fields
<1>2. CASE ch = "/"
  <2>1. PICK a, b : a = Mark(p, "path") /\ b = Mark(q, "path")
    OBVIOUS
  <2>2. a \in Parser /\ b \in Parser /\ Alike(a, b)
    BY <1>1, <2>1, AlikeMark DEF Fields
  <2>3. req_host(p, ch) = To(a, "req_path") /\ req_host(q, ch) = To(b, "req_path")
    BY <1>1, <1>2, <2>1, Characters DEF req_host
  <2>4. "req_path" \in State \ {"req_http_major"}
    BY Places
  <2> QED BY <2>2, <2>3, <2>4, AlikeTo DEF Agree
<1>3. CASE ch = " "
  <2>1. PICK a, b : a = CALLBACK(p, "url") /\ b = CALLBACK(q, "url")
    OBVIOUS
  <2>2. a \in Parser /\ b \in Parser /\ Alike(a, b)
    BY <1>1, <2>1, AlikeCallback
  <2>3. req_host(p, ch) = To(a, "req_http_start") /\ req_host(q, ch) = To(b, "req_http_start")
    BY <1>1, <1>3, <2>1, Characters DEF req_host
  <2>4. "req_http_start" \in State \ {"req_http_major"}
    BY Places
  <2> QED BY <2>2, <2>3, <2>4, AlikeTo DEF Agree
<1>4. CASE ch \notin {" ", "/"}
  <2>1. \/ req_host(p, ch) = p /\ req_host(q, ch) = q
        \/ req_host(p, ch) = To(p, "req_port") /\ req_host(q, ch) = To(q, "req_port")
        \/ req_host(p, ch) = Error(p)
    BY <1>1, <1>4, Characters DEF req_host
  <2>2. "req_port" \in State \ {"req_http_major"}
    BY Places
  <2> QED BY <2>1, <2>2, TwinsAre, AgreeTo, AgreeError
<1> QED BY <1>2, <1>3, <1>4

\* The target ends: its token and the whole of it go to the callbacks.
LEMMA TwoCallbacks ==
  ASSUME NEW p, NEW q, Twins(p, q), NEW f \in {"path", "query_string"}, Marked(p) = {"url", f}
  PROVE  /\ CALLBACK(CALLBACK(p, "url"), f) \in Parser /\ CALLBACK(CALLBACK(q, "url"), f) \in Parser
         /\ Alike(CALLBACK(CALLBACK(p, "url"), f), CALLBACK(CALLBACK(q, "url"), f))
         /\ CALLBACK(p, f) \in Parser /\ CALLBACK(q, f) \in Parser
         /\ Alike(CALLBACK(p, f), CALLBACK(q, f))
<1>1. /\ p \in Parser /\ q \in Parser /\ Alike(p, q) /\ Alive(Hand(p))
      /\ Marked(p) \in Shape /\ "url" \in Marked(p) /\ f \in Marked(p)
  BY TwinsAre DEF Shape
<1>2. PICK a, b : a = CALLBACK(p, "url") /\ b = CALLBACK(q, "url")
  OBVIOUS
<1>3. /\ a \in Parser /\ b \in Parser /\ Alike(a, b) /\ Hand(a) = Hand(p) /\ Marked(a) \in Shape
      /\ Marked(a) = {f}
  BY <1>1, <1>2, AlikeCallback
<1>4. /\ CALLBACK(a, f) \in Parser /\ CALLBACK(b, f) \in Parser
      /\ Alike(CALLBACK(a, f), CALLBACK(b, f))
  BY <1>1, <1>3, AlikeCallback
<1>5. /\ CALLBACK(p, f) \in Parser /\ CALLBACK(q, f) \in Parser
      /\ Alike(CALLBACK(p, f), CALLBACK(q, f))
  BY <1>1, AlikeCallback
<1> QED BY <1>2, <1>4, <1>5

LEMMA ReqPathAgrees ==
  ASSUME NEW p, NEW q, Twins(p, q), NEW ch \in STRING, p.state = "req_path"
  PROVE  Agree(req_path(p, ch), req_path(q, ch))
<1>1. Marked(p) = {"url", "path"}
  BY TwinsAre, Places
<1>2. PICK a, b, c, d : /\ a = CALLBACK(CALLBACK(p, "url"), "path") /\ b = CALLBACK(CALLBACK(q, "url"), "path")
                        /\ c = CALLBACK(p, "path") /\ d = CALLBACK(q, "path")
  OBVIOUS
<1>3. a \in Parser /\ b \in Parser /\ Alike(a, b) /\ c \in Parser /\ d \in Parser /\ Alike(c, d)
  BY <1>1, <1>2, TwoCallbacks
<1>4. CASE UrlChar(ch)
  BY <1>4, Characters, TwinsAre DEF req_path
<1>5. CASE ch \in {" ", CR, LF}
  <2>1. req_path(p, ch) = EndOfTarget(a, ch) /\ req_path(q, ch) = EndOfTarget(b, ch)
    BY <1>2, <1>5, Characters DEF req_path, CR, LF
  <2> QED BY <1>3, <1>5, <2>1, EndOfTargetAgrees
<1>6. CASE ~UrlChar(ch) /\ ch \notin {" ", CR, LF}
  <2>1. \/ \E x \in {"req_query_string_start", "req_fragment_start"} :
              req_path(p, ch) = To(c, x) /\ req_path(q, ch) = To(d, x)
        \/ req_path(p, ch) = Error(p)
    BY <1>2, <1>6 DEF req_path
  <2>2. \A x \in {"req_query_string_start", "req_fragment_start"} : x \in State \ {"req_http_major"}
    BY Places
  <2> QED BY <1>3, <2>1, <2>2, AlikeTo, AgreeError DEF Agree
<1> QED BY <1>4, <1>5, <1>6

LEMMA ReqQueryStringAgrees ==
  ASSUME NEW p, NEW q, Twins(p, q), NEW ch \in STRING, p.state = "req_query_string"
  PROVE  Agree(req_query_string(p, ch), req_query_string(q, ch))
<1>1. Marked(p) = {"url", "query_string"}
  BY TwinsAre, Places
<1>2. PICK a, b, c, d : /\ a = CALLBACK(CALLBACK(p, "url"), "query_string")
                        /\ b = CALLBACK(CALLBACK(q, "url"), "query_string")
                        /\ c = CALLBACK(p, "query_string") /\ d = CALLBACK(q, "query_string")
  OBVIOUS
<1>3. a \in Parser /\ b \in Parser /\ Alike(a, b) /\ c \in Parser /\ d \in Parser /\ Alike(c, d)
  BY <1>1, <1>2, TwoCallbacks
<1>4. CASE UrlChar(ch) \/ ch = "?"
  BY <1>4, Characters, TwinsAre DEF req_query_string, CR, LF
<1>5. CASE ch \in {" ", CR, LF}
  <2>1. req_query_string(p, ch) = EndOfTarget(a, ch) /\ req_query_string(q, ch) = EndOfTarget(b, ch)
    BY <1>2, <1>5, Characters DEF req_query_string, CR, LF
  <2> QED BY <1>3, <1>5, <2>1, EndOfTargetAgrees
<1>6. CASE ~UrlChar(ch) /\ ch \notin {"?", " ", CR, LF}
  <2>1. \/ req_query_string(p, ch) = To(c, "req_fragment_start")
           /\ req_query_string(q, ch) = To(d, "req_fragment_start")
        \/ req_query_string(p, ch) = Error(p)
    BY <1>2, <1>6 DEF req_query_string
  <2>2. "req_fragment_start" \in State \ {"req_http_major"}
    BY Places
  <2> QED BY <1>3, <2>1, <2>2, AlikeTo, AgreeError DEF Agree
<1> QED BY <1>4, <1>5, <1>6

LEMMA ReqQueryStringStartAgrees ==
  ASSUME NEW p, NEW q, Twins(p, q), NEW ch \in STRING, p.state = "req_query_string_start"
  PROVE  Agree(req_query_string_start(p, ch), req_query_string_start(q, ch))
<1>1. /\ p \in Parser /\ q \in Parser /\ Alike(p, q) /\ Alive(Hand(p)) /\ Marked(p) = {"url"}
      /\ Marked(p) \in Shape /\ "url" \in Marked(p)
  BY TwinsAre, Places DEF Shape, Fields
<1>2. CASE UrlChar(ch)
  <2>1. PICK a, b : a = Mark(p, "query_string") /\ b = Mark(q, "query_string")
    OBVIOUS
  <2>2. a \in Parser /\ b \in Parser /\ Alike(a, b)
    BY <1>1, <2>1, AlikeMark DEF Fields
  <2>3. /\ req_query_string_start(p, ch) = To(a, "req_query_string")
        /\ req_query_string_start(q, ch) = To(b, "req_query_string")
    BY <1>2, <2>1, Characters DEF req_query_string_start
  <2>4. "req_query_string" \in State \ {"req_http_major"}
    BY Places
  <2> QED BY <2>2, <2>3, <2>4, AlikeTo DEF Agree
<1>3. CASE ch \in {" ", CR, LF}
  <2>1. PICK a, b : a = CALLBACK(p, "url") /\ b = CALLBACK(q, "url")
    OBVIOUS
  <2>2. a \in Parser /\ b \in Parser /\ Alike(a, b)
    BY <1>1, <2>1, AlikeCallback
  <2>3. req_query_string_start(p, ch) = EndOfTarget(a, ch) /\ req_query_string_start(q, ch) = EndOfTarget(b, ch)
    BY <1>3, <2>1, Characters DEF req_query_string_start, CR, LF
  <2> QED BY <1>3, <2>2, <2>3, EndOfTargetAgrees
<1>4. CASE ~UrlChar(ch) /\ ch \notin {" ", CR, LF}
  <2>1. \/ req_query_string_start(p, ch) = p /\ req_query_string_start(q, ch) = q
        \/ req_query_string_start(p, ch) = To(p, "req_fragment_start")
           /\ req_query_string_start(q, ch) = To(q, "req_fragment_start")
        \/ req_query_string_start(p, ch) = Error(p)
    BY <1>4 DEF req_query_string_start
  <2>2. "req_fragment_start" \in State \ {"req_http_major"}
    BY Places
  <2> QED BY <2>1, <2>2, TwinsAre, AgreeTo, AgreeError
<1> QED BY <1>2, <1>3, <1>4

LEMMA ReqFragmentStartAgrees ==
  ASSUME NEW p, NEW q, Twins(p, q), NEW ch \in STRING, p.state = "req_fragment_start"
  PROVE  Agree(req_fragment_start(p, ch), req_fragment_start(q, ch))
<1>1. /\ p \in Parser /\ q \in Parser /\ Alike(p, q) /\ Alive(Hand(p)) /\ Marked(p) = {"url"}
      /\ Marked(p) \in Shape /\ "url" \in Marked(p)
  BY TwinsAre, Places DEF Shape, Fields
<1>2. CASE UrlChar(ch) \/ ch = "?"
  <2>1. PICK r : r = req_fragment_start(p, ch)
    OBVIOUS
  <2>2. r = To(Mark(p, "fragment"), "req_fragment")
    BY <1>2, <2>1, Characters DEF req_fragment_start, CR, LF
  <2>3. Mark(p, "fragment") \in Parser /\ Marked(Mark(p, "fragment")) = {"url", "fragment"}
    BY <1>1, MarkTyped DEF Fields
  <2>4. r \in Parser /\ Marked(r) = {"url", "fragment"}
    BY <2>2, <2>3, ToTyped, Places
  <2>5. ~Alive(Hand(r))
    BY <2>4, HandIs
  <2> QED BY <2>1, <2>5 DEF Agree
<1>3. CASE ch \in {" ", CR, LF}
  <2>1. PICK a, b : a = CALLBACK(p, "url") /\ b = CALLBACK(q, "url")
    OBVIOUS
  <2>2. a \in Parser /\ b \in Parser /\ Alike(a, b)
    BY <1>1, <2>1, AlikeCallback
  <2>3. req_fragment_start(p, ch) = EndOfTarget(a, ch) /\ req_fragment_start(q, ch) = EndOfTarget(b, ch)
    BY <1>3, <2>1, Characters DEF req_fragment_start, CR, LF
  <2> QED BY <1>3, <2>2, <2>3, EndOfTargetAgrees
<1>4. CASE ~UrlChar(ch) /\ ch \notin {"?", " ", CR, LF}
  <2>1. \/ req_fragment_start(p, ch) = p /\ req_fragment_start(q, ch) = q
        \/ req_fragment_start(p, ch) = Error(p)
    BY <1>4 DEF req_fragment_start
  <2> QED BY <2>1, TwinsAre, AgreeError
<1> QED BY <1>2, <1>3, <1>4

\* Inside of a fragment the object cannot be alive at the end of the data.
LEMMA NoFragment ==
  ASSUME NEW p, NEW q, Twins(p, q)
  PROVE  p.state # "req_fragment"
<1>1. p \in Parser /\ Alive(Hand(p)) /\ Marked(p) = Open(p.state)
  BY TwinsAre
<1> QED BY <1>1, HandIs, Places

LEMMA StartReqAgrees ==
  ASSUME NEW p, NEW q, Twins(p, q), NEW ch \in STRING, p.state = "start_req"
  PROVE  Agree(start_req(p, ch), start_req(q, ch))
<1>1. /\ p \in Parser /\ q \in Parser /\ Even(p, q) /\ Marked(p) = {} /\ Marked(q) = {} /\ p.http = q.http
  BY TwinsAre, States
<1>2. PICK h : h = message_begin_cb(p.http)
  OBVIOUS
<1>3. h \in HTTPObject
  BY <1>1, <1>2, MessageBeginTyped DEF Parser
<1>4. CASE ch \in {CR, LF}
  <2>1. start_req(p, ch) = p /\ start_req(q, ch) = q
    BY <1>4, Characters DEF start_req
  <2> QED BY <2>1, TwinsAre
<1>5. CASE ch \in FirstLetter
  <2>1. PICK n : n = -1
    OBVIOUS
  <2>2. n \in Int /\ {} \in SUBSET (Flag \cup {"upgrade", "trailing"}) /\ ch \in AnyMethod /\ "req_method" \in State
    BY <1>5, <2>1, Places DEF AnyMethod
  <2>3. PICK b, c : /\ b = [p EXCEPT !.flags = {}, !.content_length = n, !.http = h, !.method = ch,
                                     !.state = "req_method"]
                    /\ c = [q EXCEPT !.flags = {}, !.content_length = n, !.http = h, !.method = ch,
                                     !.state = "req_method"]
    OBVIOUS
  <2>4. start_req(p, ch) = b
    <3>1. start_req(p, ch) =
            [[p EXCEPT !.flags = {}, !.content_length = -1, !.http = message_begin_cb(@)] EXCEPT
               !.method = ch, !.state = "req_method"]
      BY <1>5, Characters DEF start_req
    <3>2. start_req(p, ch) =
            [[p EXCEPT !.flags = {}, !.content_length = n, !.http = h] EXCEPT
               !.method = ch, !.state = "req_method"]
      BY <1>2, <2>1, <3>1
    <3> QED BY <1>1, <2>3, <3>2 DEF Parser
  <2>5. start_req(q, ch) = c
    <3>1. start_req(q, ch) =
            [[q EXCEPT !.flags = {}, !.content_length = -1, !.http = message_begin_cb(@)] EXCEPT
               !.method = ch, !.state = "req_method"]
      BY <1>5, Characters DEF start_req
    <3>2. start_req(q, ch) =
            [[q EXCEPT !.flags = {}, !.content_length = n, !.http = h] EXCEPT
               !.method = ch, !.state = "req_method"]
      BY <1>1, <1>2, <2>1, <3>1
    <3> QED BY <1>1, <2>3, <3>2 DEF Parser
  <2>6. /\ b \in Parser /\ c \in Parser /\ b.http = h /\ c.http = h /\ b.mark = p.mark /\ c.mark = q.mark
    BY <1>1, <1>3, <2>2, <2>3 DEF Parser
  <2>7. Even(b, c)
    BY <1>1, <2>3 DEF Even, Parser
  <2>8. Marked(b) = {} /\ Marked(c) = {}
    BY <1>1, <2>6 DEF Marked
  <2>9. Alike(b, c)
    BY <2>6, <2>7, <2>8, AlikePlain
  <2> QED BY <2>4, <2>5, <2>9 DEF Agree
<1>6. CASE ch \notin {CR, LF} \cup FirstLetter
  BY <1>6, AgreeError DEF start_req
<1> QED BY <1>4, <1>5, <1>6

\* The request complete: http_major may decide what the parser makes of the
\* bytes that follow, not what it has.
LEMMA CompleteAgrees ==
  ASSUME NEW p, NEW q, Early(p), Early(q), Marked(p) = {}, Marked(q) = {}, p.http = q.http,
         Alive(p.http), Even(p, q)
  PROVE  Agree(Complete(p), Complete(q))
<1>1. PICK r, s : r = Complete(p) /\ s = Complete(q)
  OBVIOUS
<1>2. /\ r \in Parser /\ Marked(r) = {} /\ r.state = NEW_MESSAGE(p) /\ r.http = message_complete_cb(p.http, p.method)
      /\ s \in Parser /\ Marked(s) = {} /\ s.state = NEW_MESSAGE(q) /\ s.http = message_complete_cb(q.http, q.method)
  BY <1>1, CompleteTyped
<1>3. r.http = s.http /\ r.state \in {"start_req", "dead"} /\ s.state \in {"start_req", "dead"}
  BY <1>2 DEF Even, NEW_MESSAGE
<1>4. SUFFICES ASSUME Alive(Hand(r)) PROVE Done(r)
  BY <1>1, <1>2, <1>3 DEF Agree, Over, Done
<1>5. Alive(r.http)
  BY <1>2, <1>4, HandIs
<1>6. p.http \in HTTPObject
  BY DEF Early, Parser
<1> QED
  BY <1>2, <1>5, <1>6 DEF message_complete_cb, Asserted, Alive, HTTPObject, Done

LEMMA HeadersAlmostDoneAgrees ==
  ASSUME NEW p, NEW q, Twins(p, q), NEW ch \in STRING,
         p.state \in {"headers_almost_done", "header_field_start"}
  PROVE  Agree(headers_almost_done(p, ch), headers_almost_done(q, ch))
<1>1. /\ p \in Parser /\ q \in Parser /\ Even(p, q) /\ Marked(p) = {} /\ Marked(q) = {} /\ p.http = q.http
      /\ Early(p) /\ Early(q) /\ Alive(p.http)
  <2>1. /\ p \in Parser /\ q \in Parser /\ Even(p, q) /\ Marked(p) = {} /\ Marked(q) = {} /\ p.http = q.http
    BY TwinsAre, Places
  <2>2. Early(p) /\ Early(q)
    BY <2>1, GoodIsEarly DEF Twins, Even
  <2> QED BY <2>1, <2>2 DEF Twins, Good
<1>2. PICK h : h = headers_complete_cb(p.http)
  OBVIOUS
<1>3. h \in HTTPObject /\ h.m_doneParsing = p.http.m_doneParsing
  BY <1>1, <1>2, HeadersCompleteTyped DEF Parser
<1>4. PICK a, b : a = [p EXCEPT !.nread = 0, !.http = h] /\ b = [q EXCEPT !.nread = 0, !.http = h]
  OBVIOUS
<1>5. /\ a \in Parser /\ a.http = h /\ a.state = p.state /\ a.ret = p.ret /\ a.mark = p.mark
      /\ a.method = p.method /\ a.flags = p.flags /\ a.content_length = p.content_length
      /\ b \in Parser /\ b.http = h /\ b.state = q.state /\ b.ret = q.ret /\ b.mark = q.mark
      /\ b.method = q.method /\ b.flags = q.flags /\ b.content_length = q.content_length
  <2>1. 0 \in 0 .. HTTP_MAX_HEADER_SIZE
    BY HeaderSizeAssumption
  <2> QED BY <1>1, <1>3, <1>4, <2>1 DEF Parser
<1>6. Even(a, b)
  BY <1>1, <1>4 DEF Even, Parser
<1>7. Marked(a) = {} /\ Marked(b) = {} /\ Early(a) /\ Early(b)
  BY <1>1, <1>3, <1>5 DEF Early, Marked, Done
<1>8. Alike(a, b)
  BY <1>5, <1>6, <1>7, AlikePlain
<1>9. headers_almost_done(p, ch) =
        IF ch # LF THEN Error(p)
        ELSE IF "trailing" \in p.flags THEN Complete(p)
        ELSE IF ~Alive(h) THEN a
        ELSE IF "upgrade" \in p.flags \/ p.method = "CONNECT"
          THEN [a EXCEPT !.http = message_complete_cb(@, a.method), !.ret = "upgrade"]
        ELSE IF "chunked" \in p.flags THEN To(a, "chunk_size_start")
        ELSE IF p.content_length > 0 THEN To(a, "body_identity")
        ELSE Complete(a)
  <2>1. headers_almost_done(p, ch) =
          IF ch # LF THEN Error(p)
          ELSE IF "trailing" \in p.flags THEN Complete(p)
          ELSE IF ~Alive(a.http) THEN a
          ELSE IF "upgrade" \in a.flags \/ a.method = "CONNECT"
            THEN [a EXCEPT !.http = message_complete_cb(@, a.method), !.ret = "upgrade"]
          ELSE IF "chunked" \in a.flags THEN To(a, "chunk_size_start")
          ELSE IF a.content_length > 0 THEN To(a, "body_identity")
          ELSE Complete(a)
    BY <1>2, <1>4 DEF headers_almost_done
  <2> QED BY <1>5, <2>1
<1>10. headers_almost_done(q, ch) =
         IF ch # LF THEN Error(q)
         ELSE IF "trailing" \in p.flags THEN Complete(q)
         ELSE IF ~Alive(h) THEN b
         ELSE IF "upgrade" \in p.flags \/ p.method = "CONNECT"
           THEN [b EXCEPT !.http = message_complete_cb(@, b.method), !.ret = "upgrade"]
         ELSE IF "chunked" \in p.flags THEN To(b, "chunk_size_start")
         ELSE IF p.content_length > 0 THEN To(b, "body_identity")
         ELSE Complete(b)
  <2>1. headers_almost_done(q, ch) =
          IF ch # LF THEN Error(q)
          ELSE IF "trailing" \in q.flags THEN Complete(q)
          ELSE IF ~Alive(b.http) THEN b
          ELSE IF "upgrade" \in b.flags \/ b.method = "CONNECT"
            THEN [b EXCEPT !.http = message_complete_cb(@, b.method), !.ret = "upgrade"]
          ELSE IF "chunked" \in b.flags THEN To(b, "chunk_size_start")
          ELSE IF b.content_length > 0 THEN To(b, "body_identity")
          ELSE Complete(b)
    BY <1>1, <1>2, <1>4 DEF headers_almost_done
  <2>2. q.flags = p.flags /\ q.method = p.method /\ q.content_length = p.content_length
    BY <1>1 DEF Even
  <2> QED BY <1>5, <2>1, <2>2
<1>11. CASE ch # LF
  BY <1>9, <1>11, AgreeError
<1>12. CASE ch = LF /\ "trailing" \in p.flags
  BY <1>1, <1>9, <1>10, <1>12, CompleteAgrees
<1>13. CASE ch = LF /\ "trailing" \notin p.flags /\ ~Alive(h)
  BY <1>8, <1>9, <1>10, <1>13 DEF Agree
<1>14. CASE ch = LF /\ "trailing" \notin p.flags /\ Alive(h) /\ ("upgrade" \in p.flags \/ p.method = "CONNECT")
  <2>1. PICK g : g = message_complete_cb(h, a.method)
    OBVIOUS
  <2>2. g \in HTTPObject /\ a.method = b.method
    BY <1>1, <1>3, <1>6, <2>1, MessageCompleteTyped DEF Early, Done, Even
  <2>3. PICK r, s : r = [a EXCEPT !.http = g, !.ret = "upgrade"] /\ s = [b EXCEPT !.http = g, !.ret = "upgrade"]
    OBVIOUS
  <2>4. r \in Parser /\ s \in Parser /\ r.http = g /\ s.http = g /\ r.mark = a.mark /\ s.mark = b.mark
    BY <1>5, <2>2, <2>3 DEF Parser
  <2>5. Even(r, s)
    BY <1>5, <1>6, <2>3 DEF Even, Parser
  <2>6. Marked(r) = {} /\ Marked(s) = {}
    BY <1>7, <2>4 DEF Marked
  <2>7. Alike(r, s)
    BY <2>4, <2>5, <2>6, AlikePlain
  <2>8. headers_almost_done(p, ch) = r /\ headers_almost_done(q, ch) = s
    BY <1>5, <1>9, <1>10, <1>14, <2>1, <2>2, <2>3
  <2> QED BY <2>7, <2>8 DEF Agree
<1>15. CASE /\ ch = LF /\ "trailing" \notin p.flags /\ Alive(h)
            /\ ~("upgrade" \in p.flags \/ p.method = "CONNECT") /\ "chunked" \in p.flags
  <2>1. "chunk_size_start" \in State \ {"req_http_major"}
    BY States DEF BodyStates
  <2> QED BY <1>5, <1>8, <1>9, <1>10, <1>15, <2>1, AlikeTo DEF Agree
<1>16. CASE /\ ch = LF /\ "trailing" \notin p.flags /\ Alive(h)
            /\ ~("upgrade" \in p.flags \/ p.method = "CONNECT") /\ "chunked" \notin p.flags
            /\ p.content_length > 0
  <2>1. "body_identity" \in State \ {"req_http_major"}
    BY States DEF BodyStates
  <2> QED BY <1>5, <1>8, <1>9, <1>10, <1>16, <2>1, AlikeTo DEF Agree
<1>17. CASE /\ ch = LF /\ "trailing" \notin p.flags /\ Alive(h)
            /\ ~("upgrade" \in p.flags \/ p.method = "CONNECT") /\ "chunked" \notin p.flags
            /\ ~(p.content_length > 0)
  BY <1>5, <1>6, <1>7, <1>9, <1>10, <1>17, CompleteAgrees
<1> QED BY <1>11, <1>12, <1>13, <1>14, <1>15, <1>16, <1>17

LEMMA HeaderEndAgrees ==
  ASSUME NEW p \in Parser, NEW q \in Parser, Alike(p, q), NEW ch
  PROVE  Agree(header_almost_done(p, ch), header_almost_done(q, ch))
<1>1. CASE ch # LF
  BY <1>1, AgreeError DEF header_almost_done
<1>2. CASE ch = LF
  <2>1. Even(p, q)
    BY AlikeEven
  <2>2. PICK fs : fs = p.flags \cup ({p.header_state} \cap Flag)
    OBVIOUS
  <2>3. fs \in SUBSET (Flag \cup {"upgrade", "trailing"})
    BY <2>2 DEF Parser
  <2>4. /\ header_almost_done(p, ch) = [p EXCEPT !.state = "header_field_start", !.flags = fs]
        /\ header_almost_done(q, ch) = [q EXCEPT !.state = "header_field_start", !.flags = fs]
    BY <1>2, <2>1, <2>2 DEF header_almost_done, Even
  <2>5. PICK r, s : /\ r = [p EXCEPT !.state = "header_field_start", !.flags = fs]
                    /\ s = [q EXCEPT !.state = "header_field_start", !.flags = fs]
    OBVIOUS
  <2>6. /\ r \in Parser /\ r.http = p.http /\ r.mark = p.mark
        /\ s \in Parser /\ s.http = q.http /\ s.mark = q.mark
    BY <2>3, <2>5, Places DEF Parser
  <2>7. Even(r, s)
    BY <2>1, <2>5 DEF Even, Parser
  <2>8. Alike(r, s)
    BY <2>6, <2>7, AlikeKept
  <2> QED BY <2>4, <2>5, <2>8 DEF Agree
<1> QED BY <1>1, <1>2

LEMMA HeaderFieldStartAgrees ==
  ASSUME NEW p, NEW q, Twins(p, q), NEW ch \in STRING, p.state = "header_field_start"
  PROVE  Agree(header_field_start(p, ch), header_field_start(q, ch))
<1>1. p \in Parser /\ q \in Parser /\ Alike(p, q) /\ Alive(Hand(p)) /\ Marked(p) = {}
  BY TwinsAre, Places
<1>2. CASE ch = CR
  <2>1. /\ header_field_start(p, ch) = To(p, "headers_almost_done")
        /\ header_field_start(q, ch) = To(q, "headers_almost_done")
    BY <1>2, Characters DEF header_field_start, CR, LF
  <2>2. "headers_almost_done" \in State \ {"req_http_major"}
    BY Places
  <2> QED BY <2>1, <2>2, AgreeTo
<1>3. CASE ch = LF
  <2>1. /\ header_field_start(p, ch) = headers_almost_done(p, ch)
        /\ header_field_start(q, ch) = headers_almost_done(q, ch)
    BY <1>3, Characters DEF header_field_start, CR, LF
  <2> QED BY <2>1, HeadersAlmostDoneAgrees
<1>4. CASE Token(ch)
  <2>1. PICK a, b : a = Mark(p, "header_field") /\ b = Mark(q, "header_field")
    OBVIOUS
  <2>2. a \in Parser /\ b \in Parser /\ Alike(a, b)
    BY <1>1, <2>1, AlikeMark DEF Fields
  <2>3. PICK hs : hs = IF \E w \in DOMAIN FieldWord : w[1] = ch THEN ch ELSE "general"
    OBVIOUS
  <2>4. hs \in HeaderState
    BY <2>3, WordTypes
  <2>5. /\ header_field_start(p, ch) = [a EXCEPT !.state = "header_field", !.header_state = hs]
        /\ header_field_start(q, ch) = [b EXCEPT !.state = "header_field", !.header_state = hs]
    BY <1>4, <2>1, <2>3, Characters DEF header_field_start
  <2>6. PICK c, d : c = To(a, "header_field") /\ d = To(b, "header_field")
    OBVIOUS
  <2>7. "header_field" \in State \ {"req_http_major"}
    BY Places
  <2>8. c \in Parser /\ d \in Parser /\ Alike(c, d)
    BY <2>2, <2>6, <2>7, AlikeTo
  <2>9. Alike([c EXCEPT !.header_state = hs], [d EXCEPT !.header_state = hs])
    BY <2>4, <2>8, AlikeHeaderState
  <2>10. /\ [c EXCEPT !.header_state = hs] = [a EXCEPT !.state = "header_field", !.header_state = hs]
         /\ [d EXCEPT !.header_state = hs] = [b EXCEPT !.state = "header_field", !.header_state = hs]
    BY <2>2, <2>6 DEF To, Parser
  <2> QED BY <2>5, <2>9, <2>10 DEF Agree
<1>5. CASE ch \notin {CR, LF} /\ ~Token(ch)
  BY <1>5, AgreeError DEF header_field_start
<1> QED BY <1>2, <1>3, <1>4, <1>5

LEMMA HeaderFieldAgrees ==
  ASSUME NEW p, NEW q, Twins(p, q), NEW ch \in STRING, p.state = "header_field"
  PROVE  Agree(header_field(p, ch), header_field(q, ch))
<1>1. /\ p \in Parser /\ q \in Parser /\ Alike(p, q) /\ Alive(Hand(p)) /\ Marked(p) = {"header_field"}
      /\ Marked(p) \in Shape /\ "header_field" \in Marked(p) /\ p.header_state = q.header_state
  BY TwinsAre, Places DEF Shape, Fields, Even
<1>2. CASE Token(ch)
  <2>1. PICK hs : hs = CASE <<p.header_state, ch>> \in DOMAIN FieldWord -> FieldWord[<<p.header_state, ch>>]
                         [] p.header_state \in Recognized /\ ch = " " -> p.header_state
                         [] OTHER -> "general"
    OBVIOUS
  <2>2. hs \in HeaderState
    BY <2>1, WordTypes, Domains
  <2>3. /\ header_field(p, ch) = [p EXCEPT !.header_state = hs]
        /\ header_field(q, ch) = [q EXCEPT !.header_state = hs]
    BY <1>1, <1>2, <2>1, Characters DEF header_field
  <2> QED BY <1>1, <2>2, <2>3, AlikeHeaderState DEF Agree
<1>3. CASE ~Token(ch)
  <2>1. PICK a, b : a = CALLBACK(p, "header_field") /\ b = CALLBACK(q, "header_field")
    OBVIOUS
  <2>2. a \in Parser /\ b \in Parser /\ Alike(a, b)
    BY <1>1, <2>1, AlikeCallback
  <2>3. \/ \E x \in {"header_value_start", "header_almost_done", "header_field_start"} :
              header_field(p, ch) = To(a, x) /\ header_field(q, ch) = To(b, x)
        \/ header_field(p, ch) = Error(p)
    BY <1>3, <2>1 DEF header_field, CR, LF
  <2>4. \A x \in {"header_value_start", "header_almost_done", "header_field_start"} :
          x \in State \ {"req_http_major"}
    BY Places
  <2> QED BY <2>2, <2>3, <2>4, AlikeTo, AgreeError DEF Agree
<1> QED BY <1>2, <1>3

LEMMA HeaderValueStartAgrees ==
  ASSUME NEW p, NEW q, Twins(p, q), NEW ch \in STRING, p.state = "header_value_start"
  PROVE  Agree(header_value_start(p, ch), header_value_start(q, ch))
<1>1. /\ p \in Parser /\ q \in Parser /\ Alike(p, q) /\ Alive(Hand(p)) /\ Marked(p) = {}
      /\ p.header_state = q.header_state
  BY TwinsAre, Places DEF Even
<1>2. PICK a, b : a = Mark(p, "header_value") /\ b = Mark(q, "header_value")
  OBVIOUS
<1>3. a \in Parser /\ b \in Parser /\ Alike(a, b) /\ Marked(a) = {"header_value"}
  <2>1. "header_value" \in Fields
    BY DEF Fields
  <2>2. Marked(a) = Marked(p) \cup {"header_value"}
    BY <1>1, <1>2, <2>1, AlikeMark
  <2>3. a \in Parser /\ b \in Parser /\ Alike(a, b)
    BY <1>1, <1>2, <2>1, AlikeMark
  <2> QED BY <1>1, <2>2, <2>3
<1>4. PICK c, d : c = To(a, "header_value") /\ d = To(b, "header_value")
  OBVIOUS
<1>5. c \in Parser /\ d \in Parser /\ Alike(c, d) /\ Marked(c) = {"header_value"}
  <2>1. "header_value" \in State \ {"req_http_major"}
    BY Places
  <2> QED BY <1>3, <1>4, <2>1, AlikeTo
<1>6. PICK g, h : g = [c EXCEPT !.header_state = "general"] /\ h = [d EXCEPT !.header_state = "general"]
  OBVIOUS
<1>7. g \in Parser /\ h \in Parser /\ Alike(g, h) /\ Marked(g) = {"header_value"} /\ Hand(g) = Hand(c)
  BY <1>5, <1>6, AlikeHeaderState, WordTypes
<1>8. header_value_start(p, ch) =
        IF ch = " " THEN p
        ELSE IF ch = CR THEN To(CALLBACK(g, "header_value"), "header_almost_done")
        ELSE IF ch = LF THEN To(CALLBACK(c, "header_value"), "header_field_start")
        ELSE IF ~Acceptable(ch) THEN g
        ELSE IF p.header_state = "upgrade" THEN [g EXCEPT !.flags = @ \cup {"upgrade"}]
        ELSE IF p.header_state = "content_length"
          THEN IF ch \in DOMAIN Digit THEN [c EXCEPT !.content_length = Digit[ch]] ELSE Error(c)
        ELSE IF <<p.header_state, ch>> \in DOMAIN ValueWord
          THEN [c EXCEPT !.header_state = ValueWord[<<p.header_state, ch>>]]
        ELSE g
  BY <1>2, <1>4, <1>6, Zenon DEF header_value_start
<1>9. header_value_start(q, ch) =
        IF ch = " " THEN q
        ELSE IF ch = CR THEN To(CALLBACK(h, "header_value"), "header_almost_done")
        ELSE IF ch = LF THEN To(CALLBACK(d, "header_value"), "header_field_start")
        ELSE IF ~Acceptable(ch) THEN h
        ELSE IF p.header_state = "upgrade" THEN [h EXCEPT !.flags = @ \cup {"upgrade"}]
        ELSE IF p.header_state = "content_length"
          THEN IF ch \in DOMAIN Digit THEN [d EXCEPT !.content_length = Digit[ch]] ELSE Error(d)
        ELSE IF <<p.header_state, ch>> \in DOMAIN ValueWord
          THEN [d EXCEPT !.header_state = ValueWord[<<p.header_state, ch>>]]
        ELSE h
  <2>1. header_value_start(q, ch) =
          IF ch = " " THEN q
          ELSE IF ch = CR THEN To(CALLBACK(h, "header_value"), "header_almost_done")
          ELSE IF ch = LF THEN To(CALLBACK(d, "header_value"), "header_field_start")
          ELSE IF ~Acceptable(ch) THEN h
          ELSE IF q.header_state = "upgrade" THEN [h EXCEPT !.flags = @ \cup {"upgrade"}]
          ELSE IF q.header_state = "content_length"
            THEN IF ch \in DOMAIN Digit THEN [d EXCEPT !.content_length = Digit[ch]] ELSE Error(d)
          ELSE IF <<q.header_state, ch>> \in DOMAIN ValueWord
            THEN [d EXCEPT !.header_state = ValueWord[<<q.header_state, ch>>]]
          ELSE h
    BY <1>2, <1>4, <1>6, Zenon DEF header_value_start
  <2> QED BY <1>1, <2>1
<1>10. CASE ch = " "
  BY <1>8, <1>9, <1>10, TwinsAre
<1>11. CASE ch # " " /\ ch = CR
  <2>1. PICK r, s : r = CALLBACK(g, "header_value") /\ s = CALLBACK(h, "header_value")
    OBVIOUS
  <2>2. Marked(g) \in Shape /\ "header_value" \in Marked(g)
    BY <1>7 DEF Shape, Fields
  <2>3. r \in Parser /\ s \in Parser /\ Alike(r, s)
    BY <1>7, <2>1, <2>2, AlikeCallback
  <2>4. "header_almost_done" \in State \ {"req_http_major"}
    BY Places
  <2>5. /\ header_value_start(p, ch) = To(r, "header_almost_done")
        /\ header_value_start(q, ch) = To(s, "header_almost_done")
    BY <1>8, <1>9, <1>11, <2>1
  <2> QED BY <2>3, <2>4, <2>5, AlikeTo DEF Agree
<1>12. CASE ch # " " /\ ch # CR /\ ch = LF
  <2>1. PICK r, s : r = CALLBACK(c, "header_value") /\ s = CALLBACK(d, "header_value")
    OBVIOUS
  <2>2. Marked(c) \in Shape /\ "header_value" \in Marked(c)
    BY <1>5 DEF Shape, Fields
  <2>3. r \in Parser /\ s \in Parser /\ Alike(r, s)
    BY <1>5, <2>1, <2>2, AlikeCallback
  <2>4. "header_field_start" \in State \ {"req_http_major"}
    BY Places
  <2>5. /\ header_value_start(p, ch) = To(r, "header_field_start")
        /\ header_value_start(q, ch) = To(s, "header_field_start")
    BY <1>8, <1>9, <1>12, <2>1
  <2> QED BY <2>3, <2>4, <2>5, AlikeTo DEF Agree
<1>13. CASE ch # " " /\ ch # CR /\ ch # LF
  <2>1. Alike([g EXCEPT !.flags = @ \cup {"upgrade"}], [h EXCEPT !.flags = @ \cup {"upgrade"}])
    <3>1. g.flags = h.flags
      BY <1>7, AlikeEven DEF Even
    <3>2. PICK fs : fs = g.flags \cup {"upgrade"}
      OBVIOUS
    <3>3. fs \in SUBSET (Flag \cup {"upgrade", "trailing"})
      BY <1>7, <3>2 DEF Parser
    <3>4. Alike([g EXCEPT !.flags = fs], [h EXCEPT !.flags = fs])
      BY <1>7, <3>3, AlikeFlags
    <3> QED BY <3>1, <3>2, <3>4
  <2>2. ASSUME ch \in DOMAIN Digit
        PROVE  Alike([c EXCEPT !.content_length = Digit[ch]], [d EXCEPT !.content_length = Digit[ch]])
    <3>1. PICK n \in Int : n = Digit[ch]
      BY <2>2, Digits
    <3>2. Alike([c EXCEPT !.content_length = n], [d EXCEPT !.content_length = n])
      BY <1>5, AlikeLength
    <3> QED BY <3>1, <3>2
  <2>3. ASSUME <<p.header_state, ch>> \in DOMAIN ValueWord
        PROVE  Alike([c EXCEPT !.header_state = ValueWord[<<p.header_state, ch>>]],
                     [d EXCEPT !.header_state = ValueWord[<<p.header_state, ch>>]])
    <3>1. PICK hs \in HeaderState : hs = ValueWord[<<p.header_state, ch>>]
      BY <2>3, WordTypes
    <3>2. Alike([c EXCEPT !.header_state = hs], [d EXCEPT !.header_state = hs])
      BY <1>5, AlikeHeaderState
    <3> QED BY <3>1, <3>2
  <2>4. PICK w : w = <<p.header_state, ch>>
    OBVIOUS
  <2>5. \/ header_value_start(p, ch) = g /\ header_value_start(q, ch) = h
        \/ /\ header_value_start(p, ch) = [g EXCEPT !.flags = @ \cup {"upgrade"}]
           /\ header_value_start(q, ch) = [h EXCEPT !.flags = @ \cup {"upgrade"}]
        \/ /\ ch \in DOMAIN Digit
           /\ header_value_start(p, ch) = [c EXCEPT !.content_length = Digit[ch]]
           /\ header_value_start(q, ch) = [d EXCEPT !.content_length = Digit[ch]]
        \/ header_value_start(p, ch) = Error(c)
        \/ /\ <<p.header_state, ch>> \in DOMAIN ValueWord
           /\ header_value_start(p, ch) = [c EXCEPT !.header_state = ValueWord[<<p.header_state, ch>>]]
           /\ header_value_start(q, ch) = [d EXCEPT !.header_state = ValueWord[<<p.header_state, ch>>]]
    <3>1. CASE ~Acceptable(ch)
      BY <1>8, <1>9, <1>13, <3>1, Zenon
    <3>2. CASE Acceptable(ch) /\ p.header_state = "upgrade"
      BY <1>8, <1>9, <1>13, <3>2, Zenon
    <3>3. CASE Acceptable(ch) /\ p.header_state # "upgrade" /\ p.header_state = "content_length"
      BY <1>8, <1>9, <1>13, <3>3, Zenon
    <3>4. CASE Acceptable(ch) /\ p.header_state # "upgrade" /\ p.header_state # "content_length"
      BY <1>8, <1>9, <1>13, <3>4, Zenon
    <3> QED BY <3>1, <3>2, <3>3, <3>4
  <2>6. Agree(Error(c), header_value_start(q, ch))
    BY AgreeError
  <2> QED BY <1>7, <2>1, <2>2, <2>3, <2>5, <2>6, Zenon DEF Agree
<1> QED BY <1>10, <1>11, <1>12, <1>13

LEMMA HeaderValueAgrees ==
  ASSUME NEW p, NEW q, Twins(p, q), NEW ch \in STRING, p.state = "header_value"
  PROVE  Agree(header_value(p, ch), header_value(q, ch))
<1>1. /\ p \in Parser /\ q \in Parser /\ Alike(p, q) /\ Marked(p) = {"header_value"}
      /\ Marked(p) \in Shape /\ "header_value" \in Marked(p)
      /\ p.header_state = q.header_state /\ p.content_length = q.content_length
  BY TwinsAre, Places DEF Even, Shape, Fields
<1>2. PICK c, d : c = CALLBACK(p, "header_value") /\ d = CALLBACK(q, "header_value")
  OBVIOUS
<1>3. c \in Parser /\ d \in Parser /\ Alike(c, d)
  BY <1>1, <1>2, AlikeCallback
<1>4. PICK hs : hs = IF <<p.header_state, ch>> \in DOMAIN ValueWord
                       THEN ValueWord[<<p.header_state, ch>>] ELSE "general"
  OBVIOUS
<1>5. hs \in HeaderState
  BY <1>4, WordTypes
<1>6. header_value(p, ch) =
        IF ch = CR THEN To(c, "header_almost_done")
        ELSE IF ch = LF THEN header_almost_done(c, ch)
        ELSE IF ~Acceptable(ch) THEN p
        ELSE IF ch = " " /\ p.header_state \in Flag \cup {"content_length"} THEN p
        ELSE IF p.header_state = "content_length"
          THEN IF ch \in DOMAIN Digit THEN [p EXCEPT !.content_length = 10 * p.content_length + Digit[ch]]
               ELSE Error(p)
        ELSE [p EXCEPT !.header_state = hs]
  BY <1>2, <1>4, Zenon DEF header_value
<1>7. header_value(q, ch) =
        IF ch = CR THEN To(d, "header_almost_done")
        ELSE IF ch = LF THEN header_almost_done(d, ch)
        ELSE IF ~Acceptable(ch) THEN q
        ELSE IF ch = " " /\ p.header_state \in Flag \cup {"content_length"} THEN q
        ELSE IF p.header_state = "content_length"
          THEN IF ch \in DOMAIN Digit THEN [q EXCEPT !.content_length = 10 * p.content_length + Digit[ch]]
               ELSE Error(q)
        ELSE [q EXCEPT !.header_state = hs]
  <2>1. header_value(q, ch) =
          IF ch = CR THEN To(d, "header_almost_done")
          ELSE IF ch = LF THEN header_almost_done(d, ch)
          ELSE IF ~Acceptable(ch) THEN q
          ELSE IF ch = " " /\ q.header_state \in Flag \cup {"content_length"} THEN q
          ELSE IF q.header_state = "content_length"
            THEN IF ch \in DOMAIN Digit THEN [q EXCEPT !.content_length = 10 * q.content_length + Digit[ch]]
                 ELSE Error(q)
          ELSE [q EXCEPT !.header_state =
                  IF <<q.header_state, ch>> \in DOMAIN ValueWord
                    THEN ValueWord[<<q.header_state, ch>>] ELSE "general"]
    BY <1>2, Zenon DEF header_value
  <2> QED BY <1>1, <1>4, <2>1, Zenon
<1>8. CASE ch = CR
  <2>1. "header_almost_done" \in State \ {"req_http_major"}
    BY Places
  <2>2. header_value(p, ch) = To(c, "header_almost_done") /\ header_value(q, ch) = To(d, "header_almost_done")
    BY <1>6, <1>7, <1>8
  <2> QED BY <1>3, <2>1, <2>2, AlikeTo DEF Agree
<1>9. CASE ch # CR /\ ch = LF
  <2>1. header_value(p, ch) = header_almost_done(c, ch) /\ header_value(q, ch) = header_almost_done(d, ch)
    BY <1>6, <1>7, <1>9
  <2> QED BY <1>3, <2>1, HeaderEndAgrees
<1>10. CASE ch # CR /\ ch # LF
  <2>1. ASSUME ch \in DOMAIN Digit
        PROVE  Alike([p EXCEPT !.content_length = 10 * p.content_length + Digit[ch]],
                     [q EXCEPT !.content_length = 10 * p.content_length + Digit[ch]])
    <3>1. PICK n : n = 10 * p.content_length + Digit[ch]
      OBVIOUS
    <3>2. n \in Int
      BY <1>1, <2>1, <3>1, Digits DEF Parser
    <3>3. Alike([p EXCEPT !.content_length = n], [q EXCEPT !.content_length = n])
      BY <1>1, <3>2, AlikeLength
    <3> QED BY <3>1, <3>3
  <2>2. Alike([p EXCEPT !.header_state = hs], [q EXCEPT !.header_state = hs])
    BY <1>1, <1>5, AlikeHeaderState
  <2>3. \/ header_value(p, ch) = p /\ header_value(q, ch) = q
        \/ /\ ch \in DOMAIN Digit
           /\ header_value(p, ch) = [p EXCEPT !.content_length = 10 * p.content_length + Digit[ch]]
           /\ header_value(q, ch) = [q EXCEPT !.content_length = 10 * p.content_length + Digit[ch]]
        \/ header_value(p, ch) = Error(p)
        \/ header_value(p, ch) = [p EXCEPT !.header_state = hs] /\ header_value(q, ch) = [q EXCEPT !.header_state = hs]
    <3>1. CASE ~Acceptable(ch)
      BY <1>6, <1>7, <1>10, <3>1, Zenon
    <3>2. CASE Acceptable(ch) /\ ch = " " /\ p.header_state \in Flag \cup {"content_length"}
      BY <1>6, <1>7, <1>10, <3>2, Zenon
    <3>3. CASE Acceptable(ch) /\ ~(ch = " " /\ p.header_state \in Flag \cup {"content_length"})
                 /\ p.header_state = "content_length"
      BY <1>6, <1>7, <1>10, <3>3, Zenon
    <3>4. CASE Acceptable(ch) /\ ~(ch = " " /\ p.header_state \in Flag \cup {"content_length"})
                 /\ p.header_state # "content_length"
      BY <1>6, <1>7, <1>10, <3>4, Zenon
    <3> QED BY <3>1, <3>2, <3>3, <3>4
  <2>4. Agree(Error(p), header_value(q, ch))
    BY AgreeError
  <2> QED BY <1>1, <2>1, <2>2, <2>3, <2>4, Zenon DEF Agree
<1> QED BY <1>8, <1>9, <1>10

LEMMA BodyIdentityAgrees ==
  ASSUME NEW p, NEW q, Twins(p, q), NEW ch \in STRING, p.state = "body_identity"
  PROVE  Agree(body_identity(p, ch), body_identity(q, ch))
<1>1. /\ p \in Parser /\ q \in Parser /\ Even(p, q) /\ Marked(p) = {} /\ Marked(q) = {} /\ p.http = q.http
      /\ p.content_length = q.content_length /\ p.content_length \in Int
  BY TwinsAre, States DEF BodyStates, Even, Parser
<1>2. Early(p) /\ Early(q) /\ Alive(p.http)
  BY <1>1, GoodIsEarly DEF Twins, Even, Good
<1>3. PICK h : h = body_cb(p.http, <<ch>>)
  OBVIOUS
<1>4. h \in HTTPObject /\ h.m_doneParsing = p.http.m_doneParsing /\ Alive(h)
  BY <1>1, <1>2, <1>3, BodyTyped DEF Parser
<1>5. PICK n : n = p.content_length - 1
  OBVIOUS
<1>6. n \in Int
  BY <1>1, <1>5
<1>7. PICK r, s : r = [p EXCEPT !.http = h, !.content_length = n] /\ s = [q EXCEPT !.http = h, !.content_length = n]
  OBVIOUS
<1>8. /\ r \in Parser /\ r.ret = p.ret /\ r.mark = p.mark /\ r.http = h /\ r.content_length = n
      /\ s \in Parser /\ s.ret = q.ret /\ s.mark = q.mark /\ s.http = h /\ s.content_length = n
  BY <1>1, <1>4, <1>6, <1>7 DEF Parser
<1>9. Even(r, s)
  BY <1>1, <1>7 DEF Even, Parser
<1>10. Marked(r) = {} /\ Marked(s) = {} /\ Early(r) /\ Early(s)
  BY <1>1, <1>2, <1>4, <1>8 DEF Early, Marked, Done
<1>11. body_identity(p, ch) = IF n = 0 THEN Complete(r) ELSE r
  <2>1. body_identity(p, ch) = IF r.content_length = 0 THEN Complete(r) ELSE r
    BY <1>3, <1>5, <1>7 DEF body_identity
  <2> QED BY <1>8, <2>1
<1>12. body_identity(q, ch) = IF n = 0 THEN Complete(s) ELSE s
  <2>1. body_identity(q, ch) = IF s.content_length = 0 THEN Complete(s) ELSE s
    BY <1>1, <1>3, <1>5, <1>7 DEF body_identity
  <2> QED BY <1>8, <2>1
<1>13. CASE n = 0
  BY <1>4, <1>8, <1>9, <1>10, <1>11, <1>12, <1>13, CompleteAgrees
<1>14. CASE n # 0
  <2>1. Alike(r, s)
    BY <1>8, <1>9, <1>10, AlikePlain
  <2> QED BY <1>11, <1>12, <1>14, <2>1 DEF Agree
<1> QED BY <1>13, <1>14

LEMMA ChunkDataAgrees ==
  ASSUME NEW p, NEW q, Twins(p, q), NEW ch \in STRING, p.state = "chunk_data"
  PROVE  Agree(chunk_data(p, ch), chunk_data(q, ch))
<1>1. /\ p \in Parser /\ q \in Parser /\ Even(p, q) /\ Marked(p) = {} /\ Marked(q) = {} /\ p.http = q.http
      /\ p.content_length = q.content_length /\ p.content_length \in Int /\ q.state = "chunk_data"
  BY TwinsAre, States DEF BodyStates, Even, Parser
<1>2. PICK h : h = body_cb(p.http, <<ch>>)
  OBVIOUS
<1>3. h \in HTTPObject
  BY <1>1, <1>2, BodyTyped DEF Parser
<1>4. PICK n, x : n = p.content_length - 1 /\ x = IF p.content_length = 1 THEN "chunk_data_almost_done" ELSE "chunk_data"
  OBVIOUS
<1>5. n \in Int /\ x \in State /\ x # "req_http_major"
  BY <1>1, <1>4, States DEF BodyStates
<1>6. PICK r, s : /\ r = [p EXCEPT !.http = h, !.content_length = n, !.state = x]
                  /\ s = [q EXCEPT !.http = h, !.content_length = n, !.state = x]
  OBVIOUS
<1>7. /\ r \in Parser /\ r.mark = p.mark /\ r.http = h
      /\ s \in Parser /\ s.mark = q.mark /\ s.http = h
  BY <1>1, <1>3, <1>5, <1>6 DEF Parser
<1>8. Even(r, s)
  BY <1>1, <1>5, <1>6 DEF Even, Parser
<1>9. Marked(r) = {} /\ Marked(s) = {}
  BY <1>1, <1>7 DEF Marked
<1>10. Alike(r, s)
  BY <1>7, <1>8, <1>9, AlikePlain
<1>11. chunk_data(p, ch) = r
  BY <1>1, <1>2, <1>4, <1>6 DEF chunk_data
<1>12. chunk_data(q, ch) = s
  BY <1>1, <1>2, <1>4, <1>6 DEF chunk_data
<1> QED BY <1>10, <1>11, <1>12 DEF Agree
LEMMA SwitchAgrees ==
  ASSUME NEW p, NEW q, Twins(p, q), NEW ch \in STRING
  PROVE  Agree(Switch(p, ch), Switch(q, ch))
<1>0. p \in Parser /\ q \in Parser /\ Alike(p, q) /\ q.state = p.state
  BY TwinsAre DEF Even
<1>1. CASE p.state = "dead"
  <2>1. Switch(p, ch) = Error(p) /\ Switch(q, ch) = Error(q)
    BY <1>0, <1>1, SwitchLeads
  <2> QED BY <1>1, <2>1, AgreeError
<1>2. CASE p.state = "start_req"
  <2>1. Switch(p, ch) = start_req(p, ch) /\ Switch(q, ch) = start_req(q, ch)
    BY <1>0, <1>2, SwitchLeads
  <2> QED BY <1>2, <2>1, StartReqAgrees
<1>3. CASE p.state = "req_method"
  <2>1. Switch(p, ch) = req_method(p, ch) /\ Switch(q, ch) = req_method(q, ch)
    BY <1>0, <1>3, SwitchLeads
  <2> QED BY <1>3, <2>1, ReqMethodAgrees
<1>4. CASE p.state = "req_spaces_before_url"
  <2>1. Switch(p, ch) = req_spaces_before_url(p, ch) /\ Switch(q, ch) = req_spaces_before_url(q, ch)
    BY <1>0, <1>4, SwitchLeads
  <2> QED BY <1>4, <2>1, ReqSpacesAgrees
<1>5. CASE p.state = "req_schema"
  <2>1. Switch(p, ch) = req_schema(p, ch) /\ Switch(q, ch) = req_schema(q, ch)
    BY <1>0, <1>5, SwitchLeads
  <2> QED BY <1>5, <2>1, ReqSchemaAgrees
<1>6. CASE p.state \in {"req_schema_slash", "req_schema_slash_slash"}
  <2>1. Switch(p, ch) = req_schema_slash(p, ch) /\ Switch(q, ch) = req_schema_slash(q, ch)
    BY <1>0, <1>6, SwitchLeads
  <2> QED BY <1>6, <2>1, ReqSchemaSlashAgrees
<1>7. CASE p.state \in {"req_host", "req_port"}
  <2>1. Switch(p, ch) = req_host(p, ch) /\ Switch(q, ch) = req_host(q, ch)
    BY <1>0, <1>7, SwitchLeads
  <2> QED BY <1>7, <2>1, ReqHostAgrees
<1>8. CASE p.state = "req_path"
  <2>1. Switch(p, ch) = req_path(p, ch) /\ Switch(q, ch) = req_path(q, ch)
    BY <1>0, <1>8, SwitchLeads
  <2> QED BY <1>8, <2>1, ReqPathAgrees
<1>9. CASE p.state = "req_query_string_start"
  <2>1. Switch(p, ch) = req_query_string_start(p, ch) /\ Switch(q, ch) = req_query_string_start(q, ch)
    BY <1>0, <1>9, SwitchLeads
  <2> QED BY <1>9, <2>1, ReqQueryStringStartAgrees
<1>10. CASE p.state = "req_query_string"
  <2>1. Switch(p, ch) = req_query_string(p, ch) /\ Switch(q, ch) = req_query_string(q, ch)
    BY <1>0, <1>10, SwitchLeads
  <2> QED BY <1>10, <2>1, ReqQueryStringAgrees
<1>11. CASE p.state = "req_fragment_start"
  <2>1. Switch(p, ch) = req_fragment_start(p, ch) /\ Switch(q, ch) = req_fragment_start(q, ch)
    BY <1>0, <1>11, SwitchLeads
  <2> QED BY <1>11, <2>1, ReqFragmentStartAgrees
<1>12. CASE p.state = "req_fragment"
  BY <1>12, NoFragment
<1>13. CASE p.state = "req_http_start"
  <2>1. Switch(p, ch) = req_http_start(p, ch) /\ Switch(q, ch) = req_http_start(q, ch)
    BY <1>0, <1>13, SwitchLeads
  <2> QED BY <1>13, <2>1, ReqHttpStartAgrees
<1>14. CASE p.state \in {"req_http_HTTP", "req_first_http_major", "req_http_major", "req_first_http_minor", "req_http_minor"}
  <2>1. Switch(p, ch) = http_version(p, ch) /\ Switch(q, ch) = http_version(q, ch)
    BY <1>0, <1>14, SwitchLeads
  <2> QED BY <1>14, <2>1, HttpVersionAgrees
<1>15. CASE p.state = "req_line_almost_done"
  <2>1. Switch(p, ch) = req_line_almost_done(p, ch) /\ Switch(q, ch) = req_line_almost_done(q, ch)
    BY <1>0, <1>15, SwitchLeads
  <2> QED BY <1>15, <2>1, ReqLineAlmostDoneAgrees
<1>16. CASE p.state = "header_field_start"
  <2>1. Switch(p, ch) = header_field_start(p, ch) /\ Switch(q, ch) = header_field_start(q, ch)
    BY <1>0, <1>16, SwitchLeads
  <2> QED BY <1>16, <2>1, HeaderFieldStartAgrees
<1>17. CASE p.state = "header_field"
  <2>1. Switch(p, ch) = header_field(p, ch) /\ Switch(q, ch) = header_field(q, ch)
    BY <1>0, <1>17, SwitchLeads
  <2> QED BY <1>17, <2>1, HeaderFieldAgrees
<1>18. CASE p.state = "header_value_start"
  <2>1. Switch(p, ch) = header_value_start(p, ch) /\ Switch(q, ch) = header_value_start(q, ch)
    BY <1>0, <1>18, SwitchLeads
  <2> QED BY <1>18, <2>1, HeaderValueStartAgrees
<1>19. CASE p.state = "header_value"
  <2>1. Switch(p, ch) = header_value(p, ch) /\ Switch(q, ch) = header_value(q, ch)
    BY <1>0, <1>19, SwitchLeads
  <2> QED BY <1>19, <2>1, HeaderValueAgrees
<1>20. CASE p.state = "header_almost_done"
  <2>1. Switch(p, ch) = header_almost_done(p, ch) /\ Switch(q, ch) = header_almost_done(q, ch)
    BY <1>0, <1>20, SwitchLeads
  <2> QED BY <1>20, <2>1, HeaderEndAgrees, <1>0
<1>21. CASE p.state = "headers_almost_done"
  <2>1. Switch(p, ch) = headers_almost_done(p, ch) /\ Switch(q, ch) = headers_almost_done(q, ch)
    BY <1>0, <1>21, SwitchLeads
  <2> QED BY <1>21, <2>1, HeadersAlmostDoneAgrees
<1>22. CASE p.state = "body_identity"
  <2>1. Switch(p, ch) = body_identity(p, ch) /\ Switch(q, ch) = body_identity(q, ch)
    BY <1>0, <1>22, SwitchLeads
  <2> QED BY <1>22, <2>1, BodyIdentityAgrees
<1>23. CASE p.state \in {"chunk_size_start", "chunk_size"}
  <2>1. Switch(p, ch) = chunk_size(p, ch) /\ Switch(q, ch) = chunk_size(q, ch)
    BY <1>0, <1>23, SwitchLeads
  <2> QED BY <1>23, <2>1, ChunkSizeAgrees
<1>24. CASE p.state = "chunk_parameters"
  <2>1. Switch(p, ch) = chunk_parameters(p, ch) /\ Switch(q, ch) = chunk_parameters(q, ch)
    BY <1>0, <1>24, SwitchLeads
  <2> QED BY <1>24, <2>1, ChunkParametersAgrees
<1>25. CASE p.state = "chunk_size_almost_done"
  <2>1. Switch(p, ch) = chunk_size_almost_done(p, ch) /\ Switch(q, ch) = chunk_size_almost_done(q, ch)
    BY <1>0, <1>25, SwitchLeads
  <2> QED BY <1>25, <2>1, ChunkSizeAlmostDoneAgrees
<1>26. CASE p.state = "chunk_data"
  <2>1. Switch(p, ch) = chunk_data(p, ch) /\ Switch(q, ch) = chunk_data(q, ch)
    BY <1>0, <1>26, SwitchLeads
  <2> QED BY <1>26, <2>1, ChunkDataAgrees
<1>27. CASE p.state \in {"chunk_data_almost_done", "chunk_data_done"}
  <2>1. Switch(p, ch) = chunk_data_done(p, ch) /\ Switch(q, ch) = chunk_data_done(q, ch)
    BY <1>0, <1>27, SwitchLeads
  <2> QED BY <1>27, <2>1, ChunkDataDoneAgrees
<1>28. p.state \in State
  BY <1>0 DEF Parser
<1> QED
  BY <1>1, <1>2, <1>3, <1>4, <1>5, <1>6, <1>7, <1>8, <1>9, <1>10, <1>11, <1>12, <1>13, <1>14, <1>15, <1>16, <1>17, <1>18, <1>19, <1>20, <1>21, <1>22, <1>23, <1>24, <1>25, <1>26, <1>27, <1>28 DEF State, TargetStates, BodyStates

\* The tokens a parser can be inside of and still have an object.
LEMMA WaitsShape ==
  ASSUME NEW r \in Parser, Waits(r), r.ret # "error", Alive(Hand(r))
  PROVE  Marked(r) = Open(r.state) /\ Marked(r) \in Shape /\ Alive(r.http)
<1>1. Marked(r) = Open(r.state)
  BY DEF Waits
<1>2. Marked(r) # {"url", "fragment"}
  BY HandIs
<1>3. Marked(r) \in Shape
  BY <1>1, <1>2 DEF Open, Shape, Fields
<1> QED BY <1>1, <1>3, HandAlive

LEMMA CountedAlike ==
  ASSUME NEW p, NEW q, Twins(p, q),
         ~(p.state \notin BodyStates /\ "trailing" \notin p.flags /\ p.nread >= HTTP_MAX_HEADER_SIZE)
  PROVE  Twins(Counted(p), Counted(q))
<1>1. /\ p \in Parser /\ q \in Parser /\ Alike(p, q) /\ Good(p) /\ Good(q) /\ Alive(Hand(p))
      /\ p.state = q.state /\ p.flags = q.flags /\ p.nread = q.nread
  BY DEF Twins, Good, Alike
<1>2. PICK n : n = IF p.state \notin BodyStates /\ "trailing" \notin p.flags THEN p.nread + 1 ELSE p.nread
  OBVIOUS
<1>3. Counted(p) = [p EXCEPT !.nread = n] /\ Counted(q) = [q EXCEPT !.nread = n]
  BY <1>1, <1>2 DEF Counted
<1>4. Good(Counted(p)) /\ Good(Counted(q))
  BY <1>1, CountedTyped
<1>5. n \in 0 .. HTTP_MAX_HEADER_SIZE
  <2>1. Counted(p).nread = n
    BY <1>1, <1>3 DEF Parser
  <2> QED BY <1>4, <2>1 DEF Good, Parser
<1>6. Alike(Counted(p), Counted(q)) /\ Hand(Counted(p)) = Hand(p)
  BY <1>1, <1>3, <1>5, AlikeNread
<1> QED BY <1>1, <1>4, <1>6 DEF Twins

LEMMA ReachedAgrees ==
  ASSUME NEW r \in Parser, NEW s \in Parser, Waits(r), Agree(r, s), NEW ch \in STRING
  PROVE  Agree(Reached(r, ch), Reached(s, ch))
<1>1. PICK a, b : a = Reached(r, ch) /\ b = Reached(s, ch)
  OBVIOUS
<1>2. /\ a \in Parser /\ a.ret = r.ret /\ a.state = r.state /\ a.http = r.http /\ Marked(a) = Marked(r) /\ Waits(a)
      /\ b \in Parser /\ b.ret = s.ret /\ b.state = s.state /\ b.http = s.http /\ Marked(b) = Marked(s)
  BY <1>1, ReachedTyped
<1>3. SUFFICES ASSUME a.ret # "error", Alive(Hand(a))
               PROVE  Alike(a, b) \/ (Over(a) /\ Over(b) /\ a.http = b.http)
  BY <1>1 DEF Agree
<1>4. Marked(r) \in Shape
  BY <1>2, <1>3, WaitsShape
<1>5. Alive(Hand(r)) /\ r.ret # "error"
  BY <1>1, <1>2, <1>3, <1>4, ReachedHand
<1>6. CASE Alike(r, s)
  BY <1>1, <1>3, <1>4, <1>6, AlikeReached
<1>7. CASE Over(r) /\ Over(s) /\ r.http = s.http
  BY <1>2, <1>7 DEF Over, Done
<1> QED BY <1>5, <1>6, <1>7 DEF Agree

LEMMA CharacterAgrees ==
  ASSUME NEW p, NEW q, Twins(p, q), NEW ch \in STRING
  PROVE  Agree(Character(p, ch), Character(q, ch))
<1>1. p.state = q.state /\ p.flags = q.flags /\ p.nread = q.nread
  BY DEF Twins, Alike
<1>2. CASE p.state \notin BodyStates /\ "trailing" \notin p.flags /\ p.nread >= HTTP_MAX_HEADER_SIZE
  <2>1. Character(p, ch) = Error(p)
    BY <1>2, CharacterIs
  <2> QED BY <2>1, AgreeError
<1>3. CASE ~(p.state \notin BodyStates /\ "trailing" \notin p.flags /\ p.nread >= HTTP_MAX_HEADER_SIZE)
  <2>1. /\ Character(p, ch) = Reached(Switch(Counted(p), ch), ch)
        /\ Character(q, ch) = Reached(Switch(Counted(q), ch), ch)
    BY <1>1, <1>3, CharacterIs
  <2>2. Twins(Counted(p), Counted(q))
    BY <1>3, CountedAlike
  <2>3. PICK r, s : r = Switch(Counted(p), ch) /\ s = Switch(Counted(q), ch)
    OBVIOUS
  <2>4. Agree(r, s)
    BY <2>2, <2>3, SwitchAgrees
  <2>5. r \in Parser /\ Waits(r) /\ s \in Parser
    BY <2>2, <2>3, SwitchTyped DEF Twins
  <2> QED BY <2>1, <2>3, <2>4, <2>5, ReachedAgrees
<1> QED BY <1>2, <1>3
-----------------------------------------------------------------------------
(* What no later byte changes: the end of the data would stop the process. *)

LEMMA DoomedReached ==
  ASSUME NEW r \in Parser, NEW ch \in STRING, ~Alive(Hand(r)),
         Marked(r) = {"url", "fragment"} \/ Marked(r) \in Shape
  PROVE  ~Alive(Hand(Reached(r, ch)))
<1>1. CASE Marked(r) = {"url", "fragment"}
  BY <1>1, ReachedTyped, HandIs
<1>2. CASE Marked(r) \in Shape
  BY <1>2, ReachedHand
<1> QED BY <1>1, <1>2

\* Only a fragment or a header can doom an object.
LEMMA DoomedIn ==
  ASSUME NEW p, Good(p), ~Alive(Hand(p))
  PROVE  /\ p \in Parser /\ Alive(p.http) /\ Marked(p) = Open(p.state)
         /\ p.state \in {"req_fragment", "header_field", "header_value"}
<1>1. p \in Parser /\ Alive(p.http) /\ Marked(p) = Open(p.state) /\ p.http \in HTTPObject
  BY DEF Good, Waits, Parser
<1>2. \A f \in Fields : p.mark[f] \in Word \/ f \notin Marked(p)
  BY <1>1 DEF Marked, Parser
<1>3. Marked(p) # {}
  BY <1>1, HandIs
<1>4. Marked(p) # {"url"}
  <2>1. SUFFICES ASSUME Marked(p) = {"url"} PROVE FALSE
    OBVIOUS
  <2>2. "url" \in Fields
    BY DEF Fields
  <2>3. Hand(p) = Called(p.http, "url", p.mark["url"]) /\ p.mark["url"] \in Word
    BY <1>1, <1>2, <2>1, <2>2, HandIs
  <2> QED BY <1>1, <2>3, UrlCommutes
<1>5. ASSUME NEW f \in {"path", "query_string"} PROVE Marked(p) # {"url", f}
  <2>1. SUFFICES ASSUME Marked(p) = {"url", f} PROVE FALSE
    OBVIOUS
  <2>2. "url" \in Fields /\ f \in Fields
    BY DEF Fields
  <2>3. p.mark["url"] \in Word /\ p.mark[f] \in Word
    BY <1>2, <2>1, <2>2
  <2>4. Hand(p) = Called(Called(p.http, f, p.mark[f]), "url", p.mark["url"])
    BY <1>1, <2>1, HandIs
  <2> QED BY <1>1, <2>3, <2>4, UrlCommutes
<1> QED BY <1>1, <1>3, <1>4, <1>5 DEF Open

\* What a state that marks leaves of a doomed object.
Doomed(r) == r.ret = "error" \/ (~Alive(Hand(r)) /\ (Marked(r) = {"url", "fragment"} \/ Marked(r) \in Shape))

LEMMA DoomedError ==
  ASSUME NEW p
  PROVE  Doomed(Error(p))
<1>1. Error(p).ret = "error"
  BY DEF Error
<1> QED BY <1>1 DEF Doomed

LEMMA DoomedLater ==
  ASSUME NEW r \in Parser, Doomed(r), NEW ch \in STRING
  PROVE  Reached(r, ch).ret = "error" \/ ~Alive(Hand(Reached(r, ch)))
  BY DoomedReached, ReachedTyped DEF Doomed

\* Gone from the marks, the token has stopped the process.
LEMMA DoomedNow ==
  ASSUME NEW r \in Parser, Marked(r) = {}, ~Alive(r.http)
  PROVE  Doomed(r)
  BY HandIs DEF Doomed, Shape

LEMMA DoomedFragment ==
  ASSUME NEW p, Good(p), p.state = "req_fragment", NEW ch \in STRING
  PROVE  Doomed(req_fragment(p, ch))
<1>1. p \in Parser /\ Marked(p) = {"url", "fragment"} /\ p.http \in HTTPObject
  BY Places DEF Good, Waits, Parser
<1>2. CASE UrlChar(ch) \/ ch \in {"?", "#"}
  <2>1. req_fragment(p, ch) = p
    BY <1>2, Characters DEF req_fragment, CR, LF
  <2> QED BY <1>1, <2>1, HandIs DEF Doomed
<1>3. CASE ch \in {" ", CR, LF}
  <2>1. PICK a : a = CALLBACK(p, "url")
    OBVIOUS
  <2>2. PICK b : b = CALLBACK(a, "fragment")
    OBVIOUS
  <2>3. "url" \in Fields /\ "fragment" \in Fields
    BY DEF Fields
  <2>4. a \in Parser /\ Marked(a) = {"fragment"}
    BY <1>1, <2>1, <2>3, CallbackTyped
  <2>5. b \in Parser /\ Marked(b) = {} /\ b.http = Called(a.http, "fragment", a.mark["fragment"])
    BY <2>2, <2>3, <2>4, CallbackTyped
  <2>6. ~Alive(b.http)
    <3>1. a.http \in HTTPObject
      BY <2>4 DEF Parser
    <3>2. CASE Alive(a.http)
      BY <2>5, <3>1, <3>2 DEF Called, fragment_cb, Alive, HTTPObject
    <3>3. CASE ~Alive(a.http)
      BY <2>5, <3>3 DEF Called
    <3> QED BY <3>2, <3>3
  <2>7. PICK r : r = EndOfTarget(b, ch)
    OBVIOUS
  <2>8. req_fragment(p, ch) = r
    BY <1>3, <2>1, <2>2, <2>7, Characters DEF req_fragment, CR, LF
  <2>9. r \in Parser /\ r.http = b.http /\ r.mark = b.mark
    <3>1. CASE ch = " "
      <4>1. r = To(b, "req_http_start")
        BY <2>7, <3>1 DEF EndOfTarget, CR, LF
      <4> QED BY <2>5, <4>1, Places DEF To, Parser
    <3>2. CASE ch = CR
      <4>1. r = [b EXCEPT !.minor = 9, !.state = "req_line_almost_done"]
        BY <2>7, <3>2 DEF EndOfTarget, CR, LF
      <4> QED BY <2>5, <4>1, Places DEF Parser
    <3>3. CASE ch = LF
      <4>1. r = [b EXCEPT !.minor = 9, !.state = "header_field_start"]
        BY <2>7, <3>3 DEF EndOfTarget, CR, LF
      <4> QED BY <2>5, <4>1, Places DEF Parser
    <3> QED BY <1>3, <3>1, <3>2, <3>3
  <2>10. Marked(r) = {}
    BY <2>5, <2>9 DEF Marked
  <2> QED BY <2>6, <2>8, <2>9, <2>10, DoomedNow
<1>4. CASE ~(UrlChar(ch) \/ ch \in {"?", "#", " ", CR, LF})
  <2>1. req_fragment(p, ch) = Error(p)
    BY <1>4 DEF req_fragment
  <2> QED BY <2>1, DoomedError
<1> QED BY <1>2, <1>3, <1>4

\* A header is doomed: the call of its callback stops the process.
LEMMA DoomedCallback ==
  ASSUME NEW p \in Parser, NEW f \in Fields, Marked(p) = {f}, ~Alive(Hand(p)), NEW x \in State
  PROVE  /\ To(CALLBACK(p, f), x) \in Parser /\ Doomed(To(CALLBACK(p, f), x))
         /\ CALLBACK(p, f) \in Parser /\ ~Alive(CALLBACK(p, f).http) /\ Marked(CALLBACK(p, f)) = {}
<1>1. PICK a : a = CALLBACK(p, f)
  OBVIOUS
<1>2. a \in Parser /\ Marked(a) = {} /\ a.http = Called(p.http, f, p.mark[f])
  BY <1>1, CallbackTyped
<1>3. ~Alive(a.http)
  BY <1>2, HandIs
<1>4. PICK r : r = To(a, x)
  OBVIOUS
<1>5. r \in Parser /\ r.http = a.http /\ r.mark = a.mark
  BY <1>2, <1>4 DEF To, Parser
<1>6. Marked(r) = {}
  BY <1>2, <1>5 DEF Marked
<1> QED BY <1>1, <1>2, <1>3, <1>4, <1>5, <1>6, DoomedNow

\* The same marks and the same object are doomed as well.
LEMMA DoomedKept ==
  ASSUME NEW p \in Parser, NEW r \in Parser, r.http = p.http, r.mark = p.mark, ~Alive(Hand(p)),
         Marked(p) \in Shape
  PROVE  Doomed(r)
  BY HandDepends DEF Doomed

LEMMA DoomedField ==
  ASSUME NEW p, Good(p), p.state = "header_field", ~Alive(Hand(p)), NEW ch \in STRING
  PROVE  Doomed(header_field(p, ch))
<1>1. p \in Parser /\ Marked(p) = {"header_field"} /\ "header_field" \in Fields
  BY Places DEF Good, Waits, Fields
<1>2. CASE Token(ch)
  <2>1. PICK x : x = CASE <<p.header_state, ch>> \in DOMAIN FieldWord -> FieldWord[<<p.header_state, ch>>]
                       [] p.header_state \in Recognized /\ ch = " " -> p.header_state
                       [] OTHER -> "general"
    OBVIOUS
  <2>2. header_field(p, ch) = [p EXCEPT !.header_state = x]
    BY <1>2, <2>1, Characters DEF header_field
  <2>3. header_field(p, ch) \in Parser
    BY HeaderFieldTyped
  <2>4. PICK r : r = [p EXCEPT !.header_state = x]
    OBVIOUS
  <2>5. r \in Parser /\ r.http = p.http /\ r.mark = p.mark
    BY <1>1, <2>2, <2>3, <2>4 DEF Parser
  <2> QED BY <1>1, <2>2, <2>4, <2>5, DoomedKept DEF Shape
<1>3. CASE ch \in {":", CR, LF}
  <2>1. \/ header_field(p, ch) = To(CALLBACK(p, "header_field"), "header_value_start")
        \/ header_field(p, ch) = To(CALLBACK(p, "header_field"), "header_almost_done")
        \/ header_field(p, ch) = To(CALLBACK(p, "header_field"), "header_field_start")
    BY <1>3, Characters DEF header_field, CR, LF
  <2> QED BY <1>1, <2>1, DoomedCallback, Places
<1>4. CASE ~(Token(ch) \/ ch \in {":", CR, LF})
  <2>1. header_field(p, ch) = Error(p)
    BY <1>4 DEF header_field
  <2> QED BY <2>1, DoomedError
<1> QED BY <1>2, <1>3, <1>4

LEMMA DoomedValue ==
  ASSUME NEW p, Good(p), p.state = "header_value", ~Alive(Hand(p)), NEW ch \in STRING
  PROVE  Doomed(header_value(p, ch))
<1>1. /\ p \in Parser /\ Marked(p) = {"header_value"} /\ "header_value" \in Fields
      /\ Marked(p) \in Shape
  BY Places DEF Good, Waits, Fields, Shape
<1>2. header_value(p, ch) \in Parser
  BY HeaderValueTyped
<1>3. CASE ch = CR
  <2>1. header_value(p, ch) = To(CALLBACK(p, "header_value"), "header_almost_done")
    BY <1>3 DEF header_value
  <2> QED BY <1>1, <2>1, DoomedCallback, Places
<1>4. CASE ch = LF
  <2>1. PICK a : a = CALLBACK(p, "header_value")
    OBVIOUS
  <2>2. a \in Parser /\ ~Alive(a.http) /\ Marked(a) = {}
    BY <1>1, <2>1, DoomedCallback, States
  <2>3. PICK x : x = a.flags \cup ({a.header_state} \cap Flag)
    OBVIOUS
  <2>4. header_value(p, ch) = [a EXCEPT !.state = "header_field_start", !.flags = x]
    BY <1>4, <2>1, <2>3 DEF header_value, header_almost_done, CR, LF
  <2>5. PICK r : r = [a EXCEPT !.state = "header_field_start", !.flags = x]
    OBVIOUS
  <2>6. r.http = a.http /\ r.mark = a.mark
    BY <2>2, <2>5 DEF Parser
  <2>7. Marked(r) = {}
    BY <2>2, <2>6 DEF Marked
  <2> QED BY <1>2, <2>2, <2>4, <2>5, <2>6, <2>7, DoomedNow
<1>5. CASE ch \notin {CR, LF}
  <2>1. \/ header_value(p, ch) = p
        \/ header_value(p, ch) = Error(p)
        \/ \E n : header_value(p, ch) = [p EXCEPT !.content_length = n]
        \/ \E x : header_value(p, ch) = [p EXCEPT !.header_state = x]
    BY <1>5, Zenon DEF header_value
  <2>2. CASE header_value(p, ch) = p
    BY <1>1, <2>2, DoomedKept
  <2>3. CASE header_value(p, ch) = Error(p)
    BY <2>3, DoomedError
  <2>4. ASSUME NEW r \in Parser, r.http = p.http /\ r.mark = p.mark PROVE Doomed(r)
    BY <1>1, <2>4, DoomedKept
  <2>5. ASSUME NEW n, header_value(p, ch) = [p EXCEPT !.content_length = n] PROVE Doomed(header_value(p, ch))
    BY <1>1, <1>2, <2>4, <2>5 DEF Parser
  <2>6. ASSUME NEW x, header_value(p, ch) = [p EXCEPT !.header_state = x] PROVE Doomed(header_value(p, ch))
    BY <1>1, <1>2, <2>4, <2>6 DEF Parser
  <2> QED BY <2>1, <2>2, <2>3, <2>5, <2>6
<1> QED BY <1>3, <1>4, <1>5

\* A process the end of the data would stop reads no complete request.
LEMMA CharacterDoomed ==
  ASSUME NEW p, Good(p), ~Alive(Hand(p)), NEW ch \in STRING
  PROVE  Character(p, ch).ret = "error" \/ ~Alive(Hand(Character(p, ch)))
<1>1. CASE p.state \notin BodyStates /\ "trailing" \notin p.flags /\ p.nread >= HTTP_MAX_HEADER_SIZE
  <2>1. Character(p, ch) = Error(p)
    BY <1>1, CharacterIs
  <2>2. Error(p).ret = "error"
    BY DEF Error
  <2> QED BY <2>1, <2>2
<1>2. CASE ~(p.state \notin BodyStates /\ "trailing" \notin p.flags /\ p.nread >= HTTP_MAX_HEADER_SIZE)
  <2>1. PICK c : c = Counted(p)
    OBVIOUS
  <2>2. Good(c) /\ c.mark = p.mark /\ c.http = p.http /\ c.state = p.state
    BY <1>2, <2>1, CountedTyped
  <2>3. ~Alive(Hand(c))
    BY <2>2, HandDepends DEF Good
  <2>4. PICK r : r = Switch(c, ch)
    OBVIOUS
  <2>5. r \in Parser
    BY <2>2, <2>4, SwitchTyped
  <2>6. Doomed(r)
    <3>1. CASE c.state = "req_fragment"
      BY <2>2, <2>4, <3>1, DoomedFragment, SwitchLeads
    <3>2. CASE c.state = "header_field"
      BY <2>2, <2>3, <2>4, <3>2, DoomedField, SwitchLeads
    <3>3. CASE c.state = "header_value"
      BY <2>2, <2>3, <2>4, <3>3, DoomedValue, SwitchLeads
    <3> QED BY <2>2, <2>3, <3>1, <3>2, <3>3, DoomedIn
  <2>7. Character(p, ch) = Reached(r, ch)
    BY <1>2, <2>1, <2>4, CharacterIs
  <2> QED BY <2>5, <2>6, <2>7, DoomedLater
<1> QED BY <1>1, <1>2
-----------------------------------------------------------------------------
(* After the end of the request.                                           *)

LEMMA OverWaits ==
  ASSUME NEW u, Good(u), Over(u), NEW ch \in STRING, ch \in {CR, LF}
  PROVE  Over(Character(u, ch)) /\ Character(u, ch).http = u.http
<1> USE DEF Over, Done
<1>0. u \in Parser
  BY DEF Good
<1>1. Over(Error(u)) /\ Error(u).http = u.http
  <2>1. PICK e : e = Error(u)
    OBVIOUS
  <2>2. e.http = u.http /\ e.mark = u.mark /\ e.state = "dead"
    BY <1>0, <2>1 DEF Error, Parser
  <2>3. Marked(e) = Marked(u)
    BY <2>2 DEF Marked
  <2> QED BY <2>1, <2>2, <2>3
<1>2. CASE u.state \notin BodyStates /\ "trailing" \notin u.flags /\ u.nread >= HTTP_MAX_HEADER_SIZE
  <2>1. Character(u, ch) = Error(u)
    BY <1>2, CharacterIs
  <2> QED BY <1>1, <2>1
<1>3. CASE ~(u.state \notin BodyStates /\ "trailing" \notin u.flags /\ u.nread >= HTTP_MAX_HEADER_SIZE)
  <2>1. PICK c : c = Counted(u)
    OBVIOUS
  <2>2. Good(c) /\ c.mark = u.mark /\ c.http = u.http /\ c.state = u.state /\ c \in Parser
    BY <1>3, <2>1, CountedTyped DEF Good
  <2>3. Marked(c) = Marked(u)
    BY <2>2 DEF Marked
  <2>4. PICK r : r = Switch(c, ch)
    OBVIOUS
  <2>5. r \in Parser
    BY <2>2, <2>4, SwitchTyped
  <2>6. Over(r) /\ r.http = u.http
    <3>1. CASE u.state = "start_req"
      <4>1. r = start_req(c, ch)
        BY <2>2, <2>4, <3>1, SwitchLeads
      <4>2. start_req(c, ch) = c
        BY Characters DEF start_req
      <4> QED BY <2>2, <2>3, <4>1, <4>2
    <3>2. CASE u.state = "dead"
      <4>1. r = Error(c)
        BY <2>2, <2>4, <3>2, SwitchLeads
      <4>2. r.http = c.http /\ r.mark = c.mark /\ r.state = "dead"
        BY <2>2, <4>1 DEF Error, Parser
      <4>3. Marked(r) = Marked(c)
        BY <4>2 DEF Marked
      <4> QED BY <2>2, <2>3, <4>2, <4>3
    <3> QED BY <3>1, <3>2
  <2>7. Character(u, ch) = Reached(r, ch)
    BY <1>3, <2>1, <2>4, CharacterIs
  <2>8. Over(Reached(r, ch)) /\ Reached(r, ch).http = r.http
    BY <2>5, <2>6, ReachedTyped
  <2> QED BY <2>6, <2>7, <2>8
<1> QED BY <1>2, <1>3

\* Only the ends of lines may follow.
LEMMA OverTakes ==
  ASSUME NEW p, Good(p), Over(p), NEW ch \in STRING,
         Character(p, ch).ret # "error", Alive(Character(p, ch).http)
  PROVE  ch \in {CR, LF}
<1>1. \A x : Error(x).ret = "error"
  BY DEF Error
<1>2. ~(p.state \notin BodyStates /\ "trailing" \notin p.flags /\ p.nread >= HTTP_MAX_HEADER_SIZE)
  BY <1>1, CharacterIs
<1>3. PICK c : c = Counted(p)
  OBVIOUS
<1>4. Good(c) /\ c.mark = p.mark /\ c.http = p.http /\ c.state = p.state /\ c \in Parser
  BY <1>2, <1>3, CountedTyped DEF Good
<1>5. PICK r : r = Switch(c, ch)
  OBVIOUS
<1>6. Character(p, ch) = Reached(r, ch) /\ r \in Parser
  BY <1>2, <1>3, <1>4, <1>5, CharacterIs, SwitchTyped
<1>7. r.ret # "error" /\ Alive(r.http)
  <2>1. Reached(r, ch).ret = r.ret /\ Reached(r, ch).http = r.http
    BY <1>6, ReachedTyped
  <2> QED BY <1>6, <2>1
<1>8. c.state = "start_req"
  <2>1. c.state \in {"start_req", "dead"}
    BY <1>4 DEF Over
  <2>2. c.state # "dead"
    BY <1>1, <1>5, <1>7, SwitchLeads
  <2> QED BY <2>1, <2>2
<1>9. r = start_req(c, ch)
  BY <1>5, <1>8, SwitchLeads
<1>10. SUFFICES ASSUME ch \notin {CR, LF} PROVE FALSE
  OBVIOUS
<1>11. PICK h : h = message_begin_cb(c.http)
  OBVIOUS
<1>12. ~Alive(h)
  <2>1. c.http.m_state = "DONE" /\ c.http \in HTTPObject
    BY <1>4 DEF Good, Waits, Over, Done, Parser
  <2> QED BY <1>11, <2>1, MessageBeginTyped
<1>13. CASE ch \in FirstLetter
  <2>1. PICK n : n = -1
    OBVIOUS
  <2>2. r = [[c EXCEPT !.flags = {}, !.content_length = -1, !.http = message_begin_cb(@)] EXCEPT
               !.method = ch, !.state = "req_method"]
    BY <1>9, <1>13, Characters DEF start_req
  <2>3. r = [[c EXCEPT !.flags = {}, !.content_length = n, !.http = h] EXCEPT
               !.method = ch, !.state = "req_method"]
    BY <1>11, <2>1, <2>2
  <2>4. r.http = h
    BY <1>4, <2>3 DEF Parser
  <2> QED BY <1>7, <1>12, <2>4
<1>14. CASE ch \notin FirstLetter
  <2>1. \E x : r = Error(x)
    BY <1>9, <1>10, <1>14 DEF start_req
  <2> QED BY <1>1, <1>7, <2>1
<1> QED BY <1>13, <1>14
-----------------------------------------------------------------------------
(* The end of a read.                                                      *)

LEMMA ResumeTyped ==
  ASSUME NEW p, Good(p), NEW r, r = Resume(EndOfData(p))
  PROVE  /\ r \in Parser /\ Rest(p, r) /\ r.state = p.state /\ r.ret = p.ret /\ r.http = Hand(p)
         /\ Marked(r) = Marked(p) /\ Marked(p) = Open(p.state) /\ Waits(r)
         /\ \A f \in Marked(p) : r.mark[f] = <<>>
<1>1. p \in Parser /\ Marked(p) = Open(p.state)
  BY DEF Good, Waits
<1>2. PICK e : e = EndOfData(p)
  OBVIOUS
<1>3. /\ e \in Parser /\ Rest(p, e) /\ e.ret = p.ret /\ e.state = p.state /\ e.http = Hand(p)
      /\ Done(e) <=> Done(p)
      /\ p.http.m_state = "DONE" => e.http.m_state = "DONE"
  BY <1>1, <1>2, EndIs DEF Hand
<1>4. PICK w : w = <<>>
  OBVIOUS
<1>5. w \in Word /\ w # Null
  BY <1>4, WordsJoin, NullIsNoWord
<1>6. PICK m : m = [f \in Fields |->
         CASE f = "url" /\ e.state \in {"req_path", "req_schema", "req_schema_slash",
                     "req_schema_slash_slash", "req_host", "req_port", "req_query_string_start",
                     "req_query_string", "req_fragment_start", "req_fragment"} -> w
           [] f = "path" /\ e.state = "req_path" -> w
           [] f = "query_string" /\ e.state = "req_query_string" -> w
           [] f = "fragment" /\ e.state = "req_fragment" -> w
           [] f \in {"header_field", "header_value"} /\ e.state = f -> w
           [] OTHER -> Null]
  OBVIOUS
<1>7. r = [e EXCEPT !.mark = m]
  BY <1>2, <1>4, <1>6 DEF Resume
<1>8. \A f \in Fields : m[f] = IF f \in Open(e.state) THEN w ELSE Null
  <2>1. ASSUME NEW f \in Fields PROVE m[f] = IF f \in Open(e.state) THEN w ELSE Null
    <3>1. CASE f = "url"
      BY <1>6, <3>1 DEF Open, TargetStates
    <3>2. CASE f = "path"
      BY <1>6, <3>2 DEF Open
    <3>3. CASE f = "query_string"
      BY <1>6, <3>3 DEF Open
    <3>4. CASE f = "fragment"
      BY <1>6, <3>4 DEF Open
    <3>5. CASE f = "header_field"
      BY <1>6, <3>5 DEF Open
    <3>6. CASE f = "header_value"
      BY <1>6, <3>6 DEF Open
    <3> QED BY <3>1, <3>2, <3>3, <3>4, <3>5, <3>6 DEF Fields
  <2> QED BY <2>1
<1>9. m \in [Fields -> Word \cup {Null}]
  <2>1. \A f \in Fields : m[f] \in Word \cup {Null}
    BY <1>5, <1>8
  <2>2. PICK g : g = [f \in Fields |-> m[f]]
    OBVIOUS
  <2>3. m = g
    BY <1>6, <2>2
  <2> QED BY <2>1, <2>2, <2>3
<1>10. /\ r \in Parser /\ Rest(e, r) /\ r.state = e.state /\ r.ret = e.ret /\ r.http = e.http /\ r.mark = m
  BY <1>3, <1>7, <1>9 DEF Parser, Rest
<1>11. Marked(r) = Open(p.state)
  <2>1. Open(p.state) \subseteq Fields
    BY DEF Open, Fields
  <2> QED BY <1>3, <1>5, <1>8, <1>10, <2>1 DEF Marked
<1>12. \A f \in Marked(p) : r.mark[f] = w
  <2>1. Open(p.state) \subseteq Fields
    BY DEF Open, Fields
  <2> QED BY <1>1, <1>3, <1>8, <1>10, <2>1
<1>13. Waits(r)
  <2>1. (Done(r) <=> Done(p)) /\ r.state = p.state /\ r.ret = p.ret /\ r.content_length = p.content_length
    BY <1>3, <1>10 DEF Done, Rest
  <2>2. p.http.m_state = "DONE" => r.http.m_state = "DONE"
    BY <1>3, <1>10
  <2> QED BY <1>11, <2>1, <2>2 DEF Good, Waits
<1> QED BY <1>1, <1>3, <1>4, <1>10, <1>11, <1>12, <1>13 DEF Rest

\* The object is the same wherever the read ends.
LEMMA ResumeHand ==
  ASSUME NEW p, Good(p), Alive(Hand(p)), NEW r, r = Resume(EndOfData(p))
  PROVE  Hand(r) = Hand(p)
<1>1. /\ r \in Parser /\ r.http = Hand(p) /\ Marked(r) = Marked(p)
      /\ \A f \in Marked(p) : r.mark[f] = <<>>
  BY ResumeTyped
<1>2. p \in Parser /\ p.http \in HTTPObject /\ Alive(p.http) /\ p.ret # "error" /\ Waits(p)
  BY DEF Good, Parser
<1>3. Marked(p) \in Shape
  BY <1>2, WaitsShape
<1>4. PICK w : w = <<>>
  OBVIOUS
<1>5. w \in Word /\ \A a \in Word : a \o w = a
  BY <1>4, WordsJoin
<1>6. CASE Marked(p) = {}
  BY <1>1, <1>6, HandIs
<1>7. ASSUME NEW f \in Fields, Marked(p) = {f} PROVE Hand(r) = Hand(p)
  <2>1. PICK m : m = p.mark[f]
    OBVIOUS
  <2>2. m \in Word
    BY <1>2, <1>7, <2>1 DEF Marked, Parser
  <2>3. Hand(p) = Called(p.http, f, m)
    BY <1>2, <1>7, <2>1, HandIs
  <2>4. Hand(r) = Called(Hand(p), f, w)
    BY <1>1, <1>4, <1>7, HandIs
  <2>5. Called(Called(p.http, f, m), f, w) = Called(p.http, f, m \o w)
    BY <1>2, <1>5, <2>2, <2>3, CalledTwice
  <2> QED BY <1>5, <2>2, <2>3, <2>4, <2>5
<1>8. ASSUME NEW f \in {"path", "query_string"}, Marked(p) = {"url", f} PROVE Hand(r) = Hand(p)
  <2>1. PICK m, n : m = p.mark[f] /\ n = p.mark["url"]
    OBVIOUS
  <2>2. f \in Fields /\ "url" \in Fields
    BY DEF Fields
  <2>3. m \in Word /\ n \in Word
    BY <1>2, <1>8, <2>1, <2>2 DEF Marked, Parser
  <2>4. PICK h, g, k : h = p.http /\ g = Called(h, "url", n) /\ k = Called(h, f, m)
    OBVIOUS
  <2>5. h \in HTTPObject /\ Alive(h)
    BY <1>2, <2>4
  <2>6. g \in HTTPObject /\ Alive(g) /\ k \in HTTPObject /\ Alive(k)
    BY <2>2, <2>3, <2>4, <2>5, CalledTyped, UrlCommutes
  <2>7. PICK H : H = Hand(p)
    OBVIOUS
  <2>8. H = Called(k, "url", n)
    BY <1>2, <1>8, <2>1, <2>4, <2>7, HandIs
  <2>9. H = Called(g, f, m)
    BY <2>3, <2>4, <2>5, <2>8, UrlCommutes
  <2>10. Alive(H)
    BY <2>7
  <2>11. Called(H, f, w) = H
    <3>1. Called(Called(g, f, m), f, w) = Called(g, f, m \o w)
      BY <1>5, <2>2, <2>3, <2>6, <2>9, <2>10, CalledTwice
    <3> QED BY <1>5, <2>3, <2>9, <3>1
  <2>12. Called(H, "url", w) = H
    <3>1. Called(Called(k, "url", n), "url", w) = Called(k, "url", n \o w)
      BY <1>5, <2>2, <2>3, <2>6, <2>8, <2>10, CalledTwice
    <3> QED BY <1>5, <2>3, <2>8, <3>1
  <2>13. Hand(r) = Called(Called(H, f, w), "url", w)
    <3>1. r.mark[f] = w /\ r.mark["url"] = w
      BY <1>1, <1>4, <1>8
    <3> QED BY <1>1, <1>8, <2>7, <3>1, HandIs
  <2> QED BY <2>7, <2>11, <2>12, <2>13
<1> QED BY <1>3, <1>6, <1>7, <1>8 DEF Shape

LEMMA ResumeAlike ==
  ASSUME NEW p, NEW u, Twins(p, u), NEW r, r = Resume(EndOfData(p))
  PROVE  Alike(r, u) /\ Alive(Hand(r))
<1>1. Good(p) /\ Alive(Hand(p)) /\ Alike(p, u)
  BY DEF Twins
<1>2. Rest(p, r) /\ r.state = p.state /\ r.ret = p.ret /\ Marked(r) = Marked(p)
  BY <1>1, ResumeTyped
<1>3. Hand(r) = Hand(p)
  BY <1>1, ResumeHand
<1> QED BY <1>1, <1>2, <1>3 DEF Alike, Rest
-----------------------------------------------------------------------------
(* The parser of a request that comes in one read.                         *)

LEMMA LeastOf ==
  ASSUME NEW S, S \subseteq Nat, S # {}
  PROVE  \E x \in S : \A y \in S : x <= y
<1> DEFINE R == {ss \in Nat \X Nat : ss[1] < ss[2]}
<1>1. IsWellFoundedOn(R, Nat)
  BY NatLessThanWellFounded, Zenon DEF OpToRel
<1>2. \E x \in S : \A y \in S : ~(<<y, x>> \in R)
  <2> HIDE DEF R
  <2> QED BY <1>1, WFMin
<1>3. PICK x \in S : \A y \in S : ~(y < x)
  BY <1>2
<1>4. \A y \in S : x <= y
  BY <1>3
<1> QED BY <1>4

\* A function defined by its value at 0 and by each value's successor.
StepByStep(f, N, S, a, step) ==
  /\ f \in [0 .. N -> S]
  /\ f = [n \in 0 .. N |-> IF n = 0 THEN a ELSE step[<<n, f[n - 1]>>]]

LEMMA DefinedStepByStep ==
  ASSUME NEW N \in Nat, NEW S, NEW a \in S, NEW step \in [(1 .. N) \X S -> S]
  PROVE  \E f : StepByStep(f, N, S, a, step)
<1> DEFINE Upto(f, m) ==
             f \in [0 .. m -> S] /\ f[0] = a /\ \A n \in 1 .. m : f[n] = step[<<n, f[n - 1]>>]
           Missing == {m \in Nat : m <= N /\ ~\E f : Upto(f, m)}
<1>1. ASSUME Missing # {} PROVE FALSE
  <2>1. PICK m \in Missing : \A j \in Missing : m <= j
    <3>1. Missing \subseteq Nat
      OBVIOUS
    <3> HIDE DEF Missing
    <3> QED BY <1>1, <3>1, LeastOf
  <2>2. m \in Nat /\ m <= N /\ ~\E f : Upto(f, m)
    OBVIOUS
  <2>3. m # 0
    <3>1. Upto([n \in 0 .. 0 |-> a], 0)
      OBVIOUS
    <3> QED BY <2>2, <3>1
  <2>4. m - 1 \in Nat /\ m - 1 <= N /\ m - 1 \notin Missing
    <3> HIDE DEF Missing
    <3> QED BY <2>1, <2>2, <2>3
  <2>5. PICK f : Upto(f, m - 1)
    BY <2>4
  <2> DEFINE g == [n \in 0 .. m |-> IF n = m THEN step[<<m, f[m - 1]>>] ELSE f[n]]
  <2>6. m - 1 \in 0 .. m - 1 /\ m \in 1 .. N
    BY <2>2, <2>3
  <2>7. step[<<m, f[m - 1]>>] \in S
    <3>1. f[m - 1] \in S
      BY <2>5, <2>6
    <3> QED BY <2>6, <3>1
  <2>8. \A n \in 0 .. m : n # m => n \in 0 .. m - 1
    BY <2>2
  <2>9. g \in [0 .. m -> S] /\ g[0] = a
    <3>1. 0 \in 0 .. m
      BY <2>2
    <3> QED BY <2>3, <2>5, <2>7, <2>8, <3>1
  <2>10. ASSUME NEW n \in 1 .. m PROVE g[n] = step[<<n, g[n - 1]>>]
    <3>1. n \in 0 .. m /\ n - 1 \in 0 .. m /\ n - 1 # m
      BY <2>2
    <3>2. CASE n = m
      BY <3>1, <3>2
    <3>3. CASE n # m
      <4>1. n \in 1 .. m - 1
        BY <2>2, <3>3
      <4> QED BY <2>5, <3>1, <3>3, <4>1
    <3> QED BY <3>2, <3>3
  <2>11. Upto(g, m)
    <3> HIDE DEF g
    <3> QED BY <2>9, <2>10
  <2> QED BY <2>2, <2>11
<1>2. PICK f : Upto(f, N)
  <2>1. N \notin Missing
    <3> HIDE DEF Missing
    <3> QED BY <1>1
  <2> QED BY <2>1
<1>3. \A n \in 0 .. N : n # 0 => n \in 1 .. N
  OBVIOUS
<1>4. f = [n \in 0 .. N |-> IF n = 0 THEN a ELSE step[<<n, f[n - 1]>>]]
  BY <1>2, <1>3
<1> QED BY <1>2, <1>4 DEF StepByStep

LEMMA NewTyped ==
  ASSUME NEW major \in Nat
  PROVE  Good(NewParser(major)) /\ Marked(NewParser(major)) = {} /\ NewParser(major).http = NewHTTP
<1>1. PICK p : p = NewParser(major)
  OBVIOUS
<1>2. NewHTTP \in HTTPObject /\ Alive(NewHTTP) /\ ~NewHTTP.m_doneParsing
  <2>1. <<>> \in Word /\ <<>> \in Seq(Word \X Word)
    BY WordsJoin, SequencesJoin
  <2> QED BY <2>1 DEF NewHTTP, HTTPObject, Alive
<1>3. PICK n, m : n = -1 /\ m = [f \in Fields |-> Null]
  OBVIOUS
<1>4. n \in Int /\ m \in [Fields -> Word \cup {Null}] /\ \A f \in Fields : m[f] = Null
  BY <1>3
<1>5. 0 \in 0 .. HTTP_MAX_HEADER_SIZE
  BY HeaderSizeAssumption
<1>6. /\ p.state = "start_req" /\ p.header_state = "general" /\ p.flags = {} /\ p.content_length = n
      /\ p.major = major /\ p.minor = 0 /\ p.method = Null /\ p.nread = 0 /\ p.ret = "none"
      /\ p.mark = m /\ p.http = NewHTTP
  BY <1>1, <1>3 DEF NewParser
<1>7. p \in Parser
  <2>1. p = [state |-> "start_req", header_state |-> "general", flags |-> {}, content_length |-> n,
             major |-> major, minor |-> 0, method |-> Null, nread |-> 0, ret |-> "none",
             mark |-> m, http |-> NewHTTP]
    BY <1>1, <1>3 DEF NewParser
  <2> QED BY <1>2, <1>4, <1>5, <2>1, States DEF Parser, HeaderState, AnyMethod
<1>8. Marked(p) = {}
  BY <1>4, <1>6 DEF Marked
<1>9. Waits(p)
  BY <1>2, <1>6, <1>8, States DEF Waits, Done
<1> QED BY <1>1, <1>2, <1>6, <1>7, <1>8, <1>9 DEF Good

\* The parsers there are.
Parsers == {p \in Parser : Waits(p)}

Taken(p, ch) == IF p.ret = "none" /\ Alive(p.http) THEN Character(p, ch) ELSE p

LEMMA UnbrokenIs ==
  ASSUME sent \in Requests
  PROVE  /\ Unbroken \in [0 .. Len(sent.bytes) -> Parsers]
         /\ Unbroken[0] = NewParser(0)
         /\ \A n \in 1 .. Len(sent.bytes) : Unbroken[n] = Taken(Unbroken[n - 1], sent.bytes[n])
<1> DEFINE bytes == sent.bytes
           N == Len(bytes)
           step == [x \in (1 .. N) \X Parsers |-> Taken(x[2], bytes[x[1]])]
           Next1(f, n) == LET p == f[n - 1]
                          IN  IF p.ret = "none" /\ Alive(p.http) THEN Character(p, bytes[n]) ELSE p
           F(f) == [n \in 0 .. N |-> IF n = 0 THEN NewParser(0) ELSE Next1(f, n)]
<1>1. bytes \in Seq(STRING) /\ N \in Nat /\ \A n \in 1 .. N : bytes[n] \in STRING
  BY RequestsAssumption
<1>2. \A p \in Parsers, n \in 1 .. N : Taken(p, bytes[n]) \in Parsers
  <2>1. ASSUME NEW p \in Parsers, NEW n \in 1 .. N PROVE Taken(p, bytes[n]) \in Parsers
    <3>1. CASE p.ret = "none" /\ Alive(p.http)
      <4>1. Good(p)
        BY <3>1 DEF Good, Parsers
      <4>2. Taken(p, bytes[n]) = Character(p, bytes[n])
        BY <3>1 DEF Taken
      <4> QED BY <1>1, <4>1, <4>2, CharacterTyped DEF Parsers
    <3>2. CASE ~(p.ret = "none" /\ Alive(p.http))
      BY <3>2 DEF Taken
    <3> QED BY <3>1, <3>2
  <2> QED BY <2>1
<1>3. NewParser(0) \in Parsers
  BY NewTyped DEF Good, Parsers
<1>4. step \in [(1 .. N) \X Parsers -> Parsers]
  <2> HIDE DEF bytes, N
  <2> QED BY <1>2
<1>5. PICK f : /\ f \in [0 .. N -> Parsers]
               /\ f = [n \in 0 .. N |-> IF n = 0 THEN NewParser(0) ELSE step[<<n, f[n - 1]>>]]
  <2> HIDE DEF step, bytes, N
  <2>1. PICK f : StepByStep(f, N, Parsers, NewParser(0), step)
    BY <1>1, <1>3, <1>4, DefinedStepByStep
  <2> QED BY <2>1 DEF StepByStep
<1>6. \A n \in 1 .. N : n - 1 \in 0 .. N /\ f[n - 1] \in Parsers /\ n \in 0 .. N /\ n # 0
  <2> HIDE DEF bytes, N, step
  <2>1. \A n \in 1 .. N : n - 1 \in 0 .. N /\ n \in 0 .. N /\ n # 0
    BY <1>1
  <2> QED BY <1>5, <2>1
<1>7. \A n \in 1 .. N : step[<<n, f[n - 1]>>] = Next1(f, n)
  <2> HIDE DEF bytes, N
  <2> QED BY <1>6 DEF Taken
<1>8. f = F(f)
  <2>1. \A n \in 0 .. N : n # 0 => n \in 1 .. N
    <3> HIDE DEF bytes, N
    <3> QED BY <1>1
  <2> HIDE DEF bytes, N, step, Next1
  <2> QED BY <1>5, <1>7, <2>1
<1>9. Unbroken = CHOOSE g : g = F(g)
  BY DEF Unbroken
<1>10. Unbroken = F(Unbroken)
  <2> HIDE DEF F
  <2> QED BY <1>8, <1>9
<1> HIDE DEF F
<1>11. DOMAIN Unbroken = 0 .. N /\ Unbroken[0] = NewParser(0)
  <2> HIDE DEF bytes, N, Next1
  <2> QED BY <1>1, <1>10 DEF F
<1>12. ASSUME NEW n \in 1 .. N PROVE Unbroken[n] = Taken(Unbroken[n - 1], bytes[n])
  <2>1. n \in 0 .. N /\ n # 0
    <3> HIDE DEF bytes, N
    <3> QED BY <1>1
  <2>2. Unbroken[n] = Next1(Unbroken, n)
    <3> HIDE DEF bytes, N, Next1
    <3> QED BY <1>10, <2>1 DEF F
  <2> QED BY <2>2 DEF Taken
<1> HIDE DEF bytes, N
<1>13. \A n \in 0 .. N : Unbroken[n] \in Parsers
  <2> DEFINE Wrong == {n \in 0 .. N : Unbroken[n] \notin Parsers}
  <2>1. SUFFICES ASSUME Wrong # {} PROVE FALSE
    OBVIOUS
  <2>2. PICK n \in Wrong : \A j \in Wrong : n <= j
    <3>1. Wrong \subseteq Nat
      BY <1>1
    <3> HIDE DEF Wrong
    <3> QED BY <2>1, <3>1, LeastOf
  <2>3. n \in 0 .. N /\ Unbroken[n] \notin Parsers
    OBVIOUS
  <2>4. n \in 1 .. N /\ n - 1 \in 0 .. N
    <3>1. n # 0
      BY <1>3, <1>11, <2>3
    <3> QED BY <1>1, <2>3, <3>1
  <2>5. Unbroken[n - 1] \in Parsers
    <3>1. n - 1 \notin Wrong
      <4> HIDE DEF Wrong
      <4> QED BY <2>2, <2>4
    <3> QED BY <2>4, <3>1
  <2> QED BY <1>2, <1>12, <2>3, <2>4, <2>5
<1>14. Unbroken = [n \in 0 .. N |-> Unbroken[n]]
  <2> HIDE DEF Next1
  <2> QED BY <1>10 DEF F
<1>15. Unbroken \in [0 .. N -> Parsers]
  BY <1>13, <1>14
<1> QED BY <1>11, <1>12, <1>15 DEF N, bytes
-----------------------------------------------------------------------------
(* The invariant.                                                          *)

LEMMA UnbrokenStays ==
  ASSUME sent' = sent
  PROVE  Unbroken' = Unbroken
  BY DEF Unbroken

LEMMA CharacterFollows ==
  ASSUME NEW p, Good(p), NEW u, NEW ch \in STRING, Alive(Hand(p)) => Follows(p, u),
         NEW r, r = Character(p, ch), r.ret # "error", Alive(r.http), Alive(Hand(r))
  PROVE  Follows(r, Taken(u, ch))
<1>1. Alive(Hand(p))
  BY CharacterDoomed
<1>2. u \in Parser /\ Waits(u) /\ Alive(u.http)
  BY <1>1 DEF Follows
<1>3. PICK v : v = Taken(u, ch)
  OBVIOUS
<1>4. u.ret = "none" => Good(u) /\ v = Character(u, ch)
  BY <1>2, <1>3 DEF Good, Taken
<1>5. u.ret # "none" => v = u
  BY <1>3 DEF Taken
<1>6. v \in Parser /\ Waits(v)
  BY <1>2, <1>4, <1>5, CharacterTyped
<1>7. CASE Alike(p, u)
  <2>1. u.ret = "none"
    BY <1>7 DEF Alike, Good
  <2>2. Twins(p, u)
    BY <1>1, <1>4, <1>7, <2>1 DEF Twins
  <2>3. Agree(r, v)
    BY <1>4, <2>1, <2>2, CharacterAgrees
  <2>4. CASE Alike(r, v)
    <3>1. Alive(Hand(v)) /\ v.ret # "error"
      BY <2>4 DEF Alike
    <3>2. Alive(v.http)
      BY <1>6, <3>1, WaitsShape
    <3> QED BY <1>3, <1>6, <2>4, <3>2 DEF Follows
  <2>5. CASE Over(r) /\ Over(v) /\ r.http = v.http
    BY <1>3, <1>6, <2>5 DEF Follows
  <2> QED BY <2>3, <2>4, <2>5 DEF Agree
<1>8. CASE Over(p) /\ Over(u) /\ p.http = u.http
  <2>1. ch \in {CR, LF}
    BY <1>8, OverTakes
  <2>2. Over(r) /\ r.http = p.http
    BY <1>8, <2>1, OverWaits
  <2>3. Over(v) /\ v.http = u.http
    BY <1>4, <1>5, <1>8, <2>1, OverWaits
  <2> QED BY <1>3, <1>6, <1>8, <2>2, <2>3 DEF Follows
<1> QED BY <1>1, <1>7, <1>8 DEF Follows

\* The request complete, the two objects are one.
LEMMA FollowsEnds ==
  ASSUME NEW p \in Parser, NEW u, Follows(p, u)
  PROVE  Hand(p) = Hand(u)
<1>1. u \in Parser
  BY DEF Follows
<1>2. CASE Alike(p, u)
  BY <1>2 DEF Alike
<1>3. CASE Over(p) /\ Over(u) /\ p.http = u.http
  BY <1>1, <1>3, HandIs DEF Over
<1> QED BY <1>2, <1>3 DEF Follows

LEMMA InitHolds ==
  ASSUME RequestInit
  PROVE  RequestInv
<1>1. PICK major \in Major : parser = NewParser(major)
  BY DEF RequestInit
<1>2. major \in Nat /\ 0 \in Nat
  BY MajorAssumption
<1>3. sent \in Requests /\ at = 0 /\ fresh = TRUE /\ outcome = "reading"
  BY DEF RequestInit
<1>4. Unbroken[0] = NewParser(0)
  BY <1>3, UnbrokenIs
<1>5. PICK u : u = NewParser(0)
  OBVIOUS
<1>6. /\ Good(parser) /\ Good(u) /\ Marked(parser) = {} /\ Marked(u) = {} /\ parser.http = u.http
  BY <1>1, <1>2, <1>5, NewTyped
<1>7. Even(parser, u)
  BY <1>1, <1>5 DEF Even, NewParser
<1>8. Follows(parser, u)
  <2>1. Alike(parser, u)
    BY <1>6, <1>7, AlikePlain DEF Good
  <2> QED BY <1>6, <2>1 DEF Good, Follows
<1>9. ReadingInv
  BY <1>3, <1>4, <1>5, <1>6, <1>8 DEF ReadingInv, Good
<1>10. TypeOK
  <2>1. at \in 0 .. Len(sent.bytes)
    BY <1>3, RequestsAssumption
  <2>2. parser \in Parser /\ Waits(parser) /\ parser.http \in HTTPObject
    BY <1>6 DEF Good, Parser
  <2> QED BY <1>3, <2>1, <2>2 DEF TypeOK, Parser, Waits, HTTPObject
<1>11. CutsDoNotMatter
  BY <1>3 DEF CutsDoNotMatter
<1> QED BY <1>3, <1>6, <1>9, <1>10, <1>11 DEF RequestInv, Good

\* The types of a parser and of what has become of the connection.
LEMMA TypesHold ==
  ASSUME parser \in Parser, Waits(parser), at \in 0 .. Len(sent.bytes), fresh \in BOOLEAN,
         outcome \in {"reading", "done", "unread"} \cup Assertions
  PROVE  TypeOK
<1>1. parser.http \in HTTPObject
  BY DEF Parser
<1> QED BY <1>1 DEF TypeOK, Parser, Waits, HTTPObject

LEMMA ByteKeeps ==
  ASSUME RequestInv, Byte
  PROVE  RequestInv'
<1>1. outcome = "reading" /\ sent' = sent /\ at' = at + 1 /\ fresh' = FALSE /\ sent \in Requests
  BY DEF Byte, RequestInv
<1>2. PICK N : N = Len(sent.bytes)
  OBVIOUS
<1>3. N \in Nat /\ at \in 0 .. N /\ at < N /\ \A n \in 1 .. N : sent.bytes[n] \in STRING
  BY <1>1, <1>2, RequestsAssumption DEF Byte, RequestInv, TypeOK
<1>4. at + 1 \in 1 .. N /\ (at + 1) - 1 = at /\ at + 1 \in 0 .. N
  BY <1>3
<1>5. PICK ch : ch = sent.bytes[at + 1]
  OBVIOUS
<1>6. ch \in STRING
  BY <1>3, <1>4, <1>5
<1>7. Good(parser) /\ (Alive(Hand(parser)) => Follows(parser, Unbroken[at]))
  BY <1>1 DEF ReadingInv, RequestInv, Good
<1>8. PICK p : p = Character(parser, ch)
  OBVIOUS
<1>9. p \in Parser /\ Waits(p) /\ parser' = p /\ p.http \in HTTPObject
  <2>1. p \in Parser /\ Waits(p)
    BY <1>6, <1>7, <1>8, CharacterTyped
  <2> QED BY <1>5, <1>8, <2>1 DEF Byte, Parser
<1>10. \E more \in BOOLEAN :
         outcome' = IF ~Alive(p.http) THEN p.http.failed
                    ELSE IF p.ret # "none" THEN Returned(p, more) ELSE "reading"
  BY <1>5, <1>8 DEF Byte
<1>11. ~Alive(p.http) => outcome' \in Assertions
  BY <1>9, <1>10 DEF HTTPObject, Alive
<1>12. \A x : /\ Returned(p, x) \in {"done", "HTTPRequest.cpp:108", "HTTPRequest.cpp:119"}
              /\ Returned(p, x) = "done" => p.ret = "upgrade"
  BY DEF Returned
<1>13. outcome' = "reading" => Alive(p.http) /\ p.ret = "none"
  BY <1>10, <1>11, <1>12 DEF Assertions
<1>14. outcome' = "done" => Alive(p.http) /\ p.ret = "upgrade"
  <2>1. outcome' = "done" => Alive(p.http)
    BY <1>11 DEF Assertions
  <2> QED BY <1>10, <1>12, <2>1
<1>15. Unbroken'[at'] = Taken(Unbroken[at], ch)
  BY <1>1, <1>2, <1>4, <1>5, UnbrokenIs, UnbrokenStays
<1>16. p.ret # "error" /\ Alive(p.http) /\ Alive(Hand(p)) => Follows(p, Unbroken'[at'])
  BY <1>6, <1>7, <1>8, <1>15, CharacterFollows
<1>17. ReadingInv'
  BY <1>9, <1>13, <1>16 DEF ReadingInv
<1>18. CutsDoNotMatter'
  <2>1. SUFFICES ASSUME outcome' = "done" PROVE parser'.http = Hand(Unbroken'[at'])
    BY DEF CutsDoNotMatter, Uncut, Hand
  <2>2. Marked(p) = {}
    <3>1. p.state \in {"headers_almost_done", "header_field_start"} /\ Marked(p) = Open(p.state)
      BY <1>9, <1>14, <2>1 DEF Waits
    <3> QED BY <3>1, Places
  <2>3. Hand(p) = p.http /\ Alive(Hand(p))
    BY <1>9, <1>14, <2>1, <2>2, HandIs
  <2>4. Follows(p, Unbroken'[at'])
    BY <1>14, <1>16, <2>1, <2>3
  <2> QED BY <1>9, <2>3, <2>4, FollowsEnds
<1>19. TypeOK'
  <2>1. outcome' \in {"reading", "done", "unread"} \cup Assertions
    BY <1>10, <1>11, <1>12 DEF Assertions
  <2>2. at' \in 0 .. Len(sent'.bytes)
    BY <1>1, <1>2, <1>4
  <2> QED BY <1>1, <1>9, <2>1, <2>2, TypesHold DEF TypeOK, Parser, Waits, HTTPObject
<1> QED BY <1>1, <1>9, <1>17, <1>18, <1>19 DEF RequestInv

LEMMA EndOfReadKeeps ==
  ASSUME RequestInv, EndOfRead
  PROVE  RequestInv'
<1>1. outcome = "reading" /\ sent' = sent /\ at' = at /\ fresh' = TRUE /\ sent \in Requests
  BY DEF EndOfRead, RequestInv
<1>2. Good(parser) /\ (Alive(Hand(parser)) => Follows(parser, Unbroken[at]))
  BY <1>1 DEF ReadingInv, RequestInv, Good
<1>3. PICK p : p = Resume(EndOfData(parser))
  OBVIOUS
<1>4. parser' = p
  BY <1>3 DEF EndOfRead
<1>5. PICK h : h = Hand(parser)
  OBVIOUS
<1>6. outcome' = IF ~Alive(h) THEN h.failed ELSE IF h.m_doneParsing THEN "done" ELSE "reading"
  BY <1>5 DEF EndOfRead, Hand, Done
<1>7. parser \in Parser
  BY <1>2 DEF Good
<1>8. p \in Parser /\ Waits(p) /\ p.http = h /\ p.ret = "none"
  BY <1>2, <1>3, <1>5, ResumeTyped DEF Good
<1>9. h \in HTTPObject /\ h.m_doneParsing = parser.http.m_doneParsing
  BY <1>5, <1>7, HandTyped
<1>10. ~Alive(h) => outcome' \in Assertions
  BY <1>6, <1>9 DEF HTTPObject, Alive
<1>11. outcome' \in {"reading", "done"} => Alive(h)
  BY <1>10 DEF Assertions
<1>12. Unbroken'[at'] = Unbroken[at]
  BY <1>1, UnbrokenStays
<1>13. outcome' = "reading" => Follows(p, Unbroken'[at'])
  <2>1. SUFFICES ASSUME outcome' = "reading" PROVE Follows(p, Unbroken[at])
    BY <1>12
  <2>2. Alive(h) /\ ~parser.http.m_doneParsing
    BY <1>6, <1>9, <1>11, <2>1
  <2>3. Follows(parser, Unbroken[at]) /\ ~Over(parser)
    BY <1>2, <1>5, <2>2 DEF Over, Done
  <2>4. PICK u : u = Unbroken[at]
    OBVIOUS
  <2>5. u \in Parser /\ Waits(u) /\ Alive(u.http) /\ Alike(parser, u)
    BY <2>3, <2>4 DEF Follows
  <2>6. Twins(parser, u)
    <3>1. u.ret = "none"
      BY <1>2, <2>5 DEF Alike, Good
    <3> QED BY <1>2, <1>5, <2>2, <2>5, <3>1 DEF Twins, Good
  <2>7. Alike(p, u)
    BY <1>3, <2>6, ResumeAlike
  <2> QED BY <2>4, <2>5, <2>7 DEF Follows
<1>14. ReadingInv'
  BY <1>4, <1>8, <1>11, <1>13 DEF ReadingInv
<1>15. CutsDoNotMatter'
  <2>1. SUFFICES ASSUME outcome' = "done" PROVE parser'.http = Hand(Unbroken'[at'])
    BY DEF CutsDoNotMatter, Uncut, Hand
  <2>2. Follows(parser, Unbroken[at])
    BY <1>2, <1>5, <1>11, <2>1
  <2>3. Hand(parser) = Hand(Unbroken[at])
    BY <1>7, <2>2, FollowsEnds
  <2> QED BY <1>4, <1>5, <1>8, <1>12, <2>3
<1>16. TypeOK'
  <2>1. outcome' \in {"reading", "done", "unread"} \cup Assertions
    BY <1>6, <1>10
  <2>2. at' \in 0 .. Len(sent'.bytes)
    BY <1>1 DEF RequestInv, TypeOK
  <2> QED BY <1>1, <1>4, <1>8, <2>1, <2>2 DEF TypeOK, Parser, Waits, HTTPObject
<1> QED BY <1>1, <1>4, <1>8, <1>14, <1>15, <1>16 DEF RequestInv

LEMMA RequestKeeps ==
  ASSUME RequestInv, [RequestNext]_requestvars
  PROVE  RequestInv'
<1>1. CASE Byte
  BY <1>1, ByteKeeps
<1>2. CASE EndOfRead
  BY <1>2, EndOfReadKeeps
<1>3. CASE ReadError
  <2>1. /\ sent' = sent /\ at' = at /\ fresh' = fresh /\ parser' = parser /\ outcome' = "unread"
    BY <1>3 DEF ReadError
  <2>2. ReadingInv' /\ CutsDoNotMatter'
    BY <2>1 DEF ReadingInv, CutsDoNotMatter
  <2>3. TypeOK'
    BY <2>1 DEF RequestInv, TypeOK
  <2> QED BY <2>1, <2>2, <2>3 DEF RequestInv
<1>4. CASE UNCHANGED requestvars
  <2>1. sent' = sent /\ at' = at /\ fresh' = fresh /\ parser' = parser /\ outcome' = outcome
    BY <1>4 DEF requestvars
  <2>2. Unbroken' = Unbroken
    BY <2>1, UnbrokenStays
  <2>3. ReadingInv' /\ CutsDoNotMatter'
    BY <2>1, <2>2 DEF RequestInv, ReadingInv, CutsDoNotMatter, Uncut
  <2>4. TypeOK'
    BY <2>1 DEF RequestInv, TypeOK
  <2> QED BY <2>1, <2>3, <2>4 DEF RequestInv
<1> QED BY <1>1, <1>2, <1>3, <1>4 DEF RequestNext

LEMMA RequestInvariant == RequestSpec => []RequestInv
<1>1. RequestInit => RequestInv
  BY InitHolds
<1>2. RequestInv /\ [RequestNext]_requestvars => RequestInv'
  BY RequestKeeps
<1> QED BY <1>1, <1>2, PTL DEF RequestSpec

\* While a request is read, the parser is inside a body only while some of it
\* is to come, counts no more header characters than it accepts, and stops
\* at an assertion the source has (HTTPRequest::readRequest with
\* http_parser_execute).
THEOREM RequestTypes == RequestSpec => []TypeOK
<1>1. RequestInv => TypeOK
  BY DEF RequestInv
<1> QED BY <1>1, RequestInvariant, PTL

\* A request is parsed to the same object wherever its reads end: for any
\* bytes at all, when readRequest() returns a complete request it is the one
\* that http_parser_execute() makes of the same bytes in a single call.
THEOREM CutsAreHarmless == RequestSpec => []CutsDoNotMatter
<1>1. RequestInv => CutsDoNotMatter
  BY DEF RequestInv
<1> QED BY <1>1, RequestInvariant, PTL
-----------------------------------------------------------------------------
(* FileService: names, pages and answers.                                  *)

\* What names and answers consist of. (The provers do not know that a string
\* the code writes is in STRING.)
Char == STRING \cup {"/", ".", "c", "s", "j"}
Types == {"text/css", "text/javascript", "text/html"}
HeaderPiece ==
  [name : {"HTTP/1.1", "ContentLength", "ContentType", "Server", "CRLF"},
   value : Int \cup Types \cup {"Gunrock"}]
AnyPiece == BodyPiece \cup HeaderPiece
Response == [status : {200, 404}, contentType : Types, body : Seq(BodyPiece)]

Page(name) == IF name \in DOMAIN Files THEN Files[name] ELSE <<>>

\* What the constructor leaves of the -d option.
BasedirIsCut ==
  /\ basedir \in Seq(Char)
  /\ \E d \in Basedirs : Len(basedir) <= Len(d)
  /\ phase # "constructor" /\ Paths # {} => basedir # <<>> /\ basedir[Len(basedir)] # "/"

\* An answer holds a first part of the page and has the type its name gives it.
ReplyFits ==
  phase \in {"answering", "closed"} =>
    /\ path \in Paths
    /\ reply \in Response
    /\ Len(reply.body) <= Len(Page(basedir \o path))
    /\ \A k \in 1 .. Len(reply.body) : reply.body[k] = Page(basedir \o path)[k]
    /\ reply.status = 200 =>
         /\ basedir \o path \in DOMAIN Files
         /\ reply.contentType = ContentType(basedir \o path)

\* What has arrived is a first part of what is written.
ReceivedInOrder ==
  phase \in {"answering", "closed"} =>
    /\ received \in Seq(AnyPiece)
    /\ Len(received) <= Len(response(reply))
    /\ \A k \in 1 .. Len(received) : received[k] = response(reply)[k]

AnswerInv == phase \in Phases /\ BasedirIsCut /\ ReplyFits /\ ReceivedInOrder
-----------------------------------------------------------------------------
\* A set of numbers below a bound has a largest one, and Max() is it.
LEMMA MaxOfBounded ==
  ASSUME NEW n \in Nat, NEW S, S \subseteq 0 .. n, S # {}
  PROVE  Max(S) \in S /\ \A y \in S : y <= Max(S)
<1> DEFINE R == {ss \in Nat \X Nat : ss[1] < ss[2]}
           D == {n - y : y \in S}
<1>1. IsWellFoundedOn(R, Nat)
  BY NatLessThanWellFounded, Zenon DEF OpToRel
<1>2. D \subseteq Nat /\ D # {}
  <2>1. \A y \in S : n - y \in Nat
    BY SMT
  <2>2. PICK y \in S : TRUE
    OBVIOUS
  <2> QED BY <2>1, <2>2
<1>3. \E r \in D : \A q \in D : ~(<<q, r>> \in R)
  <2> HIDE DEF R, D
  <2> QED BY <1>1, <1>2, WFMin
<1>4. PICK r \in D : \A q \in D : ~(q < r)
  BY <1>2, <1>3
<1>5. PICK x \in S : r = n - x
  OBVIOUS
<1>6. ASSUME NEW y \in S PROVE x >= y
  <2>1. ~(n - y < n - x)
    BY <1>4, <1>5
  <2>2. x \in Int /\ y \in Int
    OBVIOUS
  <2> QED BY <2>1, <2>2
<1>7. Max(S) \in S /\ \A y \in S : Max(S) >= y
  BY <1>6 DEF Max
<1> QED BY <1>7

\* The last characters of a name are the suffix.
LEMMA SuffixMeansLast ==
  ASSUME NEW str \in Seq(Char), NEW suffix \in Seq(Char)
  PROVE  HasSuffix(str, suffix) <=>
           /\ Len(suffix) <= Len(str)
           /\ SubSeq(str, Len(str) - Len(suffix) + 1, Len(str)) = suffix
<1> DEFINE n == Len(str) - Len(suffix)
<1>1. Len(str) \in Nat /\ Len(suffix) \in Nat /\ n \in Int
  BY LenProperties
<1>2. CASE n < 0
  <2>1. SubSeq(str, 1, n) = <<>>
    BY <1>1, <1>2, SubSeqEmpty
  <2>2. SubSeq(str, 1, n) \o suffix = suffix
    BY <2>1, ConcatEmptySeq
  <2>3. str # suffix
    BY <1>1, <1>2
  <2> QED BY <1>1, <1>2, <2>2, <2>3 DEF HasSuffix
<1>3. CASE n >= 0
  <2>1. n \in 0 .. Len(str)
    BY <1>1, <1>3
  <2>2. SubSeq(str, 1, n) \in Seq(Char) /\ SubSeq(str, n + 1, Len(str)) \in Seq(Char)
    <3>1. \A i \in 1 .. n : str[i] \in Char
      BY <2>1, ElementOfSeq
    <3>2. \A i \in n + 1 .. Len(str) : str[i] \in Char
      BY <2>1, ElementOfSeq
    <3> QED BY <1>1, <3>1, <3>2, SubSeqProperties
  <2>3. SubSeq(str, 1, n) \o SubSeq(str, n + 1, Len(str)) = str
    <3>1. 1 \in 1 .. Len(str) + 1 /\ n \in 1 - 1 .. Len(str) /\ Len(str) \in n .. Len(str)
      BY <1>1, <2>1
    <3> HIDE DEF n
    <3>2. SubSeq(str, 1, n) \o SubSeq(str, n + 1, Len(str)) = SubSeq(str, 1, Len(str))
      BY <3>1, ConcatAdjacentSubSeq
    <3> QED BY <3>2, SubSeqFull
  <2> HIDE DEF n
  <2>4. str = SubSeq(str, 1, n) \o suffix <=> SubSeq(str, n + 1, Len(str)) = suffix
    <3>1. ASSUME str = SubSeq(str, 1, n) \o suffix PROVE SubSeq(str, n + 1, Len(str)) = suffix
      <4>1. SubSeq(str, 1, n) \o SubSeq(str, n + 1, Len(str)) = SubSeq(str, 1, n) \o suffix
        BY <2>3, <3>1
      <4>2. \A s, t, v \in Seq(Char) : s \o t = s \o v => t = v
        BY ConcatSimplifications
      <4> QED BY <2>2, <4>1, <4>2
    <3> QED BY <2>3, <3>1
  <2> USE DEF n
  <2>5. Len(suffix) <= Len(str)
    BY <1>1, <1>3
  <2> QED BY <2>4, <2>5 DEF HasSuffix
<1> QED BY <1>1, <1>2, <1>3

\* endswith() tells what it should, but for a name that is one character
\* shorter than the suffix: there the difference of the lengths wraps to npos.
LEMMA EndsWithMeans ==
  ASSUME NEW str \in Seq(Char), NEW suffix \in Seq(Char), suffix # <<>>,
         Len(str) + Len(suffix) < 2^SizeBits
  PROVE  endswith(str, suffix) <=> HasSuffix(str, suffix) \/ Len(str) = Len(suffix) - 1
<1> DEFINE diff == Len(str) - Len(suffix)
           found == {k \in 0 .. diff : SubSeq(str, k + 1, k + Len(suffix)) = suffix}
           M == 2^SizeBits
<1>1. Len(str) \in Nat /\ Len(suffix) \in Nat /\ Len(suffix) # 0 /\ diff \in Int
  BY LenProperties, EmptySeq
<1>2. M \in Nat /\ M > 1 /\ Len(str) + Len(suffix) < M
  <2>1. M \in Int
    BY SizeAssumption
  <2> HIDE DEF M
  <2>2. Len(str) + Len(suffix) < M
    BY DEF M
  <2> QED BY <1>1, <2>1, <2>2
<1>3. npos = M - 1
  <2> HIDE DEF M
  <2>1. (-1) % M = M - 1
    BY <1>2
  <2> QED BY <2>1 DEF npos, SizeT, M
<1>4. SizeT(diff) = IF diff >= 0 THEN diff ELSE diff + M
  <2>1. diff % M = IF diff >= 0 THEN diff ELSE diff + M
    <3> HIDE DEF M
    <3>1. diff < M /\ diff >= -M /\ diff \in Int
      BY <1>1, <1>2
    <3> HIDE DEF diff
    <3>2. CASE diff >= 0
      BY <1>2, <3>1, <3>2
    <3>3. CASE diff < 0
      BY <1>2, <3>1, <3>3
    <3> QED BY <3>1, <3>2, <3>3
  <2> QED BY <2>1 DEF SizeT
<1>5. rfind(str, suffix) = IF found = {} THEN npos ELSE Max(found)
  BY DEF rfind
<1>6. endswith(str, suffix) <=> rfind(str, suffix) = SizeT(diff)
  BY DEF endswith
<1>7. CASE diff < 0
  <2>1. found = {}
    BY <1>1, <1>7
  <2>2. endswith(str, suffix) <=> diff = -1
    <3> HIDE DEF M, found, diff
    <3> QED BY <1>1, <1>2, <1>3, <1>4, <1>5, <1>6, <1>7, <2>1
  <2>3. ~HasSuffix(str, suffix)
    BY <1>1, <1>7, SuffixMeansLast
  <2> QED BY <1>1, <2>2, <2>3
<1>8. CASE diff >= 0
  <2>1. HasSuffix(str, suffix) <=> diff \in found
    <3>1. diff + Len(suffix) = Len(str) /\ diff \in 0 .. diff /\ Len(suffix) <= Len(str)
      BY <1>1, <1>8
    <3>2. HasSuffix(str, suffix) <=> SubSeq(str, diff + 1, Len(str)) = suffix
      BY <3>1, SuffixMeansLast
    <3>3. diff \in found <=> SubSeq(str, diff + 1, diff + Len(suffix)) = suffix
      BY <3>1
    <3> HIDE DEF diff, found
    <3> QED BY <3>1, <3>2, <3>3
  <2>2. found # {} => Max(found) \in found /\ \A y \in found : y <= Max(found)
    <3>1. found \subseteq 0 .. diff /\ diff \in Nat
      BY <1>1, <1>8
    <3> HIDE DEF found, diff
    <3> QED BY <3>1, MaxOfBounded
  <2>3. found \subseteq 0 .. diff
    OBVIOUS
  <2>4. diff # M - 1 /\ Len(str) # Len(suffix) - 1
    BY <1>1, <1>2, <1>8
  <2>5. SizeT(diff) = diff
    BY <1>4, <1>8
  <2> HIDE DEF found, diff, M
  <2>6. endswith(str, suffix) <=> diff \in found
    <3>1. CASE found = {}
      BY <1>3, <1>5, <1>6, <2>4, <2>5, <3>1
    <3>2. CASE found # {}
      <4>1. Max(found) \in 0 .. diff /\ Max(found) \in found
        BY <2>2, <2>3, <3>2
      <4>2. diff \in found => diff <= Max(found)
        BY <2>2, <3>2
      <4>3. diff \in found <=> Max(found) = diff
        BY <1>1, <4>1, <4>2
      <4> QED BY <1>5, <1>6, <2>5, <3>2, <4>3
    <3> QED BY <3>1, <3>2
  <2> QED BY <2>1, <2>4, <2>6
<1> QED BY <1>1, <1>7, <1>8
-----------------------------------------------------------------------------
\* The status line, three headers and the empty line are nine pieces; the body
\* follows.
LEMMA ResponsePieces ==
  ASSUME NEW r \in Response
  PROVE  /\ response(r) \in Seq(AnyPiece)
         /\ Len(response(r)) = 9 + Len(r.body) /\ Len(r.body) \in Nat
         /\ response(r)[1] = Piece("HTTP/1.1", r.status)
         /\ \A k \in {3, 5, 7} : response(r)[k].name # "CRLF"
         /\ \A k \in 2 .. 9 : response(r)[k].name # "HTTP/1.1"
         /\ response(r)[8] = CRLF /\ response(r)[9] = CRLF
         /\ \A k \in 1 .. Len(r.body) : response(r)[9 + k] = r.body[k]
<1> DEFINE h == <<Piece("HTTP/1.1", r.status), CRLF,
                  Piece("ContentLength", Len(r.body)), CRLF,
                  Piece("ContentType", r.contentType), CRLF,
                  Piece("Server", "Gunrock"), CRLF,
                  CRLF>>
<1>1. r.body \in Seq(BodyPiece) /\ Len(r.body) \in Nat /\ r.status \in Int /\ r.contentType \in Types
  BY DEF Response
<1>2. r.body \in Seq(AnyPiece)
  <2>1. BodyPiece \subseteq AnyPiece
    BY DEF BodyPiece, AnyPiece
  <2> QED BY <1>1, <2>1, SeqMonotonic
<1>3. h \in Seq(AnyPiece)
  <2>1. HeaderPiece \subseteq AnyPiece
    BY DEF AnyPiece
  <2>2. Piece("HTTP/1.1", r.status) \in HeaderPiece /\ CRLF \in HeaderPiece
    BY <1>1 DEF Piece, CRLF, HeaderPiece
  <2>3. /\ Piece("ContentLength", Len(r.body)) \in HeaderPiece
        /\ Piece("ContentType", r.contentType) \in HeaderPiece
        /\ Piece("Server", "Gunrock") \in HeaderPiece
    BY <1>1 DEF Piece, HeaderPiece
  <2>4. /\ Piece("HTTP/1.1", r.status) \in AnyPiece /\ CRLF \in AnyPiece
        /\ Piece("ContentLength", Len(r.body)) \in AnyPiece
        /\ Piece("ContentType", r.contentType) \in AnyPiece
        /\ Piece("Server", "Gunrock") \in AnyPiece
    BY <2>1, <2>2, <2>3
  <2> QED BY <2>4
<1>4. Len(h) = 9
  OBVIOUS
<1>5. /\ h[1] = Piece("HTTP/1.1", r.status) /\ h[2] = CRLF
      /\ h[3] = Piece("ContentLength", Len(r.body)) /\ h[4] = CRLF
      /\ h[5] = Piece("ContentType", r.contentType) /\ h[6] = CRLF
      /\ h[7] = Piece("Server", "Gunrock") /\ h[8] = CRLF /\ h[9] = CRLF
  OBVIOUS
<1>6. response(r) = h \o r.body
  BY DEF response
<1> HIDE DEF h
<1>7. /\ response(r) \in Seq(AnyPiece)
      /\ Len(response(r)) = 9 + Len(r.body)
      /\ \A k \in 1 .. 9 + Len(r.body) :
           response(r)[k] = IF k <= 9 THEN h[k] ELSE r.body[k - 9]
  <2>1. /\ h \o r.body \in Seq(AnyPiece)
        /\ Len(h \o r.body) = Len(h) + Len(r.body)
        /\ \A k \in 1 .. Len(h) + Len(r.body) :
             (h \o r.body)[k] = IF k <= Len(h) THEN h[k] ELSE r.body[k - Len(h)]
    BY <1>2, <1>3, ConcatProperties
  <2> QED BY <1>4, <1>6, <2>1, Zenon
<1>8. \A k \in 1 .. 9 : response(r)[k] = h[k]
  BY <1>1, <1>7
<1>9. \A k \in 1 .. Len(r.body) : response(r)[9 + k] = r.body[k]
  <2> TAKE k \in 1 .. Len(r.body)
  <2>1. 9 + k \in 1 .. 9 + Len(r.body) /\ ~(9 + k <= 9) /\ (9 + k) - 9 = k
    BY <1>1
  <2> QED BY <1>7, <2>1
<1>10. \A k \in {3, 5, 7} : response(r)[k].name # "CRLF"
  BY <1>5, <1>8 DEF Piece
<1>11. \A k \in 2 .. 9 : response(r)[k].name # "HTTP/1.1"
  <2>1. \A k \in {2, 3, 4, 5, 6, 7, 8, 9} : h[k].name # "HTTP/1.1"
    BY <1>5 DEF Piece, CRLF
  <2>2. \A k \in 2 .. 9 : k \in {2, 3, 4, 5, 6, 7, 8, 9} /\ k \in 1 .. 9
    OBVIOUS
  <2> QED BY <1>8, <2>1, <2>2
<1> QED BY <1>1, <1>5, <1>7, <1>8, <1>9, <1>10, <1>11

\* A client that has nine pieces finds the end of the headers behind the
\* eighth, one with fewer does not find it, wherever the body has line ends.
LEMMA HeadersEndThere ==
  ASSUME NEW r \in Response,
         NEW wire \in Seq(AnyPiece), Len(wire) <= Len(response(r)),
         \A k \in 1 .. Len(wire) : wire[k] = response(r)[k]
  PROVE  HeadersEnd(wire) = IF Len(wire) < 9 THEN 0 ELSE 8
<1> DEFINE found == {k \in 1 .. Len(wire) - 1 : wire[k].name = "CRLF" /\ wire[k + 1].name = "CRLF"}
<1>1. Len(wire) \in Nat
  BY LenProperties
<1>2. HeadersEnd(wire) = IF found = {} THEN 0 ELSE Min(found)
  BY DEF HeadersEnd
<1>3. \A k \in found : k >= 8
  <2> SUFFICES ASSUME NEW k \in 1 .. Len(wire) - 1, k < 8,
                      wire[k].name = "CRLF", wire[k + 1].name = "CRLF"
               PROVE  FALSE
    OBVIOUS
  <2>1. k \in 1 .. Len(wire) /\ k + 1 \in 1 .. Len(wire)
    BY <1>1
  <2>2. response(r)[k].name = "CRLF" /\ response(r)[k + 1].name = "CRLF"
    BY <2>1
  <2>3. k \notin {3, 5, 7} /\ k + 1 \notin {3, 5, 7}
    BY <2>2, ResponsePieces
  <2>4. k = 1
    BY <2>3
  <2>5. response(r)[1].name = "HTTP/1.1"
    <3>1. response(r)[1] = Piece("HTTP/1.1", r.status)
      BY ResponsePieces
    <3> QED BY <3>1 DEF Piece
  <2> QED BY <2>2, <2>4, <2>5
<1>4. CASE Len(wire) < 9
  <2>1. found = {}
    BY <1>1, <1>3, <1>4
  <2> QED BY <1>2, <1>4, <2>1
<1>5. CASE ~(Len(wire) < 9)
  <2>1. 8 \in 1 .. Len(wire) - 1 /\ 8 \in 1 .. Len(wire) /\ 9 \in 1 .. Len(wire)
    BY <1>1, <1>5
  <2>2. response(r)[8] = CRLF /\ response(r)[9] = CRLF
    BY ResponsePieces
  <2>3. wire[8].name = "CRLF" /\ wire[9].name = "CRLF"
    BY <2>1, <2>2 DEF CRLF, Piece
  <2>4. 8 \in found
    BY <2>1, <2>3
  <2>5. \A x \in found : x \in Int
    OBVIOUS
  <2> HIDE DEF found
  <2>6. \A x \in found : (\A y \in found : x <= y) => x = 8
    BY <1>3, <2>4, <2>5
  <2>7. Min(found) = 8
    BY <1>3, <2>4, <2>6 DEF Min
  <2> QED BY <1>2, <1>5, <2>4, <2>7
<1> QED BY <1>4, <1>5

\* What a client takes for the status and for the content.
LEMMA ClientReads ==
  ASSUME NEW r \in Response,
         NEW wire \in Seq(AnyPiece), Len(wire) <= Len(response(r)),
         \A k \in 1 .. Len(wire) : wire[k] = response(r)[k]
  PROVE  /\ Len(wire) < 9 => readResponse(wire) = [status |-> 0, body |-> <<>>]
         /\ Len(wire) >= 9 =>
              readResponse(wire) = [status |-> r.status, body |-> SubSeq(wire, 10, Len(wire))]
<1>1. Len(wire) \in Nat
  BY LenProperties
<1>2. HeadersEnd(wire) = IF Len(wire) < 9 THEN 0 ELSE 8
  BY HeadersEndThere
<1>3. CASE Len(wire) < 9
  BY <1>1, <1>2, <1>3 DEF readResponse
<1>4. CASE Len(wire) >= 9
  <2> DEFINE statuses == {k \in 1 .. 8 : wire[k].name = "HTTP/1.1"}
  <2>1. \A k \in 1 .. 8 : k \in 1 .. Len(wire)
    BY <1>1, <1>4
  <2>2. wire[1] = Piece("HTTP/1.1", r.status)
    BY <2>1, ResponsePieces
  <2>3. \A k \in 2 .. 8 : wire[k].name # "HTTP/1.1"
    <3> TAKE k \in 2 .. 8
    <3>1. k \in 2 .. 9 /\ k \in 1 .. 8
      OBVIOUS
    <3> QED BY <2>1, <3>1, ResponsePieces
  <2>4. statuses = {1}
    BY <2>2, <2>3 DEF Piece
  <2>5. Max(statuses) = 1
    BY <2>4 DEF Max
  <2>6. HeadersEnd(wire) = 8
    BY <1>1, <1>2, <1>4
  <2>7. readResponse(wire) =
          [status |-> IF statuses = {} THEN 0 ELSE wire[Max(statuses)].value,
           body |-> SubSeq(wire, 8 + 2, Len(wire))]
    BY <2>6 DEF readResponse
  <2>8. wire[1].value = r.status
    BY <2>2 DEF Piece
  <2>9. (IF statuses = {} THEN 0 ELSE wire[Max(statuses)].value) = r.status
    BY <2>4, <2>5, <2>8
  <2> HIDE DEF statuses
  <2>10. readResponse(wire) = [status |-> r.status, body |-> SubSeq(wire, 10, Len(wire))]
    <3>1. 8 + 2 = 10
      OBVIOUS
    <3> QED BY <2>7, <2>9, <3>1, Zenon
  <2> QED BY <1>1, <1>4, <2>10
<1> QED BY <1>1, <1>3, <1>4
-----------------------------------------------------------------------------
\* The suffixes the code looks for are names.
LEMMA SuffixesAreNames ==
  /\ Css \in Seq(Char) /\ Len(Css) = 4 /\ Css # <<>>
  /\ Css[1] = "." /\ Css[2] = "c" /\ Css[3] = "s" /\ Css[4] = "s"
  /\ Js \in Seq(Char) /\ Len(Js) = 3 /\ Js # <<>>
  /\ Js[1] = "." /\ Js[2] = "j" /\ Js[3] = "s"
  /\ <<"/">> \in Seq(Char) /\ Len(<<"/">>) = 1 /\ <<"/">>[1] = "/"
<1>1. {".", "c", "s", "j", "/"} \subseteq Char
  BY DEF Char
<1>2. Len(Css) = 4 /\ Len(Js) = 3 /\ Len(<<"/">>) = 1 /\ Css # <<>> /\ Js # <<>>
  BY DEF Css, Js
<1>3. Css \in Seq(Char) /\ Js \in Seq(Char) /\ <<"/">> \in Seq(Char)
  BY <1>1 DEF Css, Js
<1>4. /\ Css[1] = "." /\ Css[2] = "c" /\ Css[3] = "s" /\ Css[4] = "s"
      /\ Js[1] = "." /\ Js[2] = "j" /\ Js[3] = "s" /\ <<"/">>[1] = "/"
  BY DEF Css, Js
<1> QED BY <1>2, <1>3, <1>4

\* A name that has been made of the directory and a path fits into memory with
\* the suffix that is looked for behind it.
LEMMA NamesFit ==
  ASSUME NEW p \in Paths, BasedirIsCut
  PROVE  /\ p \in Seq(Char) /\ p # <<>> /\ p[1] = "/"
         /\ basedir \o p \in Seq(Char)
         /\ Len(basedir) \in Nat /\ Len(p) \in Nat /\ Len(basedir \o p) = Len(basedir) + Len(p)
         /\ Len(basedir) + Len(p) + 4 < 2^SizeBits
<1>1. PICK d \in Basedirs : Len(basedir) <= Len(d)
  BY DEF BasedirIsCut
<1>2. d \in Seq(STRING) /\ p \in Seq(STRING) /\ p # <<>> /\ p[1] = "/"
  BY NamesAssumption
<1>3. p \in Seq(Char) /\ basedir \in Seq(Char)
  <2>1. STRING \subseteq Char
    BY DEF Char
  <2> QED BY <1>2, <2>1, SeqMonotonic DEF BasedirIsCut
<1>4. Len(d) \in Nat /\ Len(p) \in Nat /\ Len(basedir) \in Nat
  BY <1>2, <1>3, LenProperties
<1>5. basedir \o p \in Seq(Char) /\ Len(basedir \o p) = Len(basedir) + Len(p)
  BY <1>3, ConcatProperties
<1>6. Len(d) + Len(p) + 4 < 2^SizeBits
  BY NamesAssumption, SuffixesAreNames
<1>7. 2^SizeBits \in Int
  BY SizeAssumption
<1>8. Len(basedir) + Len(p) + 4 < 2^SizeBits
  <2> DEFINE M == 2^SizeBits
  <2> HIDE DEF M
  <2>1. Len(basedir) + Len(p) + 4 < M
    <3>1. Len(d) + Len(p) + 4 < M /\ M \in Int
      BY <1>6, <1>7 DEF M
    <3> QED BY <1>1, <1>4, <3>1
  <2> QED BY <2>1 DEF M
<1> QED BY <1>2, <1>3, <1>4, <1>5, <1>8

\* What get() and head() answer.
LEMMA AnswerFits ==
  ASSUME NEW name, NEW method, NEW r \in Answers(name, method)
  PROVE  /\ r \in Response
         /\ Len(r.body) <= Len(Page(name))
         /\ \A k \in 1 .. Len(r.body) : r.body[k] = Page(name)[k]
         /\ r.status = 200 => name \in DOMAIN Files /\ r.contentType = ContentType(name)
<1>1. PICK contents \in readFile(name) :
        r = IF contents = <<>> THEN [NewResponse EXCEPT !.status = 404]
            ELSE [NewResponse EXCEPT
                    !.contentType = ContentType(name),
                    !.body = IF method = "HEAD" THEN <<>> ELSE contents]
  BY DEF Answers
<1>2. <<>> \in Seq(BodyPiece) /\ Len(<<>>) = 0
  BY EmptySeq
<1>3. Page(name) \in Seq(BodyPiece)
  BY <1>2, FilesAssumption DEF Page
<1>4. /\ contents \in Seq(BodyPiece) /\ Len(contents) <= Len(Page(name))
      /\ \A k \in 1 .. Len(contents) : contents[k] = Page(name)[k]
      /\ contents # <<>> => name \in DOMAIN Files
  <2>1. CASE name \in DOMAIN Files
    <3>1. PICK n \in 0 .. Len(Page(name)) : contents = SubSeq(Page(name), 1, n)
      BY <1>1, <2>1 DEF readFile, Page
    <3>2. Len(Page(name)) \in Nat
      BY <1>3, LenProperties
    <3>3. \A k \in 1 .. n : Page(name)[k] \in BodyPiece
      BY <1>3, <3>2, ElementOfSeq
    <3>4. /\ contents \in Seq(BodyPiece)
          /\ Len(contents) = IF 1 <= n THEN n - 1 + 1 ELSE 0
          /\ \A k \in 1 .. n - 1 + 1 : contents[k] = Page(name)[1 + k - 1]
      BY <3>1, <3>3, SubSeqProperties
    <3>5. Len(contents) = n
      BY <3>2, <3>4
    <3>6. \A k \in 1 .. n : contents[k] = Page(name)[k]
      BY <3>2, <3>4
    <3> QED BY <2>1, <3>2, <3>4, <3>5, <3>6
  <2>2. CASE name \notin DOMAIN Files
    <3>1. contents = <<>>
      BY <1>1, <2>2 DEF readFile
    <3> QED BY <1>2, <1>3, <3>1, LenProperties
  <2> QED BY <2>1, <2>2
<1>5. Len(Page(name)) \in Nat
  BY <1>3, LenProperties
<1>6. ContentType(name) \in Types /\ NewResponse.contentType \in Types
  BY DEF ContentType, Types, NewResponse
<1>7. CASE contents = <<>>
  <2>1. r = [status |-> 404, contentType |-> NewResponse.contentType, body |-> <<>>]
    BY <1>1, <1>7 DEF NewResponse
  <2>2. r.status = 404 /\ r.body = <<>>
    BY <2>1
  <2>3. r \in Response
    BY <1>2, <1>6, <2>1 DEF Response
  <2> QED BY <1>2, <1>5, <2>2, <2>3
<1>8. CASE contents # <<>>
  <2> DEFINE b == IF method = "HEAD" THEN <<>> ELSE contents
  <2>1. r = [status |-> 200, contentType |-> ContentType(name), body |-> b]
    <3>1. NewResponse.status = 200 /\ DOMAIN NewResponse = {"status", "contentType", "body"}
      BY DEF NewResponse
    <3> HIDE DEF b
    <3> QED BY <1>1, <1>8, <3>1 DEF NewResponse, b
  <2>2. /\ b \in Seq(BodyPiece) /\ Len(b) <= Len(Page(name))
        /\ \A k \in 1 .. Len(b) : b[k] = Page(name)[k]
    BY <1>2, <1>4, <1>5
  <2> HIDE DEF b
  <2>3. r.body = b /\ r.contentType = ContentType(name)
    BY <2>1
  <2>4. r \in Response
    BY <1>6, <2>1, <2>2 DEF Response
  <2> QED BY <1>4, <1>8, <2>2, <2>3, <2>4
<1> QED BY <1>7, <1>8
-----------------------------------------------------------------------------
LEMMA InitAnswers == Init => AnswerInv
<1> SUFFICES ASSUME Init PROVE AnswerInv
  OBVIOUS
<1>1. STRING \subseteq Char
  BY DEF Char
<1>2. basedir \in Seq(STRING)
  BY NamesAssumption DEF Init
<1>3. basedir \in Seq(Char) /\ Len(basedir) \in Nat
  BY <1>1, <1>2, SeqMonotonic, LenProperties
<1>4. phase = "constructor" /\ basedir \in Basedirs
  BY DEF Init
<1> QED BY <1>3, <1>4 DEF AnswerInv, BasedirIsCut, ReplyFits, ReceivedInOrder, Phases

LEMMA TrimKeepsAnswers == AnswerInv /\ Trim => AnswerInv'
<1> SUFFICES ASSUME AnswerInv, Trim PROVE AnswerInv'
  OBVIOUS
<1>1. basedir \in Seq(Char) /\ Len(basedir) \in Nat
  BY LenProperties DEF AnswerInv, BasedirIsCut
<1>2. basedir' \in Seq(Char) /\ Len(basedir') <= Len(basedir)
  <2>1. basedir' = SubSeq(basedir, 1, Len(basedir) - 1)
    BY DEF Trim
  <2>2. \A i \in 1 .. Len(basedir) - 1 : basedir[i] \in Char
    BY <1>1, ElementOfSeq
  <2>3. /\ basedir' \in Seq(Char)
        /\ Len(basedir') = IF 1 <= Len(basedir) - 1 THEN Len(basedir) - 1 - 1 + 1 ELSE 0
    BY <1>1, <2>1, <2>2, SubSeqProperties
  <2> QED BY <1>1, <2>3
<1>3. PICK d \in Basedirs : Len(basedir) <= Len(d)
  BY DEF AnswerInv, BasedirIsCut
<1>4. Len(d) \in Nat /\ Len(basedir') \in Nat
  BY <1>2, NamesAssumption, LenProperties
<1>5. Len(basedir') <= Len(d)
  BY <1>1, <1>2, <1>3, <1>4
<1>6. phase' = "constructor"
  BY DEF Trim
<1> QED BY <1>2, <1>5, <1>6 DEF AnswerInv, BasedirIsCut, ReplyFits, ReceivedInOrder, Phases

LEMMA ConstructedKeepsAnswers == AnswerInv /\ Constructed => AnswerInv'
<1> SUFFICES ASSUME AnswerInv, Constructed PROVE AnswerInv'
  OBVIOUS
<1>1. basedir' = basedir /\ phase' = "waiting" /\ ~endswith(basedir, <<"/">>)
  BY DEF Constructed
<1>2. basedir \in Seq(Char) /\ BasedirIsCut
  BY DEF AnswerInv, BasedirIsCut
<1>3. ASSUME NEW p \in Paths PROVE basedir # <<>> /\ basedir[Len(basedir)] # "/"
  <2>1. Len(basedir) \in Nat /\ Len(basedir) + 1 < 2^SizeBits
    <3> DEFINE M == 2^SizeBits
    <3>1. Len(basedir) \in Nat /\ Len(p) \in Nat /\ Len(basedir) + Len(p) + 4 < M /\ M \in Int
      BY <1>2, NamesFit, SizeAssumption
    <3> HIDE DEF M
    <3>2. Len(basedir) + 1 < M
      BY <3>1
    <3> QED BY <3>1, <3>2 DEF M
  <2>2. ~(HasSuffix(basedir, <<"/">>) \/ Len(basedir) = 1 - 1)
    <3>1. <<"/">> \in Seq(Char) /\ <<"/">> # <<>> /\ Len(<<"/">>) = 1
      BY SuffixesAreNames
    <3> QED BY <1>1, <1>2, <2>1, <3>1, EndsWithMeans
  <2>3. Len(basedir) # 0
    BY <2>2
  <2>4. SubSeq(basedir, Len(basedir), Len(basedir)) # <<"/">>
    <3>1. Len(basedir) - 1 + 1 = Len(basedir) /\ 1 <= Len(basedir)
      BY <2>1, <2>3
    <3> QED BY <1>2, <2>2, <3>1, SuffixMeansLast, SuffixesAreNames
  <2>5. SubSeq(basedir, Len(basedir), Len(basedir)) = <<basedir[Len(basedir)]>>
    <3>1. Len(basedir) \in 1 .. Len(basedir)
      BY <2>1, <2>3
    <3>2. \A i \in Len(basedir) .. Len(basedir) : basedir[i] \in Char
      BY <1>2, <2>1, <2>3, <3>1, ElementOfSeq
    <3> DEFINE b == SubSeq(basedir, Len(basedir), Len(basedir))
    <3>3. b \in Seq(Char) /\ Len(b) = 1 /\ b[1] = basedir[Len(basedir)]
      <4>1. /\ b \in Seq(Char) /\ Len(b) = Len(basedir) - Len(basedir) + 1
            /\ \A i \in 1 .. Len(basedir) - Len(basedir) + 1 : b[i] = basedir[Len(basedir) + i - 1]
        BY <2>1, <3>2, SubSeqProperties
      <4> HIDE DEF b
      <4>2. Len(b) = 1 /\ b[1] = basedir[Len(basedir) + 1 - 1] /\ Len(basedir) + 1 - 1 = Len(basedir)
        BY <2>1, <4>1
      <4> QED BY <4>1, <4>2
    <3> HIDE DEF b
    <3>4. b = <<basedir[Len(basedir)]>>
      BY <3>3
    <3> QED BY <3>4 DEF b
  <2>6. basedir # <<>>
    BY <2>3
  <2> QED BY <2>4, <2>5, <2>6
<1> QED BY <1>1, <1>2, <1>3 DEF AnswerInv, BasedirIsCut, ReplyFits, ReceivedInOrder, Phases

LEMMA HandleKeepsAnswers ==
  ASSUME AnswerInv, NEW method, NEW p \in Paths, Handle(method, p)
  PROVE  AnswerInv'
<1>1. /\ basedir' = basedir /\ phase' = "answering" /\ path' = p /\ received' = <<>>
      /\ phase = "waiting" /\ reply' \in Answers(basedir \o p, method)
  BY DEF Handle
<1>2. BasedirIsCut'
  BY <1>1 DEF AnswerInv, BasedirIsCut
<1>3. ReplyFits'
  <2>1. Page(basedir \o p)' = Page(basedir \o p) /\ ContentType(basedir \o p)' = ContentType(basedir \o p)
    BY <1>1 DEF Page, ContentType, endswith, rfind, npos, SizeT
  <2>2. /\ reply' \in Response
        /\ Len(reply'.body) <= Len(Page(basedir \o p))
        /\ \A k \in 1 .. Len(reply'.body) : reply'.body[k] = Page(basedir \o p)[k]
        /\ reply'.status = 200 =>
             /\ basedir \o p \in DOMAIN Files
             /\ reply'.contentType = ContentType(basedir \o p)
    BY <1>1, AnswerFits
  <2> QED BY <1>1, <2>1, <2>2 DEF ReplyFits
<1>4. ReceivedInOrder'
  <2>1. reply' \in Response
    BY <1>1, AnswerFits
  <2>2. Len(response(reply')) \in Nat
    BY <2>1, ResponsePieces, LenProperties
  <2>3. <<>> \in Seq(AnyPiece) /\ Len(<<>>) = 0
    BY EmptySeq
  <2> QED BY <1>1, <2>2, <2>3 DEF ReceivedInOrder
<1> QED BY <1>1, <1>2, <1>3, <1>4 DEF AnswerInv, Phases

\* A step that changes neither the directory nor the answer.
LEMMA AnswerStays ==
  ASSUME AnswerInv, UNCHANGED <<basedir, path, reply>>, phase # "constructor",
         phase' \in {"answering", "closed"} => phase \in {"answering", "closed"}
  PROVE  BasedirIsCut' /\ ReplyFits'
<1>1. BasedirIsCut'
  BY DEF AnswerInv, BasedirIsCut
<1>2. /\ Page(basedir \o path)' = Page(basedir \o path)
      /\ ContentType(basedir \o path)' = ContentType(basedir \o path)
  BY DEF Page, ContentType, endswith, rfind, npos, SizeT
<1>3. ReplyFits
  BY DEF AnswerInv
<1>4. ReplyFits'
  BY <1>2, <1>3, Zenon DEF ReplyFits
<1> QED BY <1>1, <1>4

LEMMA DeliverKeepsAnswers == AnswerInv /\ Deliver => AnswerInv'
<1> SUFFICES ASSUME AnswerInv, Deliver PROVE AnswerInv'
  OBVIOUS
<1>1. /\ phase = "answering" /\ Len(received) < Len(response(reply))
      /\ received' = Append(received, response(reply)[Len(received) + 1])
      /\ basedir' = basedir /\ phase' = phase /\ path' = path /\ reply' = reply
  BY DEF Deliver
<1>2. BasedirIsCut' /\ ReplyFits'
  BY <1>1, AnswerStays
<1>3. reply \in Response /\ received \in Seq(AnyPiece)
      /\ \A k \in 1 .. Len(received) : received[k] = response(reply)[k]
  BY <1>1 DEF AnswerInv, ReplyFits, ReceivedInOrder
<1>4. response(reply) \in Seq(AnyPiece) /\ Len(response(reply)) \in Nat /\ Len(received) \in Nat
  BY <1>3, ResponsePieces, LenProperties
<1>5. response(reply)[Len(received) + 1] \in AnyPiece
  <2>1. Len(received) + 1 \in 1 .. Len(response(reply))
    BY <1>1, <1>4
  <2> QED BY <1>4, <2>1, ElementOfSeq
<1>6. /\ received' \in Seq(AnyPiece) /\ Len(received') = Len(received) + 1
      /\ \A k \in 1 .. Len(received) : received'[k] = received[k]
      /\ received'[Len(received) + 1] = response(reply)[Len(received) + 1]
  BY <1>1, <1>3, <1>5, AppendProperties
<1>7. \A k \in 1 .. Len(received') : received'[k] = response(reply)[k]
  <2> TAKE k \in 1 .. Len(received')
  <2>1. k \in 1 .. Len(received) \/ k = Len(received) + 1
    BY <1>4, <1>6
  <2> QED BY <1>3, <1>6, <2>1
<1>8. Len(received') <= Len(response(reply))
  BY <1>1, <1>4, <1>6
<1>9. ReceivedInOrder'
  BY <1>1, <1>6, <1>7, <1>8 DEF ReceivedInOrder
<1> QED BY <1>1, <1>2, <1>9 DEF AnswerInv, Phases

LEMMA OthersKeepAnswers == AnswerInv /\ (End \/ Forget \/ UNCHANGED vars) => AnswerInv'
<1>1. ASSUME AnswerInv, End PROVE AnswerInv'
  <2>1. /\ UNCHANGED <<basedir, path, reply, received>>
        /\ phase = "answering" /\ phase' = "closed"
    BY <1>1 DEF End
  <2>2. BasedirIsCut' /\ ReplyFits'
    BY <1>1, <2>1, AnswerStays
  <2>3. ReceivedInOrder'
    BY <1>1, <2>1 DEF AnswerInv, ReceivedInOrder
  <2> QED BY <2>1, <2>2, <2>3 DEF AnswerInv, Phases
<1>2. AnswerInv /\ Forget => AnswerInv'
  BY DEF AnswerInv, Forget, Phases, BasedirIsCut, ReplyFits, ReceivedInOrder
<1>3. ASSUME AnswerInv, UNCHANGED vars PROVE AnswerInv'
  <2>1. UNCHANGED <<basedir, path, reply, received, phase>>
    BY <1>3 DEF vars
  <2>2. BasedirIsCut' /\ ReceivedInOrder'
    BY <1>3, <2>1 DEF AnswerInv, BasedirIsCut, ReceivedInOrder
  <2>3. ReplyFits'
    <3>1. CASE phase = "constructor"
      BY <2>1, <3>1 DEF ReplyFits
    <3>2. CASE phase # "constructor"
      BY <1>3, <2>1, <3>2, AnswerStays
    <3> QED BY <3>1, <3>2
  <2> QED BY <1>3, <2>1, <2>2, <2>3 DEF AnswerInv
<1> QED BY <1>1, <1>2, <1>3

\* The server has cut the slashes off its directory when it answers, answers
\* hold a first part of the page, and clients a first part of the answer.
THEOREM FileServiceInvariant == Spec => []AnswerInv
<1>1. Init => AnswerInv
  BY InitAnswers
<1>2. AnswerInv /\ [Next]_vars => AnswerInv'
  <2> SUFFICES ASSUME AnswerInv, [Next]_vars PROVE AnswerInv'
    OBVIOUS
  <2>1. ASSUME NEW method \in {"GET", "HEAD"}, NEW p \in Paths, Handle(method, p) PROVE AnswerInv'
    BY <2>1, HandleKeepsAnswers
  <2> QED BY <2>1, TrimKeepsAnswers, ConstructedKeepsAnswers, DeliverKeepsAnswers, OthersKeepAnswers DEF Next
<1> QED BY <1>1, <1>2, PTL DEF Spec
-----------------------------------------------------------------------------
\* No name ends in both suffixes.
LEMMA OneSuffix ==
  ASSUME NEW name \in Seq(Char), HasSuffix(name, Css)
  PROVE  ~HasSuffix(name, Js)
<1> DEFINE n == Len(name)
<1>1. n \in Nat /\ Len(Css) = 4 /\ Len(Js) = 3
  BY LenProperties, SuffixesAreNames
<1>2. 4 <= n /\ SubSeq(name, n - 4 + 1, n) = Css
  BY <1>1, SuffixesAreNames, SuffixMeansLast
<1>3. ASSUME HasSuffix(name, Js) PROVE SubSeq(name, n - 3 + 1, n) = Js
  BY <1>1, <1>3, SuffixesAreNames, SuffixMeansLast
<1>4. \A k \in 1 .. n : name[k] \in Char
  BY ElementOfSeq, SMTT(20)
<1>5. Css[3] = name[n - 1]
  <2>1. \A i \in n - 4 + 1 .. n : name[i] \in Char
    BY <1>1, <1>2, <1>4
  <2>2. \A i \in 1 .. n - (n - 4 + 1) + 1 : Css[i] = name[n - 4 + 1 + i - 1]
    BY <1>1, <1>2, <2>1, SubSeqProperties
  <2>3. 3 \in 1 .. n - (n - 4 + 1) + 1 /\ n - 4 + 1 + 3 - 1 = n - 1
    BY <1>1
  <2> QED BY <2>2, <2>3
<1>6. ASSUME HasSuffix(name, Js) PROVE Js[2] = name[n - 1]
  <2>1. \A i \in n - 3 + 1 .. n : name[i] \in Char
    BY <1>1, <1>2, <1>4
  <2>2. \A i \in 1 .. n - (n - 3 + 1) + 1 : Js[i] = name[n - 3 + 1 + i - 1]
    BY <1>1, <1>3, <1>6, <2>1, SubSeqProperties
  <2>3. 2 \in 1 .. n - (n - 3 + 1) + 1 /\ n - 3 + 1 + 2 - 1 = n - 1
    BY <1>1
  <2> QED BY <2>2, <2>3
<1>7. Css[3] = "s" /\ Js[2] = "j"
  BY SuffixesAreNames
<1>8. "s" # "j"
  OBVIOUS
<1> QED BY <1>5, <1>6, <1>7, <1>8

\* A page's name has a character before and one behind the slash of its path.
LEMMA PageNames ==
  ASSUME NEW p \in Paths, BasedirIsCut, phase # "constructor", basedir \o p \in DOMAIN Files
  PROVE  Len(basedir \o p) >= 3
<1> DEFINE name == basedir \o p
<1>1. /\ p \in Seq(Char) /\ p # <<>> /\ p[1] = "/" /\ basedir \in Seq(Char)
      /\ Len(basedir) \in Nat /\ Len(p) \in Nat /\ Len(name) = Len(basedir) + Len(p)
  BY NamesFit DEF BasedirIsCut
<1>2. basedir # <<>>
  BY DEF BasedirIsCut
<1>3. Len(basedir) # 0 /\ Len(p) # 0
  BY <1>1, <1>2, EmptySeq
<1>4. name # <<>>
  BY <1>1, <1>3, EmptySeq
<1>5. name[Len(name)] # "/"
  BY <1>4, FilesAssumption
<1>6. name[Len(name)] = p[Len(p)]
  <2>1. /\ Len(name) \in 1 .. Len(basedir) + Len(p)
        /\ ~(Len(name) <= Len(basedir)) /\ Len(name) - Len(basedir) = Len(p)
    BY <1>1, <1>3
  <2>2. \A i \in 1 .. Len(basedir) + Len(p) :
          name[i] = IF i <= Len(basedir) THEN basedir[i] ELSE p[i - Len(basedir)]
    BY <1>1, ConcatProperties
  <2> QED BY <2>1, <2>2
<1>7. Len(p) # 1
  BY <1>1, <1>5, <1>6
<1> HIDE DEF name
<1>8. Len(name) >= 3
  <2> DEFINE l == Len(basedir)
             m == Len(p)
             n == Len(name)
  <2>1. l \in Nat /\ m \in Nat /\ n = l + m /\ l # 0 /\ m # 0 /\ m # 1
    BY <1>1, <1>3, <1>7
  <2> HIDE DEF l, m, n
  <2>2. n >= 3
    BY <2>1
  <2> QED BY <2>2 DEF n
<1> QED BY <1>8 DEF name

\* A page gets the type of its suffix and another the default, but for a name
\* of three characters, for which the difference of the lengths in endswith()
\* wraps to npos.
THEOREM ContentTypesFit == Spec => []ContentTypeFits
<1>1. AnswerInv => ContentTypeFits
  <2> SUFFICES ASSUME AnswerInv, phase = "answering", reply.status = 200
               PROVE  LET name == basedir \o path
                      IN /\ reply.contentType = "text/css" <=>
                              HasSuffix(name, Css) \/ Len(name) = Len(Css) - 1
                         /\ reply.contentType = "text/javascript" <=>
                              HasSuffix(name, Js) /\ Len(name) # Len(Css) - 1
    BY Zenon DEF ContentTypeFits
  <2> DEFINE name == basedir \o path
  <2>1. /\ path \in Paths /\ BasedirIsCut /\ name \in DOMAIN Files
        /\ reply.contentType = ContentType(name)
    BY DEF AnswerInv, ReplyFits
  <2>2. /\ name \in Seq(Char) /\ Len(name) \in Nat
        /\ Len(name) + 4 < 2^SizeBits /\ Len(name) + 3 < 2^SizeBits
    <3> DEFINE M == 2^SizeBits
    <3>1. /\ name \in Seq(Char) /\ Len(basedir) \in Nat /\ Len(path) \in Nat
          /\ Len(name) = Len(basedir) + Len(path)
          /\ Len(basedir) + Len(path) + 4 < M /\ M \in Int
      BY <2>1, NamesFit, SizeAssumption
    <3> HIDE DEF M, name
    <3>2. Len(name) \in Nat /\ Len(name) + 4 < M /\ Len(name) + 3 < M
      BY <3>1
    <3> QED BY <3>1, <3>2 DEF M
  <2>3. Len(name) >= 3
    BY <2>1, PageNames
  <2> HIDE DEF name
  <2>4. endswith(name, Css) <=> HasSuffix(name, Css) \/ Len(name) = 3
    <3>1. Css \in Seq(Char) /\ Css # <<>> /\ Len(Css) = 4
      BY SuffixesAreNames
    <3>2. Len(name) + Len(Css) < 2^SizeBits
      BY <2>2, <3>1
    <3>3. name \in Seq(Char)
      BY <2>2
    <3>4. endswith(name, Css) <=> HasSuffix(name, Css) \/ Len(name) = Len(Css) - 1
      <4>1. \A s \in Seq(Char) : Len(name) + Len(s) < 2^SizeBits /\ s # <<>> =>
              (endswith(name, s) <=> HasSuffix(name, s) \/ Len(name) = Len(s) - 1)
        BY <3>3, EndsWithMeans
      <4> QED BY <3>1, <3>2, <4>1, Zenon
    <3> QED BY <3>1, <3>4
  <2>5. endswith(name, Js) <=> HasSuffix(name, Js)
    <3>1. Js \in Seq(Char) /\ Js # <<>> /\ Len(Js) = 3
      BY SuffixesAreNames
    <3>2. Len(name) + Len(Js) < 2^SizeBits
      BY <2>2, <3>1
    <3>3. name \in Seq(Char) /\ Len(name) \in Nat
      BY <2>2
    <3>4. endswith(name, Js) <=> HasSuffix(name, Js) \/ Len(name) = Len(Js) - 1
      <4>1. \A s \in Seq(Char) : Len(name) + Len(s) < 2^SizeBits /\ s # <<>> =>
              (endswith(name, s) <=> HasSuffix(name, s) \/ Len(name) = Len(s) - 1)
        BY <3>3, EndsWithMeans
      <4> QED BY <3>1, <3>2, <4>1, Zenon
    <3>5. Len(name) # Len(Js) - 1
      <4> DEFINE n == Len(name)
                 m == Len(Js)
      <4>1. n \in Nat /\ n >= 3 /\ m = 3
        BY <2>3, <3>1, <3>3
      <4> HIDE DEF n, m
      <4>2. n # m - 1
        BY <4>1
      <4> QED BY <4>2 DEF n, m
    <3> QED BY <3>4, <3>5
  <2>6. ContentType(name) = "text/css" <=> endswith(name, Css)
    BY DEF ContentType, NewResponse
  <2>7. ContentType(name) = "text/javascript" <=> endswith(name, Js) /\ ~endswith(name, Css)
    BY DEF ContentType, NewResponse
  <2>8. Len(Css) - 1 = 3
    BY SuffixesAreNames
  <2>9. HasSuffix(name, Css) => ~HasSuffix(name, Js)
    BY <2>2, OneSuffix
  <2> QED BY <2>1, <2>4, <2>5, <2>6, <2>7, <2>8, <2>9 DEF name
<1> QED BY <1>1, FileServiceInvariant, PTL

\* Wherever the connection ends, a client that reads what has arrived takes
\* nothing of the headers for content and no content for a header.
THEOREM ClientsSeeThePage == Spec => []ClientSeesThePage
<1>1. AnswerInv => ClientSeesThePage
  <2> SUFFICES ASSUME AnswerInv, phase = "closed"
               PROVE  LET seen == readResponse(received)
                          page == Page(basedir \o path)
                      IN /\ IsPrefix(seen.body, page)
                         /\ seen.status \in {0, reply.status}
                         /\ seen.status = 0 => seen.body = <<>>
                         /\ Len(received) = Len(response(reply)) =>
                              seen = [status |-> reply.status, body |-> reply.body]
    BY Zenon DEF ClientSeesThePage, Page
  <2> DEFINE page == Page(basedir \o path)
             seen == readResponse(received)
  <2>1. /\ reply \in Response /\ Len(reply.body) <= Len(page)
        /\ \A k \in 1 .. Len(reply.body) : reply.body[k] = page[k]
    BY DEF AnswerInv, ReplyFits
  <2>2. /\ received \in Seq(AnyPiece) /\ Len(received) <= Len(response(reply))
        /\ \A k \in 1 .. Len(received) : received[k] = response(reply)[k]
    BY DEF AnswerInv, ReceivedInOrder
  <2>3. page \in Seq(BodyPiece) /\ Len(page) \in Nat
    BY FilesAssumption, EmptySeq, LenProperties DEF Page
  <2>4. Len(response(reply)) = 9 + Len(reply.body) /\ Len(reply.body) \in Nat /\ Len(received) \in Nat
    BY <2>1, <2>2, ResponsePieces, LenProperties
  <2> HIDE DEF page
  <2>5. CASE Len(received) < 9
    <3>1. seen = [status |-> 0, body |-> <<>>]
      BY <2>1, <2>2, <2>5, ClientReads
    <3>2. seen.status = 0 /\ seen.body = <<>>
      BY <3>1
    <3>3. IsPrefix(<<>>, page)
      <4>1. SubSeq(<<>>, 1, 0) = <<>> /\ SubSeq(page, 1, 0) = <<>>
        BY SubSeqEmpty
      <4>2. Len(<<>>) = 0
        BY EmptySeq
      <4> QED BY <2>3, <4>1, <4>2 DEF IsPrefix
    <3>4. Len(received) # Len(response(reply))
      BY <2>4, <2>5
    <3> HIDE DEF seen
    <3>5. IsPrefix(seen.body, page)
      BY <3>2, <3>3
    <3> QED BY <3>2, <3>4, <3>5 DEF seen, page
  <2>6. CASE Len(received) >= 9
    <3> DEFINE b == SubSeq(received, 10, Len(received))
    <3>1. seen = [status |-> reply.status, body |-> b]
      BY <2>1, <2>2, <2>6, ClientReads
    <3>2. /\ b \in Seq(AnyPiece) /\ Len(b) = Len(received) - 9
          /\ \A i \in 1 .. Len(received) - 9 : b[i] = received[9 + i]
      <4>1. \A i \in 10 .. Len(received) : received[i] \in AnyPiece
        BY <2>2, <2>4, ElementOfSeq
      <4>2. /\ b \in Seq(AnyPiece)
            /\ Len(b) = IF 10 <= Len(received) THEN Len(received) - 10 + 1 ELSE 0
            /\ \A i \in 1 .. Len(received) - 10 + 1 : b[i] = received[10 + i - 1]
        BY <2>4, <4>1, SubSeqProperties
      <4> HIDE DEF b
      <4>3. Len(b) = Len(received) - 9
        <5> DEFINE l == Len(b)
                   n == Len(received)
        <5>1. n \in Nat /\ n >= 9 /\ l = IF 10 <= n THEN n - 10 + 1 ELSE 0
          BY <2>4, <2>6, <4>2
        <5> HIDE DEF l, n
        <5>2. l = n - 9
          BY <5>1
        <5> QED BY <5>2 DEF l, n
      <4>4. \A i \in 1 .. Len(received) - 9 : i \in 1 .. Len(received) - 10 + 1 /\ 10 + i - 1 = 9 + i
        BY <2>4
      <4> QED BY <4>2, <4>3, <4>4
    <3> HIDE DEF b, seen
    <3>3. \A i \in 1 .. Len(b) : b[i] = reply.body[i]
      <4> TAKE i \in 1 .. Len(b)
      <4>1. 9 + i \in 1 .. Len(received) /\ i \in 1 .. Len(reply.body) /\ i \in 1 .. Len(received) - 9
        BY <2>2, <2>4, <3>2
      <4>2. b[i] = response(reply)[9 + i]
        BY <2>2, <3>2, <4>1
      <4>3. response(reply)[9 + i] = reply.body[i]
        BY <2>1, <4>1, ResponsePieces
      <4> QED BY <4>2, <4>3
    <3>4. Len(b) \in Nat /\ Len(b) <= Len(reply.body) /\ Len(b) <= Len(page)
      BY <2>1, <2>2, <2>3, <2>4, <2>6, <3>2
    <3>5. \A i \in 1 .. Len(b) : b[i] = page[i] /\ page[i] \in BodyPiece
      BY <2>1, <2>3, <2>4, <3>3, <3>4, ElementOfSeq
    <3>6. SubSeq(page, 1, Len(b)) = b
      <4>1. /\ SubSeq(page, 1, Len(b)) \in Seq(BodyPiece)
            /\ Len(SubSeq(page, 1, Len(b))) = IF 1 <= Len(b) THEN Len(b) - 1 + 1 ELSE 0
            /\ \A i \in 1 .. Len(b) - 1 + 1 : SubSeq(page, 1, Len(b))[i] = page[1 + i - 1]
        BY <3>4, <3>5, SubSeqProperties
      <4>2. Len(SubSeq(page, 1, Len(b))) = Len(b)
        BY <3>4, <4>1
      <4>3. \A i \in 1 .. Len(b) : SubSeq(page, 1, Len(b))[i] = b[i]
        <5> TAKE i \in 1 .. Len(b)
        <5>1. i \in 1 .. Len(b) - 1 + 1 /\ 1 + i - 1 = i
          BY <3>4
        <5> QED BY <3>5, <4>1, <5>1
      <4>4. SubSeq(page, 1, Len(b)) \in Seq(AnyPiece)
        BY <4>1, SeqMonotonic DEF AnyPiece
      <4> QED BY <3>2, <4>2, <4>3, <4>4, SeqEqual
    <3>7. IsPrefix(b, page)
      <4>1. SubSeq(b, 1, Len(b)) = b
        BY <3>2, SubSeqFull
      <4> QED BY <3>4, <3>6, <4>1 DEF IsPrefix
    <3>8. Len(received) = Len(response(reply)) => b = reply.body
      <4>1. reply.body \in Seq(AnyPiece)
        <5>1. reply.body \in Seq(BodyPiece)
          BY <2>1 DEF Response
        <5> QED BY <5>1, SeqMonotonic DEF AnyPiece
      <4>2. Len(received) = Len(response(reply)) => Len(b) = Len(reply.body)
        BY <2>4, <3>2
      <4> QED BY <3>2, <3>3, <4>1, <4>2, SeqEqual
    <3>9. seen.status = reply.status /\ seen.body = b /\ reply.status # 0
      <4>1. reply.status \in {200, 404}
        BY <2>1 DEF Response
      <4> QED BY <3>1, <4>1
    <3> QED BY <3>1, <3>7, <3>8, <3>9 DEF seen, page
  <2> QED BY <2>4, <2>5, <2>6
<1> QED BY <1>1, FileServiceInvariant, PTL
=============================================================================
