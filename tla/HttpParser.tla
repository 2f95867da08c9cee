---------------------------- MODULE HttpParser -----------------------------
(***************************************************************************)
(* http_parser.c: http_parser_execute() for requests, one character of the *)
(* input at a time, and the callbacks of HTTP.cpp it calls.                *)
(*                                                                         *)
(* Pieces. Characters the parser treats alike are one piece: a word stands *)
(* for its letters, which take the parser from the state before the word   *)
(* to the state after it. Words the parser knows are two pieces, so that a *)
(* read can end inside them.                                               *)
(*                                                                         *)
(* A parser is a record: the fields of struct http_parser that matter, the *)
(* object its callbacks fill ("http"), and two locals of the function:     *)
(* mark[f] holds the characters since MARK(f), or Null where the pointer   *)
(* is NULL, and ret tells whether the function has returned before the end *)
(* of the data, through "error" or after an "upgrade".                     *)
(***************************************************************************)
EXTENDS HTTP, Integers, TLC

CONSTANT HTTP_MAX_HEADER_SIZE    \* in pieces

ASSUME HeaderSizeAssumption == HTTP_MAX_HEADER_SIZE \in Nat

CR == "CR"
LF == "LF"
Digit == [ch \in {"0", "1", "2"} |-> CASE ch = "0" -> 0 [] ch = "1" -> 1 [] ch = "2" -> 2]

\* method_strings: the first letter picks a method, the rest confirms it.
Method ==
  [w \in {<<"G", "ET">>, <<"P", "OST">>, <<"P", "UT">>, <<"C", "ONNECT">>, <<"O", "PTIONS">>} |->
     CASE w[2] = "ET" -> "GET" [] w[2] = "OST" -> "POST" [] w[2] = "UT" -> "PUT"
       [] w[2] = "ONNECT" -> "CONNECT" [] w[2] = "PTIONS" -> "OPTIONS"]

\* The header fields and the values the parser looks for, and the header
\* state they lead to.
FieldWord ==
  [w \in {<<"con", "nection">>, <<"con", "tent-length">>, <<"transfer-", "encoding">>,
          <<"up", "grade">>} |->
     CASE w[2] = "nection" -> "connection" [] w[2] = "tent-length" -> "content_length"
       [] w[2] = "encoding" -> "transfer_encoding" [] w[2] = "grade" -> "upgrade"]
ValueWord ==
  [w \in {<<"transfer_encoding", "chun">>, <<"chun", "ked">>, <<"connection", "keep-">>,
          <<"keep-", "alive">>, <<"connection", "clo">>, <<"clo", "se">>} |->
     CASE w[2] = "ked" -> "chunked" [] w[2] = "alive" -> "keep_alive" [] w[2] = "se" -> "close"
       [] OTHER -> w[2]]

FirstLetter == {w[1] : w \in DOMAIN Method}
Recognized == {FieldWord[w] : w \in DOMAIN FieldWord}
Flag == {"chunked", "keep_alive", "close"}

Letters == {"x", "HTTP"} \cup (UNION {{w[1], w[2]} : w \in DOMAIN Method \cup DOMAIN FieldWord})
             \cup {w[2] : w \in DOMAIN ValueWord}
Alphanumeric == Letters \cup DOMAIN Digit

\* The tables normal_url_char, tokens and acceptable_header; "(" stands for
\* the characters that are neither letters nor separators.
UrlChar(ch) == ch \in Alphanumeric \cup {"/", ":", ".", "("}
Token(ch) == ch \in Alphanumeric \cup {"/", ".", "#", " "}
Acceptable(ch) == ch \in Alphanumeric \cup {" "}

Fields == {"header_field", "header_value", "fragment", "query_string", "path", "url"}

BodyStates == {"chunk_size_start", "chunk_size", "chunk_size_almost_done", "chunk_parameters",
               "chunk_data", "chunk_data_almost_done", "chunk_data_done", "body_identity"}

\* http_parser_init(parser, HTTP_REQUEST), on memory nothing has written:
\* http_major is not set, and is read when the request line has no version.
NewParser(major) ==
  [state |-> "start_req", header_state |-> "general", flags |-> {}, content_length |-> -1,
   major |-> major, minor |-> 0, method |-> Null, nread |-> 0, ret |-> "none",
   mark |-> [f \in Fields |-> Null], http |-> NewHTTP]
-----------------------------------------------------------------------------
(* The macros.                                                             *)

To(p, state) == [p EXCEPT !.state = state]

\* goto error
Error(p) == [p EXCEPT !.state = "dead", !.ret = "error"]

Mark(p, f) == [p EXCEPT !.mark[f] = <<>>]

\* The callback of a field, as long as no assertion has stopped the process.
Called(http, f, at) ==
  IF ~Alive(http) THEN http
  ELSE CASE
       f = "header_field" -> header_field_cb(http, at)
    [] f = "header_value" -> header_value_cb(http, at)
    [] f = "fragment" -> fragment_cb(http, at)
    [] f = "query_string" -> query_string_cb(http, at)
    [] f = "path" -> path_cb(http, at)
    [] f = "url" -> url_cb(http, at)

CALLBACK_NOCLEAR(p, f) ==
  IF p.mark[f] = Null THEN p ELSE [p EXCEPT !.http = Called(@, f, p.mark[f])]

CALLBACK(p, f) == [CALLBACK_NOCLEAR(p, f) EXCEPT !.mark[f] = Null]

\* http_should_keep_alive
KeepAlive(p) ==
  IF p.major > 0 /\ p.minor > 0 THEN "close" \notin p.flags ELSE "keep_alive" \in p.flags

NEW_MESSAGE(p) == IF KeepAlive(p) THEN "start_req" ELSE "dead"

\* CALLBACK2(message_complete); state = NEW_MESSAGE()
Complete(p) ==
  IF Alive(p.http)
    THEN [p EXCEPT !.http = message_complete_cb(@, p.method), !.state = NEW_MESSAGE(p)]
    ELSE p
-----------------------------------------------------------------------------
(* The request line.                                                       *)

start_req(p, ch) ==
  LET begun == [p EXCEPT !.flags = {}, !.content_length = -1, !.http = message_begin_cb(@)]
  IN  CASE ch \in {CR, LF} -> p
        [] ch \in FirstLetter -> [begun EXCEPT !.method = ch, !.state = "req_method"]
        [] OTHER -> Error(begun)

\* CONNECT (and MKCOL) let other letters pass; no input here has them.
req_method(p, ch) ==
  CASE <<p.method, ch>> \in DOMAIN Method -> [p EXCEPT !.method = Method[<<p.method, ch>>]]
    [] ch = " " /\ p.method \notin FirstLetter -> To(p, "req_spaces_before_url")
    [] OTHER -> Error(p)

req_spaces_before_url(p, ch) ==
  CASE ch = " " -> p
    [] ch = "/" -> To(Mark(Mark(p, "url"), "path"), "req_path")
    [] ch \in Letters -> To(Mark(p, "url"), "req_schema")
    [] OTHER -> Error(p)

req_schema(p, ch) ==
  CASE ch \in Alphanumeric \cup {CR} -> p      \* LOWER makes CR a "-"
    [] ch = ":" -> To(p, "req_schema_slash")
    [] ch = "." -> To(p, "req_host")
    [] OTHER -> Error(p)

req_schema_slash(p, ch) ==
  IF ch # "/" THEN Error(p)
  ELSE To(p, IF p.state = "req_schema_slash" THEN "req_schema_slash_slash" ELSE "req_host")

req_host(p, ch) ==
  CASE ch \in DOMAIN Digit -> p
    [] p.state = "req_host" /\ ch \in Letters \cup {"."} -> p
    [] p.state = "req_host" /\ ch = ":" -> To(p, "req_port")
    [] ch = "/" -> To(Mark(p, "path"), "req_path")
    [] ch = " " -> To(CALLBACK(p, "url"), "req_http_start")
    [] OTHER -> Error(p)

\* The target ends: at a space the version follows, at a line end (HTTP/0.9)
\* the headers do.
EndOfTarget(p, ch) ==
  CASE ch = " " -> To(p, "req_http_start")
    [] ch = CR -> [p EXCEPT !.minor = 9, !.state = "req_line_almost_done"]
    [] ch = LF -> [p EXCEPT !.minor = 9, !.state = "header_field_start"]

req_path(p, ch) ==
  CASE UrlChar(ch) -> p
    [] ch \in {" ", CR, LF} -> EndOfTarget(CALLBACK(CALLBACK(p, "url"), "path"), ch)
    [] ch = "?" -> To(CALLBACK(p, "path"), "req_query_string_start")
    [] ch = "#" -> To(CALLBACK(p, "path"), "req_fragment_start")
    [] OTHER -> Error(p)

req_query_string_start(p, ch) ==
  CASE UrlChar(ch) -> To(Mark(p, "query_string"), "req_query_string")
    [] ch = "?" -> p
    [] ch \in {" ", CR, LF} -> EndOfTarget(CALLBACK(p, "url"), ch)
    [] ch = "#" -> To(p, "req_fragment_start")
    [] OTHER -> Error(p)

req_query_string(p, ch) ==
  CASE UrlChar(ch) \/ ch = "?" -> p
    [] ch \in {" ", CR, LF} -> EndOfTarget(CALLBACK(CALLBACK(p, "url"), "query_string"), ch)
    [] ch = "#" -> To(CALLBACK(p, "query_string"), "req_fragment_start")
    [] OTHER -> Error(p)

req_fragment_start(p, ch) ==
  CASE UrlChar(ch) \/ ch = "?" -> To(Mark(p, "fragment"), "req_fragment")
    [] ch \in {" ", CR, LF} -> EndOfTarget(CALLBACK(p, "url"), ch)
    [] ch = "#" -> p
    [] OTHER -> Error(p)

req_fragment(p, ch) ==
  CASE UrlChar(ch) \/ ch \in {"?", "#"} -> p
    [] ch \in {" ", CR, LF} -> EndOfTarget(CALLBACK(CALLBACK(p, "url"), "fragment"), ch)
    [] OTHER -> Error(p)

req_http_start(p, ch) ==
  CASE ch = "HTTP" -> To(p, "req_http_HTTP")
    [] ch = " " -> p
    [] OTHER -> Error(p)

\* "/", the digits of the major version, the dot, those of the minor one.
http_version(p, ch) ==
  CASE p.state = "req_http_HTTP" /\ ch = "/" -> To(p, "req_first_http_major")
    [] p.state = "req_first_http_major" /\ ch \in DOMAIN Digit \ {"0"} ->
         [p EXCEPT !.major = Digit[ch], !.state = "req_http_major"]
    [] p.state = "req_http_major" /\ ch = "." -> To(p, "req_first_http_minor")
    [] p.state = "req_http_major" /\ ch \in DOMAIN Digit /\ 10 * p.major + Digit[ch] <= 999 ->
         [p EXCEPT !.major = 10 * @ + Digit[ch]]
    [] p.state = "req_first_http_minor" /\ ch \in DOMAIN Digit ->
         [p EXCEPT !.minor = Digit[ch], !.state = "req_http_minor"]
    [] p.state = "req_http_minor" /\ ch = CR -> To(p, "req_line_almost_done")
    [] p.state = "req_http_minor" /\ ch = LF -> To(p, "header_field_start")
    [] p.state = "req_http_minor" /\ ch \in DOMAIN Digit /\ 10 * p.minor + Digit[ch] <= 999 ->
         [p EXCEPT !.minor = 10 * @ + Digit[ch]]
    [] OTHER -> Error(p)

req_line_almost_done(p, ch) == IF ch = LF THEN To(p, "header_field_start") ELSE Error(p)
-----------------------------------------------------------------------------
(* The headers.                                                            *)

\* Mutant: a length of zero is a body to wait for.
headers_almost_doneWaitsForNothing(p, ch) ==
  LET q == [p EXCEPT !.nread = 0, !.http = headers_complete_cb(@)]
  IN  IF ch # LF THEN Error(p)
      ELSE IF "trailing" \in p.flags THEN Complete(p)
      ELSE IF ~Alive(q.http) THEN q
      ELSE IF "upgrade" \in q.flags \/ q.method = "CONNECT"
        THEN [q EXCEPT !.http = message_complete_cb(@, q.method), !.ret = "upgrade"]
      ELSE IF "chunked" \in q.flags THEN To(q, "chunk_size_start")
      ELSE IF q.content_length >= 0 THEN To(q, "body_identity")
      ELSE Complete(q)

\* After the empty line: the callback, then what the headers say of a body.
headers_almost_done(p, ch) ==
  LET q == [p EXCEPT !.nread = 0, !.http = headers_complete_cb(@)]
  IN  IF ch # LF THEN Error(p)
      ELSE IF "trailing" \in p.flags THEN Complete(p)
      ELSE IF ~Alive(q.http) THEN q
      ELSE IF "upgrade" \in q.flags \/ q.method = "CONNECT"
        THEN [q EXCEPT !.http = message_complete_cb(@, q.method), !.ret = "upgrade"]
      ELSE IF "chunked" \in q.flags THEN To(q, "chunk_size_start")
      ELSE IF q.content_length > 0 THEN To(q, "body_identity")
      ELSE Complete(q)

header_field_start(p, ch) ==
  CASE ch = CR -> To(p, "headers_almost_done")
    [] ch = LF -> headers_almost_done(p, ch)
    [] Token(ch) ->
         [Mark(p, "header_field") EXCEPT
            !.state = "header_field",
            !.header_state = IF \E w \in DOMAIN FieldWord : w[1] = ch THEN ch ELSE "general"]
    [] OTHER -> Error(p)

header_field(p, ch) ==
  LET hs == p.header_state
  IN  CASE Token(ch) ->
             [p EXCEPT !.header_state =
                CASE <<hs, ch>> \in DOMAIN FieldWord -> FieldWord[<<hs, ch>>]
                  [] hs \in Recognized /\ ch = " " -> hs
                  [] OTHER -> "general"]
        [] ch = ":" -> To(CALLBACK(p, "header_field"), "header_value_start")
        [] ch = CR -> To(CALLBACK(p, "header_field"), "header_almost_done")
        [] ch = LF -> To(CALLBACK(p, "header_field"), "header_field_start")
        [] OTHER -> Error(p)

header_value_start(p, ch) ==
  LET hs == p.header_state
      q  == To(Mark(p, "header_value"), "header_value")
      general == [q EXCEPT !.header_state = "general"]
  IN  IF ch = " " THEN p
      ELSE IF ch = CR THEN To(CALLBACK(general, "header_value"), "header_almost_done")
      ELSE IF ch = LF THEN To(CALLBACK(q, "header_value"), "header_field_start")
      ELSE IF ~Acceptable(ch) THEN general
      ELSE IF hs = "upgrade" THEN [general EXCEPT !.flags = @ \cup {"upgrade"}]
      ELSE IF hs = "content_length"
        THEN IF ch \in DOMAIN Digit THEN [q EXCEPT !.content_length = Digit[ch]] ELSE Error(q)
      ELSE IF <<hs, ch>> \in DOMAIN ValueWord
        THEN [q EXCEPT !.header_state = ValueWord[<<hs, ch>>]]
      ELSE general

header_almost_done(p, ch) ==
  IF ch # LF THEN Error(p)
  ELSE [p EXCEPT !.state = "header_field_start", !.flags = @ \cup ({p.header_state} \cap Flag)]

header_value(p, ch) ==
  LET hs == p.header_state
  IN  IF ch = CR THEN To(CALLBACK(p, "header_value"), "header_almost_done")
      ELSE IF ch = LF THEN header_almost_done(CALLBACK(p, "header_value"), ch)
      ELSE IF ~Acceptable(ch) THEN p
      ELSE IF ch = " " /\ hs \in Flag \cup {"content_length"} THEN p
      ELSE IF hs = "content_length"
        THEN IF ch \in DOMAIN Digit THEN [p EXCEPT !.content_length = 10 * @ + Digit[ch]] ELSE Error(p)
      ELSE [p EXCEPT !.header_state =
              IF <<hs, ch>> \in DOMAIN ValueWord THEN ValueWord[<<hs, ch>>] ELSE "general"]
-----------------------------------------------------------------------------
(* The body.                                                               *)

body_identity(p, ch) ==
  LET q == [p EXCEPT !.http = body_cb(@, <<ch>>), !.content_length = @ - 1]
  IN  IF q.content_length = 0 THEN Complete(q) ELSE q

chunk_size(p, ch) ==
  CASE ch \in DOMAIN Digit ->
         [p EXCEPT !.state = "chunk_size",
            !.content_length = (IF p.state = "chunk_size" THEN 16 * @ ELSE 0) + Digit[ch]]
    [] p.state = "chunk_size" /\ ch = CR -> To(p, "chunk_size_almost_done")
    [] p.state = "chunk_size" /\ ch = " " -> To(p, "chunk_parameters")
    [] OTHER -> Error(p)

chunk_parameters(p, ch) == IF ch = CR THEN To(p, "chunk_size_almost_done") ELSE p

chunk_size_almost_done(p, ch) ==
  IF ch # LF THEN Error(p)
  ELSE IF p.content_length = 0
    THEN [p EXCEPT !.flags = @ \cup {"trailing"}, !.state = "header_field_start"]
  ELSE To(p, "chunk_data")

\* Mutant: the last byte of a chunk is not noticed.
chunk_dataLate(p, ch) ==
  [p EXCEPT !.http = body_cb(@, <<ch>>), !.content_length = @ - 1,
     !.state = IF p.content_length = 0 THEN "chunk_data_almost_done" ELSE @]

chunk_data(p, ch) ==
  [p EXCEPT !.http = body_cb(@, <<ch>>), !.content_length = @ - 1,
     !.state = IF p.content_length = 1 THEN "chunk_data_almost_done" ELSE @]

chunk_data_done(p, ch) ==
  CASE p.state = "chunk_data_almost_done" /\ ch = CR -> To(p, "chunk_data_done")
    [] p.state = "chunk_data_done" /\ ch = LF -> To(p, "chunk_size_start")
    [] OTHER -> Error(p)
-----------------------------------------------------------------------------
\* The switch on the state.
Switch(p, ch) ==
  CASE p.state = "dead" -> Error(p)
    [] p.state = "start_req" -> start_req(p, ch)
    [] p.state = "req_method" -> req_method(p, ch)
    [] p.state = "req_spaces_before_url" -> req_spaces_before_url(p, ch)
    [] p.state = "req_schema" -> req_schema(p, ch)
    [] p.state \in {"req_schema_slash", "req_schema_slash_slash"} -> req_schema_slash(p, ch)
    [] p.state \in {"req_host", "req_port"} -> req_host(p, ch)
    [] p.state = "req_path" -> req_path(p, ch)
    [] p.state = "req_query_string_start" -> req_query_string_start(p, ch)
    [] p.state = "req_query_string" -> req_query_string(p, ch)
    [] p.state = "req_fragment_start" -> req_fragment_start(p, ch)
    [] p.state = "req_fragment" -> req_fragment(p, ch)
    [] p.state = "req_http_start" -> req_http_start(p, ch)
    [] p.state \in {"req_http_HTTP", "req_first_http_major", "req_http_major",
                    "req_first_http_minor", "req_http_minor"} -> http_version(p, ch)
    [] p.state = "req_line_almost_done" -> req_line_almost_done(p, ch)
    [] p.state = "header_field_start" -> header_field_start(p, ch)
    [] p.state = "header_field" -> header_field(p, ch)
    [] p.state = "header_value_start" -> header_value_start(p, ch)
    [] p.state = "header_value" -> header_value(p, ch)
    [] p.state = "header_almost_done" -> header_almost_done(p, ch)
    [] p.state = "headers_almost_done" -> headers_almost_done(p, ch)
    [] p.state = "body_identity" -> body_identity(p, ch)
    [] p.state \in {"chunk_size_start", "chunk_size"} -> chunk_size(p, ch)
    [] p.state = "chunk_parameters" -> chunk_parameters(p, ch)
    [] p.state = "chunk_size_almost_done" -> chunk_size_almost_done(p, ch)
    [] p.state = "chunk_data" -> chunk_data(p, ch)
    [] p.state \in {"chunk_data_almost_done", "chunk_data_done"} -> chunk_data_done(p, ch)

\* One turn of the loop: the limit on the size of the headers, the switch,
\* and the marks that are set now reach past this character.
Character(p, ch) ==
  LET counted == p.state \notin BodyStates /\ "trailing" \notin p.flags
      q == Switch([p EXCEPT !.nread = IF counted THEN @ + 1 ELSE @], ch)
  IN  IF counted /\ p.nread >= HTTP_MAX_HEADER_SIZE THEN Error(p)
      ELSE [q EXCEPT !.mark = [f \in Fields |->
              IF q.mark[f] = Null THEN Null ELSE Append(q.mark[f], ch)]]

\* The end of the data: what is marked goes to the callbacks in parts.
EndOfData(p) ==
  CALLBACK_NOCLEAR(CALLBACK_NOCLEAR(CALLBACK_NOCLEAR(CALLBACK_NOCLEAR(CALLBACK_NOCLEAR(
    CALLBACK_NOCLEAR(p, "header_field"), "header_value"), "fragment"), "query_string"),
    "path"), "url")

\* Mutant: the mark of the query string is not set.
ResumeForgetsQuery(p) ==
  [p EXCEPT !.mark = [f \in Fields |->
     IF p.state = f \/ (f \in {"url", "path"} /\ p.state = "req_path") THEN <<>> ELSE Null]]

\* The next call: the marks of the tokens the state is inside of.
Resume(p) ==
  [p EXCEPT !.mark = [f \in Fields |->
     CASE f = "url" /\ p.state \in {"req_path", "req_schema", "req_schema_slash",
                 "req_schema_slash_slash", "req_host", "req_port", "req_query_string_start",
                 "req_query_string", "req_fragment_start", "req_fragment"} -> <<>>
       [] f = "path" /\ p.state = "req_path" -> <<>>
       [] f = "query_string" /\ p.state = "req_query_string" -> <<>>
       [] f = "fragment" /\ p.state = "req_fragment" -> <<>>
       [] f \in {"header_field", "header_value"} /\ p.state = f -> <<>>
       [] OTHER -> Null]]
=============================================================================
