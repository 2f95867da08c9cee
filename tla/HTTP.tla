------------------------------- MODULE HTTP --------------------------------
(***************************************************************************)
(* HTTP.cpp: the object the callbacks of http_parser.c fill, for requests. *)
(*                                                                         *)
(* An object is a record with the fields of the class; a callback is an    *)
(* operator from the object before it to the object after it. A string is  *)
(* a sequence of pieces (see HttpParser), Null a pointer that is NULL.     *)
(* The assertions are live in this build: "failed" is where the one that   *)
(* does not hold stands, and the object of a process that is still there   *)
(* has failed = "none".                                                    *)
(***************************************************************************)
EXTENDS Sequences

CONSTANT Null

\* The methods messageComplete() knows.
SupportedMethods == {"GET", "CONNECT", "POST", "HEAD", "PUT", "DELETE", "MOVE"}

\* HTTP::HTTP(HTTP_REQUEST).
NewHTTP ==
  [m_state |-> "INIT", m_path |-> <<>>, m_query |-> <<>>, m_url |-> <<>>,
   m_field |-> Null, m_value |-> Null, m_headers |-> <<>>, m_body |-> <<>>,
   m_headerDone |-> FALSE, m_doneParsing |-> FALSE, m_method |-> Null,
   failed |-> "none"]

Alive(http) == http.failed = "none"

\* assert(condition), at a line of the source, and what the code does next.
Asserted(http, condition, line, next) ==
  IF condition THEN next ELSE [http EXCEPT !.failed = line]

message_begin_cb(http) ==
  Asserted(http, http.m_state = "INIT", "HTTP.cpp:17",
           [http EXCEPT !.m_state = "HEADER"])

path_cb(http, at) == [http EXCEPT !.m_path = @ \o at]

query_string_cb(http, at) == [http EXCEPT !.m_query = @ \o at]

url_cb(http, at) == [http EXCEPT !.m_url = @ \o at]

fragment_cb(http, at) == [http EXCEPT !.failed = "HTTP.cpp:46"]

body_cb(http, at) == [http EXCEPT !.m_body = @ \o at]

\* The header under construction is complete: it joins m_headers.
addHeaderField(http) ==
  IF http.m_field = Null
    THEN Asserted(http, http.m_value = Null, "HTTP.cpp:367", http)
    ELSE Asserted(http, http.m_value # Null, "HTTP.cpp:356",
                  [http EXCEPT !.m_headers = Append(@, <<http.m_field, http.m_value>>),
                               !.m_field = Null, !.m_value = Null])

newHeaderField(http, at) ==
  LET added == addHeaderField(http)
  IN  IF Alive(added)
        THEN [added EXCEPT !.m_field = at, !.m_value = <<>>, !.m_state = "FIELD"]
        ELSE added

\* Mutant: every piece of a field begins a header.
header_field_cbAlwaysNew(http, at) ==
  Asserted(http, http.m_state \in {"FIELD", "VALUE", "HEADER"}, "HTTP.cpp:61", newHeaderField(http, at))

\* Two fields in a row are one field: the first one had no value, or this is
\* the rest of a field that came in two reads.
header_field_cb(http, at) ==
  CASE http.m_state = "FIELD" ->
         Asserted(http, http.m_field # Null, "HTTP.cpp:379",
                  [http EXCEPT !.m_field = @ \o at])
    [] http.m_state \in {"VALUE", "HEADER"} -> newHeaderField(http, at)
    [] OTHER -> [http EXCEPT !.failed = "HTTP.cpp:61"]

\* Mutant: the state is not set.
header_value_cbKeepsState(http, at) ==
  Asserted(http, http.m_state \in {"FIELD", "VALUE"} /\ http.m_value # Null, "HTTP.cpp:73",
           [http EXCEPT !.m_value = @ \o at])

header_value_cb(http, at) ==
  Asserted(http, http.m_state \in {"FIELD", "VALUE"} /\ http.m_value # Null, "HTTP.cpp:73",
           [http EXCEPT !.m_state = "VALUE", !.m_value = @ \o at])

headers_complete_cb(http) == [addHeaderField(http) EXCEPT !.m_headerDone = TRUE]

\* With messageComplete(): the method must be one the server knows.
message_complete_cb(http, method) ==
  Asserted(http, http.m_state \in {"VALUE", "BODY"}, "HTTP.cpp:130",
    Asserted(http, method \in SupportedMethods, "HTTP.cpp:391",
      [http EXCEPT !.m_state = "DONE", !.m_method = method, !.m_doneParsing = TRUE]))
=============================================================================
