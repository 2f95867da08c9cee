---------------------------- MODULE HTTPRequest ----------------------------
(***************************************************************************)
(* HTTPRequest::readRequest() of one connection: the bytes of a request    *)
(* come in reads of any length, each read goes to onRead(), and the loop   *)
(* ends when the request is complete, the connection fails, or one of the  *)
(* assertions stops the process.                                           *)
(*                                                                         *)
(* A client's request is a record of what it means (method, target, header *)
(* lines, body) and of the bytes that say so. The reading side sees only   *)
(* the bytes; the rest is what the properties compare the result with.     *)
(***************************************************************************)
EXTENDS HttpParser

CONSTANTS
  Requests,     \* what clients send
  Major         \* what http_major may hold before it is set

ASSUME RequestsAssumption == \A r \in Requests : r.bytes \in Seq(STRING)
ASSUME MajorAssumption == Major \subseteq Nat
ASSUME NullAssumption == Null \notin Seq(STRING)

VARIABLES
  sent,         \* the request on this connection
  at,           \* how many of its bytes have been read
  fresh,        \* no byte of the current read has been parsed
  parser,       \* m_http, with its parser
  outcome       \* "reading", "done", "unread", or the assertion that failed

requestvars == <<sent, at, fresh, parser, outcome>>

Assertions ==
  {"HTTP.cpp:17", "HTTP.cpp:46", "HTTP.cpp:61", "HTTP.cpp:73", "HTTP.cpp:130", "HTTP.cpp:356",
   "HTTP.cpp:367", "HTTP.cpp:379", "HTTP.cpp:391", "HTTPRequest.cpp:108", "HTTPRequest.cpp:119"}

RequestInit ==
  /\ sent \in Requests
  /\ at = 0
  /\ fresh = TRUE
  /\ \E major \in Major : parser = NewParser(major)
  /\ outcome = "reading"

Done(p) == p.http.m_doneParsing

\* What onRead() makes of a return of addData() before the end of the data.
\* Nothing parsed fails its assertion, in this call or, after an error, in
\* the next one on the same data. The request complete, only the line feed
\* that ends a CONNECT may be left; more says whether other bytes are.
Returned(p, more) ==
  IF fresh \/ ~Done(p) THEN "HTTPRequest.cpp:108"
  ELSE IF p.http.m_method = "CONNECT" /\ p.ret = "upgrade" /\ ~more THEN "done"
  ELSE "HTTPRequest.cpp:119"

\* The parser takes the next byte of a read. What a failed assertion or an
\* early return leaves in the parser is not looked at again.
Byte ==
  /\ outcome = "reading"
  /\ at < Len(sent.bytes)
  /\ \E p \in {Character(parser, sent.bytes[at + 1])} :
         /\ parser' = p
         /\ \E more \in BOOLEAN :
              /\ more => at + 1 < Len(sent.bytes)
              /\ outcome' = IF ~Alive(p.http) THEN p.http.failed
                            ELSE IF p.ret # "none" THEN Returned(p, more)
                            ELSE "reading"
  /\ at' = at + 1
  /\ fresh' = FALSE
  /\ UNCHANGED sent

\* The end of a read: onRead() returns, and readRequest() reads on unless
\* the request is complete.
EndOfRead ==
  /\ outcome = "reading"
  /\ ~fresh
  /\ \E p \in {EndOfData(parser)} :
         /\ parser' = Resume(p)
         /\ outcome' = IF ~Alive(p.http) THEN p.http.failed
                       ELSE IF Done(p) THEN "done" ELSE "reading"
  /\ fresh' = TRUE
  /\ UNCHANGED <<sent, at>>

\* MySocket::read() throws: the client has closed the connection.
ReadError ==
  /\ outcome = "reading"
  /\ fresh
  /\ outcome' = "unread"
  /\ UNCHANGED <<sent, at, fresh, parser>>

RequestNext == Byte \/ EndOfRead \/ ReadError

RequestSpec == RequestInit /\ [][RequestNext]_requestvars

\* The bytes a client sends arrive, and the loop parses what arrives.
FairRequestSpec == RequestSpec /\ WF_requestvars(Byte \/ EndOfRead)
-----------------------------------------------------------------------------
(* Properties.                                                             *)

\* Types; the parser is inside a body only while some of it is to come, and
\* has counted no more header characters than it accepts.
TypeOK ==
  /\ at \in 0 .. Len(sent.bytes)
  /\ fresh \in BOOLEAN
  /\ parser.ret \in {"none", "error", "upgrade"}
  /\ parser.nread \in 0 .. HTTP_MAX_HEADER_SIZE
  /\ parser.state \in {"body_identity", "chunk_data"} => parser.content_length > 0
  /\ parser.http.failed \in Assertions \cup {"none"}
  /\ outcome \in {"reading", "done", "unread"} \cup Assertions

\* A request the server is made for: one of its methods, no fragment and no
\* upgrade, a path or a version, at least one header line and each with a
\* value, headers of a size the parser accepts, no body to a CONNECT, and no
\* byte damaged on its way.
Supported(r) ==
  /\ r.intact
  /\ r.method \in SupportedMethods
  /\ ~r.fragment
  /\ r.version \/ r.path # <<>>
  /\ r.lines # <<>>
  /\ \A i \in DOMAIN r.lines : r.lines[i].value # Null
  /\ \A i \in DOMAIN r.trailer : r.trailer[i].value # Null
  /\ ~r.upgrade
  /\ r.headerSize <= HTTP_MAX_HEADER_SIZE
  /\ r.method = "CONNECT" => r.size = r.headerSize

\* What the handlers see is what the client sent, in however many reads it
\* came: no piece of the path, the query, a header or the body is lost,
\* doubled or given to its neighbour at the end of a read, and the request
\* is taken to be complete after its last byte, not before.
HandlersSeeWhatWasSent ==
  outcome = "done" /\ Supported(sent) =>
    /\ parser.http.m_method = sent.method
    /\ parser.http.m_path = sent.path
    /\ parser.http.m_query = sent.query
    /\ parser.http.m_url = sent.url
    /\ parser.http.m_headers = [i \in DOMAIN sent.lines |-> <<sent.lines[i].name, sent.lines[i].value>>]
    /\ parser.http.m_body = sent.body
    /\ at >= sent.size

\* The parser when the first n bytes come in one read.
Unbroken[n \in 0 .. Len(sent.bytes)] ==
  IF n = 0 THEN NewParser(0)
  ELSE LET p == Unbroken[n - 1]
       IN  IF p.ret = "none" /\ Alive(p.http) THEN Character(p, sent.bytes[n]) ELSE p

\* The request as it is parsed when all its bytes up to now come in one read.
Uncut == EndOfData(Unbroken[at]).http

\* Where reads end does not matter, for any input that gets as far as a
\* complete request, whether or not it is one a client should send.
CutsDoNotMatter == outcome = "done" => parser.http = Uncut

\* No supported request stops the process, however it is cut, if nothing
\* follows it; CONNECT is the exception, see AssertionsHold.
SupportedRequestsAreSafe ==
  Supported(sent) /\ ~sent.extra /\ sent.method # "CONNECT" => outcome \notin Assertions

\* readRequest() returns once a supported request has arrived: the parser
\* never waits for a byte that will not come.
RequestsAreRead ==
  (Supported(sent) /\ ~sent.extra) ~> outcome # "reading"

\* The assertions of HTTP.cpp and HTTPRequest.cpp hold.
AssertionsHold == outcome \notin Assertions
=============================================================================
