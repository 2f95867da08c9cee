---------------------------- MODULE HTTPResponse ----------------------------
(***************************************************************************)
(* HTTPResponse.cpp writes an answer and shared/HTTPClientResponse.cpp     *)
(* reads one. What is on the wire is a sequence of pieces with a name each:*)
(* a line without its end, a line end, or a piece of the body, which may   *)
(* be a line end too. A line is named by its first word without dashes,    *)
(* and the character set is left out. No service streams or sets a header  *)
(* of its own.                                                             *)
(***************************************************************************)
EXTENDS Integers, Sequences, FiniteSetsExt

Piece(name, value) == [name |-> name, value |-> value]
CRLF == Piece("CRLF", 0)

\* The constructor.
NewResponse ==
  [status |-> 200, contentType |-> "text/html", body |-> <<>>]

\* The status line, the headers in the order of the map, an empty line, the body.
response(r) ==
  <<Piece("HTTP/1.1", r.status), CRLF,
    Piece("ContentLength", Len(r.body)), CRLF,
    Piece("ContentType", r.contentType), CRLF,
    Piece("Server", "Gunrock"), CRLF,
    CRLF>> \o r.body

\* Mutant: the last empty line is taken for the end of the headers.
HeadersEndLast(wire) ==
  LET at == {k \in 1 .. Len(wire) - 1 : wire[k].name = "CRLF" /\ wire[k + 1].name = "CRLF"}
  IN IF at = {} THEN 0 ELSE Max(at)

\* The place of the first "\r\n\r\n", or 0.
HeadersEnd(wire) ==
  LET at == {k \in 1 .. Len(wire) - 1 : wire[k].name = "CRLF" /\ wire[k + 1].name = "CRLF"}
  IN IF at = {} THEN 0 ELSE Min(at)

\* m_status_code and m_body after readResponse(). The end of the connection
\* ends the answer, whatever Content-Length says; the last status line counts.
readResponse(received) ==
  LET delimiter == HeadersEnd(received)
      statuses == {k \in 1 .. delimiter : received[k].name = "HTTP/1.1"}
  IN IF delimiter = 0 THEN [status |-> 0, body |-> <<>>]
     ELSE [status |-> IF statuses = {} THEN 0 ELSE received[Max(statuses)].value,
           body |-> SubSeq(received, delimiter + 2, Len(received))]
=============================================================================
