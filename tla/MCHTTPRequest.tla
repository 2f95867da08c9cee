--------------------------- MODULE MCHTTPRequest ---------------------------
(***************************************************************************)
(* Requests for TLC, built from their parts: every method with every kind  *)
(* of target, version, end of line, header lines, framing of the body and  *)
(* bytes behind the end; and requests of which one byte is damaged.        *)
(***************************************************************************)
EXTENDS HTTPRequest, SequencesExt

\* Without a version in the request line, http_major is what was in memory.
AnyMajor == {0, 1}

Targets == {
  [bytes |-> <<"/">>, path |-> <<"/">>, query |-> <<>>, fragment |-> FALSE],
  [bytes |-> <<"/", "x", "?", "x", "?", "x">>, path |-> <<"/", "x">>, query |-> <<"x", "?", "x">>, fragment |-> FALSE],
  [bytes |-> <<"/", "?", "x", "#", "x">>, path |-> <<"/">>, query |-> <<"x">>, fragment |-> TRUE],
  [bytes |-> <<"x", ":", "/", "/", "x", ".", "x", ":", "1", "/", "x">>, path |-> <<"/", "x">>, query |-> <<>>, fragment |-> FALSE],
  [bytes |-> <<"x", ".", "x", ":", "1">>, path |-> <<>>, query |-> <<>>, fragment |-> FALSE]}

Line(name, value) == [name |-> name, value |-> value]
Host == Line(<<"x">>, <<"x", ":", "1">>)
Empty == Line(<<"x", "x">>, <<>>)
NoValue == Line(<<"x">>, Null)
Length(n) == Line(<<"con", "tent-length">>, n)
Chunked == Line(<<"transfer-", "encoding">>, <<"chun", "ked">>)
Close == Line(<<"con", "nection">>, <<"clo", "se">>)
Keep == Line(<<"con", "nection">>, <<"keep-", "alive">>)
Upgrade == Line(<<"up", "grade">>, <<"x">>)

Lines == {<<>>, <<Host>>, <<Empty>>, <<NoValue>>, <<Upgrade>>, <<Host, Empty>>, <<Empty, Host>>,
          <<NoValue, Host>>, <<Host, NoValue>>, <<Close, Host>>, <<Host, Keep>>}

\* Header lines that frame a body, the body, and how it is sent.
Plain(lines) == [lines |-> lines, body |-> <<>>, coded |-> <<>>, trailer |-> <<>>]
OfLength(lines, n, body) == [Plain(lines \o <<Length(n)>>) EXCEPT !.body = body, !.coded = body]
Coded(body, trailer) ==
  [Plain(<<Chunked, Host>>) EXCEPT !.body = body, !.trailer = trailer,
     !.coded = FlattenSeq([i \in DOMAIN body |-> <<"1">> \o <<CR, LF>> \o <<body[i], CR, LF>>])
                 \o <<"0", CR, LF>>]
Framings ==
  {Plain(lines) : lines \in Lines}
    \cup {OfLength(<<>>, <<"0">>, <<>>), OfLength(<<Close>>, <<"1">>, <<"x">>),
          OfLength(<<Host>>, <<"0", "2">>, <<CR, "x">>)}
    \cup {Coded(body, trailer) :
            body \in {<<>>, <<"x">>, <<"x", CR>>}, trailer \in {<<>>, <<Host>>, <<NoValue>>}}

LineBytes(eol, line) ==
  line.name \o (IF line.value = Null THEN <<>> ELSE <<":", " ">> \o line.value) \o eol

Request(method, target, minor, eol, framing, extra) ==
  LET first  == method \o <<" ">> \o target.bytes
                  \o (IF minor = Null THEN <<>> ELSE <<" ", "HTTP", "/", "1", ".", minor>>) \o eol
      header == first \o FlattenSeq([i \in DOMAIN framing.lines |-> LineBytes(eol, framing.lines[i])]) \o eol
      whole  == header \o framing.coded
                  \o (IF framing.lines # <<>> /\ framing.lines[1] = Chunked
                        THEN FlattenSeq([i \in DOMAIN framing.trailer |-> LineBytes(eol, framing.trailer[i])]) \o eol
                        ELSE <<>>)
  IN  [bytes |-> whole \o extra, size |-> Len(whole), headerSize |-> Len(header),
       method |-> Method[method], version |-> minor # Null, path |-> target.path, query |-> target.query, url |-> target.bytes,
       fragment |-> target.fragment, lines |-> framing.lines, trailer |-> framing.trailer,
       body |-> framing.body, upgrade |-> Upgrade \in {framing.lines[i] : i \in DOMAIN framing.lines},
       extra |-> extra # <<>>, intact |-> TRUE]

CRLF == <<CR, LF>>
Root == CHOOSE t \in Targets : t.bytes = <<"/">>

\* Every request line, every framing, and the bytes that can follow.
Whole ==
  {Request(method, target, minor, eol, Plain(<<Host>>), <<>>) :
     method \in DOMAIN Method, target \in Targets, minor \in {"0", "1", Null}, eol \in {CRLF, <<LF>>}}
  \cup
  {Request(<<"P", "UT">>, Root, minor, eol, framing, extra) :
     minor \in {"0", "1"}, eol \in {CRLF, <<LF>>}, framing \in Framings, extra \in {<<>>, <<"x">>}}
  \cup
  {Request(<<"C", "ONNECT">>, Root, "1", CRLF, framing, extra) :
     framing \in Framings, extra \in {<<>>, CRLF, <<"x">>}}

\* One byte replaced; not the second half of CONNECT, see req_method.
Damaged ==
  {[r EXCEPT !.bytes[i] = b, !.intact = FALSE] :
     r \in {Request(<<"P", "OST">>, t, "1", CRLF, OfLength(<<Host>>, <<"2">>, <<"x", "x">>), <<>>) : t \in Targets}
             \cup {Request(<<"P", "OST">>, Root, "1", CRLF, Coded(<<"x">>, <<Host>>), CRLF)},
     i \in 1 .. 12, b \in {CR, LF, " ", "(", ":", "x", "0", "#"}}

Some == Whole \cup Damaged

\* A CONNECT request as a client sends it to a proxy.
Connects ==
  {Request(<<"C", "ONNECT">>, t, "1", CRLF, Plain(<<Host>>), <<>>) : t \in {u \in Targets : u.path = <<>>}}
=============================================================================
