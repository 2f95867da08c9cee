---------------------------- MODULE FileService -----------------------------
(***************************************************************************)
(* FileService.cpp, from its constructor to the answer a client reads.     *)
(*                                                                         *)
(* Names are sequences of characters. The constructor runs when the server *)
(* already listens; one request is handled at a time (see Gunrock), and    *)
(* its answer reaches the client piece by piece, or up to the piece at     *)
(* which the connection is lost.                                           *)
(***************************************************************************)
EXTENDS HTTPResponse, SequencesExt

CONSTANTS
  SizeBits,         \* the width of size_t
  Basedirs,         \* values of the -d option
  Files,            \* the content of each file that can be read, by its name
  Paths             \* what clients ask for

ASSUME SizeAssumption == SizeBits \in Nat \ {0}

Css == <<".", "c", "s", "s">>
Js == <<".", "j", "s">>

\* HttpService("/") gets no path that begins with anything else, and the names
\* it makes fit into memory.
ASSUME NamesAssumption ==
  /\ Basedirs \subseteq Seq(STRING)
  /\ \A p \in Paths : p \in Seq(STRING) /\ p # <<>> /\ p[1] = "/"
  /\ \A d \in Basedirs, p \in Paths : Len(d) + Len(p) + Len(Css) < 2^SizeBits

\* What a page consists of, and of the names with a slash at the end none can
\* be read.
BodyPiece == [name : STRING, value : Int]
ASSUME FilesAssumption ==
  \A name \in DOMAIN Files :
    /\ name # <<>> => name[Len(name)] # "/"
    /\ Files[name] \in Seq(BodyPiece)

VARIABLES
  basedir, phase,
  path, reply,      \* the request, and the response to it
  received          \* what has reached the client

vars == <<basedir, phase, path, reply, received>>

Phases == {"constructor", "waiting", "answering", "closed"}
-----------------------------------------------------------------------------
SizeT(n) == n % 2^SizeBits
npos == SizeT(-1)

rfind(str, suffix) ==
  LET at == {k \in 0 .. Len(str) - Len(suffix) : SubSeq(str, k + 1, k + Len(suffix)) = suffix}
  IN IF at = {} THEN npos ELSE Max(at)

\* Mutant: the suffix may be anywhere.
endswithAnywhere(str, suffix) == rfind(str, suffix) # npos

\* A string without the suffix and one character shorter than it passes: npos
\* is what the difference of the lengths wraps to.
endswith(str, suffix) == rfind(str, suffix) = SizeT(Len(str) - Len(suffix))
-----------------------------------------------------------------------------
Init ==
  /\ basedir \in Basedirs /\ phase = "constructor"
  /\ path = <<>> /\ reply = NewResponse /\ received = <<>>

\* Mutant: one slash at the end is enough.
TrimOnce ==
  /\ phase = "constructor" /\ endswith(basedir, <<"/">>)
  /\ basedir' = SubSeq(basedir, 1, Len(basedir) - 1)
  /\ phase' = "waiting"
  /\ UNCHANGED <<path, reply, received>>

\* One slash at the end is cut off. The empty name passes the test as well and
\* stays as it is.
Trim ==
  /\ phase = "constructor" /\ endswith(basedir, <<"/">>)
  /\ basedir' = SubSeq(basedir, 1, Len(basedir) - 1)
  /\ UNCHANGED <<phase, path, reply, received>>

\* The name is not empty here, so the test for an empty one never stops the
\* server.
Constructed ==
  /\ phase = "constructor" /\ ~endswith(basedir, <<"/">>)
  /\ phase' = "waiting"
  /\ UNCHANGED <<basedir, path, reply, received>>

ContentType(name) ==
  IF endswith(name, Css) THEN "text/css"
  ELSE IF endswith(name, Js) THEN "text/javascript"
  ELSE NewResponse.contentType

\* What readFile() can return: an error of read() ends the file early.
readFile(name) ==
  IF name \in DOMAIN Files THEN {SubSeq(Files[name], 1, n) : n \in 0 .. Len(Files[name])}
  ELSE {<<>>}

\* get(), and head(), which leaves out the body. An empty page is not found.
Answers(name, method) ==
  {IF contents = <<>> THEN [NewResponse EXCEPT !.status = 404]
   ELSE [NewResponse EXCEPT
           !.contentType = ContentType(name),
           !.body = IF method = "HEAD" THEN <<>> ELSE contents] : contents \in readFile(name)}

Handle(method, p) ==
  /\ phase = "waiting"
  /\ path' = p
  /\ reply' \in Answers(basedir \o p, method)
  /\ received' = <<>>
  /\ phase' = "answering"
  /\ UNCHANGED basedir

\* The next piece of the answer arrives.
Deliver ==
  /\ phase = "answering" /\ Len(received) < Len(response(reply))
  /\ received' = Append(received, response(reply)[Len(received) + 1])
  /\ UNCHANGED <<basedir, phase, path, reply>>

\* The connection ends: the server has written everything and closes, or it
\* is lost. What the client's read() throws is not looked at.
End ==
  /\ phase = "answering"
  /\ phase' = "closed"
  /\ UNCHANGED <<basedir, path, reply, received>>

\* The answer has been used.
Forget ==
  /\ phase = "closed"
  /\ phase' = "waiting"
  /\ path' = <<>> /\ reply' = NewResponse /\ received' = <<>>
  /\ UNCHANGED basedir

Next ==
  \/ Trim \/ Constructed
  \/ \E method \in {"GET", "HEAD"}, p \in Paths : Handle(method, p)
  \/ Deliver \/ End \/ Forget

Spec == Init /\ [][Next]_vars

\* The constructor runs in the one thread of the server.
FairSpec == Spec /\ WF_vars(Trim \/ Constructed)
-----------------------------------------------------------------------------
(* Properties.                                                             *)

HasSuffix(name, suffix) == name = SubSeq(name, 1, Len(name) - Len(suffix)) \o suffix

\* Every -d with a character that is no slash gets the server out of the
\* constructor, with that directory and without the slashes behind it. (One
\* without keeps it there for ever: the difference of the lengths wraps.)
ConstructorEnds ==
  \A d \in Basedirs :
    (phase = "constructor" /\ basedir = d /\ \E k \in DOMAIN d : d[k] # "/") ~>
      /\ phase = "waiting"
      /\ basedir # <<>> /\ Last(basedir) # "/"
      /\ IsPrefix(basedir, d) /\ \A k \in Len(basedir) + 1 .. Len(d) : d[k] = "/"

\* A page gets the type of its suffix and another the default. (The name of a
\* page has a slash inside, so of the names that are one shorter than a suffix
\* only those of ".css" exist: a page of one letter in a directory of one.)
ContentTypeFits ==
  phase = "answering" /\ reply.status = 200 =>
    LET name == basedir \o path
    IN /\ reply.contentType = "text/css" <=> HasSuffix(name, Css) \/ Len(name) = Len(Css) - 1
       /\ reply.contentType = "text/javascript" <=> HasSuffix(name, Js) /\ Len(name) # Len(Css) - 1

\* Whenever the connection ends, the client has taken nothing of the headers
\* for content and no content for a header: it has a first part of the page
\* that was asked for with the status of the answer, or nothing and status 0.
\* It has all that the server read of the page if nothing was lost.
ClientSeesThePage ==
  phase = "closed" =>
    LET seen == readResponse(received)
        page == IF basedir \o path \in DOMAIN Files THEN Files[basedir \o path] ELSE <<>>
    IN /\ IsPrefix(seen.body, page)
       /\ seen.status \in {0, reply.status}
       /\ seen.status = 0 => seen.body = <<>>
       /\ Len(received) = Len(response(reply)) =>
            seen = [status |-> reply.status, body |-> reply.body]
=============================================================================
