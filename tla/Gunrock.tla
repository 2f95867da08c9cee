------------------------------ MODULE Gunrock ------------------------------
(***************************************************************************)
(* gunrock.cpp with MyServerSocket and MySocket: the accept loop, the      *)
(* dispatch of a request to a service, and the life of a connection.       *)
(*                                                                         *)
(* A connection is named by its client; a client connects once. What a     *)
(* client does (send a request or bytes that stop the parser, send nothing *)
(* or half a request, leave, never read an answer) is up to it. Inside a   *)
(* service only the kinds of its answers matter here, and that it opens a  *)
(* file: Disk opens the image for every block, FileService the page.       *)
(***************************************************************************)
EXTENDS FiniteSets, Integers, Sequences

CONSTANTS
  Clients, Requests,
  Stalled,               \* the clients that do not read answers
  None, Broken,          \* sent nothing to the end; sent what stops the parser
  Files,                 \* the paths that are pages with a content
  MaxFds,                \* descriptors the process has for connections and files
  Backlog,               \* the queue of listen()
  ServiceStatuses        \* what the methods of the /ds3/ service can leave as status:
                         \* 200, that of a ClientError, 500 for another exception

HasPrefix(path, prefix) == Len(prefix) <= Len(path) /\ SubSeq(path, 1, Len(prefix)) = prefix

\* The services in the order main() pushes them, with the methods each has of
\* its own; the other methods are those of HttpService and answer 405.
services ==
  <<[pathPrefix |-> <<"/", "ds3", "/">>, methods |-> {"GET", "PUT", "DELETE"}],
    [pathPrefix |-> <<"/">>, methods |-> {"GET", "HEAD"}]>>

ASSUME RequestsAssumption == None \notin Requests /\ Broken \notin Requests /\ None # Broken
ASSUME LimitsAssumption == MaxFds \in Nat \ {0, 1} /\ Backlog \in Nat \ {0}
ASSUME StatusesAssumption == ServiceStatuses \subseteq Nat \ {0, 405, 501}

\* The pages are what FileService is asked for.
ASSUME FilesAssumption ==
  \A path \in Files : /\ HasPrefix(path, services[2].pathPrefix)
                      /\ ~HasPrefix(path, services[1].pathPrefix)

VARIABLES
  queue,        \* connections that wait for accept(), in order
  sent,         \* what has come from each client
  left,         \* the clients that have closed or reset their connection
  fds,          \* the connections whose descriptor is open in the process
  pc, client,   \* where the server is; handle_request()'s client, or None
  status,       \* response->getStatus(), 0 when there is no response
  answer        \* the status each client was sent, 0 before that

environment == <<sent, left>>
vars == <<queue, sent, left, fds, pc, client, status, answer>>

Handling == {"read", "dispatch", "write", "close"}
Stages == Handling \cup {"accept", "stopped"}

HttpServiceMethods == {"HEAD", "GET", "PUT", "POST", "DELETE", "MOVE"}

Statuses == ServiceStatuses \cup {200, 404, 405, 501}
-----------------------------------------------------------------------------
Init ==
  /\ queue = <<>>
  /\ sent = [c \in Clients |-> None]
  /\ left = {} /\ fds = {}
  /\ pc = "accept" /\ client = None /\ status = 0
  /\ answer = [c \in Clients |-> 0]

Queued == {queue[i] : i \in DOMAIN queue}
Gone == {c \in Clients : answer[c] # 0} \cup left
New == Clients \ (Queued \cup fds \cup Gone)

(* The clients. When the process has ended, theirs is over too.            *)

Connect(c) ==
  /\ pc # "stopped"
  /\ c \in New /\ Len(queue) < Backlog
  /\ queue' = Append(queue, c)
  /\ UNCHANGED <<sent, left, fds, pc, client, status, answer>>

\* The rest of a request has come, or the bytes that fail an assertion.
Send(c) ==
  /\ pc # "stopped"
  /\ c \in (Queued \cup fds) \ left
  /\ sent[c] = None
  /\ \E r \in Requests \cup {Broken} : sent' = [sent EXCEPT ![c] = r]
  /\ UNCHANGED <<queue, left, fds, pc, client, status, answer>>

Leave(c) ==
  /\ pc # "stopped"
  /\ c \in (Queued \cup fds) \ left
  /\ answer[c] = 0
  /\ left' = left \cup {c}
  /\ UNCHANGED <<queue, sent, fds, pc, client, status, answer>>

(* The server.                                                             *)

DescriptorIsFree == Cardinality(fds) < MaxFds

\* exit(1), an assertion, or an exception nobody catches.
Stop ==
  /\ pc' = "stopped" /\ fds' = {} /\ client' = None /\ status' = 0
  /\ UNCHANGED <<queue, answer, environment>>

Accept ==
  /\ pc = "accept" /\ queue # <<>>
  /\ DescriptorIsFree
  /\ client' = Head(queue) /\ queue' = Tail(queue)
  /\ fds' = fds \cup {Head(queue)}
  /\ pc' = "read"
  /\ UNCHANGED <<status, answer, environment>>

\* accept() fails: no descriptor is left, or the client has reset the
\* connection.
AcceptFails ==
  /\ pc = "accept" /\ queue # <<>>
  /\ ~DescriptorIsFree \/ Head(queue) \in left
  /\ Stop

\* readRequest() returns true.
Read ==
  /\ pc = "read" /\ sent[client] \in Requests
  /\ pc' = "dispatch"
  /\ status' = 200
  /\ UNCHANGED <<queue, fds, client, answer, environment>>

ReadStops == pc = "read" /\ sent[client] = Broken /\ Stop

\* Mutant: the error is caught and the request is read again.
ReadErrorRetries ==
  /\ pc = "read" /\ client \in left
  /\ pc' = "read"
  /\ UNCHANGED <<queue, fds, client, status, answer, environment>>

\* read() throws, handle_request() bails out: the client is neither closed
\* nor deleted.
ReadError ==
  /\ pc = "read" /\ client \in left
  /\ pc' = "accept" /\ client' = None
  /\ UNCHANGED <<queue, fds, status, answer, environment>>

\* Mutant: the list is searched from its end.
find_serviceLast(path) ==
  {i \in DOMAIN services :
     /\ HasPrefix(path, services[i].pathPrefix)
     /\ \A j \in i + 1 .. Len(services) : ~HasPrefix(path, services[j].pathPrefix)}

\* The index of the first service whose prefix the path begins with, as a
\* set with no other element, or the empty set.
find_service(path) ==
  {i \in DOMAIN services :
     /\ HasPrefix(path, services[i].pathPrefix)
     /\ \A j \in 1 .. i - 1 : ~HasPrefix(path, services[j].pathPrefix)}

\* FileService::get: a page that cannot be opened is not found.
PageStatus(path) == IF path \in Files /\ DescriptorIsFree THEN 200 ELSE 404

\* The statuses of one method of a service; those it does not override are
\* HttpService's.
MethodStatuses(i, r) ==
  IF r.method \notin services[i].methods THEN {405}
  ELSE IF i = 1 THEN ServiceStatuses
  ELSE {PageStatus(r.path)}

\* The statuses invoke_service_method() can leave in the response.
invoke_service_method(service, r) ==
  IF service = {} THEN {404}
  ELSE IF r.method \notin HttpServiceMethods THEN {501}
  ELSE UNION {MethodStatuses(i, r) : i \in service}

Dispatch ==
  /\ pc = "dispatch"
  /\ status' \in invoke_service_method(find_service(sent[client].path), sent[client])
  /\ pc' = "write"
  /\ UNCHANGED <<queue, fds, client, answer, environment>>

\* A method of the /ds3/ service needs the image file; without a descriptor
\* for it Disk ends the process.
DispatchStops ==
  /\ pc = "dispatch" /\ ~DescriptorIsFree
  /\ 1 \in find_service(sent[client].path)
  /\ sent[client].method \in services[1].methods
  /\ Stop

\* write() returns when the kernel has taken all of the answer; that may
\* need a client that reads.
Write ==
  /\ pc = "write" /\ client \notin Stalled
  /\ pc' = "close"
  /\ answer' = [answer EXCEPT ![client] = status]
  /\ status' = 0
  /\ UNCHANGED <<queue, fds, client, environment>>

\* Mutant: a client that does not read makes write() fail.
WriteFailsWhenFull == pc = "write" /\ client \in left \cup Stalled /\ Stop

\* write() to a client that is gone throws, outside of any try.
WriteFails == pc = "write" /\ client \in left /\ Stop

\* Mutant: the connection is deleted and not closed.
CloseForgets ==
  /\ pc = "close"
  /\ pc' = "accept" /\ client' = None
  /\ UNCHANGED <<queue, fds, status, answer, environment>>

Close ==
  /\ pc = "close"
  /\ fds' = fds \ {client}
  /\ pc' = "accept" /\ client' = None
  /\ UNCHANGED <<queue, status, answer, environment>>

Environment == \E c \in Clients : Connect(c) \/ Send(c) \/ Leave(c)

Server ==
  \/ Accept \/ AcceptFails \/ Read \/ ReadStops \/ ReadError
  \/ Dispatch \/ DispatchStops \/ Write \/ WriteFails \/ Close

Next == Environment \/ Server

Spec == Init /\ [][Next]_vars

\* The loop of main() goes on while it waits for nobody; clients may do
\* nothing for ever.
FairSpec == Spec /\ WF_vars(Server)
-----------------------------------------------------------------------------
(* Properties.                                                             *)

\* Types; a connection is in one place; a request is handled on an open
\* descriptor; there are never more descriptors than the limit.
TypeOK ==
  /\ queue \in Seq(Clients) /\ Len(queue) <= Backlog
  /\ sent \in [Clients -> Requests \cup {None, Broken}]
  /\ left \subseteq Clients
  /\ fds \subseteq Clients /\ Cardinality(fds) <= MaxFds
  /\ pc \in Stages
  /\ client \in Clients \cup {None}
  /\ pc \in Handling => client \in fds
  /\ pc \in {"dispatch", "write"} => sent[client] \in Requests
  /\ status \in Statuses \cup {0}
  /\ answer \in [Clients -> Statuses \cup {0}]
  /\ Queued \cap fds = {}
  /\ \A i, j \in DOMAIN queue : queue[i] = queue[j] => i = j

\* A descriptor that is open belongs to the connection being handled, or to
\* a client that left before its request was read and that nobody answered:
\* nothing else is lost, and no connection is closed before its answer.
Leaked == fds \ (IF pc \in Handling THEN {client} ELSE {})

DescriptorsAreAccountedFor ==
  /\ \A c \in Leaked : c \in left /\ answer[c] = 0
  /\ \A c \in fds : answer[c] # 0 => c = client /\ pc = "close"

\* A client is polite as long as it does not leave before it is answered and
\* sends nothing that stops the parser. With polite clients only, whatever
\* they ask for and however slow they are, the server is never stopped.
Polite(c) == c \notin left /\ sent[c] # Broken

PoliteClientsKeepItUp == (\A c \in Clients : Polite(c)) => pc # "stopped"

\* A page that exists is found, unless enough clients left their connection
\* to take all descriptors but the one of the connection itself.
AsksForPage(r) == r.path \in Files /\ r.method \in {"GET", "HEAD"}

PagesAreFound ==
  \A c \in Clients :
    answer[c] \notin {0, 200} /\ AsksForPage(sent[c]) => Cardinality(left) >= MaxFds - 1

\* Of the services whose prefix fits a path, the one with the longest prefix
\* answers: 405 tells the methods it lacks, 501 a method the server does not
\* know, 404 a path of nobody.
Owner(path) ==
  {i \in DOMAIN services :
     /\ HasPrefix(path, services[i].pathPrefix)
     /\ \A j \in DOMAIN services :
          HasPrefix(path, services[j].pathPrefix) =>
            Len(services[j].pathPrefix) <= Len(services[i].pathPrefix)}

Fits(r, s) ==
  /\ s = 405 <=> /\ r.method \in HttpServiceMethods
                 /\ \E i \in Owner(r.path) : r.method \notin services[i].methods
  /\ s = 501 <=> r.method \notin HttpServiceMethods /\ Owner(r.path) # {}

LongestPrefixAnswers ==
  \A c \in Clients : answer[c] # 0 => Fits(sent[c], answer[c])

\* The loop waits for the client it handles.
Blocked ==
  \/ pc = "read" /\ sent[client] = None /\ client \notin left
  \/ pc = "write" /\ client \in Stalled \ left

\* Whoever has sent a request is answered in the end, unless it leaves, the
\* server stops, or one client keeps the loop waiting for ever.
Asked(c) == sent[c] \in Requests
Settled(c) == answer[c] # 0 \/ c \in left \/ pc = "stopped"

RequestsAreAnswered ==
  <>[]Blocked \/ \A c \in Clients : Asked(c) ~> Settled(c)
=============================================================================
