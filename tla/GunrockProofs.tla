--------------------------- MODULE GunrockProofs ----------------------------
(***************************************************************************)
(* Theorems about the accept loop, for any number of clients, descriptors  *)
(* and queued connections, any requests and any statuses of the services.  *)
(***************************************************************************)
EXTENDS Gunrock, FiniteSetTheorems, TLAPS

\* What has no answer yet: connections in the queue and the one being
\* handled. Only whole requests are answered.
Unanswered ==
  /\ \A c \in Queued : answer[c] = 0
  /\ pc \in {"read", "dispatch", "write"} => answer[client] = 0
  /\ \A c \in Clients : answer[c] # 0 => sent[c] \in Requests

Finite == IsFiniteSet(fds) /\ IsFiniteSet(left)

IInv == TypeOK /\ Finite /\ Unanswered /\ DescriptorsAreAccountedFor

\* The queue after a connection has joined it, and after accept().
LEMMA QueueGrows ==
  ASSUME NEW c, queue \in Seq(Clients), c \in Clients, c \notin Queued, Len(queue) < Backlog,
         \A i, j \in DOMAIN queue : queue[i] = queue[j] => i = j,
         queue' = Append(queue, c)
  PROVE  /\ queue' \in Seq(Clients) /\ Len(queue') <= Backlog
         /\ Queued' = Queued \cup {c}
         /\ \A i, j \in DOMAIN queue' : queue'[i] = queue'[j] => i = j
<1>1. queue' \in Seq(Clients) /\ Len(queue') = Len(queue) + 1 /\ DOMAIN queue' = 1 .. Len(queue) + 1
  OBVIOUS
<1>2. \A i \in DOMAIN queue : queue'[i] = queue[i] /\ i \in DOMAIN queue'
  OBVIOUS
<1>3. queue'[Len(queue) + 1] = c
  OBVIOUS
<1>4. Queued' = Queued \cup {c}
  BY <1>1, <1>2, <1>3 DEF Queued
<1>5. \A i, j \in DOMAIN queue' : queue'[i] = queue'[j] => i = j
  BY <1>1, <1>2, <1>3 DEF Queued
<1>6. Len(queue') <= Backlog
  BY <1>1, LimitsAssumption
<1> QED BY <1>1, <1>4, <1>5, <1>6

LEMMA QueueShrinks ==
  ASSUME queue \in Seq(Clients), queue # <<>>, Len(queue) <= Backlog,
         \A i, j \in DOMAIN queue : queue[i] = queue[j] => i = j,
         queue' = Tail(queue)
  PROVE  /\ queue' \in Seq(Clients) /\ Len(queue') <= Backlog
         /\ Head(queue) \in Queued /\ Head(queue) \in Clients
         /\ Queued' = Queued \ {Head(queue)}
         /\ \A i, j \in DOMAIN queue' : queue'[i] = queue'[j] => i = j
<1>1. queue' \in Seq(Clients) /\ Len(queue') = Len(queue) - 1 /\ DOMAIN queue' = 1 .. Len(queue) - 1
  OBVIOUS
<1>2. \A i \in DOMAIN queue' : queue'[i] = queue[i + 1] /\ i + 1 \in DOMAIN queue
  OBVIOUS
<1>3. 1 \in DOMAIN queue /\ Head(queue) = queue[1] /\ queue[1] \in Clients
  OBVIOUS
<1>4. \A i \in DOMAIN queue : i # 1 => i - 1 \in DOMAIN queue' /\ queue[i] = queue'[i - 1]
  <2> TAKE i \in DOMAIN queue
  <2> HAVE i # 1
  <2>1. i \in 2 .. Len(queue)
    OBVIOUS
  <2>2. i - 1 \in DOMAIN queue' /\ (i - 1) + 1 = i
    BY <1>1, <2>1
  <2> QED BY <1>2, <2>2
<1>5. Queued' = Queued \ {Head(queue)}
  <2>1. \A x \in Queued' : x \in Queued /\ x # Head(queue)
    <3> TAKE x \in Queued'
    <3>1. PICK i \in DOMAIN queue' : x = queue'[i]
      BY DEF Queued
    <3>2. i + 1 # 1 /\ i + 1 \in DOMAIN queue /\ x = queue[i + 1]
      BY <1>1, <1>2, <3>1
    <3> QED BY <1>3, <3>2 DEF Queued
  <2>2. \A x \in Queued : x # Head(queue) => x \in Queued'
    BY <1>3, <1>4 DEF Queued
  <2> QED BY <2>1, <2>2
<1>6. \A i, j \in DOMAIN queue' : queue'[i] = queue'[j] => i = j
  <2> TAKE i, j \in DOMAIN queue'
  <2> HAVE queue'[i] = queue'[j]
  <2>1. i + 1 = j + 1
    BY <1>2
  <2> QED BY <1>1, <2>1
<1>7. Head(queue) \in Queued
  BY <1>3 DEF Queued
<1>8. Len(queue') <= Backlog
  BY <1>1, LimitsAssumption
<1> QED BY <1>1, <1>3, <1>5, <1>6, <1>7, <1>8

\* What the server chooses as an answer is a status.
LEMMA StatusesOfAService ==
  ASSUME NEW path, NEW r
  PROVE  invoke_service_method(find_service(path), r) \subseteq Statuses
<1>1. \A i : MethodStatuses(i, r) \subseteq Statuses
  BY DEF MethodStatuses, PageStatus, Statuses
<1>2. UNION {MethodStatuses(i, r) : i \in find_service(path)} \subseteq Statuses
  BY <1>1
<1>3. {404} \subseteq Statuses /\ {501} \subseteq Statuses
  BY DEF Statuses
<1> QED BY <1>2, <1>3 DEF invoke_service_method

LEMMA StatusIsNotZero == 0 \notin Statuses
BY StatusesAssumption DEF Statuses

LEMMA FirstState == Init => IInv
<1> SUFFICES ASSUME Init PROVE IInv
  OBVIOUS
<1>1. IsFiniteSet({}) /\ Cardinality({}) = 0
  BY FS_EmptySet
<1>2. Queued = {}
  BY DEF Init, Queued
<1>3. TypeOK
  BY <1>1, <1>2, LimitsAssumption DEF Init, TypeOK, Stages, Handling, Statuses
<1> QED BY <1>1, <1>2, <1>3 DEF Init, IInv, Finite, Unanswered, DescriptorsAreAccountedFor, Leaked, Handling

\* Every step keeps the invariant; one step below per action.
LEMMA Step == IInv /\ [Next]_vars => IInv'
<1> SUFFICES ASSUME IInv, [Next]_vars PROVE IInv'
  OBVIOUS
<1> USE DEF IInv, Finite
<1>0. ASSUME UNCHANGED vars PROVE IInv'
  BY <1>0 DEF vars, TypeOK, Unanswered, DescriptorsAreAccountedFor, Leaked, Queued
<1>1. ASSUME NEW c \in Clients, Connect(c) PROVE IInv'
  <2>1. c \notin Queued /\ c \notin fds /\ answer[c] = 0
    BY <1>1 DEF Connect, New, Gone
  <2>2. /\ queue' \in Seq(Clients) /\ Len(queue') <= Backlog
        /\ Queued' = Queued \cup {c}
        /\ \A i, j \in DOMAIN queue' : queue'[i] = queue'[j] => i = j
    BY <1>1, <2>1, QueueGrows DEF Connect, TypeOK
  <2> QED BY <1>1, <2>1, <2>2 DEF Connect, TypeOK, Unanswered, DescriptorsAreAccountedFor, Leaked
<1>2. ASSUME NEW c \in Clients, Send(c) PROVE IInv'
  <2>1. PICK r \in Requests \cup {Broken} : sent' = [sent EXCEPT ![c] = r]
    BY <1>2 DEF Send
  <2>2. \A d \in Clients : sent[d] \in Requests => sent'[d] = sent[d]
    BY <1>2, <2>1, RequestsAssumption DEF Send, TypeOK
  <2>3. Queued' = Queued
    BY <1>2 DEF Send, Queued
  <2>4. sent' \in [Clients -> Requests \cup {None, Broken}]
    BY <2>1 DEF TypeOK
  <2> QED BY <1>2, <2>2, <2>3, <2>4 DEF Send, TypeOK, Unanswered, DescriptorsAreAccountedFor, Leaked, Handling
<1>3. ASSUME NEW c \in Clients, Leave(c) PROVE IInv'
  <2>1. IsFiniteSet(left')
    BY <1>3, FS_AddElement DEF Leave
  <2>2. Queued' = Queued
    BY <1>3 DEF Leave, Queued
  <2> QED BY <1>3, <2>1, <2>2 DEF Leave, TypeOK, Unanswered, DescriptorsAreAccountedFor, Leaked
<1>4. ASSUME Stop PROVE IInv'
  <2>1. IsFiniteSet({}) /\ Cardinality({}) = 0
    BY FS_EmptySet
  <2>2. Queued' = Queued
    BY <1>4 DEF Stop, Queued
  <2> QED BY <1>4, <2>1, <2>2, LimitsAssumption
          DEF Stop, environment, TypeOK, Unanswered, DescriptorsAreAccountedFor, Leaked, Handling, Stages
<1>5. ASSUME Accept PROVE IInv'
  <2> DEFINE c == Head(queue)
  <2>1. /\ queue' \in Seq(Clients) /\ Len(queue') <= Backlog
        /\ c \in Queued /\ c \in Clients
        /\ Queued' = Queued \ {c}
        /\ \A i, j \in DOMAIN queue' : queue'[i] = queue'[j] => i = j
    BY <1>5, QueueShrinks DEF Accept, TypeOK
  <2>2. IsFiniteSet(fds') /\ Cardinality(fds') <= MaxFds
    <3>1. c \notin fds
      BY <2>1 DEF TypeOK
    <3>2. fds' = fds \cup {c} /\ Cardinality(fds) \in Nat /\ Cardinality(fds) < MaxFds
      BY <1>5, FS_CardinalityType DEF Accept, DescriptorIsFree
    <3>3. IsFiniteSet(fds') /\ Cardinality(fds') = Cardinality(fds) + 1
      BY <3>1, <3>2, FS_AddElement
    <3> QED BY <3>2, <3>3, LimitsAssumption
  <2>3. answer[c] = 0
    BY <2>1 DEF Unanswered
  <2> QED BY <1>5, <2>1, <2>2, <2>3
          DEF Accept, environment, TypeOK, Unanswered, DescriptorsAreAccountedFor, Leaked, Handling, Stages
<1>6. ASSUME Read PROVE IInv'
  <2>1. Queued' = Queued
    BY <1>6 DEF Read, Queued
  <2> QED BY <1>6, <2>1
          DEF Read, environment, TypeOK, Unanswered, DescriptorsAreAccountedFor, Leaked, Handling, Stages, Statuses
<1>7. ASSUME ReadError PROVE IInv'
  <2>1. Queued' = Queued
    BY <1>7 DEF ReadError, Queued
  <2> QED BY <1>7, <2>1
          DEF ReadError, environment, TypeOK, Unanswered, DescriptorsAreAccountedFor, Leaked, Handling, Stages
<1>8. ASSUME Dispatch PROVE IInv'
  <2>1. Queued' = Queued
    BY <1>8 DEF Dispatch, Queued
  <2>2. status' \in Statuses
    BY <1>8, StatusesOfAService DEF Dispatch
  <2> QED BY <1>8, <2>1, <2>2
          DEF Dispatch, environment, TypeOK, Unanswered, DescriptorsAreAccountedFor, Leaked, Handling, Stages
<1>9. ASSUME Write PROVE IInv'
  <2>1. Queued' = Queued
    BY <1>9 DEF Write, Queued
  <2>2. client \in Clients /\ client \in fds /\ client \notin Queued /\ sent[client] \in Requests
    BY <1>9 DEF Write, TypeOK, Handling
  <2>3. answer' \in [Clients -> Statuses \cup {0}]
    BY <1>9 DEF Write, TypeOK
  <2>4. \A c \in Clients : c # client => answer'[c] = answer[c]
    BY <1>9 DEF Write, TypeOK
  <2> QED BY <1>9, <2>1, <2>2, <2>3, <2>4
          DEF Write, environment, TypeOK, Unanswered, DescriptorsAreAccountedFor, Leaked, Handling, Stages
<1>10. ASSUME Close PROVE IInv'
  <2>1. Queued' = Queued
    BY <1>10 DEF Close, Queued
  <2>2. IsFiniteSet(fds') /\ Cardinality(fds') <= MaxFds
    <3>1. client \in fds /\ fds' = fds \ {client} /\ Cardinality(fds) \in Nat
      BY <1>10, FS_CardinalityType DEF Close, TypeOK, Handling
    <3>2. IsFiniteSet(fds') /\ Cardinality(fds') = Cardinality(fds) - 1
      BY <3>1, FS_RemoveElement
    <3> QED BY <3>1, <3>2, LimitsAssumption DEF TypeOK
  <2> QED BY <1>10, <2>1, <2>2
          DEF Close, environment, TypeOK, Unanswered, DescriptorsAreAccountedFor, Leaked, Handling, Stages
<1> QED BY <1>0, <1>1, <1>2, <1>3, <1>4, <1>5, <1>6, <1>7, <1>8, <1>9, <1>10
        DEF Next, Environment, Server, AcceptFails, ReadStops, DispatchStops, WriteFails

LEMMA Invariance == Spec => []IInv
BY FirstState, Step, PTL DEF Spec

\* In every reachable state the variables have their types, for any number
\* of clients and descriptors: no connection is in two places, and what is
\* handled has its descriptor.
THEOREM TypeCorrect == Spec => []TypeOK
BY Invariance, PTL DEF IInv

\* Only connections that ended before they were read keep a descriptor.
THEOREM DescriptorsAccounted == Spec => []DescriptorsAreAccountedFor
BY Invariance, PTL DEF IInv

\* Polite clients leave nothing behind, so a descriptor is free whenever the
\* loop needs one.
LEMMA PoliteStep ==
  ASSUME IInv, PoliteClientsKeepItUp, [Next]_vars
  PROVE  PoliteClientsKeepItUp'
<1> SUFFICES ASSUME (\A c \in Clients : Polite(c))', pc' = "stopped" PROVE FALSE
  BY DEF PoliteClientsKeepItUp
<1>1. left' \cap Clients = {} /\ \A c \in Clients : sent'[c] # Broken
  BY DEF Polite
<1>2. \/ /\ sent' = sent /\ left' = left
      \/ \E c \in Clients : Send(c) \/ Leave(c)
  BY Zenon DEF Next, Environment, Server, Connect, Accept, AcceptFails, Read, ReadStops, ReadError, Dispatch,
         DispatchStops, Write, WriteFails, Close, Stop, environment, vars
<1>3. ASSUME NEW c \in Clients, Send(c) \/ Leave(c) PROVE FALSE
  BY <1>3 DEF Send, Leave
<1>4. left \cap Clients = {} /\ \A c \in Clients : sent[c] # Broken
  BY <1>1, <1>2, <1>3
<1>5. pc # "stopped"
  BY <1>4 DEF PoliteClientsKeepItUp, Polite
<1>6. Leaked = {}
  BY <1>4 DEF IInv, DescriptorsAreAccountedFor, Leaked, TypeOK
<1>7. DescriptorIsFree
  <2>1. fds = {} \/ fds = {client}
    BY <1>6 DEF Leaked
  <2>2. Cardinality(fds) \in {0, 1}
    BY <2>1, FS_EmptySet, FS_Singleton
  <2> QED BY <2>2, LimitsAssumption DEF DescriptorIsFree
<1>8. AcceptFails \/ ReadStops \/ DispatchStops \/ WriteFails
  BY <1>3, <1>5 DEF Next, Environment, Server, Connect, Accept, Read, ReadError, Dispatch, Write, Close, vars
<1>9. CASE AcceptFails
  <2>1. Head(queue) \in Clients
    BY <1>9, QueueShrinks DEF AcceptFails, IInv, TypeOK
  <2> QED BY <1>4, <1>7, <1>9, <2>1 DEF AcceptFails
<1>10. CASE ReadStops
  <2>1. client \in Clients
    BY <1>10 DEF ReadStops, IInv, TypeOK, Handling
  <2> QED BY <1>4, <1>10, <2>1 DEF ReadStops
<1>11. CASE DispatchStops
  BY <1>7, <1>11 DEF DispatchStops
<1>12. CASE WriteFails
  <2>1. client \in Clients
    BY <1>12 DEF WriteFails, IInv, TypeOK, Handling
  <2> QED BY <1>4, <1>12, <2>1 DEF WriteFails
<1> QED BY <1>8, <1>9, <1>10, <1>11, <1>12

\* As long as every client waits for its answer and sends requests the parser
\* can take, the server is never stopped, however many clients there are and
\* although it may have only two descriptors.
THEOREM PoliteServerStays == Spec => []PoliteClientsKeepItUp
<1>1. Init => PoliteClientsKeepItUp
  BY DEF Init, PoliteClientsKeepItUp
<1> QED BY <1>1, PoliteStep, Invariance, PTL DEF Spec

\* The first service that fits is the one with the longest prefix.
LEMMA FirstIsLongest ==
  ASSUME NEW path PROVE find_service(path) = Owner(path)
<1>1. DOMAIN services = {1, 2}
  BY DEF services
<1>2. Len(services[1].pathPrefix) = 3 /\ Len(services[2].pathPrefix) = 1
  BY DEF services
<1> DEFINE fits(i) == HasPrefix(path, services[i].pathPrefix)
<1> HIDE DEF fits
<1>3. find_service(path) = {i \in {1, 2} : fits(i) /\ \A j \in 1 .. i - 1 : ~fits(j)}
  BY <1>1, Zenon DEF find_service, fits
<1>4. Owner(path) =
        {i \in {1, 2} : fits(i) /\ \A j \in {1, 2} :
           fits(j) => Len(services[j].pathPrefix) <= Len(services[i].pathPrefix)}
  BY <1>1, Zenon DEF Owner, fits
<1> DEFINE size(i) == Len(services[i].pathPrefix)
<1> HIDE DEF size
<1>5. size(1) = 3 /\ size(2) = 1
  BY <1>2 DEF size
<1>6. \A i \in {1, 2} : i \in find_service(path) <=> fits(i) /\ (i = 2 => ~fits(1))
  <2>1. \A i \in {1, 2} : \A j : j \in 1 .. i - 1 <=> i = 2 /\ j = 1
    OBVIOUS
  <2> QED BY <1>3, <2>1
<1>7. \A i \in {1, 2} : i \in Owner(path) <=> fits(i) /\ \A j \in {1, 2} : fits(j) => size(j) <= size(i)
  BY <1>4 DEF size
<1>8. find_service(path) \subseteq {1, 2} /\ Owner(path) \subseteq {1, 2}
  BY <1>3, <1>4
<1> QED BY <1>5, <1>6, <1>7, <1>8

\* What dispatch chooses fits the request.
LEMMA ChosenFits ==
  ASSUME NEW r, NEW s \in invoke_service_method(find_service(r.path), r)
  PROVE  Fits(r, s)
<1> DEFINE own == find_service(r.path)
<1>1. own = Owner(r.path) /\ own \subseteq {1, 2}
  <2>1. DOMAIN services = {1, 2}
    BY DEF services
  <2> QED BY <2>1, FirstIsLongest DEF find_service
<1>2. \A i, j \in own : i = j
  BY <1>1, FirstIsLongest DEF find_service, services
<1> HIDE DEF own
<1>3. CASE own = {}
  <2>1. s = 404
    BY <1>3 DEF invoke_service_method, own
  <2> QED BY <1>1, <1>3, <2>1 DEF Fits
<1>4. CASE own # {} /\ r.method \notin HttpServiceMethods
  <2>1. s = 501
    BY <1>4 DEF invoke_service_method, own
  <2> QED BY <1>1, <1>4, <2>1 DEF Fits
<1>5. CASE own # {} /\ r.method \in HttpServiceMethods
  <2>1. PICK i \in own : s \in MethodStatuses(i, r)
    BY <1>5 DEF invoke_service_method, own
  <2>2. s # 501
    BY <2>1, StatusesAssumption DEF MethodStatuses, PageStatus
  <2>3. s = 405 <=> r.method \notin services[i].methods
    BY <2>1, StatusesAssumption DEF MethodStatuses, PageStatus
  <2> QED BY <1>1, <1>2, <1>5, <2>1, <2>2, <2>3 DEF Fits
<1> QED BY <1>3, <1>4, <1>5

StatusFits == pc = "write" => Fits(sent[client], status)

LEMMA FitsStep ==
  ASSUME IInv, LongestPrefixAnswers /\ StatusFits, [Next]_vars
  PROVE  LongestPrefixAnswers' /\ StatusFits'
<1> USE DEF IInv
<1>1. ASSUME NEW c \in Clients, Send(c) PROVE LongestPrefixAnswers' /\ StatusFits'
  <2>1. PICK r \in Requests \cup {Broken} : sent' = [sent EXCEPT ![c] = r]
    BY <1>1 DEF Send
  <2>2. \A d \in Clients : sent[d] \in Requests => sent'[d] = sent[d]
    BY <1>1, <2>1, RequestsAssumption DEF Send, TypeOK
  <2>3. pc = "write" => client \in Clients /\ sent[client] \in Requests
    BY DEF TypeOK, Handling
  <2>4. answer' = answer /\ pc' = pc /\ client' = client /\ status' = status
    BY <1>1 DEF Send
  <2>5. \A d \in Clients : answer[d] # 0 => sent'[d] = sent[d]
    BY <2>2 DEF Unanswered
  <2>6. LongestPrefixAnswers'
    BY <2>4, <2>5 DEF LongestPrefixAnswers
  <2>7. StatusFits'
    BY <2>2, <2>3, <2>4 DEF StatusFits
  <2> QED BY <2>6, <2>7
<1>2. ASSUME Dispatch PROVE LongestPrefixAnswers' /\ StatusFits'
  <2>1. Fits(sent[client], status')
    BY <1>2, ChosenFits DEF Dispatch
  <2> QED BY <1>2, <2>1 DEF Dispatch, environment, LongestPrefixAnswers, StatusFits
<1>3. ASSUME Write PROVE LongestPrefixAnswers' /\ StatusFits'
  <2>1. \A c \in Clients : answer'[c] = IF c = client THEN status ELSE answer[c]
    BY <1>3 DEF Write, TypeOK
  <2>2. sent' = sent /\ pc = "write" /\ pc' = "close"
    BY <1>3 DEF Write, environment
  <2> QED BY <2>1, <2>2 DEF LongestPrefixAnswers, StatusFits
<1>4. ASSUME UNCHANGED <<sent, answer>>,
             pc' # "write" \/ UNCHANGED <<pc, client, status>>
      PROVE  LongestPrefixAnswers' /\ StatusFits'
  BY <1>4 DEF LongestPrefixAnswers, StatusFits
<1> QED BY <1>1, <1>2, <1>3, <1>4
        DEF Next, Environment, Server, Connect, Leave, Accept, AcceptFails, Read, ReadStops, ReadError,
            DispatchStops, WriteFails, Close, Stop, environment, vars

\* The order in which main() registers the services gives every request to
\* the service with the longest prefix, and 405 and 501 say what they mean.
THEOREM LongestPrefixWins == Spec => []LongestPrefixAnswers
<1>1. Init => LongestPrefixAnswers /\ StatusFits
  BY DEF Init, LongestPrefixAnswers, StatusFits
<1> QED BY <1>1, FitsStep, Invariance, PTL DEF Spec

\* A request for a page is answered 404 only when no descriptor is left.
LEMMA PageAnswer ==
  ASSUME NEW r, AsksForPage(r), NEW s \in invoke_service_method(find_service(r.path), r)
  PROVE  s = 200 \/ ~DescriptorIsFree
<1>1. DOMAIN services = {1, 2} /\ services[2].methods = {"GET", "HEAD"}
  BY DEF services
<1>2. HasPrefix(r.path, services[2].pathPrefix) /\ ~HasPrefix(r.path, services[1].pathPrefix)
  BY FilesAssumption DEF AsksForPage
<1>3. find_service(r.path) = {2}
  <2>1. \A j : j \in 1 .. 2 - 1 => j = 1
    OBVIOUS
  <2> QED BY <1>1, <1>2, <2>1 DEF find_service
<1>4. r.method \in HttpServiceMethods /\ r.method \in services[2].methods
  BY <1>1 DEF AsksForPage, HttpServiceMethods
<1>5. s \in MethodStatuses(2, r)
  BY <1>3, <1>4 DEF invoke_service_method
<1> QED BY <1>4, <1>5 DEF MethodStatuses, PageStatus, AsksForPage

\* When no descriptor is left while a request is handled, all but one are
\* those of clients that left.
LEMMA LeakersHoldAll ==
  ASSUME IInv, pc \in Handling, ~DescriptorIsFree
  PROVE  Cardinality(left) >= MaxFds - 1
<1>1. client \in fds /\ Leaked = fds \ {client} /\ Leaked \subseteq left
  BY DEF IInv, TypeOK, Leaked, DescriptorsAreAccountedFor
<1>2. Cardinality(Leaked) = Cardinality(fds) - 1 /\ Cardinality(fds) \in Nat
  BY <1>1, FS_RemoveElement, FS_CardinalityType DEF IInv, Finite
<1>3. Cardinality(Leaked) <= Cardinality(left) /\ Cardinality(left) \in Nat
  BY <1>1, FS_Subset, FS_CardinalityType DEF IInv, Finite
<1> QED BY <1>2, <1>3, LimitsAssumption DEF DescriptorIsFree

PageStatusFits ==
  pc = "write" /\ AsksForPage(sent[client]) /\ status # 200 => Cardinality(left) >= MaxFds - 1

LEMMA PagesStep ==
  ASSUME IInv, PagesAreFound /\ PageStatusFits, [Next]_vars
  PROVE  PagesAreFound' /\ PageStatusFits'
<1> USE DEF IInv
<1>1. ASSUME NEW c \in Clients, Send(c) PROVE PagesAreFound' /\ PageStatusFits'
  <2>1. PICK r \in Requests \cup {Broken} : sent' = [sent EXCEPT ![c] = r]
    BY <1>1 DEF Send
  <2>2. \A d \in Clients : sent[d] \in Requests => sent'[d] = sent[d]
    BY <1>1, <2>1, RequestsAssumption DEF Send, TypeOK
  <2>3. pc = "write" => client \in Clients /\ sent[client] \in Requests
    BY DEF TypeOK, Handling
  <2>4. answer' = answer /\ pc' = pc /\ client' = client /\ status' = status /\ left' = left
    BY <1>1 DEF Send
  <2>5. \A d \in Clients : answer[d] # 0 => sent'[d] = sent[d]
    BY <2>2 DEF Unanswered
  <2>6. PagesAreFound'
    BY <2>4, <2>5 DEF PagesAreFound
  <2>7. PageStatusFits'
    BY <2>2, <2>3, <2>4 DEF PageStatusFits
  <2> QED BY <2>6, <2>7
<1>2. ASSUME NEW c \in Clients, Leave(c) PROVE PagesAreFound' /\ PageStatusFits'
  <2>1. left \subseteq left' /\ IsFiniteSet(left')
    BY <1>2, FS_AddElement DEF Leave, Finite
  <2>2. Cardinality(left) <= Cardinality(left') /\ Cardinality(left) \in Nat /\ Cardinality(left') \in Nat
    BY <2>1, FS_Subset, FS_CardinalityType DEF Finite
  <2>3. Cardinality(left) >= MaxFds - 1 => Cardinality(left') >= MaxFds - 1
    BY <2>2, LimitsAssumption
  <2> QED BY <1>2, <2>3 DEF Leave, PagesAreFound, PageStatusFits
<1>3. ASSUME Dispatch PROVE PagesAreFound' /\ PageStatusFits'
  <2>1. AsksForPage(sent[client]) /\ status' # 200 => Cardinality(left) >= MaxFds - 1
    BY <1>3, PageAnswer, LeakersHoldAll DEF Dispatch, Handling
  <2> QED BY <1>3, <2>1 DEF Dispatch, environment, PagesAreFound, PageStatusFits
<1>4. ASSUME Write PROVE PagesAreFound' /\ PageStatusFits'
  <2>1. \A c \in Clients : answer'[c] = IF c = client THEN status ELSE answer[c]
    BY <1>4 DEF Write, TypeOK
  <2>2. sent' = sent /\ left' = left /\ pc = "write" /\ pc' = "close"
    BY <1>4 DEF Write, environment
  <2> QED BY <2>1, <2>2 DEF PagesAreFound, PageStatusFits
<1>5. ASSUME UNCHANGED <<sent, answer, left>>,
             pc' # "write" \/ UNCHANGED <<pc, client, status>>
      PROVE  PagesAreFound' /\ PageStatusFits'
  BY <1>5 DEF PagesAreFound, PageStatusFits
<1> QED BY <1>1, <1>2, <1>3, <1>4, <1>5
        DEF Next, Environment, Server, Connect, Accept, AcceptFails, Read, ReadStops, ReadError,
            DispatchStops, WriteFails, Close, Stop, environment, vars

\* A page that exists is answered 404 only after as many clients have left
\* as there are descriptors besides the one of the connection.
THEOREM PagesFound == Spec => []PagesAreFound
<1>1. Init => PagesAreFound /\ PageStatusFits
  BY DEF Init, PagesAreFound, PageStatusFits
<1> QED BY <1>1, PagesStep, Invariance, PTL DEF Spec
=============================================================================
