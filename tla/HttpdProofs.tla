---------------------------- MODULE HttpdProofs -----------------------------
(***************************************************************************)
(* Theorems about labs/week09/myhttpd.c (module Httpd), for any finite set *)
(* of clients, whatever they send and however long the buffers and the     *)
(* queue are.                                                              *)
(***************************************************************************)
EXTENDS Httpd, TLAPS, FiniteSetTheorems

-----------------------------------------------------------------------------
(* The invariant.                                                          *)

\* The kernel's queue holds every connection that waits, once.
QueueOnce == \A i, j \in 1 .. Len(queue) : queue[i] = queue[j] => i = j
Waiting(c) == \E i \in 1 .. Len(queue) : queue[i] = c

Variables ==
  /\ pc \in {"start", "accept", "recv", "respond", "send"} \cup Ended
  /\ server \in {"socket", "none"} /\ client \in Clients
  /\ queue \in Seq(Clients) /\ open \subseteq Clients \cup {"socket"}
  /\ gone \subseteq Clients
  /\ nRequests \in Nat /\ nResponses \in Nat
  /\ sent \in [Clients -> Nat] /\ pieces \in [Clients -> Nat]
  /\ wants \in [Clients -> Seq(STRING)]
  /\ conn \in [Clients -> {"new", "queued", "open", "closed"}]
  /\ DOMAIN got = Clients

\* The connection that is handled is the one that is open.
Connections ==
  /\ QueueOnce
  /\ \A c \in Clients : (conn[c] = "queued") <=> Waiting(c)
  /\ Handling => conn[client] = "open"
  /\ server = "none" => queue = <<>>
  /\ pc = "start" => server = "none" /\ open = {}
  /\ DescriptorsClosed

\* No more has been sent than was wanted, nor before a piece was.
Sending ==
  \A c \in Clients : /\ sent[c] \in pieces[c] .. Len(wants[c])
                     /\ pieces[c] = 0 => sent[c] = 0 /\ wants[c] = <<>>

Received == {c \in Clients : got[c] # <<"nothing">>}
Accepted == {c \in Clients : conn[c] \in {"open", "closed"}}

\* A response that is made but not sent is one that nobody has received, and
\* a connection that nothing was read from is one that is not counted.
Counting ==
  /\ Accounted
  /\ pc = "send" => Cardinality(Received) + 1 <= nResponses
  /\ pc = "recv" => nRequests + 1 <= Cardinality(Accepted)

HttpdInv == Variables /\ Connections /\ Sending /\ Counting

-----------------------------------------------------------------------------
(* The queue.                                                              *)

LEMMA QueueAppend ==
  ASSUME Variables, QueueOnce, NEW c \in Clients, ~Waiting(c),
         queue' = Append(queue, c)
  PROVE  /\ queue' \in Seq(Clients) /\ QueueOnce'
         /\ \A d \in Clients : Waiting(d)' <=> Waiting(d) \/ d = c
<1>1. /\ queue \in Seq(Clients) /\ queue' \in Seq(Clients)
      /\ Len(queue') = Len(queue) + 1
      /\ \A i \in 1 .. Len(queue) : queue'[i] = queue[i]
      /\ queue'[Len(queue) + 1] = c
  BY DEF Variables
<1>2. QED  BY <1>1 DEF QueueOnce, Waiting

LEMMA QueueTail ==
  ASSUME Variables, QueueOnce, queue # <<>>, queue' = Tail(queue)
  PROVE  /\ queue' \in Seq(Clients) /\ QueueOnce'
         /\ Head(queue) \in Clients /\ Waiting(Head(queue))
         /\ \A d \in Clients : Waiting(d)' <=> Waiting(d) /\ d # Head(queue)
<1>1. /\ queue \in Seq(Clients) /\ queue' \in Seq(Clients) /\ Len(queue) \in Nat \ {0}
      /\ Len(queue') = Len(queue) - 1
      /\ \A i \in 1 .. Len(queue) - 1 : queue'[i] = queue[i + 1]
      /\ Head(queue) = queue[1]
  BY DEF Variables
<1>2. Head(queue) \in Clients /\ Waiting(Head(queue))  BY <1>1 DEF Waiting
<1>3. QueueOnce'  BY <1>1 DEF QueueOnce
<1>4. ASSUME NEW d \in Clients
      PROVE  Waiting(d)' <=> Waiting(d) /\ d # Head(queue)
  <2>1. ASSUME NEW i \in 1 .. Len(queue'), queue'[i] = d
        PROVE  Waiting(d) /\ d # Head(queue)
    <3>1. i + 1 \in 1 .. Len(queue) /\ queue[i + 1] = d  BY <1>1, <2>1
    <3>2. QED  BY <1>1, <3>1 DEF Waiting, QueueOnce
  <2>2. ASSUME NEW i \in 1 .. Len(queue), queue[i] = d, d # Head(queue)
        PROVE  Waiting(d)'
    <3>1. i - 1 \in 1 .. Len(queue') /\ queue'[i - 1] = d  BY <1>1, <2>2
    <3>2. QED  BY <3>1 DEF Waiting
  <2>3. QED  BY <2>1, <2>2 DEF Waiting
<1>5. QED  BY <1>1, <1>2, <1>3, <1>4

-----------------------------------------------------------------------------
(* The variables.                                                          *)

LEMMA InitVariables == HttpdInit => Variables
BY HttpdAssumption DEF HttpdInit, Variables

LEMMA NextVariables == Variables /\ QueueOnce /\ [Next]_httpdVars => Variables'
<1> SUFFICES ASSUME Variables, QueueOnce, [Next]_httpdVars PROVE Variables'
  OBVIOUS
<1> USE DEF Ended
<1>1. ASSUME NEW c \in Clients, Client(c) PROVE Variables'
  <2>1. CASE Connect(c)
    BY <2>1 DEF Connect, Variables, local, clients
  <2>2. CASE SendRequest(c)
    <3>1. PICK r \in IF sent[c] = 0 THEN Requests[c] ELSE {wants[c]} :
            \E n \in sent[c] + 1 .. Len(r) :
              wants' = [wants EXCEPT ![c] = r] /\ sent' = [sent EXCEPT ![c] = n]
      BY <2>2 DEF SendRequest
    <3>2. PICK n \in sent[c] + 1 .. Len(r) :
            wants' = [wants EXCEPT ![c] = r] /\ sent' = [sent EXCEPT ![c] = n]
      BY <3>1
    <3>3. r \in Seq(STRING)  BY HttpdAssumption, <3>1 DEF Variables
    <3>4. n \in Nat  BY <3>2, <3>3 DEF Variables
    <3>5. QED
      BY <2>2, <3>2, <3>3, <3>4 DEF SendRequest, Variables, local, network
  <2>3. CASE Abandon(c)
    BY <2>3 DEF Abandon, Variables, local, network
  <2>4. QED  BY <1>1, <2>1, <2>2, <2>3 DEF Client
<1>2. CASE ServerSocketNew
  BY <1>2 DEF ServerSocketNew, Variables, clients
<1>3. CASE Accept
  BY <1>3, QueueTail DEF Accept, Variables, clients
<1>4. CASE AcceptFails
  <2>1. CASE UNCHANGED <<open, queue, conn>>
    BY <1>4, <2>1 DEF AcceptFails, Variables, clients
  <2>2. CASE queue # <<>> /\ queue' = Tail(queue)
             /\ conn' = [conn EXCEPT ![Head(queue)] = "closed"]
             /\ open' = open \ {server}
    BY <1>4, <2>2, QueueTail DEF AcceptFails, Variables, clients
  <2>3. QED  BY <1>4, <2>1, <2>2 DEF AcceptFails
<1>5. CASE Recv
  BY <1>5 DEF Recv, CountRequest, Variables, network, clients
<1>6. CASE RecvFails
  BY <1>6 DEF RecvFails, CloseClient, Close, Variables, clients
<1>7. CASE Respond
  BY <1>7 DEF Respond, Variables, network, clients
<1>8. CASE RespondCrashes
  BY <1>8 DEF RespondCrashes, Die, Variables, clients
<1>9. CASE Send
  BY <1>9 DEF Send, CloseClient, Close, Variables, clients
<1>10. CASE SendFails
  BY <1>10 DEF SendFails, CloseClient, Close, Variables, clients
<1>11. CASE SendKills
  BY <1>11 DEF SendKills, Die, Variables, clients
<1>12. CASE UNCHANGED httpdVars
  BY <1>12 DEF httpdVars, local, network, clients, Variables
<1>13. QED
  BY <1>1, <1>2, <1>3, <1>4, <1>5, <1>6, <1>7, <1>8, <1>9, <1>10, <1>11, <1>12
  DEF Next, Server

-----------------------------------------------------------------------------
(* Connections and descriptors.                                            *)

LEMMA InitConnections == HttpdInit => Connections
BY DEF HttpdInit, Connections, QueueOnce, Waiting, DescriptorsClosed, Handling

\* The three ways out of handle_connection that go on with accept.
LEMMA CloseClientConnections ==
  ASSUME Variables, Connections, Handling, CloseClient
  PROVE  Connections'
<1>1. conn[client] = "open"  BY DEF Connections
<1>2. ~Waiting(client)  BY <1>1 DEF Connections, Variables
<1>3. \A c \in Clients : conn'[c] = IF c = client THEN "closed" ELSE conn[c]
  BY DEF CloseClient, Variables
<1>4. QueueOnce' /\ \A c \in Clients : Waiting(c)' <=> Waiting(c)
  BY DEF CloseClient, Connections, QueueOnce, Waiting
<1>5. \A c \in Clients : (conn'[c] = "queued") <=> Waiting(c)'
  BY <1>2, <1>3, <1>4 DEF Connections
<1>6. open' \cap Clients = {} /\ pc' = "accept" /\ server' = server /\ queue' = queue
  BY DEF CloseClient, Close, Connections, DescriptorsClosed, Handling
<1>7. QED
  BY <1>4, <1>5, <1>6 DEF Connections, DescriptorsClosed, Handling

\* Steps of the server that leave queue and connections alone.
LEMMA OtherConnections ==
  ASSUME Variables, Connections, pc # "start", pc' # "start",
         UNCHANGED <<server, client, queue, conn>>,
         Handling' => Handling,
         \/ pc' \in {"recv", "respond", "send"} /\ open' = open /\ Handling
         \/ pc' = "crashed" /\ open' = {}
         \/ pc' = "undefined"
  PROVE  Connections'
<1>1. QueueOnce' /\ \A c \in Clients : Waiting(c)' <=> Waiting(c)
  BY DEF Connections, QueueOnce, Waiting
<1>2. DescriptorsClosed'
  BY DEF Connections, DescriptorsClosed, Handling
<1>3. QED  BY <1>1, <1>2 DEF Connections

LEMMA NextConnections == Variables /\ Connections /\ [Next]_httpdVars => Connections'
<1> SUFFICES ASSUME Variables, Connections, [Next]_httpdVars PROVE Connections'
  OBVIOUS
<1>1. CASE UNCHANGED <<pc, server, client, open, queue, conn>>
  BY <1>1 DEF Connections, QueueOnce, Waiting, DescriptorsClosed, Handling
<1>2. ASSUME NEW c \in Clients, Client(c) PROVE Connections'
  <2>1. CASE Connect(c)
    <3>1. ~Waiting(c) /\ queue' = Append(queue, c) /\ server = "socket"
      BY <2>1 DEF Connect, Connections, Variables
    <3>2. /\ QueueOnce'
          /\ \A d \in Clients : Waiting(d)' <=> Waiting(d) \/ d = c
      BY <3>1, QueueAppend DEF Connections
    <3>3. \A d \in Clients : conn'[d] = IF d = c THEN "queued" ELSE conn[d]
      BY <2>1 DEF Connect, Variables
    <3>4. \A d \in Clients : (conn'[d] = "queued") <=> Waiting(d)'
      BY <3>2, <3>3 DEF Connections
    <3>5. UNCHANGED <<pc, server, client, open>> /\ conn[c] = "new"
      BY <2>1 DEF Connect, local
    <3>6. (Handling => conn[client] = "open")'
      BY <3>3, <3>5 DEF Connections, Handling, Variables
    <3>7. DescriptorsClosed'
      BY <3>5 DEF Connections, DescriptorsClosed, Handling
    <3>8. QED  BY <3>1, <3>2, <3>4, <3>5, <3>6, <3>7 DEF Connections
  <2>2. CASE SendRequest(c)
    BY <1>1, <2>2 DEF SendRequest, local, network
  <2>3. CASE Abandon(c)
    BY <1>1, <2>3 DEF Abandon, local, network
  <2>4. QED  BY <1>2, <2>1, <2>2, <2>3 DEF Client
<1>3. CASE ServerSocketNew
  <2>1. QueueOnce' /\ (\A c \in Clients : Waiting(c)' <=> Waiting(c)) /\ queue = <<>>
    BY <1>3 DEF ServerSocketNew, Connections, QueueOnce, Waiting
  <2>2. pc' = "accept" /\ open' \subseteq {"socket"} /\ UNCHANGED <<conn, queue, client>>
    BY <1>3 DEF ServerSocketNew
  <2>3. open' \cap Clients = {}  BY <2>2, HttpdAssumption
  <2>4. QED
    BY <2>1, <2>2, <2>3 DEF Connections, DescriptorsClosed, Handling
<1>4. CASE Accept
  <2> DEFINE c == Head(queue)
  <2>1. /\ QueueOnce' /\ c \in Clients /\ Waiting(c)
        /\ \A d \in Clients : Waiting(d)' <=> Waiting(d) /\ d # c
    BY <1>4, QueueTail DEF Accept, Connections
  <2>2. /\ pc = "accept" /\ server = "socket" /\ pc' = "recv" /\ server' = server
        /\ client' = c /\ open' = open \cup {c}
        /\ conn' = [conn EXCEPT ![c] = "open"]
    BY <1>4 DEF Accept
  <2>3. \A d \in Clients : conn'[d] = IF d = c THEN "open" ELSE conn[d]
    BY <2>2 DEF Variables
  <2>4. \A d \in Clients : (conn'[d] = "queued") <=> Waiting(d)'
    BY <2>1, <2>3 DEF Connections
  <2>5. open \cap Clients = {}
    BY <2>2 DEF Connections, DescriptorsClosed, Handling
  <2>6. QED
    BY <2>1, <2>2, <2>3, <2>4, <2>5 DEF Connections, DescriptorsClosed, Handling
<1>5. CASE AcceptFails
  <2>1. pc = "accept" /\ pc' = "over" /\ UNCHANGED <<server, client>>
    BY <1>5 DEF AcceptFails
  <2>2. open \cap Clients = {}
    BY <2>1 DEF Connections, DescriptorsClosed, Handling
  <2>3. CASE UNCHANGED <<open, queue, conn>>
    BY <2>1, <2>2, <2>3
    DEF Connections, QueueOnce, Waiting, DescriptorsClosed, Handling
  <2>4. CASE /\ queue # <<>> /\ queue' = Tail(queue) /\ open' = open \ {server}
             /\ conn' = [conn EXCEPT ![Head(queue)] = "closed"]
    <3> DEFINE c == Head(queue)
    <3>1. /\ QueueOnce' /\ c \in Clients
          /\ \A d \in Clients : Waiting(d)' <=> Waiting(d) /\ d # c
      BY <2>4, QueueTail DEF Connections
    <3>2. \A d \in Clients : conn'[d] = IF d = c THEN "closed" ELSE conn[d]
      BY <2>4 DEF Variables
    <3>3. \A d \in Clients : (conn'[d] = "queued") <=> Waiting(d)'
      BY <3>1, <3>2 DEF Connections
    <3>4. server # "none"  BY <2>4 DEF Connections
    <3>5. QED
      BY <2>1, <2>2, <2>4, <3>1, <3>3, <3>4
      DEF Connections, DescriptorsClosed, Handling
  <2>5. QED  BY <1>5, <2>3, <2>4 DEF AcceptFails
<1>6. CASE Recv
  <2>1. pc = "recv" /\ pc' \in {"undefined", "respond"}
    BY <1>6, Zenon DEF Recv
  <2>2. QED
    BY <1>6, <2>1, OtherConnections DEF Recv, network, Handling
<1>7. CASE RecvFails
  BY <1>7, CloseClientConnections DEF RecvFails, Handling
<1>8. CASE Respond
  BY <1>8, OtherConnections DEF Respond, network, Handling
<1>9. CASE RespondCrashes
  BY <1>9, OtherConnections DEF RespondCrashes, Die, Handling
<1>10. CASE Send
  BY <1>10, CloseClientConnections DEF Send, Handling
<1>11. CASE SendFails
  BY <1>11, CloseClientConnections DEF SendFails, Handling
<1>12. CASE SendKills
  BY <1>12, OtherConnections DEF SendKills, Die, Handling
<1>13. CASE UNCHANGED httpdVars
  BY <1>1, <1>13 DEF httpdVars, local, network
<1>14. QED
  BY <1>2, <1>3, <1>4, <1>5, <1>6, <1>7, <1>8, <1>9, <1>10, <1>11, <1>12, <1>13
  DEF Next, Server

-----------------------------------------------------------------------------
(* What clients send.                                                      *)

LEMMA InitSending == HttpdInit => Sending
BY DEF HttpdInit, Sending

LEMMA NextSending == Variables /\ Sending /\ [Next]_httpdVars => Sending'
<1> SUFFICES ASSUME Variables, Sending, [Next]_httpdVars PROVE Sending'
  OBVIOUS
<1>1. CASE UNCHANGED <<wants, sent, pieces>>
  BY <1>1 DEF Sending
<1>2. ASSUME NEW c \in Clients, SendRequest(c) PROVE Sending'
  <2>1. PICK r \in IF sent[c] = 0 THEN Requests[c] ELSE {wants[c]} :
          \E n \in sent[c] + 1 .. Len(r) :
            wants' = [wants EXCEPT ![c] = r] /\ sent' = [sent EXCEPT ![c] = n]
    BY <1>2 DEF SendRequest
  <2>2. PICK n \in sent[c] + 1 .. Len(r) :
          wants' = [wants EXCEPT ![c] = r] /\ sent' = [sent EXCEPT ![c] = n]
    BY <2>1
  <2>3. pieces' = [pieces EXCEPT ![c] = @ + 1]  BY <1>2 DEF SendRequest
  <2>4. Len(r) \in Nat
    <3>1. r \in Seq(STRING)  BY HttpdAssumption, <2>1 DEF Variables
    <3>2. QED  BY <3>1
  <2>5. ASSUME NEW d \in Clients
        PROVE  /\ sent'[d] \in pieces'[d] .. Len(wants'[d])
               /\ pieces'[d] = 0 => sent'[d] = 0 /\ wants'[d] = <<>>
    <3>1. CASE d = c
      <4>1. sent'[d] = n /\ pieces'[d] = pieces[d] + 1 /\ wants'[d] = r
        BY <2>2, <2>3, <3>1 DEF Variables
      <4>2. sent[d] \in Nat /\ pieces[d] \in Nat /\ sent[d] >= pieces[d]
        BY DEF Variables, Sending
      <4>3. QED  BY <2>2, <2>4, <3>1, <4>1, <4>2
    <3>2. CASE d # c
      <4>1. sent'[d] = sent[d] /\ pieces'[d] = pieces[d] /\ wants'[d] = wants[d]
        BY <2>2, <2>3, <3>2 DEF Variables
      <4>2. QED  BY <4>1 DEF Sending
    <3>3. QED  BY <3>1, <3>2
  <2>6. QED  BY <2>5 DEF Sending
<1>3. CASE UNCHANGED clients  BY <1>1, <1>3 DEF clients
<1>4. CASE Server
  BY <1>3, <1>4 DEF Server, ServerSocketNew, Accept, AcceptFails, Recv, RecvFails,
    Respond, RespondCrashes, Send, SendFails, SendKills, CloseClient, Die
<1>5. ASSUME NEW c \in Clients, Client(c) PROVE Sending'
  BY <1>1, <1>2, <1>3, <1>5 DEF Client, Connect, Abandon
<1>6. CASE UNCHANGED httpdVars  BY <1>3, <1>6 DEF httpdVars
<1>7. QED  BY <1>4, <1>5, <1>6 DEF Next

-----------------------------------------------------------------------------
(* Requests and responses are counted.                                     *)

LEMMA FiniteCounts ==
  /\ IsFiniteSet(Received) /\ Cardinality(Received) \in Nat
  /\ IsFiniteSet(Accepted) /\ Cardinality(Accepted) \in Nat
  /\ Cardinality(Accepted) <= Cardinality(Clients)
<1>1. IsFiniteSet(Clients)  BY HttpdAssumption
<1>2. Received \in SUBSET Clients /\ Accepted \in SUBSET Clients
  BY DEF Received, Accepted
<1>3. QED  BY <1>1, <1>2, FS_Subset, FS_CardinalityType

\* A connection that was accepted stays accepted, whatever becomes of it.
LEMMA AcceptedGrow ==
  ASSUME Variables,
         \A c \in Clients : conn'[c] = conn[c] \/ conn'[c] \in {"open", "closed"}
                                \/ conn[c] \notin {"open", "closed"}
  PROVE  Cardinality(Accepted) <= Cardinality(Accepted')
<1>1. Accepted \in SUBSET (Accepted')  BY DEF Accepted
<1>2. IsFiniteSet(Accepted')
  <2>1. IsFiniteSet(Clients) /\ Accepted' \in SUBSET Clients
    BY HttpdAssumption DEF Accepted
  <2>2. QED  BY <2>1, FS_Subset
<1>3. QED  BY <1>1, <1>2, FS_Subset

LEMMA InitCounting == HttpdInit => Counting
<1> SUFFICES ASSUME HttpdInit PROVE Counting  OBVIOUS
<1>1. Received = {} /\ Accepted = {} /\ Cardinality({}) = 0
  BY FS_EmptySet DEF HttpdInit, Received, Accepted
<1>2. pc = "start" /\ nRequests = 0 /\ nResponses = 0  BY DEF HttpdInit
<1>3. Accounted  BY <1>1, <1>2 DEF Accounted, Received, Accepted
<1>4. QED  BY <1>2, <1>3 DEF Counting

\* Steps after which no page has been received that was not before, and no
\* request been counted.
LEMMA OtherCounting ==
  ASSUME Variables, Counting,
         Received' = Received, UNCHANGED <<nRequests, nResponses>>,
         Cardinality(Accepted) <= Cardinality(Accepted'),
         Cardinality(Accepted') \in Nat,
         \/ pc' = pc
         \/ pc \in {"start", "accept", "recv", "send"} /\ pc' \in {"accept", "over"}
         \/ pc \in {"respond", "send"} /\ pc' = "crashed"
  PROVE  Counting'
<1>1. /\ nRequests \in Nat /\ nResponses \in Nat
      /\ Cardinality(Received) \in Nat /\ Cardinality(Accepted) \in Nat
  BY FiniteCounts DEF Variables
<1> DEFINE R == Cardinality(Received)
           A == Cardinality(Accepted)
           R2 == Cardinality(Received')
           A2 == Cardinality(Accepted')
<1>2. /\ nRequests = nResponses + (IF pc \in {"respond", "undefined"} THEN 1 ELSE 0)
         \/ (pc = "crashed" /\ nRequests - nResponses \in 0 .. 1)
      /\ R <= nResponses /\ nRequests <= A
      /\ pc = "send" => R + 1 <= nResponses
      /\ pc = "recv" => nRequests + 1 <= A
  BY DEF Counting, Accounted, Received, Accepted
<1>3. R2 = R  OBVIOUS
<1> HIDE DEF R, A, R2, A2
<1>4. /\ nRequests' = nResponses'
           + (IF pc' \in {"respond", "undefined"} THEN 1 ELSE 0)
         \/ (pc' = "crashed" /\ nRequests' - nResponses' \in 0 .. 1)
      /\ R2 <= nResponses' /\ nRequests' <= A2
      /\ pc' = "send" => R2 + 1 <= nResponses'
      /\ pc' = "recv" => nRequests' + 1 <= A2
  BY <1>1, <1>2, <1>3 DEF R, A, R2, A2
<1>5. QED  BY <1>4 DEF Counting, Accounted, Received, Accepted, R2, A2

LEMMA NextCounting ==
  Variables /\ Connections /\ Counting /\ [Next]_httpdVars => Counting'
<1> SUFFICES ASSUME Variables, Connections, Counting, [Next]_httpdVars
             PROVE  Counting'
  OBVIOUS
<1>1. /\ nRequests \in Nat /\ nResponses \in Nat
      /\ Cardinality(Received) \in Nat /\ Cardinality(Accepted) \in Nat
      /\ IsFiniteSet(Received) /\ IsFiniteSet(Accepted)
  BY FiniteCounts DEF Variables
<1>2. IsFiniteSet(Accepted') /\ Cardinality(Accepted') \in Nat
  <2>1. IsFiniteSet(Clients) /\ Accepted' \in SUBSET Clients
    BY HttpdAssumption DEF Accepted
  <2>2. QED  BY <2>1, FS_Subset, FS_CardinalityType
<1>3. /\ nRequests = nResponses + (IF pc \in {"respond", "undefined"} THEN 1 ELSE 0)
         \/ (pc = "crashed" /\ nRequests - nResponses \in 0 .. 1)
      /\ Cardinality(Received) <= nResponses
      /\ nRequests <= Cardinality(Accepted)
      /\ pc = "send" => Cardinality(Received) + 1 <= nResponses
      /\ pc = "recv" => nRequests + 1 <= Cardinality(Accepted)
  BY DEF Counting, Accounted, Received, Accepted
<1>4. CASE /\ UNCHANGED <<got, nRequests, nResponses>>
           /\ \A c \in Clients : conn'[c] = conn[c] \/ conn'[c] \in {"open", "closed"}
                                   \/ conn[c] \notin {"open", "closed"}
           /\ \/ pc' = pc
              \/ /\ pc \in {"start", "accept", "recv", "send"}
                 /\ pc' \in {"accept", "over"}
              \/ pc \in {"respond", "send"} /\ pc' = "crashed"
  <2>1. Received' = Received  BY <1>4 DEF Received
  <2>2. QED  BY <1>2, <1>4, <2>1, AcceptedGrow, OtherCounting
<1>5. CASE UNCHANGED <<got, nRequests, nResponses, conn, pc>>
  BY <1>4, <1>5
<1>6. ASSUME NEW c \in Clients, Client(c) PROVE Counting'
  <2>1. CASE Connect(c)
    BY <1>4, <2>1 DEF Connect, local, Variables
  <2>2. CASE SendRequest(c)
    BY <1>5, <2>2 DEF SendRequest, local, network
  <2>3. CASE Abandon(c)
    BY <1>5, <2>3 DEF Abandon, local, network
  <2>4. QED  BY <1>6, <2>1, <2>2, <2>3 DEF Client
<1>7. CASE ServerSocketNew
  BY <1>4, <1>7 DEF ServerSocketNew
<1>8. CASE Accept
  <2> DEFINE c == Head(queue)
  <2>1. c \in Clients /\ Waiting(c)
    BY <1>8, QueueTail DEF Accept, Connections
  <2>2. conn[c] = "queued"  BY <2>1 DEF Connections
  <2>3. \A d \in Clients : conn'[d] = IF d = c THEN "open" ELSE conn[d]
    BY <1>8 DEF Accept, Variables
  <2>4. Accepted' = Accepted \cup {c} /\ c \notin Accepted
    BY <2>1, <2>2, <2>3 DEF Accepted
  <2>5. Cardinality(Accepted') = Cardinality(Accepted) + 1
    <3> HIDE DEF c
    <3>1. QED  BY <1>1, <2>4, FS_AddElement
  <2>6. /\ pc = "accept" /\ pc' = "recv" /\ UNCHANGED <<got, nRequests, nResponses>>
    BY <1>8 DEF Accept
  <2>7. Received' = Received  BY <2>6 DEF Received
  <2>8. Accounted'
    <3>1. /\ nRequests' = nResponses' /\ Cardinality(Received') <= nResponses'
          /\ nRequests' <= Cardinality(Accepted')
      BY <1>1, <1>3, <2>5, <2>6, <2>7
    <3>2. QED  BY <1>1, <2>6, <3>1 DEF Accounted, Received, Accepted
  <2>9. QED  BY <1>1, <1>3, <2>5, <2>6, <2>8 DEF Counting
<1>9. CASE AcceptFails
  <2>1. /\ pc = "accept" /\ pc' = "over" /\ UNCHANGED <<got, nRequests, nResponses>>
        /\ \/ UNCHANGED conn
           \/ conn' = [conn EXCEPT ![Head(queue)] = "closed"]
    BY <1>9 DEF AcceptFails
  <2>2. QED  BY <1>4, <2>1 DEF Variables
<1>10. CASE Recv
  <2>1. /\ pc = "recv" /\ pc' \in {"undefined", "respond"}
        /\ nRequests' = nRequests + 1
        /\ UNCHANGED <<nResponses, got, conn>>
    BY <1>10, Zenon DEF Recv, CountRequest, network
  <2>2. Received' = Received /\ Accepted' = Accepted
    BY <2>1 DEF Received, Accepted
  <2>3. Accounted'
    <3>1. /\ nRequests' = nResponses' + 1 /\ Cardinality(Received') <= nResponses'
          /\ nRequests' <= Cardinality(Accepted')
      BY <1>1, <1>3, <2>1, <2>2
    <3>2. QED  BY <2>1, <3>1 DEF Accounted, Received, Accepted
  <2>4. QED  BY <2>1, <2>3 DEF Counting
<1>11. CASE RecvFails
  BY <1>4, <1>11 DEF RecvFails, CloseClient, Variables
<1>12. CASE Respond
  <2>1. pc = "respond" /\ UNCHANGED <<nRequests, got, conn>>
    BY <1>12 DEF Respond, network
  <2>2. \/ pc' = "send" /\ nResponses' = nResponses + 1
        \/ pc' = "undefined" /\ nResponses' = nResponses
    BY <1>12 DEF Respond
  <2>3. Received' = Received /\ Accepted' = Accepted
    BY <2>1 DEF Received, Accepted
  <2>4. Accounted'
    <3>1. /\ nRequests' = nResponses' + IF pc' = "undefined" THEN 1 ELSE 0
          /\ Cardinality(Received') <= nResponses'
          /\ nRequests' <= Cardinality(Accepted')
      BY <1>1, <1>3, <2>1, <2>2, <2>3
    <3>2. QED  BY <2>2, <3>1 DEF Accounted, Received, Accepted
  <2>5. QED  BY <1>1, <1>3, <2>1, <2>2, <2>3, <2>4 DEF Counting
<1>13. CASE RespondCrashes
  BY <1>4, <1>13 DEF RespondCrashes, Die
<1>14. CASE Send
  <2>1. /\ pc = "send" /\ pc' = "accept" /\ UNCHANGED <<nRequests, nResponses>>
        /\ conn' = [conn EXCEPT ![client] = "closed"]
        /\ got' = got \/ got' = [got EXCEPT ![client] = response]
    BY <1>14 DEF Send, Answer, CloseClient
  <2>2. CASE got' = got
    BY <1>4, <2>1, <2>2 DEF Variables
  <2>3. CASE got' = [got EXCEPT ![client] = response]
    <3>1. Received' \in SUBSET (Received \cup {client})
      BY <2>3 DEF Received, Variables
    <3>2. /\ IsFiniteSet(Received \cup {client})
          /\ Cardinality(Received \cup {client}) <= Cardinality(Received) + 1
      BY <1>1, FS_AddElement
    <3>3. Cardinality(Received') <= Cardinality(Received) + 1
      <4>1. /\ Cardinality(Received') \in Nat
            /\ Cardinality(Received \cup {client}) \in Nat
            /\ Cardinality(Received') <= Cardinality(Received \cup {client})
        BY <3>1, <3>2, FS_Subset, FS_CardinalityType
      <4>2. QED  BY <1>1, <3>2, <4>1
    <3>4. Cardinality(Received') \in Nat
      BY <3>1, <3>2, FS_Subset, FS_CardinalityType
    <3>5. Cardinality(Accepted) <= Cardinality(Accepted')
      BY <2>1, AcceptedGrow DEF Variables
    <3>6. Accounted'
      <4>1. /\ nRequests' = nResponses' /\ Cardinality(Received') <= nResponses'
            /\ nRequests' <= Cardinality(Accepted')
        BY <1>1, <1>2, <1>3, <2>1, <3>3, <3>4, <3>5
      <4>2. QED  BY <1>1, <2>1, <4>1 DEF Accounted, Received, Accepted
    <3>7. QED  BY <2>1, <3>6 DEF Counting
  <2>4. QED  BY <2>1, <2>2, <2>3
<1>15. CASE SendFails
  BY <1>4, <1>15 DEF SendFails, CloseClient, Variables
<1>16. CASE SendKills
  BY <1>4, <1>16 DEF SendKills, Die
<1>17. CASE UNCHANGED httpdVars
  BY <1>5, <1>17 DEF httpdVars, local, network
<1>18. QED
  BY <1>6, <1>7, <1>8, <1>9, <1>10, <1>11, <1>12, <1>13, <1>14, <1>15, <1>16, <1>17
  DEF Next, Server

-----------------------------------------------------------------------------
LEMMA InitInv == HttpdInit => HttpdInv
BY InitVariables, InitConnections, InitSending, InitCounting DEF HttpdInv

LEMMA NextInv == HttpdInv /\ [Next]_httpdVars => HttpdInv'
BY NextVariables, NextConnections, NextSending, NextCounting
DEF HttpdInv, Connections

LEMMA InvType == HttpdInv => HttpdTypeOK
<1> SUFFICES ASSUME HttpdInv PROVE HttpdTypeOK  OBVIOUS
<1>1. Variables /\ Connections /\ Sending /\ Accounted  BY DEF HttpdInv, Counting
<1>2. nResponses \in 0 .. nRequests /\ nRequests \in 0 .. Cardinality(Clients)
  <2>1. /\ nRequests \in Nat /\ nResponses \in Nat
        /\ Cardinality(Accepted) \in Nat /\ Cardinality(Clients) \in Nat
        /\ Cardinality(Accepted) <= Cardinality(Clients)
    BY <1>1, FiniteCounts, HttpdAssumption, FS_CardinalityType DEF Variables
  <2>2. nResponses <= nRequests /\ nRequests <= Cardinality(Accepted)
    BY <1>1, <2>1 DEF Accounted, Accepted
  <2>3. QED  BY <2>1, <2>2
<1>3. ASSUME NEW c \in Clients PROVE (conn[c] = "queued") = (c \in ToSet(queue))
  <2>1. ToSet(queue) = {queue[i] : i \in 1 .. Len(queue)}
    BY <1>1 DEF ToSet, Variables
  <2>2. QED  BY <1>1, <2>1 DEF Connections, Waiting
<1>4. QED
  BY <1>1, <1>2, <1>3 DEF HttpdTypeOK, Variables, Sending

\* The variables of the server and its clients keep their types: no more
\* responses than requests and no more requests than clients are counted, and
\* the connections that wait are those in the kernel's queue.
THEOREM HttpdTypeCorrect == Spec => []HttpdTypeOK
<1>1. HttpdInit => HttpdInv  BY InitInv
<1>2. HttpdInv /\ [Next]_httpdVars => HttpdInv'  BY NextInv
<1>3. HttpdInv => HttpdTypeOK  BY InvType
<1>4. QED  BY <1>1, <1>2, <1>3, PTL DEF Spec

\* On every way out of handle_connection, lines 143-209, the descriptor of the
\* client is closed.
THEOREM DescriptorsAreClosed == Spec => []DescriptorsClosed
<1>1. HttpdInit => HttpdInv  BY InitInv
<1>2. HttpdInv /\ [Next]_httpdVars => HttpdInv'  BY NextInv
<1>3. HttpdInv => DescriptorsClosed  BY DEF HttpdInv, Connections
<1>4. QED  BY <1>1, <1>2, <1>3, PTL DEF Spec

\* The two counters of lines 154 and 203 agree with what clients received and
\* with the connections that were accepted.
THEOREM CountersAgree == Spec => []Accounted
<1>1. HttpdInit => HttpdInv  BY InitInv
<1>2. HttpdInv /\ [Next]_httpdVars => HttpdInv'  BY NextInv
<1>3. HttpdInv => Accounted  BY DEF HttpdInv, Counting
<1>4. QED  BY <1>1, <1>2, <1>3, PTL DEF Spec

-----------------------------------------------------------------------------
(* The pages.                                                              *)

\* While a well behaved client is answered, all it sent has been read and the
\* response is its own page.
Answering ==
  /\ PagesRight
  /\ SurvivesTheWellBehaved
  /\ pc \in {"respond", "send"} /\ WellBehaved(client) =>
       /\ request = wants[client] /\ wants[client] \in DOMAIN Site
       /\ sent[client] = Len(wants[client]) /\ sent[client] > 0
  /\ pc = "send" /\ WellBehaved(client) => response = Site[wants[client]]

LEMMA MinOfTwo ==
  ASSUME NEW a \in Nat, NEW b \in Nat
  PROVE  Min({a, b}) = IF a <= b THEN a ELSE b
BY DEF Min

\* Good behaviour cannot be made up for.
LEMMA BehavedBefore ==
  ASSUME Variables, Sending, [Next]_httpdVars, NEW c \in Clients, WellBehaved(c)'
  PROVE  WellBehaved(c)
<1>1. CASE UNCHANGED clients
  BY <1>1 DEF WellBehaved, clients
<1>2. ASSUME NEW d \in Clients, SendRequest(d) PROVE WellBehaved(c)
  <2>1. CASE d = c
    <3>1. pieces'[c] = pieces[c] + 1 /\ gone' = gone
      BY <1>2, <2>1 DEF SendRequest, Variables
    <3>2. pieces'[c] <= 1 /\ c \notin gone  BY <3>1 DEF WellBehaved
    <3>3. pieces[c] = 0  BY <3>1, <3>2 DEF Variables
    <3>4. sent[c] = 0 /\ wants[c] = <<>>  BY <3>3 DEF Sending
    <3>5. QED  BY <3>2, <3>3, <3>4 DEF WellBehaved
  <2>2. CASE d # c
    <3>1. /\ wants'[c] = wants[c] /\ sent'[c] = sent[c]
          /\ pieces'[c] = pieces[c] /\ gone' = gone
      BY <1>2, <2>2 DEF SendRequest, Variables
    <3>2. QED  BY <3>1 DEF WellBehaved
  <2>3. QED  BY <2>1, <2>2
<1>3. ASSUME NEW d \in Clients, Abandon(d) PROVE WellBehaved(c)
  BY <1>3 DEF Abandon, WellBehaved
<1>4. CASE Server
  BY <1>1, <1>4 DEF Server, ServerSocketNew, Accept, AcceptFails, Recv, RecvFails,
    Respond, RespondCrashes, Send, SendFails, SendKills, CloseClient, Die
<1>5. ASSUME NEW d \in Clients, Connect(d) PROVE WellBehaved(c)
  BY <1>1, <1>5 DEF Connect
<1>6. QED  BY <1>1, <1>2, <1>3, <1>4, <1>5 DEF Next, Client, httpdVars

LEMMA InitAnswering == HttpdInit => Answering
BY DEF HttpdInit, Answering, PagesRight, SurvivesTheWellBehaved, Ended

\* recv takes all that a well behaved client has sent.
LEMMA RecvWhole ==
  ASSUME SiteServed, Variables, Sending, Recv, WellBehaved(client)
  PROVE  /\ request' = wants[client] /\ wants[client] \in DOMAIN Site
         /\ sent[client] = Len(wants[client]) /\ sent[client] > 0
         /\ pc' = "respond"
<1> DEFINE w == wants[client]
           n == Min({sent[client], BufSize})
<1>1. w \in Seq(STRING) /\ sent[client] \in Nat /\ BufSize \in Nat
  BY HttpdAssumption DEF Variables
<1>2. sent[client] > 0  BY DEF Recv, WellBehaved
<1>3. sent[client] = Len(w)  BY <1>2 DEF WellBehaved
<1>4. w # <<>>  BY <1>1, <1>2, <1>3
<1>5. w \in DOMAIN Site  BY <1>4 DEF WellBehaved
<1>6. Len(w) < BufSize  BY <1>5 DEF SiteServed
<1>7. n = Len(w) /\ n # BufSize  BY <1>1, <1>3, <1>6, MinOfTwo
<1>8. SubSeq(w, 1, Len(w)) = w  BY <1>1
<1>9. request' = SubSeq(w, 1, n) /\ pc' = IF n = BufSize THEN "undefined" ELSE "respond"
  BY DEF Recv
<1>10. request' = w /\ pc' = "respond"
  <2> HIDE DEF w, n
  <2>1. QED  BY <1>7, <1>8, <1>9
<1>11. QED  BY <1>2, <1>3, <1>5, <1>10

\* The page made for a well behaved client is its own.
LEMMA RespondRight ==
  ASSUME SiteServed, Answering, pc = "respond", WellBehaved(client)
  PROVE  /\ Bodies[request] = Site[wants[client]] /\ ~ReadsNull
         /\ HeaderLen + Len(Bodies[request]) < BufSize
<1>1. request = wants[client] /\ wants[client] \in DOMAIN Site
  BY DEF Answering
<1>2. QED  BY <1>1, Zenon DEF SiteServed, ReadsNull

LEMMA NextSurvives ==
  ASSUME SiteServed, Variables, Connections, Sending, Answering, [Next]_httpdVars
  PROVE  SurvivesTheWellBehaved'
<1>1. SUFFICES ASSUME server' = "socket", \A c \in Clients : WellBehaved(c)'
               PROVE  pc' \notin Ended
  BY DEF SurvivesTheWellBehaved
<1>2. \A c \in Clients : WellBehaved(c)
  BY <1>1, BehavedBefore
<1>3. WellBehaved(client) /\ gone = {}
  BY <1>2 DEF Variables, WellBehaved
<1>4. server = "socket" => pc \notin Ended
  BY <1>2 DEF Answering, SurvivesTheWellBehaved
<1>5. CASE pc' = pc /\ server' = server
  BY <1>1, <1>4, <1>5
<1>6. ASSUME NEW c \in Clients, Client(c) PROVE pc' \notin Ended
  BY <1>5, <1>6 DEF Client, Connect, SendRequest, Abandon, local
<1>7. CASE ServerSocketNew \/ Accept \/ RecvFails \/ Send \/ SendFails
  <2>1. pc' \in {"accept", "recv"}
    BY <1>7 DEF ServerSocketNew, Accept, RecvFails, Send, SendFails, CloseClient
  <2>2. QED  BY <2>1 DEF Ended
<1>8. CASE AcceptFails
  BY <1>1, <1>3, <1>8 DEF AcceptFails
<1>9. CASE Recv
  BY <1>3, <1>9, RecvWhole DEF Ended
<1>10. CASE Respond
  <2>1. pc' = "send"
    <3>1. pc = "respond" /\ response' = Bodies[request]
          /\ (HeaderLen + Len(response') < BufSize => pc' = "send")
      BY <1>10 DEF Respond, Room
    <3>2. QED  BY <1>3, <3>1, RespondRight
  <2>2. QED  BY <2>1 DEF Ended
<1>11. CASE RespondCrashes
  BY <1>3, <1>11, RespondRight DEF RespondCrashes
<1>12. CASE SendKills
  BY <1>3, <1>12 DEF SendKills
<1>13. CASE UNCHANGED httpdVars
  BY <1>5, <1>13 DEF httpdVars, local
<1>14. QED
  BY <1>6, <1>7, <1>8, <1>9, <1>10, <1>11, <1>12, <1>13 DEF Next, Server

\* Who is being answered.
BeingAnswered ==
  pc \in {"respond", "send"} /\ WellBehaved(client) =>
    /\ request = wants[client] /\ wants[client] \in DOMAIN Site
    /\ sent[client] = Len(wants[client]) /\ sent[client] > 0

LEMMA NextBeingAnswered ==
  ASSUME SiteServed, Variables, Sending, Answering, [Next]_httpdVars
  PROVE  BeingAnswered'
<1>1. SUFFICES ASSUME pc' \in {"respond", "send"}, WellBehaved(client)'
               PROVE  /\ request' = wants'[client'] /\ wants'[client'] \in DOMAIN Site
                      /\ sent'[client'] = Len(wants'[client']) /\ sent'[client'] > 0
  BY DEF BeingAnswered
<1>2. BeingAnswered  BY DEF Answering, BeingAnswered
<1>3. CASE UNCHANGED <<client, request, clients>> /\ pc \in {"respond", "send"}
  BY <1>1, <1>2, <1>3 DEF BeingAnswered, WellBehaved, clients
<1>4. ASSUME NEW c \in Clients, SendRequest(c)
      PROVE  /\ request' = wants'[client'] /\ wants'[client'] \in DOMAIN Site
             /\ sent'[client'] = Len(wants'[client']) /\ sent'[client'] > 0
  <2>1. UNCHANGED <<client, request, pc, gone>>
    BY <1>4 DEF SendRequest, local
  <2>2. client \in Clients /\ client' = client  BY <2>1 DEF Variables
  <2>3. WellBehaved(client)  BY <1>1, <2>1, <2>2, BehavedBefore
  <2>4. sent[client] > 0  BY <1>1, <1>2, <2>1, <2>3 DEF BeingAnswered
  <2>5. c # client
    <3>1. SUFFICES ASSUME c = client PROVE FALSE  OBVIOUS
    <3>2. pieces'[client] = pieces[client] + 1
      BY <1>4, <3>1 DEF SendRequest, Variables
    <3>3. pieces'[client] <= 1  BY <1>1, <2>1 DEF WellBehaved
    <3>4. pieces[client] = 0  BY <2>2, <3>2, <3>3 DEF Variables
    <3>5. QED  BY <2>2, <2>4, <3>4 DEF Sending
  <2>6. wants'[client] = wants[client] /\ sent'[client] = sent[client]
    BY <1>4, <2>2, <2>5 DEF SendRequest, Variables
  <2>7. QED  BY <1>1, <1>2, <2>1, <2>3, <2>6 DEF BeingAnswered
<1>5. ASSUME NEW c \in Clients, Abandon(c)
      PROVE  /\ request' = wants'[client'] /\ wants'[client'] \in DOMAIN Site
             /\ sent'[client'] = Len(wants'[client']) /\ sent'[client'] > 0
  BY <1>1, <1>2, <1>5 DEF Abandon, local, BeingAnswered, WellBehaved
<1>6. ASSUME NEW c \in Clients, Connect(c)
      PROVE  /\ request' = wants'[client'] /\ wants'[client'] \in DOMAIN Site
             /\ sent'[client'] = Len(wants'[client']) /\ sent'[client'] > 0
  BY <1>1, <1>3, <1>6 DEF Connect, local
<1>7. CASE Recv
  <2>1. UNCHANGED <<client, clients>>  BY <1>7 DEF Recv
  <2>2. WellBehaved(client)  BY <1>1, <2>1 DEF WellBehaved, clients
  <2>3. QED  BY <1>7, <2>1, <2>2, RecvWhole DEF clients
<1>8. CASE Respond
  BY <1>3, <1>8 DEF Respond
<1>9. CASE \/ ServerSocketNew \/ Accept \/ AcceptFails \/ RecvFails
           \/ RespondCrashes \/ Send \/ SendFails \/ SendKills
  <2>1. pc' \in {"accept", "recv", "over", "crashed"}
    BY <1>9 DEF ServerSocketNew, Accept, AcceptFails, RecvFails, RespondCrashes,
      Send, SendFails, SendKills, CloseClient, Die
  <2>2. QED  BY <1>1, <2>1
<1>10. CASE UNCHANGED httpdVars
  BY <1>1, <1>3, <1>10 DEF httpdVars, local
<1>11. QED
  BY <1>4, <1>5, <1>6, <1>7, <1>8, <1>9, <1>10 DEF Next, Server, Client

LEMMA NextResponse ==
  ASSUME SiteServed, Variables, Sending, Answering, [Next]_httpdVars,
         pc' = "send", WellBehaved(client)'
  PROVE  response' = Site[wants'[client']]
<1>1. pc = "send" => pc' = pc /\ UNCHANGED <<client, response>>
  BY DEF Next, Server, Client, Connect, SendRequest, Abandon, ServerSocketNew, Accept,
    AcceptFails, Recv, RecvFails, Respond, RespondCrashes, Send, SendFails, SendKills,
    CloseClient, Die, httpdVars, local
<1>2. CASE pc = "send"
  <2>1. client \in Clients /\ client' = client /\ response' = response
    BY <1>1, <1>2 DEF Variables
  <2>2. WellBehaved(client)  BY <2>1, BehavedBefore
  <2>3. sent[client] > 0 /\ response = Site[wants[client]]
    BY <1>2, <2>2 DEF Answering
  <2>4. wants'[client] = wants[client]
    <3>1. CASE UNCHANGED wants  BY <3>1
    <3>2. ASSUME NEW c \in Clients, SendRequest(c) PROVE wants'[client] = wants[client]
      <4>1. CASE c # client
        BY <2>1, <3>2, <4>1 DEF SendRequest, Variables
      <4>2. CASE c = client
        <5>1. \/ wants' = [wants EXCEPT ![c] = wants[c]]
              \/ sent[c] = 0
          BY <3>2, Zenon DEF SendRequest
        <5>2. QED  BY <2>1, <2>3, <4>2, <5>1 DEF Variables
      <4>3. QED  BY <4>1, <4>2
    <3>3. QED
      BY <3>1, <3>2 DEF Next, Server, Client, Connect, Abandon, ServerSocketNew, Accept,
        AcceptFails, Recv, RecvFails, Respond, RespondCrashes, Send, SendFails,
        SendKills, CloseClient, Die, httpdVars, clients
  <2>5. QED  BY <2>1, <2>3, <2>4
<1>3. CASE pc # "send"
  <2>1. Respond
    BY <1>3 DEF Next, Server, Client, Connect, SendRequest, Abandon, ServerSocketNew,
      Accept, AcceptFails, Recv, RecvFails, RespondCrashes, Send, SendFails, SendKills,
      CloseClient, Die, httpdVars, local
  <2>2. pc = "respond" /\ response' = Bodies[request] /\ UNCHANGED <<client, clients>>
    BY <2>1 DEF Respond
  <2>3. WellBehaved(client)  BY <2>2 DEF WellBehaved, clients
  <2>4. QED  BY <2>2, <2>3, RespondRight DEF clients
<1>4. QED  BY <1>2, <1>3

LEMMA NextAnswers ==
  ASSUME SiteServed, Variables, Connections, Sending, Answering, [Next]_httpdVars
  PROVE  PagesRight'
<1>1. SUFFICES ASSUME NEW c \in Clients, WellBehaved(c)', conn'[c] = "closed"
               PROVE  got'[c] = Site[wants'[c]]
  BY DEF PagesRight
<1>2. WellBehaved(c)  BY <1>1, BehavedBefore
<1>3. conn[c] = "closed" => got[c] = Site[wants[c]]
  BY <1>2 DEF Answering, PagesRight
<1>4. CASE conn'[c] = conn[c] /\ got'[c] = got[c] /\ wants'[c] = wants[c]
  BY <1>1, <1>3, <1>4
<1>5. c \notin gone  BY <1>2 DEF WellBehaved
<1>6. ASSUME NEW d \in Clients, Client(d) PROVE got'[c] = Site[wants'[c]]
  <2>1. CASE Connect(d)
    <3>1. d # c  BY <1>1, <2>1 DEF Connect, Variables
    <3>2. QED  BY <1>4, <2>1, <3>1 DEF Connect, Variables, clients
  <2>2. CASE SendRequest(d)
    <3>1. d # c  BY <1>1, <2>2 DEF SendRequest, network
    <3>2. QED  BY <1>4, <2>2, <3>1 DEF SendRequest, Variables, network
  <2>3. CASE Abandon(d)
    BY <1>4, <2>3 DEF Abandon, network
  <2>4. QED  BY <1>6, <2>1, <2>2, <2>3 DEF Client
<1>7. CASE ServerSocketNew \/ Recv \/ Respond \/ RespondCrashes \/ SendKills
  BY <1>4, <1>7 DEF ServerSocketNew, Recv, Respond, RespondCrashes, SendKills, Die,
    network, clients
<1>8. CASE Accept
  <2>1. Head(queue) \in Clients  BY <1>8, QueueTail DEF Accept, Connections
  <2>2. Head(queue) # c  BY <1>1, <1>8, <2>1 DEF Accept, Variables
  <2>3. QED  BY <1>4, <1>8, <2>1, <2>2 DEF Accept, Variables, clients
<1>9. CASE AcceptFails
  <2>1. UNCHANGED <<got, wants>>  BY <1>9 DEF AcceptFails, clients
  <2>2. \/ UNCHANGED conn
        \/ Head(queue) \in gone /\ conn' = [conn EXCEPT ![Head(queue)] = "closed"]
    BY <1>9 DEF AcceptFails
  <2>3. QED  BY <1>4, <1>5, <2>1, <2>2 DEF Variables
<1>10. CASE RecvFails \/ SendFails
  <2>1. /\ client \in gone /\ UNCHANGED <<got, wants>>
        /\ conn' = [conn EXCEPT ![client] = "closed"]
    BY <1>10 DEF RecvFails, SendFails, CloseClient, clients
  <2>2. QED  BY <1>4, <1>5, <2>1 DEF Variables
<1>11. CASE Send
  <2>1. /\ UNCHANGED wants /\ conn' = [conn EXCEPT ![client] = "closed"]
        /\ pc = "send" /\ client \in Clients
    BY <1>11 DEF Send, CloseClient, clients, Variables
  <2>2. \/ got' = [got EXCEPT ![client] = response]
        \/ got' = got /\ (client \in gone \/ sent[client] > Len(request))
    BY <1>11 DEF Send, Answer
  <2>3. CASE c = client
    <3>1. /\ request = wants[c] /\ sent[c] = Len(wants[c]) /\ sent[c] > 0
          /\ response = Site[wants[c]]
      BY <1>2, <2>1, <2>3 DEF Answering
    <3>2. ~(sent[client] > Len(request))
      <4>1. sent[c] \in Nat  BY DEF Variables
      <4>2. QED  BY <2>3, <3>1, <4>1
    <3>3. QED  BY <1>5, <2>1, <2>2, <2>3, <3>1, <3>2 DEF Variables
  <2>4. CASE c # client
    BY <1>4, <2>1, <2>2, <2>4 DEF Variables
  <2>5. QED  BY <2>3, <2>4
<1>12. CASE UNCHANGED httpdVars
  BY <1>4, <1>12 DEF httpdVars, network, clients
<1>13. QED
  BY <1>6, <1>7, <1>8, <1>9, <1>10, <1>11, <1>12 DEF Next, Server

LEMMA NextAnswering == SiteServed /\ HttpdInv /\ Answering /\ [Next]_httpdVars => Answering'
<1> SUFFICES ASSUME SiteServed, HttpdInv, Answering, [Next]_httpdVars PROVE Answering'
  OBVIOUS
<1>1. Variables /\ Connections /\ Sending  BY DEF HttpdInv
<1>2. PagesRight' /\ SurvivesTheWellBehaved' /\ BeingAnswered'
  BY <1>1, NextAnswers, NextSurvives, NextBeingAnswered
<1>3. pc' = "send" /\ WellBehaved(client)' => response' = Site[wants'[client']]
  BY <1>1, NextResponse
<1>4. QED  BY <1>2, <1>3 DEF Answering, BeingAnswered

\* Where the site is what the server makes of well formed requests, a client
\* that sends such a request in one piece and waits for the answer gets the
\* page it asked for, whatever the other clients do (lines 159-197).
THEOREM AnswersAreRight == SiteServed => (Spec => []PagesRight)
<1> SUFFICES ASSUME SiteServed PROVE Spec => []PagesRight  OBVIOUS
<1>1. HttpdInit => HttpdInv /\ Answering  BY InitInv, InitAnswering
<1>2. HttpdInv /\ Answering /\ [Next]_httpdVars => HttpdInv' /\ Answering'
  BY NextInv, NextAnswering
<1>3. Answering => PagesRight  BY DEF Answering
<1>4. QED  BY <1>1, <1>2, <1>3, PTL DEF Spec

\* And as long as all clients behave so, the server that listens goes on.
THEOREM WellBehavedDoNotEndIt == SiteServed => (Spec => []SurvivesTheWellBehaved)
<1> SUFFICES ASSUME SiteServed PROVE Spec => []SurvivesTheWellBehaved  OBVIOUS
<1>1. HttpdInit => HttpdInv /\ Answering  BY InitInv, InitAnswering
<1>2. HttpdInv /\ Answering /\ [Next]_httpdVars => HttpdInv' /\ Answering'
  BY NextInv, NextAnswering
<1>3. Answering => SurvivesTheWellBehaved  BY DEF Answering
<1>4. QED  BY <1>1, <1>2, <1>3, PTL DEF Spec
=============================================================================
