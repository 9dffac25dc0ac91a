------------------------------- MODULE Httpd --------------------------------
(***************************************************************************)
(* labs/week09/myhttpd.c: a web server of one process and the clients that *)
(* connect to it.                                                          *)
(*                                                                         *)
(* A request is a sequence of atoms: words, blanks and "?".  A client      *)
(* sends its request in one piece or in several, or leaves at any time;    *)
(* it connects once.  The server handles one connection at a time.         *)
(***************************************************************************)
EXTENDS Naturals, FiniteSets, Sequences, SequencesExt

CONSTANTS
  Clients,
  Requests,   \* what each client may send
  QueueLen,   \* queue_len of listen
  BufSize,    \* BUFSIZ, in atoms
  HeaderLen,  \* length of the header of a response
  MaxPieces,  \* bound: pieces a request is sent in
  Site        \* the page each well formed request is to get

ASSUME HttpdAssumption ==
  /\ QueueLen \in Nat /\ BufSize \in Nat \ {0} /\ MaxPieces \in Nat /\ HeaderLen \in Nat
  /\ IsFiniteSet(Clients) /\ "socket" \notin Clients
  /\ Requests \in [Clients -> SUBSET (Seq(STRING) \ {<<>>})]

VARIABLES
  pc,      \* "start", "accept", "recv", "respond", "send", or how it ended
  server,  \* the result of server_socket_new: "socket", or "none" for -1
  client,  \* the connection being handled
  request, response,
  nRequests, nResponses,
  open,    \* descriptors the server has open
  queue,   \* connections the kernel holds for accept
  wants, sent, pieces,  \* per client: its request, atoms and pieces sent
  conn,    \* per client: "new", "queued", "open" or "closed"
  gone,    \* clients that have left
  got      \* per client: the page it received, or <<"nothing">>

local   == <<pc, server, client, request, response, nRequests, nResponses>>
network == <<open, queue, conn, got>>
clients == <<wants, sent, pieces, gone>>
httpdVars == <<local, network, clients>>

Ended == {"over", "crashed", "undefined"}

HttpdInit ==
  /\ pc = "start" /\ server = "none" /\ client \in Clients
  /\ request = <<>> /\ response = <<>> /\ nRequests = 0 /\ nResponses = 0
  /\ open = {} /\ queue = <<>>
  /\ wants = [c \in Clients |-> <<>>]
  /\ sent = [c \in Clients |-> 0] /\ pieces = sent
  /\ conn = [c \in Clients |-> "new"] /\ gone = {}
  /\ got = [c \in Clients |-> <<"nothing">>]

-----------------------------------------------------------------------------
\* Clients.  The kernel answers for the server once it listens.
Connect(c) ==
  /\ server = "socket" /\ pc \notin Ended /\ conn[c] = "new" /\ Len(queue) <= QueueLen
  /\ conn' = [conn EXCEPT ![c] = "queued"] /\ queue' = Append(queue, c)
  /\ UNCHANGED <<local, open, got, clients>>

SendRequest(c) ==
  /\ conn[c] \in {"queued", "open"} /\ c \notin gone /\ pieces[c] < MaxPieces
  /\ \E r \in IF sent[c] = 0 THEN Requests[c] ELSE {wants[c]} : \E n \in sent[c] + 1 .. Len(r) :
       wants' = [wants EXCEPT ![c] = r] /\ sent' = [sent EXCEPT ![c] = n]
  /\ pieces' = [pieces EXCEPT ![c] = @ + 1]
  /\ UNCHANGED <<local, network, gone>>

Abandon(c) ==
  /\ conn[c] \in {"queued", "open"} /\ c \notin gone
  /\ gone' = gone \cup {c}
  /\ UNCHANGED <<local, network, wants, sent, pieces>>

-----------------------------------------------------------------------------
\* The server.  Of the calls that set the socket up each may fail.
ServerSocketNew ==
  /\ pc = "start" /\ pc' = "accept"
  /\ \/ open' = {"socket"} /\ server' = "socket"
     \/ open' \in {{}, {"socket"}} /\ server' = "none"
  /\ UNCHANGED <<client, request, response, nRequests, nResponses, queue, conn, got, clients>>

Accept ==
  /\ pc = "accept" /\ server = "socket" /\ queue # <<>>
  /\ pc' = "recv" /\ client' = Head(queue) /\ queue' = Tail(queue)
  /\ conn' = [conn EXCEPT ![client'] = "open"] /\ open' = open \cup {client'}
  /\ UNCHANGED <<server, request, response, nRequests, nResponses, got, clients>>

\* accept fails on -1, and may for a client that has left; either ends main.
AcceptFails ==
  /\ pc = "accept"
  /\ \/ server = "none" /\ UNCHANGED <<open, queue, conn>>
     \/ /\ queue # <<>> /\ Head(queue) \in gone
        /\ queue' = Tail(queue) /\ conn' = [conn EXCEPT ![Head(queue)] = "closed"]
        /\ open' = open \ {server}
  /\ pc' = "over"
  /\ UNCHANGED <<server, client, request, response, nRequests, nResponses, got, clients>>

\* Mutant: a receive that failed leaves the connection open.
CloseUnlessRecv == open' = IF pc = "recv" THEN open ELSE open \ {client}

Close == open' = open \ {client}

CloseClient ==
  /\ Close /\ conn' = [conn EXCEPT ![client] = "closed"]
  /\ pc' = "accept" /\ request' = <<>> /\ response' = <<>>
  /\ UNCHANGED <<server, client, queue, clients>>

\* Mutants: nothing is counted; only what is not empty is.
CountNone == UNCHANGED nRequests
CountText == nRequests' = nRequests + Min({1, sent[client]})

CountRequest == nRequests' = nRequests + 1

\* recv waits for something, or for the client to leave.  A request that
\* fills the buffer has its NUL written behind it.
Recv ==
  /\ pc = "recv" /\ (sent[client] > 0 \/ client \in gone)
  /\ LET n == Min({sent[client], BufSize}) IN
     /\ request' = SubSeq(wants[client], 1, n)
     /\ pc' = IF n = BufSize THEN "undefined" ELSE "respond"
  /\ CountRequest
  /\ UNCHANGED <<server, client, response, nResponses, network, clients>>

RecvFails ==
  /\ pc = "recv" /\ client \in gone
  /\ CloseClient
  /\ UNCHANGED <<nRequests, nResponses, got>>

\* strtok skips separators: the words between them, in order.
Strtok(str, sep) ==
  LET next(w, c) ==
        IF c # sep THEN Append(Front(w), Append(Last(w), c))
        ELSE IF Last(w) = <<>> THEN w ELSE Append(w, <<>>)
  IN SelectSeq(FoldLeft(next, <<<<>>>>, str), LAMBDA w : w # <<>>)

Null == <<"NULL">>
Word(n, str, sep) ==
  LET words == Strtok(str, sep) IN IF n <= Len(words) THEN words[n] ELSE Null

\* strncmp(path, "/hello?", 7)
AsksByName(path) == Len(path) >= 2 /\ SubSeq(path, 1, 2) = <<"/hello", "?">>

Greeting(name) == IF name = Null THEN Null ELSE <<"Hello, ">> \o name

Body(path) ==
  CASE path = Null               -> Null
    [] path = <<"/">>            -> <<"myhttpd running">>
    [] path = <<"/hello">>       -> <<"Hello!">>
    [] AsksByName(path)          -> Greeting(Word(2, path, "?"))
    [] path = <<"/date">>        -> <<"date">>
    [] path = <<"/nonexistent">> -> <<"404 Page Not Found">>
    [] OTHER                     -> <<>>

\* The page for what was received: its second word is the path.
Texts == UNION {{SubSeq(r, 1, n) : n \in 0 .. Len(r)} : r \in UNION Range(Requests)}
Bodies == [str \in Texts |-> Body(Word(2, str, " "))]

\* strcmp and strcat of NULL end the server; a long name the memory behind
\* response.
ReadsNull == Bodies[request] = Null

\* Mutant: the request is in the same buffer.
RoomShared(text) == HeaderLen + Len(request) + Len(text) < BufSize

Room(text) == HeaderLen + Len(text) < BufSize

Respond ==
  /\ pc = "respond" /\ ~ReadsNull
  /\ response' = Bodies[request]
  /\ IF Room(response')
     THEN pc' = "send" /\ nResponses' = nResponses + 1
     ELSE pc' = "undefined" /\ UNCHANGED nResponses
  /\ UNCHANGED <<server, client, request, nRequests, network, clients>>

\* The process ends, and the kernel closes what it had open.
Die ==
  /\ pc' = "crashed" /\ open' = {}
  /\ UNCHANGED <<server, client, request, response, nRequests, nResponses, queue, conn, got, clients>>

RespondCrashes == pc = "respond" /\ ReadsNull /\ Die

\* Mutant: the page is sent again and again.
SendAgain == pc = "send" /\ UNCHANGED httpdVars

\* Mutant: response_len is one short.
AnswerShort == SubSeq(response, 1, Len(response) - 1)

Answer == response

\* A connection closed with input unread is reset, and the page may be lost.
Send ==
  /\ pc = "send"
  /\ got' \in {[got EXCEPT ![client] = Answer]} \cup
              (IF client \in gone \/ sent[client] > Len(request) THEN {got} ELSE {})
  /\ CloseClient
  /\ UNCHANGED <<nRequests, nResponses>>

SendFails ==
  /\ pc = "send" /\ client \in gone
  /\ CloseClient
  /\ UNCHANGED <<nRequests, nResponses, got>>

\* SIGPIPE is not ignored.
SendKills == pc = "send" /\ client \in gone /\ Die

Server ==
  \/ ServerSocketNew \/ Accept \/ AcceptFails \/ Recv \/ RecvFails
  \/ Respond \/ RespondCrashes \/ Send \/ SendFails \/ SendKills
Client(c) == Connect(c) \/ SendRequest(c) \/ Abandon(c)
Next == Server \/ \E c \in Clients : Client(c)

\* The server does not rest; clients may do nothing for ever.
Spec == HttpdInit /\ [][Next]_httpdVars /\ WF_httpdVars(Server)
-----------------------------------------------------------------------------
\* The site is what the server makes of well formed requests: each fits its
\* buffer, and the page the response's.
SiteServed ==
  \A r \in DOMAIN Site :
    /\ Site[r] = Bodies[r] /\ Site[r] # Null
    /\ Len(r) < BufSize /\ HeaderLen + Len(Site[r]) < BufSize

HttpdTypeOK ==
  /\ pc \in {"start", "accept", "recv", "respond", "send"} \cup Ended
  /\ server \in {"socket", "none"} /\ client \in Clients
  /\ queue \in Seq(Clients) /\ open \subseteq Clients \cup {"socket"}
  /\ nResponses \in 0 .. nRequests /\ nRequests \in 0 .. Cardinality(Clients)
  /\ \A c \in Clients : sent[c] \in pieces[c] .. Len(wants[c])
  /\ \A c \in Clients : (conn[c] = "queued") = (c \in ToSet(queue))

Handling == pc \in {"recv", "respond", "send"}
WellBehaved(c) ==
  /\ wants[c] \in DOMAIN Site \cup {<<>>} /\ c \notin gone
  /\ pieces[c] <= 1 /\ sent[c] \in {0, Len(wants[c])}

\* Lines 143-209: on every way out of handle_connection the descriptor is
\* closed, so that the server holds one besides its own while it handles a
\* connection and none at any other time.
DescriptorsClosed ==
  pc # "undefined" => open \cap Clients = IF Handling THEN {client} ELSE {}

\* Lines 154 and 203: a connection is counted as a request when something
\* came, and as a response when an answer was made; the two differ by at most
\* the request being answered, or the one that ended the server.
Accounted ==
  /\ nRequests = nResponses + (IF pc \in {"respond", "undefined"} THEN 1 ELSE 0)
     \/ (pc = "crashed" /\ nRequests - nResponses \in 0 .. 1)
  /\ Cardinality({c \in Clients : got[c] # <<"nothing">>}) <= nResponses
  /\ nRequests <= Cardinality({c \in Clients : conn[c] \in {"open", "closed"}})

\* Lines 159-197: a client that sends a well formed request in one piece and
\* waits gets the page of that request, and no other client's.
PagesRight ==
  \A c \in Clients :
    WellBehaved(c) /\ conn[c] = "closed" => got[c] = Site[wants[c]]

\* Lines 79-91: once it listens the server goes on for ever, unless a client
\* leaves early, sends its request in pieces, or sends one that is malformed.
SurvivesTheWellBehaved ==
  server = "socket" /\ (\A c \in Clients : WellBehaved(c)) => pc \notin Ended

Silent == pc = "recv" /\ sent[client] = 0 /\ client \notin gone

\* The connections that wait are served one by one: each is closed in the
\* end, unless the server stops or a client says nothing and stays.
Served ==
  \A c \in Clients :
    (conn[c] = "queued" ~> (conn[c] = "closed" \/ pc \in Ended)) \/ <>[]Silent
=============================================================================
