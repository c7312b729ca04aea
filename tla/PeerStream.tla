----------------------------- MODULE PeerStream -----------------------------
(***************************************************************************)
(* The hw2 node and its peer server (and the streaming half of the hw3     *)
(* node, whose code is the same): operators add the paths a peer server    *)
(* has to peers_list and set a rate limit; a viewed path is streamed as in *)
(* ChunkTransfer, held back by the rate of the path or the node's.  Any    *)
(* part of the node can bring down all of it: the request threads and the  *)
(* UDP thread are one process.                                             *)
(*                                                                         *)
(* A request thread takes its descriptor from main's variable, receives a  *)
(* request, and cuts its first line into words with strtok, which the UDP  *)
(* thread uses as well.  When two threads get in each other's way the node *)
(* is said to have gone astray: what it does from then on, its end by a    *)
(* null pointer included, is left open here (AcceptLoop follows it).       *)
(*                                                                         *)
(* Operators have connections of their own, which stay open, as those of   *)
(* the clients answered with a page do (send_html_from_file); their threads*)
(* cut lines like the others.                                              *)
(***************************************************************************)
EXTENDS ChunkTransfer

CONSTANTS
  Entry,      \* [path, rate] that operators add, rate 0 for none
  Limit,      \* rates operators set for the whole node
  MaxListed,  \* the length of peers_list, 100
  Searched,   \* the entries get_rate_of_path searches, 7
  Typed,      \* the paths whose extension has a content type, or that have none
  Exits,      \* a recv that returns 0 ends the process (hw2), or the request (hw3)
  Idle,       \* paced while the UDP thread waits for a datagram
  Operator,   \* whoever adds entries and sets limits
  MaxOrders   \* bound: requests of operators

ASSUME PeerStreamAssumption ==
  /\ Entry \subseteq [path : Path, rate : Nat]
  /\ Limit \subseteq Nat
  /\ MaxListed \in Nat /\ Searched \in 0 .. MaxListed
  /\ Typed \subseteq Path
  /\ Exits \in BOOLEAN
  /\ Idle \notin Packet
  /\ Operator \notin Client \union {Nobody}
  /\ MaxOrders \in Nat

VARIABLES
  peers,    \* peers_list[0 .. peers_count - 1]
  limit,    \* global_rate_limit
  count,    \* packet_num of the UDP thread
  paced,    \* the datagram the UDP thread has taken, after its rate limiting
  texts,    \* "File not found" datagrams on their way
  node,     \* whether the process runs, or how it ended
  told,     \* the clients answered with a page
  silent,   \* the clients whose thread has received nothing
  hand,     \* hand[c]: the descriptor c's thread has read, until it has the path
  line,     \* whose thread is cutting the first line of a request
  malformed, \* a request lacked what its route needs
  orders,   \* requests of operators so far
  since     \* since[f]: chunks of f passed since the UDP thread last slept

listVars == <<peers, limit, orders>>
rateVars == <<count, paced, since>>
clientVars == <<told, silent>>
threadVars == <<hand, line, malformed>>
nodeVars == <<vars, listVars, rateVars, texts, node, clientVars, threadVars>>

NodeTypeOK ==
  /\ peers \in Seq([path : Path, rate : Nat]) /\ Len(peers) <= MaxListed
  /\ limit \in Nat
  /\ count \in Nat
  /\ paced = Idle \/ paced \in net
  /\ texts \in Nat
  /\ node \in {"up", "exited", "crashed", "astray"}
  /\ told \subseteq arrived /\ silent \subseteq arrived
  /\ hand \in [Client -> Fd \union {Free}]
  /\ \A c \in Client :
       hand[c] # Free => HasThread(c) /\ c \notin asked \union told \union silent
  /\ line \in Client \union {Operator, Nobody}
  /\ line \in Client => hand[line] # Free
  /\ malformed \in BOOLEAN
  /\ orders \in 0 .. MaxOrders
  /\ since \in [Path -> Nat]

NodeInit ==
  /\ Init
  /\ peers = << >> /\ limit = 0
  /\ count = 0 /\ paced = Idle
  /\ texts = 0
  /\ node = "up"
  /\ told = {} /\ silent = {}
  /\ hand = [c \in Client |-> Free]
  /\ line = Nobody /\ malformed = FALSE
  /\ orders = 0
  /\ since = [f \in Path |-> 0]

Up == node = "up"

(* The process ends and with it every connection.                          *)
GoDown(how) ==
  /\ node' = how
  /\ sock' = [fd \in Fd |-> Nobody]
  /\ ended' = [c \in Client |-> IF \E fd \in Fd : sock[fd] = c THEN "cut" ELSE ended[c]]
  /\ paced' = Idle

-----------------------------------------------------------------------------
(* Requests.                                                               *)

(* Whose request has been taken.                                           *)
Heard == asked \union told \union silent

AcceptClient(c, fd) ==
  /\ Up
  /\ Accept(c, fd)
  /\ UNCHANGED <<listVars, rateVars, texts, node, clientVars, threadVars>>

ListClient ==
  /\ Up
  /\ AppendStep
  /\ UNCHANGED <<listVars, rateVars, texts, node, clientVars, threadVars>>

(* thread_routine reads tcp_connection_fd, which is still its client's.    *)
TakeDescriptor(c) ==
  /\ Up
  /\ HasThread(c) /\ c \notin Heard /\ hand[c] = Free
  /\ main.client = c
  /\ hand' = [hand EXCEPT ![c] = main.fd]
  /\ UNCHANGED <<vars, listVars, rateVars, texts, node, clientVars, line, malformed>>

(* A client that closes without a request, and a descriptor that has been  *)
(* closed: recv returns 0 or -1.                                           *)
LeaveSilently(c, fd) ==
  /\ Up
  /\ hand[c] = fd /\ line # c
  /\ sock[fd] \in {c, Nobody}
  /\ IF Exits
     THEN GoDown("exited")
     ELSE Close(fd, "cut") /\ UNCHANGED <<node, paced>>
  /\ silent' = silent \union {c}
  /\ hand' = [hand EXCEPT ![c] = Free]
  /\ UNCHANGED <<body, arrayVars, main, asked, arrived, hung, net, udp, shaken, lost, twice,
                 listVars, count, since, texts, told, line, malformed>>

HangupClient(c) ==
  /\ Up
  /\ Hangup(c)
  /\ UNCHANGED <<listVars, rateVars, texts, node, clientVars, threadVars>>

(* A request is there; process_startline begins to cut its first line.     *)
BeginLine(c) ==
  /\ Up
  /\ hand[c] # Free /\ sock[hand[c]] = c
  /\ line = Nobody
  /\ line' = c
  /\ UNCHANGED <<vars, listVars, rateVars, texts, node, clientVars, hand, malformed>>
BeginOperatorsLine ==
  /\ Up
  /\ orders < MaxOrders
  /\ orders' = orders + 1
  /\ line = Nobody
  /\ line' = Operator
  /\ UNCHANGED <<vars, peers, limit, rateVars, texts, node, clientVars, hand, malformed>>

(* No path, no command behind /peer, no value for a field: a null pointer  *)
(* goes to strncpy, strcmp, strcpy or atoi.  Or, in hw3, /peer/kill, which *)
(* is counted as one of these requests: the process ends at it.            *)
Malformed ==
  /\ Up
  /\ line # Nobody
  /\ malformed' = TRUE
  /\ GoDown("crashed")
  /\ UNCHANGED <<body, arrayVars, main, asked, arrived, hung, net, udp, shaken, lost, twice,
                 listVars, count, since, texts, clientVars, hand, line>>

(* add_peer_to_list: a full list drops the entry, unnoticed by the page.   *)
AddPeer ==
  /\ Up
  /\ line = Operator /\ line' = Nobody
  /\ \E e \in Entry : peers' = IF Len(peers) >= MaxListed THEN peers ELSE Append(peers, e)
  /\ UNCHANGED <<vars, limit, orders, rateVars, texts, node, clientVars, hand, malformed>>

(* /peer/config?rate=                                                      *)
SetLimit ==
  /\ Up
  /\ line = Operator /\ line' = Nobody
  /\ limit' \in Limit
  /\ since' = [f \in Path |-> 0]
  /\ UNCHANGED <<vars, peers, orders, count, paced, texts, node, clientVars, hand, malformed>>

IsListed(f) == \E i \in 1 .. Len(peers) : peers[i].path = f

(* /peer/view of a path in the list, whose host has an address: an ack for *)
(* chunk 0 goes to its peer.                                               *)
ViewListed(c) ==
  /\ Up
  /\ line = c /\ line' = Nobody
  /\ IsListed(Want[c].path)
  /\ Ask(c, hand[c])
  /\ hand' = [hand EXCEPT ![c] = Free]
  /\ UNCHANGED <<listVars, rateVars, texts, node, clientVars, malformed>>

(* /peer/view of another path: the page not_found.html.                    *)
ViewUnlisted(c) ==
  /\ Up
  /\ line = c /\ line' = Nobody
  /\ ~IsListed(Want[c].path)
  /\ told' = told \union {c}
  /\ hand' = [hand EXCEPT ![c] = Free]
  /\ UNCHANGED <<vars, listVars, rateVars, texts, node, silent, malformed>>

(* Two threads get in each other's way: one reads tcp_connection_fd after  *)
(* the next accept, receives from a descriptor that is another client's by *)
(* now, or calls strtok while another is cutting its line.                 *)
GoAstray ==
  /\ Up
  /\ \/ \E c \in Client \ Heard : HasThread(c) /\ hand[c] = Free /\ main.client # c
     \/ \E c \in Client : hand[c] # Free /\ sock[hand[c]] \notin {c, Nobody}
     \/ line # Nobody /\ paced # Idle
     \/ line # Nobody /\ \E c \in Client \ {line} : hand[c] # Free
     \/ line # Nobody /\ orders < MaxOrders
  /\ node' = "astray"
  /\ UNCHANGED <<vars, listVars, rateVars, texts, clientVars, threadVars>>

-----------------------------------------------------------------------------
(* The peer server, a process of its own: transfer_file.  What it does once*)
(* the node is down is not followed, nor what clients do then.             *)

PeerServes(p) ==
  /\ Up
  /\ ServeChunk(p) \/ (Size[p.path] # -1 /\ ServeNothing(p))
  /\ UNCHANGED <<listVars, rateVars, texts, node, clientVars, threadVars>>

(* fopen fails: the answer is a text, not a packet.                        *)
PeerHasNoFile(p) ==
  /\ Up
  /\ Size[p.path] = -1
  /\ ServeNothing(p)
  /\ texts' = texts + 1
  /\ UNCHANGED <<listVars, rateVars, node, clientVars, threadVars>>

-----------------------------------------------------------------------------
(* The UDP thread: udp_to_tcp_client.                                      *)

(* A text is taken for packet 0 of the file "": parse_http_uri copies from *)
(* the token it does not find (and with all the searched entries in use,   *)
(* get_rate_of_path has found no rate before that).                        *)
ReceiveText ==
  /\ Up /\ udp = Idling /\ paced = Idle
  /\ texts > 0
  /\ texts' = texts - 1
  /\ GoDown("crashed")
  /\ UNCHANGED <<body, arrayVars, main, asked, arrived, hung, net, udp, shaken, lost, twice,
                 listVars, count, since, clientVars, threadVars>>

(* get_rate_of_path: the first of the searched entries with the path.      *)
Found(f) == {i \in 1 .. Len(peers) : i <= Searched /\ peers[i].path = f}
RateOf(f) == peers[CHOOSE i \in Found(f) : \A j \in Found(f) : i <= j].rate

(* rate_limit_to_use                                                       *)
RateInUse(f) == IF limit = 0 THEN RateOf(f) ELSE limit

(* Without a rate atoi is given NULL.                                      *)
NoRate(p) ==
  /\ Up /\ IsSynack(p) /\ paced = Idle
  /\ Found(p.path) = {}
  /\ GoDown("crashed")
  /\ net' = net \ {p}
  /\ UNCHANGED <<body, arrayVars, main, asked, arrived, hung, udp, shaken, lost, twice,
                 listVars, count, since, texts, clientVars, threadVars>>

(* Mutant of Pace: the rate is looked at before the packet is counted.     *)
PaceLate(p) ==
  /\ Up /\ IsSynack(p) /\ paced = Idle
  /\ Found(p.path) # {}
  /\ paced' = p
  /\ IF count > RateInUse(p.path) /\ RateInUse(p.path) > 0
     THEN /\ count' = 0
          /\ since' = [f \in Path |-> 0]
     ELSE /\ count' = count + 1
          /\ UNCHANGED since
  /\ UNCHANGED <<vars, listVars, texts, node, clientVars, threadVars>>

(* The count of packets goes up; above the rate the thread sleeps for a    *)
(* second and starts again at 0.                                           *)
Pace(p) ==
  /\ Up /\ IsSynack(p) /\ paced = Idle
  /\ Found(p.path) # {}
  /\ paced' = p
  /\ IF count + 1 > RateInUse(p.path) /\ RateInUse(p.path) > 0
     THEN /\ count' = 0
          /\ since' = [f \in Path |-> 0]
     ELSE /\ count' = count + 1
          /\ UNCHANGED since
  /\ UNCHANGED <<vars, listVars, texts, node, clientVars, threadVars>>

(* Packet 0 of a file with an unknown extension: content_type_lookup ends  *)
(* the process.                                                            *)
UnknownType ==
  /\ Up /\ paced # Idle /\ line = Nobody
  /\ paced.num = 0 /\ paced.path \notin Typed
  /\ GoDown("exited")
  /\ net' = net \ {paced}
  /\ UNCHANGED <<body, arrayVars, main, asked, arrived, hung, udp, shaken, lost, twice,
                 listVars, count, since, texts, clientVars, threadVars>>

(* Mutants of PassOn: the packet goes without its ack and comes again;     *)
(* SIGPIPE has no handler.                                                 *)
PassOnAgain ==
  /\ Up /\ paced # Idle /\ line = Nobody
  /\ paced.num = 0 => paced.path \in Typed
  /\ body' = Received(paced.fd, Header(paced) \o Data(paced))
  /\ since' = [since EXCEPT ![paced.path] = @ + 1]
  /\ paced' = Idle
  /\ UNCHANGED <<ended, sock, arrayVars, main, asked, arrived, hung, net, udp, shaken, lost,
                 twice, listVars, count, texts, node, clientVars, threadVars>>
PassOnSigpipe ==
  /\ Up /\ paced # Idle /\ line = Nobody
  /\ paced.num = 0 => paced.path \in Typed
  /\ IF sock[paced.fd] \in hung
     THEN /\ GoDown("crashed")
          /\ UNCHANGED <<body, arrayVars, main, asked, arrived, hung, net, udp, shaken, lost,
                         twice, since>>
     ELSE /\ Synack(paced)
          /\ since' = [since EXCEPT ![paced.path] = @ + 1]
          /\ paced' = Idle
          /\ UNCHANGED node
  /\ UNCHANGED <<listVars, count, texts, clientVars, threadVars>>

(* The packet is handled as in ChunkTransfer: headers, the chunk, the next *)
(* ack or the end.  strtok is called on it first.                          *)
PassOn ==
  /\ Up /\ paced # Idle /\ line = Nobody
  /\ paced.num = 0 => paced.path \in Typed
  /\ Synack(paced)
  /\ since' = [since EXCEPT ![paced.path] = @ + 1]
  /\ paced' = Idle
  /\ UNCHANGED <<listVars, count, texts, node, clientVars, threadVars>>

RemoveFailed ==
  /\ Up
  /\ RemoveStep
  /\ UNCHANGED <<listVars, rateVars, texts, node, clientVars, threadVars>>

-----------------------------------------------------------------------------
NodeNext ==
  \/ \E c \in Client, fd \in Fd : AcceptClient(c, fd) \/ LeaveSilently(c, fd)
  \/ \E c \in Client : TakeDescriptor(c) \/ BeginLine(c) \/ ViewListed(c) \/ ViewUnlisted(c)
  \/ \E c \in Client : HangupClient(c)
  \/ ListClient \/ BeginOperatorsLine \/ AddPeer \/ SetLimit \/ Malformed \/ GoAstray
  \/ \E p \in net : PeerServes(p) \/ PeerHasNoFile(p)
  \/ \E p \in net : NoRate(p) \/ Pace(p)
  \/ ReceiveText \/ UnknownType \/ PassOn \/ RemoveFailed

NodeSpec == NodeInit /\ [][NodeNext]_nodeVars

-----------------------------------------------------------------------------
(* A path with a rate is held to it by a counter that all streams share:   *)
(* between two sleeps of the UDP thread no more bytes of it are passed on  *)
(* than one chunk more than Chunk times the rate.  This is the rate the    *)
(* code keeps, in packets a second; a comment calls the same number "Bytes *)
(* per second" (hw2 main.c:497, hw3 main.c:840), and of that the node      *)
(* passes on Chunk times as much.                                          *)
Paced ==
  /\ NodeTypeOK
  /\ \A f \in Path : Found(f) # {} /\ RateInUse(f) > 0 =>
       since[f] * Chunk <= (RateInUse(f) + 1) * Chunk

(* What can end the process: a recv that returns no request (hw2), be it   *)
(* that the client left or that the descriptor was closed; a request that  *)
(* lacks what its route needs, or is /peer/kill (hw3); threads that get in *)
(* each other's way; a listed path that its peer does not have, whose type *)
(* is unknown or that is behind the entries get_rate_of_path searches.     *)
(* Nothing else does: no hang-up, limit or entry that comes at any time    *)
(* while files are streamed.                                               *)
Careful ==
  /\ Exits => silent = {}
  /\ ~malformed
  /\ node # "astray"
  /\ \A c \in asked : /\ Size[Want[c].path] # -1
                      /\ Want[c].path \in Typed
                      /\ Found(Want[c].path) # {}
UpWhileCareful == Careful => Up

(* As long as no client goes away, and until threads get in each other's   *)
(* way, each client receives its own file in order, across rate limiting   *)
(* and a node that goes down.                                              *)
OwnStreamHere == hung = {} => OwnStream /\ DoneIsWhole
=============================================================================
