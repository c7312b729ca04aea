--------------------------- MODULE ChunkTransfer ---------------------------
(***************************************************************************)
(* /peer/view of a file another peer holds: the thread that read the       *)
(* request sends that peer an "ack" datagram for chunk 0; from then on the *)
(* UDP threads of the two nodes pass the transfer to each other, one       *)
(* datagram at a time: the peer answers an ack with the chunk ("synack"),  *)
(* the node forwards the chunk to its TCP client and acks the next one.    *)
(* There is no record of a transfer but the datagram itself; it names the  *)
(* client by the number of its file descriptor.                            *)
(*                                                                         *)
(* The clients are those of one node.  The main thread accepts them, the   *)
(* UDP thread closes them.  Both change connections[] without the mutex, a *)
(* load or a store at a time, in the order in which the Makefile's build   *)
(* (gcc without optimization) executes them.  A search of connections[] is *)
(* one step: what the main thread writes meanwhile is behind all it reads. *)
(***************************************************************************)
EXTENDS FileStream, FiniteSets

CONSTANTS
  Fd,          \* descriptors the kernel hands out for client sockets
  Nobody,      \* sock[fd] of a descriptor that is not in use
  Free,        \* where there is no descriptor
  Slow,        \* clients that may stop reading for good, and stay
  MaxConnections, \* bound: entries of connections[], MAX_THREADS in the code
  MaxHangups,  \* bound: clients that go away before they are served
  MaxLost,     \* bound: datagrams the network loses
  MaxTwice     \* bound: datagrams the network delivers twice

ASSUME TransferAssumption ==
  /\ MaxHangups \in Nat /\ MaxLost \in Nat /\ MaxTwice \in Nat
  /\ Nobody \notin Client /\ Free \notin Fd
  /\ Slow \subseteq Client /\ MaxConnections \in Nat

VARIABLES
  sock,     \* sock[fd]: the client the open descriptor fd is connected to
  connections,      \* the array; Free where nothing has been stored yet
  num_connections,  \* how many of its entries count
  main,     \* what the main thread does with the client it has accepted
  asked,    \* the clients whose request has been read
  arrived,  \* the clients accept() has returned
  hung,     \* the clients that have gone away
  net,      \* datagrams on their way
  udp,      \* what the UDP thread is doing, unless it waits for a datagram
  shaken,   \* clients connected while an append and a removal overlapped
  lost,     \* datagrams lost so far
  twice     \* datagrams delivered twice so far

arrayVars == <<connections, num_connections>>
transferVars == <<sock, arrayVars, main, asked, arrived, hung, net, udp, shaken,
                  lost, twice>>
vars == <<body, ended, transferVars>>

(* A Packet: ack_number and packet_number are equal in all packets sent,   *)
(* hence one field; `asker' is not in the packet, it only says for whom    *)
(* the packet was sent.                                                    *)
Packet ==
  [type : {"ack", "synack"}, fd : Fd, asker : Client, path : Path,
   range : BOOLEAN, num : Nat, start : Int, end : Int, size : Int, length : Int]

ItemType ==
  [kind : {"head", "data"}, path : Path, from : Int, size : Int, pad : Int]

(* The main thread in `connections[num_connections++] = fd'.               *)
Main ==
  [at : {"accepting", "accepted", "counting", "storing"},
   client : Client \union {Nobody}, fd : Fd \union {Free}, slot : Nat]

(* The UDP thread between datagrams, after a failed send's close, inside   *)
(* `connections[i] = connections[--num_connections]', or in a send that    *)
(* does not return.                                                        *)
Udp ==
  [at : {"idle", "closed", "found", "moving", "blocked"},
   fd : Fd \union {Free}, entry : Nat, count : Nat]
Idling == [at |-> "idle", fd |-> Free, entry |-> 0, count |-> 0]

TypeOK ==
  /\ body \in [Client -> Seq(ItemType)]
  /\ ended \in [Client -> {"open", "done", "cut"}]
  /\ sock \in [Fd -> Client \union {Nobody}]
  /\ connections \in [0 .. MaxConnections -> Fd \union {Free}]
  /\ num_connections \in 0 .. MaxConnections
  /\ main \in Main
  /\ main.at # "accepting" => main.client \in arrived /\ main.fd \in Fd
  /\ main.at = "accepted" => num_connections < MaxConnections
  /\ main.at \in {"counting", "storing"} => main.slot < MaxConnections
  /\ asked \subseteq arrived /\ arrived \subseteq Client /\ hung \subseteq Client
  /\ net \subseteq Packet
  /\ udp \in Udp
  /\ udp.at # "idle" => udp.fd \in Fd
  /\ udp.at \in {"found", "moving"} =>
       udp.entry < udp.count /\ udp.count <= MaxConnections
  /\ shaken \subseteq Client
  /\ lost \in 0 .. MaxLost /\ twice \in 0 .. MaxTwice

Init ==
  /\ StreamInit
  /\ sock = [fd \in Fd |-> Nobody]
  /\ connections = [i \in 0 .. MaxConnections |-> Free]
  /\ num_connections = 0
  /\ main = [at |-> "accepting", client |-> Nobody, fd |-> Free, slot |-> 0]
  /\ asked = {} /\ arrived = {} /\ hung = {}
  /\ net = {}
  /\ udp = Idling
  /\ shaken = {}
  /\ lost = 0 /\ twice = 0

-----------------------------------------------------------------------------
(* connections[].                                                          *)

(* The places at which fd is entered.                                      *)
Entries(fd) == {i \in 0 .. num_connections - 1 : connections[i] = fd}

(* is_socket_in_array                                                      *)
Listed(fd) == Entries(fd) # {}

Connected == {sock[fd] : fd \in Fd} \ {Nobody}

(* An append and a removal are both between their first and last access.   *)
Appending == main.at \in {"counting", "storing"}
Removing == udp.at \in {"found", "moving"}

(* The accept loop of main: the kernel returns any descriptor that is      *)
(* free, and it is appended to connections[], where an entry for an        *)
(* earlier client of the same number may still be.                         *)
Accept(c, fd) ==
  /\ main.at = "accepting"
  /\ c \notin arrived
  /\ sock[fd] = Nobody
  /\ num_connections < MaxConnections
  /\ arrived' = arrived \union {c}
  /\ sock' = [sock EXCEPT ![fd] = c]
  /\ main' = [at |-> "accepted", client |-> c, fd |-> fd, slot |-> 0]
  /\ UNCHANGED <<body, ended, arrayVars, asked, hung, net, udp, shaken, lost, twice>>

LoadCount ==
  /\ main.at = "accepted"
  /\ main' = [main EXCEPT !.at = "counting", !.slot = num_connections]
  /\ shaken' = IF Removing THEN shaken \union Connected ELSE shaken
  /\ UNCHANGED <<body, ended, sock, arrayVars, asked, arrived, hung, net, udp, lost,
                 twice>>

StoreCount ==
  /\ main.at = "counting"
  /\ num_connections' = main.slot + 1
  /\ main' = [main EXCEPT !.at = "storing"]
  /\ UNCHANGED <<body, ended, sock, connections, asked, arrived, hung, net, udp, shaken,
                 lost, twice>>

StoreEntry ==
  /\ main.at = "storing"
  /\ connections' = [connections EXCEPT ![main.slot] = main.fd]
  /\ main' = [main EXCEPT !.at = "accepting"]
  /\ UNCHANGED <<body, ended, sock, num_connections, asked, arrived, hung, net, udp,
                 shaken, lost, twice>>

AppendStep == LoadCount \/ StoreCount \/ StoreEntry

(* The thread for a client is created when its descriptor is in the list.  *)
HasThread(c) == c \in arrived /\ (main.at # "accepting" => main.client # c)

(* process_peer_path, /peer/view with another peer as the holder: an ack   *)
(* for chunk 0.                                                            *)
Ask(c, fd) ==
  /\ HasThread(c) /\ c \notin asked
  /\ asked' = asked \union {c}
  /\ net' = net \union
       {[type |-> "ack", fd |-> fd, asker |-> c, path |-> Want[c].path,
         range |-> Want[c].range, num |-> 0, start |-> Want[c].start,
         end |-> Want[c].end, size |-> 0, length |-> 0]}
  /\ UNCHANGED <<body, ended, sock, arrayVars, main, arrived, hung, udp, shaken, lost, twice>>

(* The thread has read the request from its client.                        *)
View(c, fd) == sock[fd] = c /\ Ask(c, fd)

(* The client closes its end, unless it is one that has stopped for good.  *)
Hangup(c) ==
  /\ c \in arrived \ hung
  /\ udp.at = "blocked" => sock[udp.fd] # c
  /\ ended[c] = "open"
  /\ Cardinality(hung) < MaxHangups
  /\ hung' = hung \union {c}
  /\ UNCHANGED <<body, ended, sock, arrayVars, main, asked, arrived, net, udp, shaken, lost,
                 twice>>

(* A datagram is taken off the network, unless it will come a second time. *)
Receive(p, sent) ==
  \/ /\ net' = (net \ {p}) \union sent
     /\ UNCHANGED twice
  \/ /\ twice < MaxTwice
     /\ twice' = twice + 1
     /\ net' = net \union sent

LoseDatagram(p) ==
  /\ p \in net
  /\ lost < MaxLost
  /\ lost' = lost + 1
  /\ net' = net \ {p}
  /\ UNCHANGED <<body, ended, sock, arrayVars, main, asked, arrived, hung, udp, shaken, twice>>

-----------------------------------------------------------------------------
(* The "ack" branch of multiplex_udp, on the peer that holds the file.     *)

(* end_byte is corrected on the first ack only; 0 counts as absent (it is  *)
(* compared with NULL).                                                    *)
EndByte(p) ==
  IF p.num = 0 /\ (p.end \in {-1, 0} \/ p.end >= Size[p.path])
  THEN Size[p.path] - 1 ELSE p.end

(* Mutant of NeedToRead: the end of the range is ignored.                  *)
NeedToReadFull(p) == IF p.range THEN Chunk ELSE Chunk

NeedToRead(p) ==
  IF p.range THEN Smaller(Chunk, EndByte(p) - p.start + 1) ELSE Chunk

(* fread: up to the end of the file, nothing when start is behind it.      *)
BytesRead(p) == Smaller(NeedToRead(p), Size[p.path] - p.start)

CanAnswer(p) == Size[p.path] # -1 /\ p.start >= 0 /\ BytesRead(p) > 0

Chunked(p) ==
  [p EXCEPT !.type = "synack", !.end = EndByte(p), !.size = BytesRead(p),
            !.length = IF p.num = 0 THEN Size[p.path] ELSE @]

ServeChunk(p) ==
  /\ p \in net /\ p.type = "ack"
  /\ CanAnswer(p)
  /\ Receive(p, {Chunked(p)})
  /\ UNCHANGED <<body, ended, sock, arrayVars, main, asked, arrived, hung, udp, shaken, lost>>

(* fopen or fseek fails, or nothing is left to read: no packet is sent     *)
(* (for a missing file a text the requester discards).                     *)
ServeNothing(p) ==
  /\ p \in net /\ p.type = "ack"
  /\ ~CanAnswer(p)
  /\ Receive(p, {})
  /\ UNCHANGED <<body, ended, sock, arrayVars, main, asked, arrived, hung, udp, shaken, lost>>

-----------------------------------------------------------------------------
(* The "synack" branch of multiplex_udp, on the node that asked.           *)

(* send() on fd can succeed or fail: it fails on a descriptor that is      *)
(* closed, does either when the client has gone, and succeeds otherwise.   *)
SendCanSucceed(fd) == sock[fd] # Nobody
SendCanFail(fd) == sock[fd] = Nobody \/ sock[fd] \in hung

(* What a client that is still there receives on fd.                       *)
Received(fd, items) ==
  IF sock[fd] \in Client \ hung
  THEN [body EXCEPT ![sock[fd]] = @ \o items] ELSE body

(* close(fd): whoever is connected to it by now is cut off.                *)
Closed(fd, how) ==
  IF sock[fd] \in Client THEN [ended EXCEPT ![sock[fd]] = how] ELSE ended

Close(fd, how) ==
  /\ sock' = [sock EXCEPT ![fd] = Nobody]
  /\ ended' = Closed(fd, how)

(* Mutants of RemoveSocket: an entry is dropped although there is none; the*)
(* entry is dropped and the descriptor left open.                          *)
RemoveSocketUnchecked(fd) ==
  /\ Close(fd, "cut")
  /\ udp' = [at |-> "found", fd |-> fd, entry |-> 0, count |-> num_connections]
  /\ UNCHANGED shaken
RemoveSocketOnly(fd) ==
  \/ \E i \in Entries(fd) :
       /\ \A j \in Entries(fd) : i <= j
       /\ udp' = [at |-> "found", fd |-> fd, entry |-> i, count |-> num_connections]
       /\ shaken' = IF Appending THEN shaken \union Connected ELSE shaken
       /\ UNCHANGED <<sock, ended>>
  \/ /\ ~Listed(fd)
     /\ udp' = Idling
     /\ UNCHANGED <<sock, ended, shaken>>

(* remove_socket: closes fd and drops its first entry, if there is one.    *)
(* The number of entries is loaded here, stored in DropLast, and the last  *)
(* entry stored over the dropped one in MoveLast.                          *)
RemoveSocket(fd) ==
  \/ \E i \in Entries(fd) :
       /\ \A j \in Entries(fd) : i <= j
       /\ Close(fd, "cut")
       /\ udp' = [at |-> "found", fd |-> fd, entry |-> i, count |-> num_connections]
       /\ shaken' = IF Appending THEN shaken \union Connected ELSE shaken
  \/ /\ ~Listed(fd)
     /\ udp' = Idling
     /\ UNCHANGED <<sock, ended, shaken>>

DropLast ==
  /\ udp.at = "found"
  /\ num_connections' = udp.count - 1
  /\ udp' = [udp EXCEPT !.at = "moving"]
  /\ UNCHANGED <<body, ended, sock, connections, main, asked, arrived, hung, net, shaken,
                 lost, twice>>

MoveLast ==
  /\ udp.at = "moving"
  /\ connections' = [connections EXCEPT ![udp.entry] = connections[num_connections]]
  /\ udp' = Idling
  /\ UNCHANGED <<body, ended, sock, num_connections, main, asked, arrived, hung, net,
                 shaken, lost, twice>>

IsSynack(p) == p \in net /\ p.type = "synack" /\ udp = Idling

(* send_http_206_partial_content or send_http_200_no_range, for chunk 0.   *)
Header(p) ==
  IF p.num = 0
  THEN <<[kind |-> "head", path |-> p.path, from |-> p.start, size |-> p.length,
          pad |-> 0]>>
  ELSE << >>

(* The whole of packet_data is sent, whatever packet_data_size says: behind*)
(* a chunk that is short come bytes that nobody has written.               *)
Data(p) ==
  <<[kind |-> "data", path |-> p.path, from |-> p.start, size |-> p.size,
     pad |-> Chunk - p.size]>>

(* A 206 header that cannot be sent ends the transfer; a 200 header that   *)
(* cannot be sent is not noticed.                                          *)
HeaderFails(p) ==
  /\ IsSynack(p)
  /\ p.num = 0 /\ p.range
  /\ SendCanFail(p.fd)
  /\ RemoveSocket(p.fd)
  /\ Receive(p, {})
  /\ UNCHANGED <<body, arrayVars, main, asked, arrived, hung, lost>>

HeaderPasses(p) == p.num = 0 /\ p.range => SendCanSucceed(p.fd)

(* is_socket_in_array says no: the chunk is dropped, nothing is closed.    *)
NotListed(p) ==
  /\ IsSynack(p) /\ HeaderPasses(p)
  /\ ~Listed(p.fd)
  /\ body' = Received(p.fd, Header(p))
  /\ Receive(p, {})
  /\ UNCHANGED <<ended, sock, arrayVars, main, asked, arrived, hung, udp, shaken, lost>>

(* The chunk cannot be sent: close(fd), and then, in SecondClose, the      *)
(* remove_socket(fd) that closes the number once more.                     *)
ChunkFails(p) ==
  /\ IsSynack(p) /\ HeaderPasses(p)
  /\ Listed(p.fd)
  /\ SendCanFail(p.fd)
  /\ Close(p.fd, "cut")
  /\ udp' = [at |-> "closed", fd |-> p.fd, entry |-> 0, count |-> 0]
  /\ Receive(p, {})
  /\ UNCHANGED <<body, arrayVars, main, asked, arrived, hung, shaken, lost>>

SecondClose ==
  /\ udp.at = "closed"
  /\ RemoveSocket(udp.fd)
  /\ UNCHANGED <<body, arrayVars, main, asked, arrived, hung, net, lost, twice>>

(* A send to a client that no longer reads waits for room that never comes;*)
(* the UDP thread handles nothing more, for anybody.                       *)
Blocks(p) ==
  /\ IsSynack(p)
  /\ sock[p.fd] \in Slow \ hung
  /\ p.num = 0 \/ Listed(p.fd)
  /\ udp' = [at |-> "blocked", fd |-> p.fd, entry |-> 0, count |-> 0]
  /\ Receive(p, {})
  /\ UNCHANGED <<body, ended, sock, arrayVars, main, asked, arrived, hung, shaken, lost>>

(* Mutants of LastChunk: the test is `<=' ; the `return' after the close is*)
(* missing and the next chunk is acked; the descriptor is not closed, and  *)
(* the client counts as served or not.                                     *)
LastOrFullChunk(p) ==
  /\ IsSynack(p)
  /\ Listed(p.fd)
  /\ SendCanSucceed(p.fd)
  /\ p.size <= Chunk
  /\ body' = Received(p.fd, Header(p) \o Data(p))
  /\ Close(p.fd, "done")
  /\ Receive(p, {})
  /\ UNCHANGED <<arrayVars, main, asked, arrived, hung, udp, shaken, lost>>
LastChunkAcked(p) ==
  /\ IsSynack(p)
  /\ Listed(p.fd)
  /\ SendCanSucceed(p.fd)
  /\ p.size < Chunk
  /\ body' = Received(p.fd, Header(p) \o Data(p))
  /\ Close(p.fd, "done")
  /\ Receive(p, {[p EXCEPT !.type = "ack", !.num = @ + 1, !.start = @ + Chunk]})
  /\ UNCHANGED <<arrayVars, main, asked, arrived, hung, udp, shaken, lost>>
LastChunkOnly(p) ==
  /\ IsSynack(p)
  /\ Listed(p.fd)
  /\ SendCanSucceed(p.fd)
  /\ p.size < Chunk
  /\ body' = Received(p.fd, Header(p) \o Data(p))
  /\ ended' = Closed(p.fd, "done")
  /\ Receive(p, {})
  /\ UNCHANGED <<sock, arrayVars, main, asked, arrived, hung, udp, shaken, lost>>
LastChunkOpen(p) ==
  /\ IsSynack(p)
  /\ Listed(p.fd)
  /\ SendCanSucceed(p.fd)
  /\ p.size < Chunk
  /\ body' = Received(p.fd, Header(p) \o Data(p))
  /\ Receive(p, {})
  /\ UNCHANGED <<ended, sock, arrayVars, main, asked, arrived, hung, udp, shaken, lost>>

(* "stop action if file is done": a chunk that is not full is the last.    *)
(* The descriptor is closed; its entry in connections[] stays.             *)
LastChunk(p) ==
  /\ IsSynack(p)
  /\ Listed(p.fd)
  /\ SendCanSucceed(p.fd)
  /\ p.size < Chunk
  /\ body' = Received(p.fd, Header(p) \o Data(p))
  /\ Close(p.fd, "done")
  /\ Receive(p, {})
  /\ UNCHANGED <<arrayVars, main, asked, arrived, hung, udp, shaken, lost>>

(* Mutant of NextAck: start_byte is not advanced.                          *)
NextAckSameByte(p) == [p EXCEPT !.type = "ack", !.num = @ + 1]

NextAck(p) ==
  [p EXCEPT !.type = "ack", !.num = @ + 1, !.start = @ + Chunk]

ForwardChunk(p) ==
  /\ IsSynack(p)
  /\ Listed(p.fd)
  /\ SendCanSucceed(p.fd)
  /\ p.size >= Chunk
  /\ body' = Received(p.fd, Header(p) \o Data(p))
  /\ Receive(p, {NextAck(p)})
  /\ UNCHANGED <<ended, sock, arrayVars, main, asked, arrived, hung, udp, shaken, lost>>

-----------------------------------------------------------------------------
Synack(p) ==
  \/ HeaderFails(p)
  \/ NotListed(p)
  \/ ChunkFails(p)
  \/ LastChunk(p)
  \/ ForwardChunk(p)
  \/ Blocks(p)

RemoveStep == SecondClose \/ DropLast \/ MoveLast

Next ==
  \/ \E c \in Client, fd \in Fd : Accept(c, fd) \/ View(c, fd)
  \/ AppendStep
  \/ \E c \in Client : Hangup(c)
  \/ \E p \in net : LoseDatagram(p)
  \/ \E p \in net : ServeChunk(p) \/ ServeNothing(p)
  \/ \E p \in net : Synack(p)
  \/ RemoveStep

Spec == Init /\ [][Next]_vars

(* The threads of both nodes keep running, and each keeps reading its      *)
(* socket: a client that is accepted is listed, and a datagram that is not *)
(* lost is handled, be it by a send that blocks.  Of clients nothing is    *)
(* assumed: one may stay connected and never ask.                          *)
Handle(c) ==
  \E p \in net : p.asker = c /\ (ServeChunk(p) \/ ServeNothing(p) \/ Synack(p))

Fairness ==
  /\ WF_vars(AppendStep)
  /\ \A c \in Client : WF_vars(Handle(c))
  /\ WF_vars(RemoveStep)

FairSpec == Spec /\ Fairness

-----------------------------------------------------------------------------
(* What a client has received is the beginning of what it asked for, chunk *)
(* by chunk: nothing is missing, repeated, out of order or another         *)
(* client's, although chunks are addressed to reused descriptor numbers.   *)
(* Only behind its last byte come others, up to a full chunk.              *)
OwnStream ==
  \A c \in Client :
    /\ body[c] = Stream(c, Len(body[c]))
    /\ \A i \in 1 .. Len(body[c]) - 1 : body[c][i].pad = 0

(* A connection that is closed as finished has had all of its file.        *)
DoneIsWhole == \A c \in Client : ended[c] = "done" => IsWhole(c, Len(body[c]))

(* One datagram per client is under way, and none for a client that is     *)
(* closed: the transfer has no other state, so a second would fork it.     *)
OneDatagram ==
  /\ \A p, q \in net : p.asker = q.asker => p = q
  /\ \A p \in net : sock[p.fd] = p.asker

(* Where is_socket_in_array finds fd, or will when the step that is under  *)
(* way is done: the last entry is on its way to the place of a removed one *)
(* after DropLast.                                                         *)
InList(fd) ==
  \/ Listed(fd)
  \/ udp.at = "moving" /\ connections[num_connections] = fd

(* A connected client is in connections[], so that its chunks are not      *)
(* dropped, unless main is still appending it, or it was connected when an *)
(* append and a removal overlapped.  What these lose is not made up for,   *)
(* but whoever comes later is safe, whatever is left in the array.         *)
OpenIsListed ==
  \A fd \in Fd :
    sock[fd] \notin shaken \union {Nobody} =>
      InList(fd) \/ (main.at # "accepting" /\ main.client = sock[fd])

(* The node sends nothing to a client after it has closed its connection,  *)
(* and an ended connection stays ended.                                    *)
ClosedIsFinal ==
  [][\A c \in Client : ended[c] # "open" =>
       body'[c] = body[c] /\ ended'[c] = ended[c]]_vars

(* A descriptor leads to a client that has arrived and whose connection is *)
(* open, no other descriptor leads to it, and a connection ends only after *)
(* it arrived; the one main is appending is on the descriptor of its own.  *)
SockInv ==
  /\ \A fd \in Fd : sock[fd] # Nobody =>
       sock[fd] \in arrived /\ ended[sock[fd]] = "open"
  /\ \A f, g \in Fd : sock[f] = sock[g] /\ sock[f] # Nobody => f = g
  /\ \A c \in Client \ arrived : ended[c] = "open"
  /\ \A fd \in Fd : main.at # "accepting" /\ sock[fd] = main.client => fd = main.fd

(* The inductive form of OpenIsListed: as long as there is a client that   *)
(* should be found, other than one whose append has not begun, no append   *)
(* and removal overlap, and whoever is between a load and a store has      *)
(* loaded what is still so.                                                *)
Sure(fd) ==
  /\ sock[fd] \notin shaken \union {Nobody}
  /\ main.at = "accepted" => main.client # sock[fd]
Undisturbed ==
  /\ ~(Appending /\ Removing)
  /\ main.at = "counting" => main.slot = num_connections
  /\ main.at = "storing" => num_connections = main.slot + 1
  /\ Removing => connections[udp.entry] = udp.fd
  /\ udp.at = "found" => udp.count = num_connections
  /\ udp.at = "moving" => udp.count = num_connections + 1
Counted ==
  IF main.at = "storing" THEN main.slot
  ELSE IF udp.at = "moving" THEN udp.count ELSE num_connections
ListInv ==
  \A fd \in Fd : Sure(fd) =>
    /\ Undisturbed
    /\ \/ main.at # "accepting" /\ main.client = sock[fd]
       \/ /\ Removing => udp.fd # fd
          /\ \E i \in 0 .. Counted - 1 : connections[i] = fd

(* A datagram carries all there is to know of its transfer: which chunk is *)
(* next, where it starts, and how much the client has had before it.       *)
Carries(p, c) ==
  /\ p.path = Want[c].path /\ p.range = Want[c].range
  /\ p.start = First(c) + p.num * Chunk
  /\ Len(body[c]) = IF p.num = 0 THEN 0 ELSE p.num + 1
  /\ IF p.type = "ack" /\ p.num = 0
     THEN p.end = Want[c].end
     ELSE p.end = Last(c) /\ p.start >= 0 /\ FileSize(c) # -1
  /\ p.type = "synack" =>
       /\ p.size = Smaller(Chunk, Last(c) - p.start + 1) /\ p.size > 0
       /\ p.num = 0 => p.length = FileSize(c)

(* The inductive form of OwnStream, DoneIsWhole and OneDatagram while no   *)
(* client hangs up and no datagram arrives twice.                          *)
TransferInv ==
  /\ hung = {} /\ twice = 0 /\ udp.at \in {"idle", "blocked"}
  /\ OneDatagram
  /\ \A p \in net : p.asker \in asked /\ Carries(p, p.asker)
  /\ \A c \in Client \ asked : body[c] = << >>
  /\ OwnStream
  /\ DoneIsWhole

(* The streams are those of FileStream.                                    *)
StreamsRefined == StreamSpec

(* Once its request is read, a client's connection is closed in the end,   *)
(* unless connections[] may have lost it, or the UDP thread is caught in a *)
(* send to a client that has stopped reading.                              *)
FileDoneCloses ==
  \A c \in Client :
    c \in asked ~> ended[c] # "open" \/ c \in shaken \/ udp.at = "blocked"
=============================================================================
