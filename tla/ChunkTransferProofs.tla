------------------------ MODULE ChunkTransferProofs ------------------------
(***************************************************************************)
(* Machine-checked facts about ChunkTransfer, for any clients, files,      *)
(* ranges, chunk size and set of descriptors.                              *)
(***************************************************************************)
EXTENDS ChunkTransfer, FiniteSetTheorems, SequenceTheorems, TLAPS

(* What a received datagram leaves on the network.                         *)
LEMMA ReceiveNet ==
  ASSUME TypeOK, NEW p \in net, NEW sent, sent \subseteq Packet, Receive(p, sent)
  PROVE  net' \subseteq Packet /\ twice' \in 0 .. MaxTwice
BY TransferAssumption DEF Receive, TypeOK

(* Arithmetic of an ack.                                                   *)
LEMMA AckTypes ==
  ASSUME NEW p \in Packet
  PROVE  /\ EndByte(p) \in Int /\ NeedToRead(p) \in Int /\ BytesRead(p) \in Int
         /\ Size[p.path] \in Int
         /\ Chunked(p) \in Packet
         /\ NextAck(p) \in Packet
<1>1. p.path \in Path /\ p.num \in Nat /\ p.start \in Int /\ p.end \in Int
  BY DEF Packet
<1>2. Size[p.path] \in Int /\ Chunk \in Nat
  BY <1>1, StreamAssumption
<1>3. EndByte(p) \in Int
  BY <1>1, <1>2 DEF EndByte
<1>4. NeedToRead(p) \in Int
  BY <1>1, <1>2, <1>3 DEF NeedToRead, Smaller
<1>5. BytesRead(p) \in Int
  BY <1>1, <1>2, <1>4 DEF BytesRead, Smaller
<1>6. Chunked(p) \in Packet
  BY <1>2, <1>3, <1>5 DEF Chunked, Packet
<1>7. NextAck(p) \in Packet
  <2>1. p.num + 1 \in Nat /\ p.start + Chunk \in Int
    BY <1>1, <1>2
  <2>2. \A k \in Nat, i \in Int :
          [p EXCEPT !.type = "ack", !.num = k, !.start = i] \in Packet
    BY DEF Packet
  <2> QED
    BY <2>1, <2>2 DEF NextAck
<1> QED
  BY <1>2, <1>3, <1>4, <1>5, <1>6, <1>7

(* What is sent to a client is a sequence of items, and stays one.         *)
LEMMA ReceivedTypes ==
  ASSUME TypeOK, NEW p \in net
  PROVE  /\ Header(p) \in Seq(ItemType)
         /\ Data(p) \in Seq(ItemType)
         /\ \A fd \in Fd, items \in Seq(ItemType) :
              Received(fd, items) \in [Client -> Seq(ItemType)]
<1>1. p \in Packet
  BY DEF TypeOK
<1>2. Header(p) \in Seq(ItemType) /\ Data(p) \in Seq(ItemType)
  <2>1. /\ p.path \in Path /\ p.start \in Int
        /\ p.size \in Int /\ p.length \in Int /\ Chunk - p.size \in Int
    BY <1>1, StreamAssumption DEF Packet
  <2>2. \A x \in ItemType : <<x>> \in Seq(ItemType)
    OBVIOUS
  <2>3. [kind |-> "head", path |-> p.path, from |-> p.start, size |-> p.length,
         pad |-> 0] \in ItemType
    BY <2>1 DEF ItemType
  <2>4. [kind |-> "data", path |-> p.path, from |-> p.start, size |-> p.size,
         pad |-> Chunk - p.size] \in ItemType
    BY <2>1 DEF ItemType
  <2>5. Header(p) \in Seq(ItemType)
    BY <2>2, <2>3, EmptySeq DEF Header
  <2> QED
    BY <2>2, <2>4, <2>5 DEF Data
<1>3. ASSUME NEW fd \in Fd, NEW items \in Seq(ItemType)
      PROVE  Received(fd, items) \in [Client -> Seq(ItemType)]
  <2>1. \A c \in Client : body[c] \o items \in Seq(ItemType)
    BY ConcatProperties DEF TypeOK
  <2> QED
    BY <2>1 DEF Received, TypeOK
<1> QED
  BY <1>2, <1>3

(* The clients that are connected are clients.                             *)
LEMMA ConnectedTypes == TypeOK => Connected \subseteq Client
BY DEF TypeOK, Connected

(* However a descriptor is closed, the types are kept.                     *)
LEMMA CloseTypes ==
  ASSUME TypeOK, NEW fd \in Fd, NEW how \in {"done", "cut"}, Close(fd, how)
  PROVE  /\ sock' \in [Fd -> Client \union {Nobody}]
         /\ ended' \in [Client -> {"open", "done", "cut"}]
BY DEF Close, Closed, TypeOK

(* remove_socket, up to its first store in connections[] or its end.       *)
LEMMA RemoveTypes ==
  ASSUME TypeOK, NEW fd \in Fd, RemoveSocket(fd)
  PROVE  /\ sock' \in [Fd -> Client \union {Nobody}]
         /\ ended' \in [Client -> {"open", "done", "cut"}]
         /\ udp' \in Udp
         /\ udp'.at # "idle" => udp'.fd \in Fd
         /\ udp'.at \in {"found", "moving"} =>
              udp'.entry < udp'.count /\ udp'.count <= MaxConnections
         /\ shaken' \subseteq Client
<1>1. CASE Listed(fd)
  <2>1. PICK i \in Entries(fd) :
          /\ Close(fd, "cut")
          /\ udp' = [at |-> "found", fd |-> fd, entry |-> i, count |-> num_connections]
          /\ shaken' = IF Appending THEN shaken \union Connected ELSE shaken
    BY <1>1 DEF RemoveSocket
  <2>2. i \in Nat /\ i < num_connections /\ num_connections \in Nat
        /\ num_connections <= MaxConnections
    BY TransferAssumption DEF Entries, TypeOK
  <2>3. udp' \in Udp
    BY <2>1, <2>2 DEF Udp
  <2>4. shaken' \subseteq Client
    BY <2>1, ConnectedTypes DEF TypeOK
  <2> QED
    BY <2>1, <2>2, <2>3, <2>4, CloseTypes
<1>2. CASE ~Listed(fd)
  <2>1. udp' = Idling /\ UNCHANGED <<sock, ended, shaken>>
    BY <1>2 DEF RemoveSocket, Listed
  <2>2. Idling \in Udp /\ Idling.at = "idle"
    BY DEF Idling, Udp
  <2> QED
    BY <2>1, <2>2 DEF TypeOK
<1> QED
  BY <1>1, <1>2

(* The ack for chunk 0, on whatever descriptor.                            *)
LEMMA AskTypes ==
  ASSUME TypeOK, NEW c \in Client, NEW fd \in Fd, Ask(c, fd)
  PROVE  TypeOK'
<1>1. Want[c] \in Request
  BY StreamAssumption
<1>2. net' \subseteq Packet
  BY <1>1 DEF Ask, TypeOK, Packet, Request
<1> QED
  BY <1>2 DEF Ask, HasThread, arrayVars, TypeOK

-----------------------------------------------------------------------------
(* One step keeps the types.                                               *)
LEMMA TypeStep ==
  ASSUME TypeOK, [Next]_vars
  PROVE  TypeOK'
<1>1. ASSUME NEW c \in Client, NEW fd \in Fd, Accept(c, fd) PROVE TypeOK'
  <2>1. main' \in Main /\ main'.client = c /\ main'.fd = fd /\ main'.at = "accepted"
    BY <1>1 DEF Accept, Main
  <2> QED
    BY <1>1, <2>1 DEF Accept, arrayVars, TypeOK
<1>2. ASSUME NEW c \in Client, NEW fd \in Fd, View(c, fd) PROVE TypeOK'
  BY <1>2, AskTypes DEF View
<1>3. ASSUME NEW c \in Client, Hangup(c) PROVE TypeOK'
  BY <1>3 DEF Hangup, arrayVars, TypeOK
<1>4. ASSUME NEW p \in net, LoseDatagram(p) PROVE TypeOK'
  BY <1>4, TransferAssumption DEF LoseDatagram, arrayVars, TypeOK
<1>5. ASSUME NEW p \in net, ServeChunk(p) PROVE TypeOK'
  <2>1. Chunked(p) \in Packet
    BY AckTypes DEF TypeOK
  <2>2. net' \subseteq Packet /\ twice' \in 0 .. MaxTwice
    BY <1>5, <2>1, ReceiveNet DEF ServeChunk
  <2> QED
    BY <1>5, <2>2 DEF ServeChunk, arrayVars, TypeOK
<1>6. ASSUME NEW p \in net, ServeNothing(p) PROVE TypeOK'
  <2>1. net' \subseteq Packet /\ twice' \in 0 .. MaxTwice
    BY <1>6, ReceiveNet DEF ServeNothing
  <2> QED
    BY <1>6, <2>1 DEF ServeNothing, arrayVars, TypeOK
<1>7. ASSUME NEW p \in net, Synack(p) PROVE TypeOK'
  <2>1. p.fd \in Fd /\ NextAck(p) \in Packet
    BY AckTypes DEF TypeOK, Packet
  <2>2. Received(p.fd, Header(p)) \in [Client -> Seq(ItemType)]
    BY <2>1, ReceivedTypes
  <2>3. Received(p.fd, Header(p) \o Data(p)) \in [Client -> Seq(ItemType)]
    BY <2>1, ReceivedTypes, ConcatProperties
  <2>4. CASE HeaderFails(p)
    <3>1. net' \subseteq Packet /\ twice' \in 0 .. MaxTwice
      BY <2>4, ReceiveNet DEF HeaderFails
    <3> QED
      BY <2>1, <2>4, <3>1, RemoveTypes DEF HeaderFails, arrayVars, TypeOK
  <2>5. CASE NotListed(p)
    <3>1. net' \subseteq Packet /\ twice' \in 0 .. MaxTwice
      BY <2>5, ReceiveNet DEF NotListed
    <3> QED
      BY <2>2, <2>5, <3>1 DEF NotListed, arrayVars, TypeOK
  <2>6. CASE ChunkFails(p)
    <3>1. net' \subseteq Packet /\ twice' \in 0 .. MaxTwice
      BY <2>6, ReceiveNet DEF ChunkFails
    <3>2. udp' \in Udp /\ udp'.fd = p.fd /\ udp'.at = "closed"
      BY <2>1, <2>6 DEF ChunkFails, Udp
    <3> QED
      BY <2>1, <2>6, <3>1, <3>2, CloseTypes DEF ChunkFails, arrayVars, TypeOK
  <2>7. CASE LastChunk(p)
    <3>1. net' \subseteq Packet /\ twice' \in 0 .. MaxTwice
      BY <2>7, ReceiveNet DEF LastChunk
    <3> QED
      BY <2>1, <2>3, <2>7, <3>1, CloseTypes DEF LastChunk, arrayVars, TypeOK
  <2>8. CASE ForwardChunk(p)
    <3>1. net' \subseteq Packet /\ twice' \in 0 .. MaxTwice
      BY <2>1, <2>8, ReceiveNet DEF ForwardChunk
    <3> QED
      BY <2>3, <2>8, <3>1 DEF ForwardChunk, arrayVars, TypeOK
  <2>9. CASE Blocks(p)
    <3>1. net' \subseteq Packet /\ twice' \in 0 .. MaxTwice
      BY <2>9, ReceiveNet DEF Blocks
    <3>2. udp' \in Udp /\ udp'.fd = p.fd /\ udp'.at = "blocked"
      BY <2>1, <2>9 DEF Blocks, Udp
    <3> QED
      BY <2>1, <2>9, <3>1, <3>2 DEF Blocks, arrayVars, TypeOK
  <2> QED
    BY <1>7, <2>4, <2>5, <2>6, <2>7, <2>8, <2>9 DEF Synack
<1>8. ASSUME SecondClose PROVE TypeOK'
  <2>1. udp.fd \in Fd
    BY <1>8 DEF SecondClose, TypeOK
  <2> QED
    BY <1>8, <2>1, RemoveTypes DEF SecondClose, arrayVars, TypeOK
<1>9. ASSUME AppendStep PROVE TypeOK'
  <2>1. main \in Main /\ num_connections \in Nat /\ MaxConnections \in Nat
    BY TransferAssumption DEF TypeOK
  <2>2. CASE LoadCount
    <3>1. main'.at = "counting" /\ main'.slot = num_connections
          /\ main'.client = main.client /\ main'.fd = main.fd /\ main' \in Main
      BY <2>1, <2>2 DEF LoadCount, Main
    <3>2. shaken' \subseteq Client
      BY <2>2, ConnectedTypes DEF LoadCount, TypeOK
    <3> QED
      BY <2>1, <2>2, <3>1, <3>2 DEF LoadCount, arrayVars, TypeOK
  <2>3. CASE StoreCount
    <3>1. main'.at = "storing" /\ main'.slot = main.slot
          /\ main'.client = main.client /\ main'.fd = main.fd /\ main' \in Main
      BY <2>1, <2>3 DEF StoreCount, Main
    <3>2. main.slot < MaxConnections /\ main.slot \in Nat
      BY <2>1, <2>3 DEF StoreCount, TypeOK, Main
    <3>3. num_connections' \in 0 .. MaxConnections
      BY <2>1, <2>3, <3>2 DEF StoreCount
    <3> QED
      BY <2>1, <2>3, <3>1, <3>2, <3>3 DEF StoreCount, TypeOK
  <2>4. CASE StoreEntry
    <3>1. main'.at = "accepting" /\ main' \in Main
      BY <2>1, <2>4 DEF StoreEntry, Main
    <3>2. main.fd \in Fd
      BY <2>4 DEF StoreEntry, TypeOK
    <3>3. connections' \in [0 .. MaxConnections -> Fd \union {Free}]
      BY <2>4, <3>2 DEF StoreEntry, TypeOK
    <3> QED
      BY <2>4, <3>1, <3>3 DEF StoreEntry, TypeOK
  <2> QED
    BY <1>9, <2>2, <2>3, <2>4 DEF AppendStep
<1>10. ASSUME DropLast PROVE TypeOK'
  <2>1. udp \in Udp /\ MaxConnections \in Nat /\ udp.entry < udp.count
        /\ udp.count <= MaxConnections
    BY <1>10, TransferAssumption DEF DropLast, TypeOK
  <2>2. udp'.at = "moving" /\ udp'.fd = udp.fd /\ udp'.entry = udp.entry
        /\ udp'.count = udp.count /\ udp' \in Udp
    BY <1>10, <2>1 DEF DropLast, Udp
  <2>3. num_connections' \in 0 .. MaxConnections /\ num_connections' < MaxConnections
    BY <1>10, <2>1 DEF DropLast, Udp
  <2> QED
    BY <1>10, <2>1, <2>2, <2>3 DEF DropLast, TypeOK
<1>11. ASSUME MoveLast PROVE TypeOK'
  <2>1. Idling \in Udp /\ Idling.at = "idle"
    BY DEF Idling, Udp
  <2>2. connections' \in [0 .. MaxConnections -> Fd \union {Free}]
    BY <1>11, TransferAssumption DEF MoveLast, TypeOK
  <2> QED
    BY <1>11, <2>1, <2>2 DEF MoveLast, TypeOK
<1>12. CASE UNCHANGED vars
  BY <1>12 DEF vars, transferVars, arrayVars, TypeOK
<1> QED
  BY <1>1, <1>2, <1>3, <1>4, <1>5, <1>6, <1>7, <1>8, <1>9, <1>10, <1>11, <1>12
     DEF Next, RemoveStep

(* Descriptors, datagrams, streams and budgets keep their types.           *)
THEOREM TypeCorrect == Spec => []TypeOK
<1>1. Init => TypeOK
  BY TransferAssumption, EmptySeq DEF Init, StreamInit, Idling, Udp, Main, TypeOK
<1>2. TypeOK /\ [Next]_vars => TypeOK'
  BY TypeStep
<1> QED
  BY <1>1, <1>2, PTL DEF Spec

-----------------------------------------------------------------------------
(* remove_socket closes the descriptor and begins to drop an entry, or     *)
(* leaves everything as it is.                                             *)
LEMMA RemoveCases ==
  ASSUME NEW fd \in Fd, RemoveSocket(fd)
  PROVE  \/ /\ Close(fd, "cut")
            /\ \E i \in 0 .. num_connections - 1 :
                 /\ connections[i] = fd
                 /\ udp' = [at |-> "found", fd |-> fd, entry |-> i,
                            count |-> num_connections]
            /\ shaken' = IF Appending THEN shaken \union Connected ELSE shaken
         \/ UNCHANGED <<sock, ended, shaken>> /\ udp' = Idling
BY DEF RemoveSocket, Entries

(* Closing a descriptor, in any of the ways the code does it.              *)
LEMMA CloseKeeps ==
  ASSUME TypeOK, SockInv, NEW fd \in Fd, NEW how \in {"done", "cut"},
         Close(fd, how) \/ RemoveSocket(fd),
         UNCHANGED <<arrived, main>>
  PROVE  /\ SockInv'
         /\ \A c \in Client : ended[c] # "open" => ended'[c] = ended[c]
<1>1. ASSUME NEW w \in {"done", "cut"}, Close(fd, w)
      PROVE  /\ SockInv'
             /\ \A c \in Client : ended[c] # "open" => ended'[c] = ended[c]
  <2>1. sock' = [sock EXCEPT ![fd] = Nobody] /\ ended' = Closed(fd, w)
    BY <1>1 DEF Close
  <2>2. \A c \in Client : ended'[c] # ended[c] => c = sock[fd] /\ ended[c] = "open"
    BY <2>1, TransferAssumption DEF Closed, SockInv, TypeOK
  <2>3. \A f \in Fd : main'.at # "accepting" /\ sock'[f] = main'.client => f = main'.fd
    BY <2>1, TransferAssumption DEF SockInv, TypeOK
  <2>4. \A f \in Fd : sock'[f] # Nobody =>
          sock'[f] \in arrived' /\ ended'[sock'[f]] = "open"
    <3> SUFFICES ASSUME NEW f \in Fd, sock'[f] # Nobody
                 PROVE  sock'[f] \in arrived' /\ ended'[sock'[f]] = "open"
      OBVIOUS
    <3>1. f # fd /\ sock'[f] = sock[f] /\ sock[f] \in Client
      BY <2>1 DEF TypeOK
    <3>2. sock[f] # sock[fd]
      BY <3>1 DEF SockInv
    <3> QED
      BY <2>2, <3>1, <3>2 DEF SockInv
  <2>5. \A f, g \in Fd : sock'[f] = sock'[g] /\ sock'[f] # Nobody => f = g
    BY <2>1 DEF SockInv, TypeOK
  <2>6. \A c \in Client \ arrived' : ended'[c] = "open"
    BY <2>2, TransferAssumption DEF SockInv
  <2> QED
    BY <2>2, <2>3, <2>4, <2>5, <2>6 DEF SockInv
<1>2. CASE Close(fd, how)
  BY <1>1, <1>2
<1>3. CASE RemoveSocket(fd)
  <2>1. CASE Close(fd, "cut")
    BY <1>1, <2>1
  <2>2. CASE UNCHANGED <<sock, ended>>
    BY <2>2 DEF SockInv
  <2> QED
    BY <1>3, <2>1, <2>2, RemoveCases
<1> QED
  BY <1>2, <1>3

(* Sending to a descriptor reaches only clients whose connection is open.  *)
LEMMA SentToOpen ==
  ASSUME TypeOK, SockInv, NEW fd \in Fd, NEW items,
         NEW c \in Client, ended[c] # "open"
  PROVE  Received(fd, items)[c] = body[c]
BY TransferAssumption DEF Received, SockInv, TypeOK

(* One step: the connections stay in order, and what has ended stays as    *)
(* it is.                                                                  *)
LEMMA SockStep ==
  ASSUME TypeOK, SockInv, [Next]_vars
  PROVE  /\ SockInv'
         /\ \A c \in Client : ended[c] # "open" =>
              body'[c] = body[c] /\ ended'[c] = ended[c]
<1> DEFINE Final == \A c \in Client : ended[c] # "open" =>
                      body'[c] = body[c] /\ ended'[c] = ended[c]
<1>1. ASSUME NEW c \in Client, NEW fd \in Fd, Accept(c, fd)
      PROVE  SockInv' /\ Final
  <2>1. /\ c \notin arrived /\ sock[fd] = Nobody
        /\ arrived' = arrived \union {c}
        /\ sock' = [sock EXCEPT ![fd] = c]
        /\ main' = [at |-> "accepted", client |-> c, fd |-> fd, slot |-> 0]
        /\ body' = body /\ ended' = ended
    BY <1>1 DEF Accept
  <2>2. \A f \in Fd : sock'[f] = c => f = fd
    BY <2>1, TransferAssumption DEF SockInv, TypeOK
  <2>3. \A f \in Fd : sock'[f] # Nobody =>
          sock'[f] \in arrived' /\ ended'[sock'[f]] = "open"
    BY <2>1 DEF SockInv, TypeOK
  <2>4. \A f, g \in Fd : sock'[f] = sock'[g] /\ sock'[f] # Nobody => f = g
    BY <2>1 DEF SockInv, TypeOK
  <2> QED
    BY <2>1, <2>2, <2>3, <2>4 DEF SockInv
<1>2. ASSUME NEW c \in Client, NEW fd \in Fd, View(c, fd)
      PROVE  SockInv' /\ Final
  BY <1>2 DEF View, Ask, SockInv
<1>3. ASSUME AppendStep PROVE SockInv' /\ Final
  <2>1. main \in Main /\ main.at # "accepting"
    BY <1>3 DEF AppendStep, LoadCount, StoreCount, StoreEntry, TypeOK
  <2>2. main'.client = main.client /\ main'.fd = main.fd
    BY <1>3, <2>1 DEF AppendStep, LoadCount, StoreCount, StoreEntry, Main
  <2>3. UNCHANGED <<body, ended, sock, arrived>>
    BY <1>3 DEF AppendStep, LoadCount, StoreCount, StoreEntry
  <2> QED
    BY <2>1, <2>2, <2>3 DEF SockInv
<1>4. ASSUME NEW p \in net, Synack(p) PROVE SockInv' /\ Final
  <2>0. p.fd \in Fd
    BY DEF TypeOK, Packet
  <2>1. CASE HeaderFails(p)
    BY <2>0, <2>1, CloseKeeps DEF HeaderFails
  <2>2. CASE NotListed(p)
    BY <2>0, <2>2, SentToOpen DEF NotListed, SockInv
  <2>3. CASE ChunkFails(p)
    BY <2>0, <2>3, CloseKeeps DEF ChunkFails
  <2>4. CASE LastChunk(p)
    BY <2>0, <2>4, CloseKeeps, SentToOpen DEF LastChunk
  <2>5. CASE ForwardChunk(p)
    BY <2>0, <2>5, SentToOpen DEF ForwardChunk, SockInv
  <2>6. CASE Blocks(p)
    BY <2>6 DEF Blocks, SockInv
  <2> QED
    BY <1>4, <2>1, <2>2, <2>3, <2>4, <2>5, <2>6 DEF Synack
<1>5. ASSUME SecondClose PROVE SockInv' /\ Final
  <2>1. udp.fd \in Fd
    BY <1>5 DEF SecondClose, TypeOK
  <2> QED
    BY <1>5, <2>1, CloseKeeps DEF SecondClose
<1>6. ASSUME UNCHANGED <<body, ended, sock, main, arrived>>
      PROVE  SockInv' /\ Final
  BY <1>6 DEF SockInv
<1> QED
  BY <1>1, <1>2, <1>3, <1>4, <1>5, <1>6
     DEF Next, RemoveStep, DropLast, MoveLast, Hangup, LoseDatagram, ServeChunk,
         ServeNothing, vars, transferVars

(* Connections are in order in every reachable state.                      *)
THEOREM SocketsSound == Spec => []SockInv
<1>1. Init => SockInv
  BY TransferAssumption DEF Init, StreamInit, SockInv
<1>2. TypeOK /\ SockInv /\ [Next]_vars => SockInv'
  BY SockStep
<1> QED
  BY <1>1, <1>2, TypeCorrect, PTL DEF Spec

-----------------------------------------------------------------------------
(* connections[].                                                          *)

(* What holds of one descriptor.                                           *)
Held(fd) ==
  Sure(fd) =>
    /\ Undisturbed
    /\ \/ main.at # "accepting" /\ main.client = sock[fd]
       \/ /\ Removing => udp.fd # fd
          /\ \E i \in 0 .. Counted - 1 : connections[i] = fd

(* Steps that only close descriptors, or nothing at all, between two       *)
(* removals.                                                               *)
LEMMA HeldAnyway ==
  ASSUME TypeOK, ListInv, UNCHANGED <<arrayVars, main, shaken>>,
         \A fd \in Fd : sock'[fd] \in {sock[fd], Nobody},
         ~Removing, ~Removing'
  PROVE  ListInv'
<1> SUFFICES ASSUME NEW fd \in Fd, Sure(fd)' PROVE Held(fd)'
  BY DEF ListInv, Held
<1>1. sock'[fd] = sock[fd] /\ Sure(fd)
  BY DEF Sure
<1>2. Held(fd)
  BY DEF ListInv, Held
<1> QED
  BY <1>1, <1>2 DEF Held, Undisturbed, Counted, Appending, Removing, arrayVars

(* The beginning of a removal: if main is in the middle of an append, all  *)
(* who are connected are given up.                                         *)
LEMMA HeldInRemoval ==
  ASSUME TypeOK, ListInv, UNCHANGED <<arrayVars, main>>, ~Removing,
         NEW gone \in Fd, RemoveSocket(gone)
  PROVE  ListInv'
<1>1. CASE UNCHANGED <<sock, ended, shaken>> /\ udp' = Idling
  BY <1>1, HeldAnyway DEF Idling, Removing
<1>2. ASSUME NEW i \in 0 .. num_connections - 1,
             connections[i] = gone, Close(gone, "cut"),
             udp' = [at |-> "found", fd |-> gone, entry |-> i, count |-> num_connections],
             shaken' = IF Appending THEN shaken \union Connected ELSE shaken
      PROVE  ListInv'
  <2> SUFFICES ASSUME NEW fd \in Fd, Sure(fd)' PROVE Held(fd)'
    BY DEF ListInv, Held
  <2>1. fd # gone /\ sock'[fd] = sock[fd] /\ sock[fd] # Nobody
    BY <1>2 DEF Close, Sure, TypeOK
  <2>2. ~Appending
    BY <1>2, <2>1 DEF Sure, Connected
  <2>3. Sure(fd) /\ Held(fd)
    BY <1>2, <2>1, <2>2 DEF Sure, ListInv, Held
  <2> QED
    BY <1>2, <2>1, <2>2, <2>3
       DEF Held, Undisturbed, Counted, Appending, Removing, arrayVars
<1> QED
  BY <1>1, <1>2, RemoveCases

(* One step keeps whoever is sure to be listed in the list.                *)
LEMMA ListStep ==
  ASSUME TypeOK, SockInv, ListInv, [Next]_vars
  PROVE  ListInv'
<1>1. ASSUME NEW c \in Client, NEW fd \in Fd, Accept(c, fd) PROVE ListInv'
  <2>1. /\ main.at = "accepting" /\ sock' = [sock EXCEPT ![fd] = c]
        /\ main' = [at |-> "accepted", client |-> c, fd |-> fd, slot |-> 0]
        /\ UNCHANGED <<arrayVars, udp, shaken>>
    BY <1>1 DEF Accept
  <2> SUFFICES ASSUME NEW f \in Fd, Sure(f)' PROVE Held(f)'
    BY DEF ListInv, Held
  <2>2. f # fd /\ sock'[f] = sock[f]
    BY <2>1 DEF Sure, TypeOK
  <2>3. Sure(f) /\ Held(f)
    BY <2>1, <2>2 DEF Sure, ListInv, Held
  <2> QED
    BY <2>1, <2>2, <2>3 DEF Held, Undisturbed, Counted, Appending, Removing, arrayVars
<1>2. ASSUME LoadCount PROVE ListInv'
  <2>1. /\ main.at = "accepted"
        /\ main' = [main EXCEPT !.at = "counting", !.slot = num_connections]
        /\ shaken' = IF Removing THEN shaken \union Connected ELSE shaken
        /\ UNCHANGED <<sock, arrayVars, udp>>
    BY <1>2 DEF LoadCount
  <2>2. main'.at = "counting" /\ main'.slot = num_connections
        /\ main'.client = main.client
    BY <2>1 DEF TypeOK, Main
  <2> SUFFICES ASSUME NEW f \in Fd, Sure(f)' PROVE Held(f)'
    BY DEF ListInv, Held
  <2>3. ~Removing /\ sock[f] \notin shaken \union {Nobody}
    BY <2>1 DEF Sure, Connected
  <2>4. CASE main.client = sock[f]
    BY <2>1, <2>2, <2>3, <2>4 DEF Held, Undisturbed, Appending, Removing, arrayVars
  <2>5. CASE main.client # sock[f]
    <3>1. Sure(f) /\ Held(f)
      BY <2>3, <2>5 DEF Sure, ListInv, Held
    <3> QED
      BY <2>1, <2>2, <2>3, <2>5, <3>1
         DEF Held, Undisturbed, Counted, Appending, Removing, arrayVars
  <2> QED
    BY <2>4, <2>5
<1>3. ASSUME StoreCount PROVE ListInv'
  <2>1. /\ main.at = "counting" /\ num_connections' = main.slot + 1
        /\ main' = [main EXCEPT !.at = "storing"]
        /\ UNCHANGED <<sock, connections, udp, shaken>>
    BY <1>3 DEF StoreCount
  <2>2. main'.at = "storing" /\ main'.slot = main.slot /\ main'.client = main.client
    BY <2>1 DEF TypeOK, Main
  <2> SUFFICES ASSUME NEW f \in Fd, Sure(f)' PROVE Held(f)'
    BY DEF ListInv, Held
  <2>3. Sure(f) /\ Held(f)
    BY <2>1, <2>2 DEF Sure, ListInv, Held
  <2> QED
    BY <2>1, <2>2, <2>3 DEF Held, Undisturbed, Counted, Appending, Removing
<1>4. ASSUME StoreEntry PROVE ListInv'
  <2>1. /\ main.at = "storing"
        /\ connections' = [connections EXCEPT ![main.slot] = main.fd]
        /\ main' = [main EXCEPT !.at = "accepting"]
        /\ UNCHANGED <<sock, num_connections, udp, shaken>>
    BY <1>4 DEF StoreEntry
  <2>2. main'.at = "accepting" /\ main.slot \in Nat /\ main.slot < MaxConnections
    BY <2>1 DEF TypeOK, Main
  <2> SUFFICES ASSUME NEW f \in Fd, Sure(f)' PROVE Held(f)'
    BY DEF ListInv, Held
  <2>3. Sure(f) /\ Held(f)
    BY <2>1, <2>2 DEF Sure, ListInv, Held
  <2>4. ~Removing /\ num_connections = main.slot + 1 /\ num_connections' = main.slot + 1
    BY <2>1, <2>3 DEF Held, Undisturbed, Appending
  <2>5. Undisturbed' /\ Counted' = main.slot + 1 /\ ~Removing'
    BY <2>1, <2>2, <2>4 DEF Undisturbed, Counted, Appending, Removing
  <2>6. main.slot \in 0 .. MaxConnections
    BY <2>2, TransferAssumption
  <2>7. CASE main.client = sock[f]
    <3>1. f = main.fd
      BY <2>1, <2>7 DEF SockInv
    <3>2. connections'[main.slot] = f
      BY <2>1, <2>6, <3>1 DEF TypeOK
    <3> QED
      BY <2>2, <2>5, <3>2 DEF Held
  <2>8. CASE main.client # sock[f]
    <3>1. PICK i \in 0 .. main.slot - 1 : connections[i] = f
      BY <2>1, <2>3, <2>8 DEF Held, Counted
    <3>2. connections'[i] = f /\ i \in 0 .. main.slot
      BY <2>1, <2>2, <3>1 DEF TypeOK
    <3> QED
      BY <2>2, <2>5, <3>2 DEF Held
  <2> QED
    BY <2>7, <2>8
<1>5. ASSUME DropLast PROVE ListInv'
  <2>1. /\ udp.at = "found" /\ num_connections' = udp.count - 1
        /\ udp' = [udp EXCEPT !.at = "moving"]
        /\ UNCHANGED <<sock, connections, main, shaken>>
    BY <1>5 DEF DropLast
  <2>2. udp'.at = "moving" /\ udp'.fd = udp.fd /\ udp'.entry = udp.entry
        /\ udp'.count = udp.count /\ udp.count \in Nat
    BY <2>1 DEF TypeOK, Udp
  <2> SUFFICES ASSUME NEW f \in Fd, Sure(f)' PROVE Held(f)'
    BY DEF ListInv, Held
  <2>3. Sure(f) /\ Held(f)
    BY <2>1 DEF Sure, ListInv, Held
  <2> QED
    BY <2>1, <2>2, <2>3 DEF Held, Undisturbed, Counted, Appending, Removing
<1>6. ASSUME MoveLast PROVE ListInv'
  <2>1. /\ udp.at = "moving" /\ udp' = Idling
        /\ connections' = [connections EXCEPT ![udp.entry] = connections[num_connections]]
        /\ UNCHANGED <<sock, num_connections, main, shaken>>
    BY <1>6 DEF MoveLast
  <2>2. udp.entry \in Nat /\ udp.entry < udp.count /\ udp.count <= MaxConnections
        /\ udp.count \in Nat /\ MaxConnections \in Nat /\ num_connections \in Nat
    BY <2>1, TransferAssumption DEF TypeOK, Udp
  <2> SUFFICES ASSUME NEW f \in Fd, Sure(f)' PROVE Held(f)'
    BY DEF ListInv, Held
  <2>3. Sure(f) /\ Held(f)
    BY <2>1 DEF Sure, ListInv, Held
  <2>4. /\ ~Appending /\ connections[udp.entry] = udp.fd
        /\ udp.count = num_connections + 1
    BY <2>1, <2>3 DEF Held, Undisturbed, Removing
  <2>5. Undisturbed' /\ Counted' = num_connections /\ ~Removing'
    BY <2>1, <2>4 DEF Undisturbed, Counted, Appending, Removing, Idling
  <2>6. CASE main.at # "accepting" /\ main.client = sock[f]
    BY <2>1, <2>5, <2>6 DEF Held
  <2>7. CASE ~(main.at # "accepting" /\ main.client = sock[f])
    <3>1. udp.fd # f
      BY <2>1, <2>3, <2>7 DEF Held, Removing
    <3>2. PICK i \in 0 .. num_connections : connections[i] = f
      BY <2>1, <2>2, <2>3, <2>4, <2>7 DEF Held, Counted, Appending
    <3>3. i # udp.entry
      BY <2>4, <3>1, <3>2
    <3>4. CASE i = num_connections
      <4>1. udp.entry \in 0 .. num_connections - 1
        BY <2>2, <2>4, <3>3, <3>4
      <4>2. connections'[udp.entry] = f
        BY <2>1, <2>2, <3>2, <3>4 DEF TypeOK
      <4> QED
        BY <2>5, <4>1, <4>2 DEF Held
    <3>5. CASE i # num_connections
      <4>1. i \in 0 .. num_connections - 1
        BY <2>2, <3>5
      <4>2. connections'[i] = f
        BY <2>1, <2>2, <2>4, <3>2, <3>3 DEF TypeOK
      <4> QED
        BY <2>5, <4>1, <4>2 DEF Held
    <3> QED
      BY <3>4, <3>5
  <2> QED
    BY <2>6, <2>7
<1>7. ASSUME NEW p \in net, Synack(p) PROVE ListInv'
  <2>1. p.fd \in Fd /\ ~Removing
    BY <1>7 DEF TypeOK, Packet, Synack, HeaderFails, NotListed, ChunkFails, LastChunk,
       ForwardChunk, Blocks, IsSynack, Idling, Removing
  <2>2. CASE HeaderFails(p)
    BY <2>1, <2>2, HeldInRemoval DEF HeaderFails
  <2>3. CASE ~HeaderFails(p)
    <3>1. /\ UNCHANGED <<arrayVars, main, shaken>> /\ ~Removing'
          /\ \A fd \in Fd : sock'[fd] \in {sock[fd], Nobody}
      BY <1>7, <2>1, <2>3 DEF Synack, NotListed, ChunkFails, LastChunk, ForwardChunk,
         Blocks, Close, Removing, TypeOK
    <3> QED
      BY <2>1, <3>1, HeldAnyway
  <2> QED
    BY <2>2, <2>3
<1>8. ASSUME SecondClose PROVE ListInv'
  <2>1. udp.fd \in Fd /\ ~Removing
    BY <1>8 DEF SecondClose, Removing, TypeOK
  <2> QED
    BY <1>8, <2>1, HeldInRemoval DEF SecondClose
<1>9. ASSUME UNCHANGED <<sock, arrayVars, main, udp, shaken>> PROVE ListInv'
  BY <1>9 DEF ListInv, Sure, Undisturbed, Counted, Appending, Removing, arrayVars
<1> QED
  BY <1>1, <1>2, <1>3, <1>4, <1>5, <1>6, <1>7, <1>8, <1>9
     DEF Next, AppendStep, RemoveStep, View, Ask, Hangup, LoseDatagram, ServeChunk,
         ServeNothing, vars, transferVars

(* The list is in order for those whose places are sure.                   *)
THEOREM ListSound == Spec => []ListInv
<1>1. Init => ListInv
  BY DEF Init, ListInv, Sure
<1>2. TypeOK /\ SockInv /\ ListInv /\ [Next]_vars => ListInv'
  BY ListStep
<1> QED
  BY <1>1, <1>2, TypeCorrect, SocketsSound, PTL DEF Spec

(* Whoever is sure of a place is found there, or still being appended.     *)
LEMMA SureIsListed ==
  ASSUME TypeOK, ListInv, NEW fd \in Fd, sock[fd] \notin shaken \union {Nobody}
  PROVE  /\ InList(fd) \/ (main.at # "accepting" /\ main.client = sock[fd])
         /\ udp.at # "moving" =>
              Listed(fd) \/ (main.at # "accepting" /\ main.client = sock[fd])
<1>1. CASE main.at # "accepting" /\ main.client = sock[fd]
  BY <1>1
<1>2. CASE ~(main.at # "accepting" /\ main.client = sock[fd])
  <2>1. Sure(fd) /\ Undisturbed
    BY <1>2 DEF Sure, ListInv
  <2>2. PICK i \in 0 .. Counted - 1 : connections[i] = fd
    BY <1>2, <2>1 DEF ListInv
  <2>3. num_connections \in Nat /\ main.slot \in Nat
    BY TransferAssumption DEF TypeOK, Main
  <2>4. CASE udp.at = "moving"
    <3>1. Counted = num_connections + 1
      BY <2>1, <2>4 DEF Undisturbed, Counted, Appending, Removing
    <3> QED
      BY <2>2, <2>3, <2>4, <3>1 DEF InList, Listed, Entries
  <2>5. CASE udp.at # "moving"
    <3>1. i \in 0 .. num_connections - 1
      BY <2>1, <2>2, <2>3, <2>5 DEF Undisturbed, Counted
    <3> QED
      BY <2>2, <3>1 DEF InList, Listed, Entries
  <2> QED
    BY <2>4, <2>5
<1> QED
  BY <1>1, <1>2

(* A connected client is in connections[], whatever fails or is delivered  *)
(* twice and however the main and the UDP thread take turns, unless an     *)
(* append and a removal overlapped while it was connected: nothing that    *)
(* went wrong before it came takes its place away.                         *)
THEOREM OpenListed == Spec => []OpenIsListed
<1>1. TypeOK /\ ListInv => OpenIsListed
  BY SureIsListed DEF OpenIsListed
<1> QED
  BY <1>1, TypeCorrect, ListSound, PTL

(* A connection that has ended stays ended and receives nothing more.      *)
THEOREM ClosedFinal == Spec => ClosedIsFinal
<1>1. TypeOK /\ SockInv /\ [Next]_vars =>
        [\A c \in Client : ended[c] # "open" =>
           body'[c] = body[c] /\ ended'[c] = ended[c]]_vars
  BY SockStep
<1> QED
  BY <1>1, TypeCorrect, SocketsSound, PTL DEF Spec, ClosedIsFinal

-----------------------------------------------------------------------------
(* The streams, while no client hangs up and no datagram arrives twice.    *)
NoHangupOrRepeat == MaxHangups = 0 /\ MaxTwice = 0

(* The parameters of a request and of its answer.                          *)
LEMMA WantTypes ==
  ASSUME NEW c \in Client
  PROVE  /\ Want[c].path \in Path /\ Want[c].range \in BOOLEAN
         /\ Want[c].start \in Int /\ Want[c].end \in Int
         /\ First(c) \in Int /\ Last(c) \in Int /\ FileSize(c) \in Int
         /\ Chunk \in Nat /\ Chunk > 0
BY StreamAssumption DEF Request, First, Last, FileSize

(* The items of an answer are items.                                       *)
LEMMA ItemTypes ==
  ASSUME NEW c \in Client, NEW i \in Nat
  PROVE  Item(c, i) \in ItemType
<1>1. (i - 2) * Chunk \in Int
  BY WantTypes
<1> DEFINE from == First(c) + (i - 2) * Chunk
           size == Smaller(Chunk, Last(c) - from + 1)
<1>2. from \in Int /\ size \in Int /\ Chunk - size \in Int
  BY <1>1, WantTypes DEF Smaller
<1> QED
  BY <1>1, <1>2, WantTypes DEF Item, ItemType

(* A function on 1 .. k is a sequence of length k.                         *)
LEMMA SeqOfFunction ==
  ASSUME NEW S, NEW k \in Nat, NEW f \in [1 .. k -> S]
  PROVE  f \in Seq(S) /\ Len(f) = k
OBVIOUS

(* The first k items of an answer are a sequence of length k.              *)
LEMMA StreamTypes ==
  ASSUME NEW c \in Client, NEW k \in Nat
  PROVE  Stream(c, k) \in Seq(ItemType) /\ Len(Stream(c, k)) = k
<1>1. Stream(c, k) \in [1 .. k -> ItemType]
  BY ItemTypes DEF Stream
<1> QED
  BY <1>1, SeqOfFunction

(* A stream grows by its next item.                                        *)
LEMMA StreamGrows ==
  ASSUME NEW c \in Client, NEW k \in Nat
  PROVE  Stream(c, k) \o <<Item(c, k + 1)>> = Stream(c, k + 1)
<1> DEFINE t == Stream(c, k) \o <<Item(c, k + 1)>>
<1>1. Item(c, k + 1) \in ItemType
  BY ItemTypes
<1>2. t \in Seq(ItemType) /\ Len(t) = k + 1
  BY <1>1, StreamTypes
<1>3. \A i \in 1 .. k + 1 : t[i] = Item(c, i)
  BY <1>1, StreamTypes DEF Stream
<1>4. Stream(c, k + 1) \in Seq(ItemType) /\ Len(Stream(c, k + 1)) = k + 1
  BY StreamTypes
<1>5. \A i \in 1 .. k + 1 : t[i] = Stream(c, k + 1)[i]
  BY <1>3 DEF Stream
<1> QED
  BY <1>2, <1>4, <1>5, SeqEqual

(* Nothing of an answer is the empty sequence.                             *)
LEMMA StreamEmpty == \A c \in Client : Stream(c, 0) = << >>
BY DEF Stream

(* The chunk after next starts one chunk further.                          *)
LEMMA NextStart ==
  ASSUME NEW c \in Client, NEW k \in Nat
  PROVE  /\ k * Chunk \in Int /\ (k + 1) * Chunk \in Int
         /\ First(c) + (k + 1) * Chunk = First(c) + k * Chunk + Chunk
<1>1. k * Chunk \in Int /\ (k + 1) * Chunk = k * Chunk + Chunk
  BY WantTypes
<1> QED
  BY <1>1, WantTypes

(* Chunks before one that has a byte of the answer are full.               *)
LEMMA EarlierFull ==
  ASSUME NEW c \in Client, NEW n \in Nat, First(c) + n * Chunk <= Last(c),
         NEW i \in 1 .. n + 1
  PROVE  Item(c, i).pad = 0
<1>1. CASE i = 1
  BY <1>1 DEF Item
<1>2. CASE i # 1
  <2> DEFINE k == i - 2
  <2>1. k \in Nat /\ n - (k + 1) \in Nat
    BY <1>2
  <2>2. \A a, b \in Nat : a * b \in Nat
    OBVIOUS
  <2>3. (n - (k + 1)) * Chunk \in Nat
    BY <2>1, <2>2, WantTypes
  <2>4. n * Chunk = k * Chunk + Chunk + (n - (k + 1)) * Chunk
    BY <2>1, WantTypes
  <2>5. k * Chunk \in Int /\ n * Chunk \in Int
    BY <2>1, WantTypes
  <2>6. Chunk <= Last(c) - (First(c) + k * Chunk) + 1
    BY <2>3, <2>4, <2>5, WantTypes
  <2>7. Smaller(Chunk, Last(c) - (First(c) + k * Chunk) + 1) = Chunk
    BY <2>5, <2>6, WantTypes DEF Smaller
  <2> QED
    BY <1>2, <2>7, WantTypes DEF Item
<1> QED
  BY <1>1, <1>2

(* A chunk the holder reads is the one the stream has there: end_byte is   *)
(* corrected to the last byte of the answer, and fread does not read past  *)
(* it.                                                                     *)
LEMMA ChunkedCarries ==
  ASSUME TypeOK, NEW p \in net, NEW c \in Client,
         p.type = "ack", CanAnswer(p), Carries(p, c)
  PROVE  Carries(Chunked(p), c)
<1> DEFINE q == Chunked(p)
<1>1. /\ p \in Packet
      /\ p.num \in Nat /\ p.start \in Int /\ p.end \in Int
  BY DEF TypeOK, Packet
<1>2. /\ p.path = Want[c].path /\ p.range = Want[c].range
      /\ FileSize(c) = Size[p.path]
      /\ p.start = First(c) + p.num * Chunk
  BY DEF Carries, FileSize
<1>3. /\ q.type = "synack" /\ q.path = p.path /\ q.range = p.range
      /\ q.start = p.start /\ q.num = p.num
      /\ q.end = EndByte(p) /\ q.size = BytesRead(p)
      /\ p.num = 0 => q.length = FileSize(c)
  BY <1>1, <1>2 DEF Chunked, Packet
<1>4. p.start >= 0 /\ FileSize(c) # -1 /\ FileSize(c) \in Nat /\ BytesRead(p) > 0
  BY <1>2, StreamAssumption, WantTypes DEF CanAnswer
<1>5. EndByte(p) = Last(c) /\ Last(c) < FileSize(c)
  <2>1. CASE p.num = 0
    <3>1. p.end = Want[c].end /\ First(c) = p.start
      BY <1>1, <1>2, <2>1, WantTypes DEF Carries
    <3>2. Want[c].end \in {-1, 0} \/ Want[c].end >= 0
      BY <1>4, <3>1, StreamAssumption, WantTypes DEF First
    <3> QED
      BY <1>2, <1>4, <2>1, <3>1, <3>2, WantTypes DEF EndByte, Last
  <2>2. CASE p.num # 0
    BY <1>2, <1>4, <2>2, WantTypes DEF Carries, EndByte, Last
  <2> QED
    BY <2>1, <2>2
<1>6. BytesRead(p) = Smaller(Chunk, Last(c) - p.start + 1)
  <2>1. CASE p.range
    <3>1. NeedToRead(p) = Smaller(Chunk, Last(c) - p.start + 1)
      BY <1>5, <2>1 DEF NeedToRead
    <3>2. BytesRead(p) = Smaller(NeedToRead(p), FileSize(c) - p.start)
      BY <1>2 DEF BytesRead
    <3> QED
      BY <1>1, <1>4, <1>5, <3>1, <3>2, WantTypes DEF Smaller
  <2>2. CASE ~p.range
    <3>1. Want[c].end = -1
      BY <1>2, <2>2, StreamAssumption
    <3>2. Last(c) = FileSize(c) - 1
      BY <3>1, WantTypes DEF Last
    <3>3. BytesRead(p) = Smaller(Chunk, FileSize(c) - p.start)
      BY <1>2, <2>2 DEF BytesRead, NeedToRead
    <3> QED
      BY <1>1, <3>2, <3>3, WantTypes
  <2> QED
    BY <2>1, <2>2
<1> QED
  BY <1>2, <1>3, <1>4, <1>5, <1>6 DEF Carries

(* The header is the first thing in the stream.                            *)
LEMMA FirstHeader ==
  ASSUME NEW c \in Client, NEW p \in Packet, p.type = "synack", p.num = 0, Carries(p, c)
  PROVE  Header(p) = <<Item(c, 1)>> /\ <<Item(c, 1)>> = Stream(c, 1)
<1>1. Header(p) = <<Item(c, 1)>>
  <2>1. p.start = First(c) /\ p.length = FileSize(c) /\ p.path = Want[c].path
    BY WantTypes DEF Carries, Packet
  <2> QED
    BY <2>1 DEF Header, Item
<1>2. Stream(c, 0) \o <<Item(c, 0 + 1)>> = Stream(c, 0 + 1)
  BY StreamGrows
<1>3. <<Item(c, 1)>> \in Seq(ItemType)
  BY ItemTypes
<1>4. <<Item(c, 1)>> = Stream(c, 1)
  BY <1>2, <1>3, StreamEmpty, ConcatEmptySeq
<1> QED
  BY <1>1, <1>4

(* What is sent for a chunk continues the client's stream.                 *)
LEMMA SentContinues ==
  ASSUME TypeOK, NEW p \in net, NEW c \in Client, p.type = "synack",
         Carries(p, c), body[c] = Stream(c, Len(body[c]))
  PROVE  /\ body[c] \o (Header(p) \o Data(p)) = Stream(c, p.num + 2)
         /\ p.size < Chunk => IsWhole(c, p.num + 2)
         /\ \A i \in 1 .. p.num + 1 : Item(c, i).pad = 0
         /\ ~IsWhole(c, Len(body[c]))
<1>1. /\ p \in Packet /\ p.num \in Nat /\ p.start \in Int
      /\ p.size \in Int /\ p.path = Want[c].path
      /\ p.start = First(c) + p.num * Chunk
      /\ p.size = Smaller(Chunk, Last(c) - p.start + 1)
  BY DEF TypeOK, Packet, Carries
<1>2. Data(p) = <<Item(c, p.num + 2)>>
  <2>1. p.num + 2 # 1 /\ (p.num + 2) - 2 = p.num
    BY <1>1
  <2> QED
    BY <1>1, <2>1 DEF Data, Item
<1>3. body[c] \o (Header(p) \o Data(p)) = Stream(c, p.num + 2)
  <2>1. CASE p.num = 0
    <3>1. body[c] = << >>
      BY <2>1, StreamEmpty DEF Carries
    <3>2. Header(p) = <<Item(c, 1)>>
      BY <1>1, <2>1, FirstHeader
    <3>3. <<Item(c, 1)>> = Stream(c, 1)
      BY <1>1, <2>1, FirstHeader
    <3>4. Stream(c, 1) \o <<Item(c, 2)>> = Stream(c, 2)
      BY StreamGrows
    <3>5. << >> \o Stream(c, 2) = Stream(c, 2)
      BY StreamTypes, ConcatEmptySeq
    <3>6. p.num + 2 = 2
      BY <2>1
    <3> QED
      BY <1>2, <3>1, <3>2, <3>3, <3>4, <3>5, <3>6
  <2>2. CASE p.num # 0
    <3>1. Header(p) = << >> /\ Len(body[c]) = p.num + 1
      BY <2>2 DEF Header, Carries
    <3>2. Header(p) \o Data(p) = <<Item(c, p.num + 2)>>
      BY <1>1, <1>2, <3>1, ItemTypes, ConcatEmptySeq
    <3>3. body[c] = Stream(c, p.num + 1)
      BY <3>1
    <3>4. (p.num + 1) + 1 = p.num + 2 /\ p.num + 1 \in Nat
      BY <1>1
    <3> QED
      BY <3>2, <3>3, <3>4, StreamGrows
  <2> QED
    BY <2>1, <2>2
<1>4. ASSUME p.size < Chunk PROVE IsWhole(c, p.num + 2)
  <2>1. p.start + Chunk > Last(c)
    BY <1>1, <1>4, WantTypes DEF Smaller
  <2>2. First(c) + (p.num + 1) * Chunk = p.start + Chunk
    BY <1>1, NextStart
  <2>3. (p.num + 2) - 1 = p.num + 1 /\ p.num + 2 >= 2
    BY <1>1
  <2> QED
    BY <2>1, <2>2, <2>3 DEF IsWhole
<1>5. p.start <= Last(c)
  <2>1. p.size > 0
    BY DEF Carries
  <2> QED
    BY <1>1, <2>1, WantTypes DEF Smaller
<1>6. \A i \in 1 .. p.num + 1 : Item(c, i).pad = 0
  BY <1>1, <1>5, EarlierFull
<1>7. ~IsWhole(c, Len(body[c]))
  <2>1. CASE p.num = 0
    BY <2>1 DEF Carries, IsWhole
  <2>2. CASE p.num # 0
    <3>1. Len(body[c]) = p.num + 1 /\ (p.num + 1) - 1 = p.num
      BY <1>1, <2>2 DEF Carries
    <3>2. ~(p.start > Last(c))
      BY <1>1, <1>5, WantTypes
    <3> QED
      BY <1>1, <3>1, <3>2 DEF IsWhole
  <2> QED
    BY <2>1, <2>2
<1> QED
  BY <1>3, <1>4, <1>6, <1>7

-----------------------------------------------------------------------------
(* Without repetitions a handled datagram is off the network.              *)
LEMMA ReceivedOnce ==
  ASSUME MaxTwice = 0, TransferInv, NEW p, NEW sent, Receive(p, sent)
  PROVE  net' = (net \ {p}) \union sent /\ twice' = 0
BY TransferAssumption DEF TransferInv, Receive

(* What a datagram carries is still right when its client has received     *)
(* nothing.                                                                *)
LEMMA StillCarries ==
  ASSUME NEW q, NEW c, body'[c] = body[c], Carries(q, c)
  PROVE  Carries(q, c)'
BY DEF Carries

(* A datagram finds the descriptor of its client open and usable.          *)
LEMMA Addressed ==
  ASSUME TypeOK, SockInv, TransferInv, NEW p \in net
  PROVE  /\ p.asker \in Client /\ p.fd \in Fd
         /\ sock[p.fd] = p.asker /\ p.asker # Nobody
         /\ ended[p.asker] = "open"
         /\ ~SendCanFail(p.fd)
         /\ Carries(p, p.asker) /\ p.asker \in asked
         /\ \A q \in net \ {p} : q.asker # p.asker /\ q.fd # p.fd
<1>1. p.asker \in Client /\ p.fd \in Fd
  BY DEF TypeOK, Packet
<1>2. /\ sock[p.fd] = p.asker /\ p.asker \in asked /\ Carries(p, p.asker)
      /\ \A q \in net \ {p} : q.asker # p.asker /\ sock[q.fd] = q.asker
  BY DEF TransferInv, OneDatagram
<1>3. p.asker # Nobody
  BY <1>1, TransferAssumption
<1>4. ended[p.asker] = "open"
  BY <1>1, <1>2, <1>3 DEF SockInv
<1>5. ~SendCanFail(p.fd)
  BY <1>2, <1>3 DEF SendCanFail, TransferInv
<1> QED
  BY <1>1, <1>2, <1>3, <1>4, <1>5

(* A chunk for p.asker, forwarded or last: its client's stream grows, and  *)
(* all others are as they were.                                            *)
LEMMA Delivered ==
  ASSUME TypeOK, SockInv, TransferInv, NEW p \in net, p.type = "synack",
         body' = Received(p.fd, Header(p) \o Data(p))
  PROVE  /\ body' = [body EXCEPT ![p.asker] = Stream(p.asker, p.num + 2)]
         /\ p.num + 2 \in Len(body[p.asker]) + 1 .. Len(body[p.asker]) + 2
         /\ Len(body'[p.asker]) = p.num + 2
         /\ OwnStream'
         /\ \A c \in Client \ asked : body'[c] = << >>
         /\ p.size < Chunk => IsWhole(p.asker, p.num + 2)
         /\ ~IsWhole(p.asker, Len(body[p.asker]))
<1> DEFINE c == p.asker
<1>1. c \in Client /\ sock[p.fd] = c /\ hung = {} /\ Carries(p, c) /\ c \in asked
  BY Addressed DEF TransferInv
<1>2. p.num \in Nat
  BY DEF TypeOK, Packet
<1>3. body[c] = Stream(c, Len(body[c]))
  BY <1>1 DEF TransferInv, OwnStream
<1>4. /\ body[c] \o (Header(p) \o Data(p)) = Stream(c, p.num + 2)
      /\ p.size < Chunk => IsWhole(c, p.num + 2)
      /\ \A i \in 1 .. p.num + 1 : Item(c, i).pad = 0
      /\ ~IsWhole(c, Len(body[c]))
  BY <1>1, <1>3, SentContinues
<1>5. body' = [body EXCEPT ![c] = Stream(c, p.num + 2)]
  BY <1>1, <1>4 DEF Received
<1>6. p.num + 2 \in Len(body[c]) + 1 .. Len(body[c]) + 2
  BY <1>1, <1>2 DEF Carries
<1>7. body'[c] = Stream(c, p.num + 2) /\ Len(body'[c]) = p.num + 2
  <2>1. body \in [Client -> Seq(ItemType)] /\ p.num + 2 \in Nat
    BY <1>2 DEF TypeOK
  <2> QED
    BY <1>1, <1>5, <2>1, StreamTypes
<1>8. OwnStream'
  <2> SUFFICES ASSUME NEW d \in Client
               PROVE  /\ body'[d] = Stream(d, Len(body'[d]))
                      /\ \A i \in 1 .. Len(body'[d]) - 1 : body'[d][i].pad = 0
    BY DEF OwnStream
  <2>1. CASE d = c
    <3>1. \A i \in 1 .. p.num + 1 : Stream(c, p.num + 2)[i] = Item(c, i)
      BY <1>2 DEF Stream
    <3> QED
      BY <1>2, <1>4, <1>7, <2>1, <3>1
  <2>2. CASE d # c
    BY <1>5, <2>2 DEF TransferInv, OwnStream, TypeOK
  <2> QED
    BY <2>1, <2>2
<1>9. \A d \in Client \ asked : body'[d] = << >>
  BY <1>1, <1>5 DEF TransferInv, TypeOK
<1> QED
  BY <1>4, <1>5, <1>6, <1>7, <1>8, <1>9

(* The chunks a client has had come with the ack for the next.             *)
LEMMA NextCarries ==
  ASSUME TypeOK, NEW p \in net, NEW c \in Client, p.type = "synack",
         Carries(p, c), Len(body'[c]) = p.num + 2
  PROVE  Carries(NextAck(p), c)'
<1> DEFINE q == NextAck(p)
<1>1. p \in Packet /\ p.num \in Nat /\ p.start \in Int
  BY DEF TypeOK, Packet
<1>2. /\ q.type = "ack" /\ q.num = p.num + 1 /\ q.start = p.start + Chunk
      /\ q.path = p.path /\ q.range = p.range /\ q.end = p.end
  BY <1>1 DEF NextAck, Packet
<1>3. /\ p.path = Want[c].path /\ p.range = Want[c].range
      /\ p.start = First(c) + p.num * Chunk
      /\ p.end = Last(c) /\ p.start >= 0 /\ FileSize(c) # -1
  BY DEF Carries
<1>4. q.start = First(c) + q.num * Chunk /\ q.start >= 0
  <2>1. First(c) + (p.num + 1) * Chunk = p.start + Chunk
    BY <1>1, <1>3, NextStart
  <2>2. p.start + Chunk >= 0
    BY <1>1, <1>3, WantTypes
  <2> QED
    BY <1>2, <2>1, <2>2
<1>5. q.num # 0 /\ Len(body'[c]) = q.num + 1
  BY <1>1, <1>2
<1> QED
  BY <1>2, <1>3, <1>4, <1>5 DEF Carries

(* A request that is read starts a transfer for its client.                *)
LEMMA AskStep ==
  ASSUME TypeOK, SockInv, TransferInv, NEW c \in Client, NEW fd \in Fd,
         sock[fd] = c, Ask(c, fd)
  PROVE  TransferInv' /\ UNCHANGED streamVars
<1> DEFINE a == [type |-> "ack", fd |-> fd, asker |-> c, path |-> Want[c].path,
                 range |-> Want[c].range, num |-> 0, start |-> Want[c].start,
                 end |-> Want[c].end, size |-> 0, length |-> 0]
<1>1. /\ c \notin asked /\ asked' = asked \union {c}
      /\ net' = net \union {a}
      /\ UNCHANGED <<body, ended, sock, hung, twice, udp>>
  BY DEF Ask
<1>2. \A p \in net : p.asker # c /\ Carries(p, p.asker)'
  BY <1>1, Addressed, StillCarries
<1>3. Carries(a, c)'
  <2>1. body'[c] = << >> /\ Len(body'[c]) = 0
    BY <1>1 DEF TransferInv
  <2>2. First(c) + 0 * Chunk = Want[c].start
    BY WantTypes DEF First
  <2> QED
    BY <2>1, <2>2 DEF Carries
<1>4. OneDatagram'
  BY <1>1, <1>2 DEF TransferInv, OneDatagram
<1> QED
  BY <1>1, <1>2, <1>3, <1>4 DEF TransferInv, OwnStream, DoneIsWhole, streamVars

(* A chunk that is dropped for want of an entry: its client may have the   *)
(* header, and nothing else.                                               *)
LEMMA NotListedStep ==
  ASSUME MaxTwice = 0, TypeOK, SockInv, TransferInv, NEW p \in net, NotListed(p)
  PROVE  TransferInv' /\ [StreamNext]_streamVars
<1> DEFINE c == p.asker
<1>1. /\ c \in Client /\ p.fd \in Fd /\ sock[p.fd] = c /\ ended[c] = "open"
      /\ c \in asked /\ Carries(p, c) /\ hung = {}
      /\ \A q \in net \ {p} : q.asker # c /\ q.asker \in Client
                              /\ q.asker \in asked /\ Carries(q, q.asker)
  BY Addressed DEF TransferInv
<1>2. /\ net' = net \ {p} /\ twice' = 0 /\ p.type = "synack"
      /\ body' = Received(p.fd, Header(p))
      /\ UNCHANGED <<ended, sock, asked, hung, udp>>
  <2>1. net' = (net \ {p}) \union {} /\ twice' = 0
    BY ReceivedOnce DEF NotListed
  <2> QED
    BY <2>1 DEF NotListed, IsSynack
<1>3. p.num \in Nat /\ p \in Packet
  BY DEF TypeOK, Packet
<1>4. body' = [body EXCEPT ![c] = @ \o Header(p)]
  BY <1>1, <1>2 DEF Received
<1>5. \A d \in Client \ {c} : body'[d] = body[d]
  BY <1>4 DEF TypeOK
<1>6. OneDatagram' /\ \A q \in net' : q.asker \in asked' /\ Carries(q, q.asker)'
  BY <1>1, <1>2, <1>5, StillCarries DEF TransferInv, OneDatagram
<1>7. CASE p.num = 0
  <2>1. body[c] = << >>
    BY <1>1, <1>7, StreamEmpty DEF Carries, TransferInv, OwnStream
  <2>2. Header(p) = <<Item(c, 1)>> /\ <<Item(c, 1)>> = Stream(c, 1)
    BY <1>1, <1>2, <1>3, <1>7, FirstHeader DEF Carries
  <2>3. body'[c] = Stream(c, 1) /\ Len(body'[c]) = 1
    BY <1>1, <1>4, <2>1, <2>2, StreamTypes, ConcatEmptySeq DEF TypeOK
  <2>4. OwnStream'
    <3> SUFFICES ASSUME NEW d \in Client
                 PROVE  /\ body'[d] = Stream(d, Len(body'[d]))
                        /\ \A i \in 1 .. Len(body'[d]) - 1 : body'[d][i].pad = 0
      BY DEF OwnStream
    <3>1. CASE d = c
      <4>1. 1 .. 1 - 1 = {}
        OBVIOUS
      <4> QED
        BY <2>3, <3>1, <4>1
    <3>2. CASE d # c
      BY <1>5, <3>2 DEF TransferInv, OwnStream
    <3> QED
      BY <3>1, <3>2
  <2>5. DoneIsWhole'
    BY <1>1, <1>2, <1>5 DEF TransferInv, DoneIsWhole
  <2>6. TransferInv'
    BY <1>1, <1>2, <1>5, <1>6, <2>4, <2>5 DEF TransferInv
  <2>7. Continue(c)
    <3>1. Len(body[c]) = 0 /\ ~IsWhole(c, 0) /\ 1 \in 0 + 1 .. 0 + 2
      BY <2>1 DEF IsWhole
    <3>2. body' = [body EXCEPT ![c] = Stream(c, 1)]
      BY <1>1, <1>4, <2>3 DEF TypeOK
    <3> QED
      BY <1>1, <1>2, <3>1, <3>2 DEF Continue, Deliver
  <2> QED
    BY <1>1, <2>6, <2>7 DEF StreamNext
<1>8. CASE p.num # 0
  <2>1. body'[c] = body[c]
    <3>1. Header(p) = << >> /\ body[c] \in Seq(ItemType)
      BY <1>1, <1>8 DEF Header, TypeOK
    <3> QED
      BY <1>1, <1>4, <3>1, ConcatEmptySeq DEF TypeOK
  <2>2. body' = body
    BY <1>1, <1>4, <2>1 DEF TypeOK
  <2> QED
    BY <1>2, <1>6, <2>2 DEF TransferInv, OwnStream, DoneIsWhole, streamVars
<1> QED
  BY <1>7, <1>8

(* One step after which nobody has hung up: the invariant holds again, and *)
(* the step is one of FileStream or changes no stream.                     *)
LEMMA TransferStep ==
  ASSUME MaxTwice = 0, TypeOK, SockInv, TransferInv, [Next]_vars, hung' = {}
  PROVE  TransferInv' /\ [StreamNext]_streamVars
<1>1. ASSUME NEW c \in Client, NEW fd \in Fd, Accept(c, fd)
      PROVE  TransferInv' /\ UNCHANGED streamVars
  <2>1. /\ sock[fd] = Nobody /\ sock' = [sock EXCEPT ![fd] = c]
        /\ UNCHANGED <<body, ended, net, asked, hung, twice, udp>>
    BY <1>1 DEF Accept
  <2>2. \A p \in net : p.fd \in Fd /\ p.fd # fd /\ Carries(p, p.asker)'
    BY <2>1, Addressed, StillCarries
  <2>3. OneDatagram'
    BY <2>1, <2>2 DEF TransferInv, OneDatagram, TypeOK
  <2> QED
    BY <2>1, <2>2, <2>3 DEF TransferInv, OwnStream, DoneIsWhole, streamVars
<1>2. ASSUME NEW c \in Client, NEW fd \in Fd, View(c, fd)
      PROVE  TransferInv' /\ UNCHANGED streamVars
  BY <1>2, AskStep DEF View
<1>3. ASSUME NEW c \in Client, Hangup(c) PROVE FALSE
  BY <1>3 DEF Hangup
<1>4. ASSUME NEW p \in net, LoseDatagram(p) \/ ServeNothing(p)
      PROVE  TransferInv' /\ UNCHANGED streamVars
  <2>1. /\ net' = net \ {p} /\ twice' = 0
        /\ UNCHANGED <<body, ended, sock, asked, hung, udp>>
    BY <1>4, ReceivedOnce DEF LoseDatagram, ServeNothing, TransferInv
  <2>2. \A q \in net : Carries(q, q.asker)'
    BY <2>1, Addressed, StillCarries
  <2> QED
    BY <2>1, <2>2 DEF TransferInv, OneDatagram, OwnStream, DoneIsWhole, streamVars
<1>5. ASSUME NEW p \in net, ServeChunk(p)
      PROVE  TransferInv' /\ UNCHANGED streamVars
  <2> DEFINE r == Chunked(p)
  <2>1. /\ p.type = "ack" /\ CanAnswer(p)
        /\ net' = (net \ {p}) \union {r} /\ twice' = 0
        /\ UNCHANGED <<body, ended, sock, asked, hung, udp>>
    BY <1>5, ReceivedOnce DEF ServeChunk
  <2>2. r.asker = p.asker /\ r.fd = p.fd
    BY DEF Chunked, TypeOK, Packet
  <2>3. Carries(r, p.asker)
    BY <2>1, Addressed, ChunkedCarries
  <2>4. \A q \in net' : q.asker \in asked /\ Carries(q, q.asker)'
    BY <2>1, <2>2, <2>3, Addressed, StillCarries
  <2>5. OneDatagram'
    BY <2>1, <2>2, Addressed DEF TransferInv, OneDatagram
  <2> QED
    BY <2>1, <2>4, <2>5 DEF TransferInv, OwnStream, DoneIsWhole, streamVars
<1>6. ASSUME NEW p \in net, Synack(p), ~Blocks(p), ~NotListed(p)
      PROVE  TransferInv' /\ StreamNext
  <2> DEFINE c == p.asker
             k == p.num + 2
  <2>1. /\ c \in Client /\ p.fd \in Fd /\ sock[p.fd] = c /\ c # Nobody
        /\ ended[c] = "open" /\ c \in asked
        /\ \A q \in net \ {p} : q.asker # c /\ q.fd # p.fd /\ q.fd \in Fd
                               /\ q.asker \in Client /\ q.asker \in asked
                               /\ Carries(q, q.asker)
                               /\ sock[q.fd] = q.asker
    BY Addressed
  <2>2. LastChunk(p) \/ ForwardChunk(p)
    BY <1>6, Addressed DEF Synack, HeaderFails, ChunkFails
  <2>3. /\ p.type = "synack"
        /\ body' = Received(p.fd, Header(p) \o Data(p))
        /\ UNCHANGED <<asked, hung, udp>>
    BY <2>2 DEF LastChunk, ForwardChunk, IsSynack
  <2>4. /\ body' = [body EXCEPT ![c] = Stream(c, k)]
        /\ k \in Len(body[c]) + 1 .. Len(body[c]) + 2
        /\ Len(body'[c]) = k
        /\ OwnStream'
        /\ \A d \in Client \ asked : body'[d] = << >>
        /\ p.size < Chunk => IsWhole(c, k)
        /\ ~IsWhole(c, Len(body[c]))
    BY <2>3, Delivered
  <2>5. \A d \in Client \ {c} : body'[d] = body[d]
    BY <2>4 DEF TypeOK
  <2>6. \A q \in net \ {p} : Carries(q, q.asker)'
    BY <2>1, <2>5, StillCarries
  <2>7. Deliver(c, k)
    <3>1. Len(body[c]) \in Nat
      BY <2>1 DEF TypeOK
    <3> QED
      BY <2>1, <2>4, <3>1 DEF Deliver
  <2>8. CASE LastChunk(p)
    <3>1. /\ net' = net \ {p} /\ twice' = 0
          /\ sock' = [sock EXCEPT ![p.fd] = Nobody]
          /\ ended' = [ended EXCEPT ![c] = "done"]
          /\ p.size < Chunk
      <4>1. net' = (net \ {p}) \union {} /\ twice' = 0
        BY <2>8, ReceivedOnce DEF LastChunk
      <4> QED
        BY <2>1, <2>8, <4>1 DEF LastChunk, Close, Closed
    <3>2. OneDatagram'
      BY <2>1, <3>1 DEF TransferInv, OneDatagram, TypeOK
    <3>3. DoneIsWhole'
      <4> SUFFICES ASSUME NEW d \in Client, ended'[d] = "done"
                   PROVE  IsWhole(d, Len(body'[d]))
        BY DEF DoneIsWhole
      <4>1. CASE d = c
        BY <2>4, <3>1, <4>1
      <4>2. CASE d # c
        BY <2>5, <3>1, <4>2 DEF TransferInv, DoneIsWhole, TypeOK
      <4> QED
        BY <4>1, <4>2
    <3>4. TransferInv'
      BY <2>1, <2>3, <2>4, <2>6, <3>1, <3>2, <3>3 DEF TransferInv
    <3>5. Finish(c)
      BY <2>4, <2>7, <3>1 DEF Finish
    <3> QED
      BY <2>1, <3>4, <3>5 DEF StreamNext
  <2>9. CASE ForwardChunk(p)
    <3> DEFINE r == NextAck(p)
    <3>1. /\ net' = (net \ {p}) \union {r} /\ twice' = 0
          /\ sock' = sock /\ ended' = ended
      BY <2>9, ReceivedOnce DEF ForwardChunk
    <3>2. r.asker = c /\ r.fd = p.fd
      BY DEF NextAck, TypeOK, Packet
    <3>3. Carries(r, c)'
      BY <2>1, <2>3, <2>4, Addressed, NextCarries
    <3>4. OneDatagram'
      BY <2>1, <3>1, <3>2 DEF TransferInv, OneDatagram
    <3>5. DoneIsWhole'
      BY <2>1, <2>5, <3>1 DEF TransferInv, DoneIsWhole
    <3>6. \A q \in net' : q.asker \in asked' /\ Carries(q, q.asker)'
      BY <2>1, <2>3, <2>6, <3>1, <3>2, <3>3
    <3>7. TransferInv'
      BY <2>3, <2>4, <3>1, <3>4, <3>5, <3>6 DEF TransferInv
    <3>8. Continue(c)
      BY <2>4, <2>7, <3>1 DEF Continue
    <3> QED
      BY <2>1, <3>7, <3>8 DEF StreamNext
  <2> QED
    BY <2>2, <2>8, <2>9
<1>7. ASSUME NEW p \in net, Blocks(p)
      PROVE  TransferInv' /\ UNCHANGED streamVars
  <2>1. /\ net' = net \ {p} /\ twice' = 0 /\ udp'.at = "blocked"
        /\ UNCHANGED <<body, ended, sock, asked, hung>>
    <3>1. net' = (net \ {p}) \union {} /\ twice' = 0
      BY <1>7, ReceivedOnce DEF Blocks
    <3> QED
      BY <1>7, <3>1 DEF Blocks
  <2>2. \A q \in net : Carries(q, q.asker)'
    BY <2>1, Addressed, StillCarries
  <2> QED
    BY <2>1, <2>2 DEF TransferInv, OneDatagram, OwnStream, DoneIsWhole, streamVars
<1>8. ASSUME AppendStep PROVE TransferInv' /\ UNCHANGED streamVars
  <2>1. UNCHANGED <<body, ended, sock, asked, hung, net, udp, twice>>
    BY <1>8 DEF AppendStep, LoadCount, StoreCount, StoreEntry
  <2>2. \A q \in net : Carries(q, q.asker)'
    BY <2>1, Addressed, StillCarries
  <2> QED
    BY <2>1, <2>2 DEF TransferInv, OneDatagram, OwnStream, DoneIsWhole, streamVars
<1>9. ASSUME RemoveStep PROVE FALSE
  BY <1>9 DEF RemoveStep, SecondClose, DropLast, MoveLast, TransferInv
<1>10. CASE UNCHANGED vars
  <2>1. \A q \in net : Carries(q, q.asker)'
    BY <1>10, Addressed, StillCarries DEF vars
  <2> QED
    BY <1>10, <2>1
       DEF vars, transferVars, streamVars, TransferInv, OneDatagram,
           OwnStream, DoneIsWhole
<1>11. ASSUME NEW p \in net, NotListed(p)
       PROVE  TransferInv' /\ [StreamNext]_streamVars
  BY <1>11, NotListedStep
<1> QED
  BY <1>1, <1>2, <1>3, <1>4, <1>5, <1>6, <1>7, <1>8, <1>9, <1>10, <1>11 DEF Next

(* With no hang-ups to come nobody hangs up.                               *)
LEMMA NoHangup ==
  ASSUME MaxHangups = 0, hung = {}, [Next]_vars
  PROVE  hung' = {}
<1>1. ASSUME NEW c \in Client, Hangup(c) PROVE FALSE
  <2>1. Cardinality({}) < 0
    BY <1>1 DEF Hangup
  <2> QED
    BY <2>1, FS_EmptySet
<1> QED
  BY <1>1 DEF Next, Accept, View, Ask, LoseDatagram, ServeChunk, ServeNothing, Synack,
     HeaderFails, NotListed, ChunkFails, LastChunk, ForwardChunk, Blocks, AppendStep,
     LoadCount, StoreCount, StoreEntry, RemoveStep, SecondClose, DropLast, MoveLast,
     vars, transferVars

(* No transfer is under way at first.                                      *)
LEMMA TransferInit == Init => TransferInv /\ StreamInit
<1>1. ASSUME Init PROVE TransferInv /\ StreamInit
  <2>1. Len(<< >>) = 0
    OBVIOUS
  <2>2. \A c \in Client : body[c] = << >> /\ ended[c] = "open"
    BY <1>1 DEF Init, StreamInit
  <2>3. OwnStream
    <3>1. \A c \in Client : body[c] = Stream(c, Len(body[c]))
      BY <2>1, <2>2, StreamEmpty
    <3>2. 1 .. 0 - 1 = {}
      OBVIOUS
    <3> QED
      BY <2>1, <2>2, <3>1, <3>2 DEF OwnStream
  <2> QED
    BY <1>1, <2>2, <2>3
       DEF Init, Idling, StreamInit, TransferInv, OneDatagram, DoneIsWhole
<1> QED
  BY <1>1

(* The invariant, for every behaviour without faults.                      *)
THEOREM TransferSound ==
  ASSUME NoHangupOrRepeat
  PROVE  Spec => []TransferInv
<1>1. TypeOK /\ SockInv /\ TransferInv /\ [Next]_vars => TransferInv'
  BY TransferStep, NoHangup DEF NoHangupOrRepeat, TransferInv
<1> QED
  BY <1>1, TransferInit, TypeCorrect, SocketsSound, PTL DEF Spec

(* However descriptors are reused and whatever is lost, a client receives  *)
(* the beginning of its own answer, chunk by chunk.                        *)
THEOREM StreamsSound ==
  ASSUME NoHangupOrRepeat
  PROVE  Spec => []OwnStream
<1>1. TransferInv => OwnStream
  BY DEF TransferInv
<1> QED
  BY <1>1, TransferSound, PTL

(* A connection closed as finished has had its whole answer, to the last   *)
(* byte of the range or of the file.                                       *)
THEOREM DoneWhole ==
  ASSUME NoHangupOrRepeat
  PROVE  Spec => []DoneIsWhole
<1>1. TransferInv => DoneIsWhole
  BY DEF TransferInv
<1> QED
  BY <1>1, TransferSound, PTL

(* A client never has two datagrams under way, and none when its           *)
(* descriptor is someone else's.                                           *)
THEOREM OneInFlight ==
  ASSUME NoHangupOrRepeat
  PROVE  Spec => []OneDatagram
<1>1. TransferInv => OneDatagram
  BY DEF TransferInv
<1> QED
  BY <1>1, TransferSound, PTL

(* The exchange of datagrams implements the streams of FileStream.         *)
THEOREM ImplementsStreams ==
  ASSUME NoHangupOrRepeat
  PROVE  Spec => StreamsRefined
<1>1. TypeOK /\ SockInv /\ TransferInv /\ [Next]_vars => [StreamNext]_streamVars
  BY TransferStep, NoHangup DEF NoHangupOrRepeat, TransferInv
<1> QED
  BY <1>1, TransferInit, TypeCorrect, SocketsSound, TransferSound, PTL
     DEF Spec, StreamsRefined, StreamSpec
=============================================================================
