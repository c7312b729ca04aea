-------------------------- MODULE PeerStreamProofs --------------------------
(***************************************************************************)
(* Machine-checked facts about PeerStream, for any clients, files, entries,*)
(* rates and lengths of the list.                                          *)
(***************************************************************************)
EXTENDS PeerStream, ChunkTransferProofs, WellFoundedInduction

(* What the UDP thread holds back while it sleeps is a chunk on its way to *)
(* a client.                                                               *)
Taken == paced # Idle => paced.type = "synack"

(* Every datagram is for a client that has asked, and for a path that is   *)
(* listed.                                                                 *)
Asked ==
  /\ \A p \in net : p.asker \in asked /\ p.path = Want[p.asker].path
  /\ \A c \in asked : IsListed(Want[c].path)

(* Only the path of a missing file brings a text.                          *)
Texts == texts > 0 => \E c \in asked : Size[Want[c].path] = -1

Care == NodeTypeOK /\ Taken /\ Asked /\ Texts /\ UpWhileCareful

(* No path is more than one chunk ahead of the counter, a path whose rate  *)
(* is not found has passed nothing, and one with a rate at most one chunk  *)
(* more than the rate.  While a datagram is held back, no path is ahead of *)
(* the counter and its own is within the rate: there is room for it.       *)
Bounded(f) ==
  /\ since[f] <= count + 1
  /\ Found(f) = {} => since[f] = 0
  /\ Found(f) # {} /\ RateInUse(f) > 0 => since[f] <= RateInUse(f) + 1
Within(f) == RateInUse(f) > 0 => since[f] <= RateInUse(f)
Waiting ==
  paced # Idle => /\ Found(paced.path) # {} /\ Within(paced.path)
                  /\ \A f \in Path : since[f] <= count
Rate == (\A f \in Path : Bounded(f)) /\ Waiting

(* The thread that cuts a line is still connected to its client.           *)
Reading == line \in Client => sock[hand[line]] = line

(* The streams, as long as nobody has hung up; when the node is down what  *)
(* is still on the network reaches nobody.                                 *)
Streams == hung = {} => OwnStream /\ DoneIsWhole /\ (Up => TransferInv /\ Reading)

-----------------------------------------------------------------------------
(* The steps of the node are those of ChunkTransfer, the ack of a thread   *)
(* that has cut its line, a client that leaves, threads that get in each   *)
(* other's way, or the end of the process.                                 *)
Falls ==
  /\ Up
  /\ \E how \in {"exited", "crashed"} : GoDown(how)
  /\ net' \subseteq net
  /\ UNCHANGED <<body, connections, num_connections, main, asked, arrived, hung, udp,
                 shaken, lost, twice>>
Leaves ==
  /\ Up
  /\ \E c \in Client \ asked, fd \in Fd : sock[fd] \in {c, Nobody} /\ c # line /\ Close(fd, "cut")
  /\ UNCHANGED <<body, connections, num_connections, main, asked, arrived, hung, net, udp,
                 shaken, lost, twice, node>>
Asks ==
  /\ line \in Client /\ hand[line] \in Fd
  /\ IsListed(Want[line].path)
  /\ Ask(line, hand[line])
  /\ node' = node
Strays == node' = "astray" /\ UNCHANGED vars

(* Every step of the node is one of these.                                 *)
LEMMA NodeSteps ==
  ASSUME NodeTypeOK, [NodeNext]_nodeVars
  PROVE  ([Next]_vars /\ node' = node) \/ Asks \/ Leaves \/ Strays \/ Falls
<1>1. ASSUME NEW c \in Client, NEW fd \in Fd, AcceptClient(c, fd)
      PROVE  [Next]_vars /\ node' = node
  BY <1>1 DEF AcceptClient, Next
<1>2. ASSUME NEW c \in Client, NEW fd \in Fd, LeaveSilently(c, fd)
      PROVE  Leaves \/ Falls
  <2>1. c \notin asked
    BY <1>2, TransferAssumption DEF LeaveSilently, NodeTypeOK
  <2> QED
    BY <1>2, <2>1 DEF LeaveSilently, Leaves, Falls, arrayVars
<1>3. ASSUME NEW c \in Client, HangupClient(c) PROVE [Next]_vars /\ node' = node
  BY <1>3 DEF HangupClient, Next
<1>4. ASSUME NEW c \in Client, TakeDescriptor(c) \/ BeginLine(c) \/ ViewUnlisted(c)
      PROVE  [Next]_vars /\ node' = node
  BY <1>4 DEF TakeDescriptor, BeginLine, ViewUnlisted
<1>5. ASSUME NEW c \in Client, ViewListed(c) PROVE Asks
  BY <1>5 DEF ViewListed, Asks, NodeTypeOK
<1>6. CASE ListClient
  BY <1>6 DEF ListClient, Next
<1>7. CASE BeginOperatorsLine \/ AddPeer \/ SetLimit
  BY <1>7 DEF BeginOperatorsLine, AddPeer, SetLimit
<1>8. CASE GoAstray
  BY <1>8 DEF GoAstray, Strays
<1>9. ASSUME NEW p \in net, PeerServes(p) \/ PeerHasNoFile(p) \/ Pace(p)
      PROVE  [Next]_vars /\ node' = node
  BY <1>9 DEF PeerServes, PeerHasNoFile, Pace, Next
<1>10. ASSUME NEW p \in net, NoRate(p) PROVE Falls
  BY <1>10 DEF NoRate, Falls, arrayVars
<1>11. CASE ReceiveText \/ UnknownType \/ Malformed
  BY <1>11 DEF ReceiveText, UnknownType, Malformed, Falls, arrayVars
<1>12. CASE PassOn
  <2>1. paced \in net /\ Synack(paced) /\ node' = node
    BY <1>12 DEF PassOn, NodeTypeOK
  <2> QED
    BY <2>1 DEF Next
<1>13. CASE RemoveFailed
  BY <1>13 DEF RemoveFailed, Next
<1>14. CASE UNCHANGED nodeVars
  BY <1>14 DEF nodeVars
<1> QED
  BY <1>1, <1>2, <1>3, <1>4, <1>5, <1>6, <1>7, <1>8, <1>9, <1>10, <1>11, <1>12, <1>13, <1>14
     DEF NodeNext

(* They keep the types and the connections in order.                       *)
LEMMA NodeSockStep ==
  ASSUME NodeTypeOK, TypeOK, SockInv, [NodeNext]_nodeVars
  PROVE  TypeOK' /\ SockInv'
<1>1. CASE [Next]_vars
  BY <1>1, TypeStep, SockStep
<1>2. CASE Leaves
  <2>1. PICK c \in Client \ asked, fd \in Fd : sock[fd] \in {c, Nobody} /\ Close(fd, "cut")
    BY <1>2 DEF Leaves
  <2>2. UNCHANGED <<arrived, main>>
    BY <1>2 DEF Leaves
  <2>3. SockInv'
    BY <2>1, <2>2, CloseKeeps
  <2> QED
    BY <1>2, <2>1, <2>3, CloseTypes DEF Leaves, TypeOK
<1>3. CASE Falls
  <2>1. /\ sock' = [fd \in Fd |-> Nobody]
        /\ ended' = [c \in Client |-> IF \E fd \in Fd : sock[fd] = c THEN "cut" ELSE ended[c]]
        /\ net' \subseteq net
        /\ UNCHANGED <<body, connections, num_connections, main, asked, arrived, hung, udp,
                       shaken, lost, twice>>
    BY <1>3 DEF Falls, GoDown
  <2>2. TypeOK'
    BY <2>1 DEF TypeOK
  <2>3. ASSUME NEW c \in Client \ arrived PROVE ended'[c] = "open"
    <3>1. \A fd \in Fd : sock[fd] # c
      BY TransferAssumption DEF SockInv
    <3> QED
      BY <2>1, <3>1 DEF SockInv
  <2>4. \A fd \in Fd : main.at # "accepting" => main.client # Nobody
    BY TransferAssumption DEF TypeOK
  <2>5. SockInv'
    BY <2>1, <2>3, <2>4 DEF SockInv
  <2> QED
    BY <2>2, <2>5
<1>4. CASE Asks
  BY <1>4, AskTypes DEF Asks, Ask, SockInv
<1>5. CASE Strays
  BY <1>5, TypeStep, SockStep DEF Strays
<1> QED
  BY <1>1, <1>2, <1>3, <1>4, <1>5, NodeSteps

-----------------------------------------------------------------------------
(* What a datagram taken off, or put on, the network leaves there.         *)
LEMMA NetKept ==
  ASSUME TypeOK, NEW p \in net, NEW q \in net, NEW sent, p # q, Receive(p, sent)
  PROVE  q \in net'
BY DEF Receive

(* Who has a thread keeps it.                                              *)
LEMMA ThreadsStay ==
  ASSUME TypeOK,
         \/ AppendStep \/ \E c \in Client, fd \in Fd : Accept(c, fd)
         \/ UNCHANGED <<main, arrived>>
  PROVE  \A c : HasThread(c) => HasThread(c)'
<1>1. ASSUME NEW c \in Client, NEW fd \in Fd, Accept(c, fd)
      PROVE  \A d : HasThread(d) => HasThread(d)'
  BY <1>1 DEF Accept, HasThread
<1>2. CASE AppendStep
  <2>1. /\ main.at # "accepting" /\ arrived' = arrived
        /\ main'.at # "accepting" => main'.client = main.client
    BY <1>2 DEF AppendStep, LoadCount, StoreCount, StoreEntry, TypeOK, Main
  <2> QED
    BY <2>1 DEF HasThread
<1>3. CASE UNCHANGED <<main, arrived>>
  BY <1>3 DEF HasThread
<1> QED
  BY <1>1, <1>2, <1>3

(* Every step keeps the types of the node and the datagram it has taken.   *)
LEMMA NodeTypeStep ==
  ASSUME NodeTypeOK, TypeOK, Taken, [NodeNext]_nodeVars
  PROVE  NodeTypeOK' /\ Taken'
<1> USE PeerStreamAssumption
<1>0. Nobody \notin Client
  BY TransferAssumption
<1>1. ASSUME NEW c \in Client, NEW fd \in Fd, AcceptClient(c, fd) PROVE NodeTypeOK' /\ Taken'
  <2>1. \A d : HasThread(d) => HasThread(d)'
    BY <1>1, ThreadsStay DEF AcceptClient
  <2> QED
    BY <1>1, <2>1 DEF AcceptClient, Accept, NodeTypeOK, Taken, listVars, rateVars, clientVars,
       threadVars
<1>2. CASE ListClient
  <2>1. \A d : HasThread(d) => HasThread(d)'
    BY <1>2, ThreadsStay DEF ListClient
  <2>2. UNCHANGED <<asked, arrived, net>>
    BY <1>2 DEF ListClient, AppendStep, LoadCount, StoreCount, StoreEntry
  <2> QED
    BY <1>2, <2>1, <2>2 DEF ListClient, NodeTypeOK, Taken, listVars, rateVars, clientVars,
       threadVars
<1>3. ASSUME NEW c \in Client, NEW fd \in Fd, LeaveSilently(c, fd) PROVE NodeTypeOK' /\ Taken'
  <2>1. /\ hand[c] # Free /\ c \in arrived /\ line # c
        /\ hand' = [hand EXCEPT ![c] = Free] /\ silent' = silent \union {c}
        /\ UNCHANGED <<arrived, main, asked, net, told, line, malformed>>
    BY <1>3, TransferAssumption DEF LeaveSilently, NodeTypeOK, HasThread
  <2>2. \A d : HasThread(d) => HasThread(d)'
    BY <2>1 DEF HasThread
  <2>3. /\ hand' \in [Client -> Fd \union {Free}]
        /\ \A d \in Client : hand'[d] # Free =>
             HasThread(d)' /\ d \notin asked' \union told' \union silent'
        /\ line' \in Client => hand'[line'] # Free
    BY <2>1, <2>2 DEF NodeTypeOK
  <2>4. (paced' = Idle \/ paced' = paced) /\ (node' = node \/ node' = "exited")
    BY <1>3 DEF LeaveSilently, GoDown
  <2> QED
    BY <1>3, <2>1, <2>3, <2>4 DEF LeaveSilently, NodeTypeOK, Taken, listVars
<1>4. ASSUME NEW c \in Client, TakeDescriptor(c) PROVE NodeTypeOK' /\ Taken'
  <2>1. main.fd \in Fd \union {Free}
    BY DEF TypeOK, Main
  <2>2. /\ hand' \in [Client -> Fd \union {Free}]
        /\ \A d \in Client : hand'[d] # Free =>
             HasThread(d)' /\ d \notin asked' \union told' \union silent'
        /\ line' \in Client => hand'[line'] # Free
    BY <1>4, <2>1 DEF TakeDescriptor, NodeTypeOK, Heard, HasThread, vars, transferVars, clientVars
  <2> QED
    BY <1>4, <2>2 DEF TakeDescriptor, NodeTypeOK, Taken, listVars, rateVars, clientVars, vars,
       transferVars
<1>5. ASSUME BeginOperatorsLine \/ SetLimit \/ GoAstray \/ \E c \in Client : BeginLine(c)
      PROVE  NodeTypeOK' /\ Taken'
  <2>1. \A d : HasThread(d) => HasThread(d)'
    BY <1>5 DEF BeginLine, BeginOperatorsLine, SetLimit, GoAstray, HasThread, vars, transferVars
  <2>2. CASE BeginOperatorsLine
    <3>1. orders' \in 0 .. MaxOrders
      BY <2>2 DEF BeginOperatorsLine, NodeTypeOK
    <3> QED
      BY <2>1, <2>2, <3>1 DEF BeginOperatorsLine, NodeTypeOK, Taken, rateVars, clientVars, vars,
         transferVars
  <2>3. CASE SetLimit
    BY <1>0, <2>1, <2>3 DEF SetLimit, NodeTypeOK, Taken, clientVars, vars, transferVars
  <2>4. CASE GoAstray
    BY <2>1, <2>4 DEF GoAstray, NodeTypeOK, Taken, listVars, rateVars, clientVars, threadVars,
       vars, transferVars
  <2>5. ASSUME NEW c \in Client, BeginLine(c) PROVE NodeTypeOK' /\ Taken'
    BY <2>1, <2>5 DEF BeginLine, NodeTypeOK, Taken, listVars, rateVars, clientVars, vars,
       transferVars
  <2> QED
    BY <1>5, <2>2, <2>3, <2>4, <2>5
<1>6. CASE Malformed
  <2>1. \A d : HasThread(d) => HasThread(d)'
    BY <1>6 DEF Malformed, HasThread
  <2> QED
    BY <1>6, <2>1 DEF Malformed, GoDown, NodeTypeOK, Taken, listVars, clientVars
<1>7. CASE AddPeer
  <2>1. ASSUME NEW e \in Entry, Len(peers) < MaxListed
        PROVE  /\ Append(peers, e) \in Seq([path : Path, rate : Nat])
               /\ Len(Append(peers, e)) <= MaxListed
    BY <2>1 DEF NodeTypeOK
  <2>2. peers' \in Seq([path : Path, rate : Nat]) /\ Len(peers') <= MaxListed
    <3>1. PICK e \in Entry :
            peers' = IF Len(peers) >= MaxListed THEN peers ELSE Append(peers, e)
      BY <1>7 DEF AddPeer
    <3>2. CASE Len(peers) >= MaxListed
      BY <3>1, <3>2 DEF NodeTypeOK
    <3>3. CASE Len(peers) < MaxListed
      BY <2>1, <3>1, <3>3 DEF NodeTypeOK
    <3> QED
      BY <3>2, <3>3 DEF NodeTypeOK
  <2>3. \A d : HasThread(d) => HasThread(d)'
    BY <1>7 DEF AddPeer, HasThread, vars, transferVars
  <2> QED
    BY <1>0, <1>7, <2>2, <2>3 DEF AddPeer, NodeTypeOK, Taken, rateVars, clientVars, vars, transferVars
<1>8. ASSUME NEW c \in Client, ViewListed(c) \/ ViewUnlisted(c) PROVE NodeTypeOK' /\ Taken'
  <2>1. /\ line = c /\ line' = Nobody /\ hand' = [hand EXCEPT ![c] = Free]
        /\ UNCHANGED <<listVars, rateVars, texts, node, silent, malformed, main, arrived>>
    BY <1>8 DEF ViewListed, ViewUnlisted, Ask, clientVars, vars, transferVars
  <2>2. c \in arrived /\ \A d : HasThread(d) => HasThread(d)'
    BY <2>1 DEF HasThread, NodeTypeOK
  <2>3. asked' \subseteq asked \union {c} /\ told' \subseteq told \union {c} /\ net \subseteq net'
    BY <1>8 DEF ViewListed, ViewUnlisted, Ask, clientVars, vars, transferVars
  <2>4. /\ hand' \in [Client -> Fd \union {Free}]
        /\ \A d \in Client : hand'[d] # Free =>
             HasThread(d)' /\ d \notin asked' \union told' \union silent'
        /\ line' \notin Client
    BY <2>1, <2>2, <2>3, TransferAssumption DEF NodeTypeOK
  <2> QED
    BY <2>1, <2>2, <2>3, <2>4 DEF NodeTypeOK, Taken, listVars, rateVars
<1>9. ASSUME UNCHANGED <<asked, arrived, main, listVars, node, clientVars, threadVars>>,
             texts' \in Nat, count' \in Nat, since' \in [Path -> Nat],
             paced' = Idle \/ (paced' \in net' /\ paced'.type = "synack")
      PROVE  NodeTypeOK' /\ Taken'
  BY <1>9 DEF NodeTypeOK, Taken, HasThread, listVars, clientVars, threadVars
<1>10. ASSUME NEW c \in Client, HangupClient(c) PROVE NodeTypeOK' /\ Taken'
  BY <1>9, <1>10 DEF HangupClient, Hangup, NodeTypeOK, Taken, rateVars
<1>11. ASSUME NEW p \in net, PeerServes(p) \/ PeerHasNoFile(p) PROVE NodeTypeOK' /\ Taken'
  <2>1. p.type = "ack" /\ UNCHANGED <<asked, arrived, main>> /\ \E sent : Receive(p, sent)
    BY <1>11 DEF PeerServes, PeerHasNoFile, ServeChunk, ServeNothing
  <2>2. UNCHANGED <<listVars, rateVars, node, clientVars, threadVars>> /\ texts' \in Nat
    BY <1>11 DEF PeerServes, PeerHasNoFile, NodeTypeOK
  <2>3. paced = Idle \/ paced \in net'
    BY <2>1, NetKept DEF NodeTypeOK, Taken
  <2> QED
    BY <1>9, <2>1, <2>2, <2>3 DEF NodeTypeOK, Taken, rateVars
<1>12. ASSUME UNCHANGED <<asked, arrived, main, listVars, clientVars, threadVars>>,
              node' \in {"exited", "crashed"},
              texts' \in Nat, count' = count, since' = since, paced' = Idle
      PROVE  NodeTypeOK' /\ Taken'
  BY <1>12 DEF NodeTypeOK, Taken, HasThread, listVars, clientVars, threadVars
<1>13. CASE ReceiveText
  BY <1>12, <1>13 DEF ReceiveText, GoDown, NodeTypeOK
<1>14. ASSUME NEW p \in net, NoRate(p) PROVE NodeTypeOK' /\ Taken'
  BY <1>12, <1>14 DEF NoRate, GoDown, NodeTypeOK
<1>15. ASSUME NEW p \in net, Pace(p) PROVE NodeTypeOK' /\ Taken'
  BY <1>9, <1>15 DEF Pace, IsSynack, NodeTypeOK, vars, transferVars
<1>16. CASE UnknownType
  BY <1>12, <1>16 DEF UnknownType, GoDown, NodeTypeOK
<1>17. CASE PassOn
  <2>1. UNCHANGED <<asked, arrived, main>>
    BY <1>17 DEF PassOn, Synack, HeaderFails, NotListed, ChunkFails, LastChunk, ForwardChunk,
       Blocks
  <2>2. since' \in [Path -> Nat]
    <3>1. since' = [since EXCEPT ![paced.path] = @ + 1]
      BY <1>17 DEF PassOn
    <3>2. paced.path \in Path
      BY <1>17 DEF PassOn, NodeTypeOK, TypeOK, Packet
    <3>3. since[paced.path] + 1 \in Nat
      BY <3>2 DEF NodeTypeOK
    <3> QED
      BY <3>1, <3>3 DEF NodeTypeOK
  <2> QED
    BY <1>9, <1>17, <2>1, <2>2 DEF PassOn, NodeTypeOK
<1>18. CASE RemoveFailed
  <2>1. UNCHANGED <<asked, arrived, main, net>>
    BY <1>18 DEF RemoveFailed, RemoveStep, SecondClose, DropLast, MoveLast
  <2> QED
    BY <1>9, <1>18, <2>1 DEF RemoveFailed, NodeTypeOK, Taken, rateVars
<1>19. CASE UNCHANGED nodeVars
  BY <1>9, <1>19 DEF nodeVars, NodeTypeOK, Taken, rateVars, vars, transferVars
<1> QED
  BY <1>1, <1>2, <1>3, <1>4, <1>5, <1>6, <1>7, <1>8, <1>10, <1>11, <1>13, <1>14, <1>15, <1>16,
     <1>17, <1>18, <1>19 DEF NodeNext

-----------------------------------------------------------------------------
(* What peers_list says of a path.                                         *)

(* A set of numbers has a least one.                                       *)
LEMMA LeastNumber ==
  ASSUME NEW S \in SUBSET Nat, S # {}
  PROVE  \E m \in S : \A n \in S : m <= n
<1> DEFINE Below == {p \in Nat \X Nat : p[1] < p[2]}
<1>1. IsWellFoundedOn(Below, Nat)
  BY NatLessThanWellFounded DEF OpToRel
<1>2. \E m \in S : \A n \in S : ~(<<n, m>> \in Below)
  BY <1>1, WFMin
<1>3. \A m, n \in Nat : n < m => <<n, m>> \in Below
  OBVIOUS
<1> HIDE DEF Below
<1>4. ASSUME NEW m \in S, \A n \in S : ~(<<n, m>> \in Below)
      PROVE  \A n \in S : m <= n
  <2>1. \A n \in S : ~(n < m)
    BY <1>3, <1>4
  <2> QED
    BY <2>1
<1> QED
  BY <1>2, <1>4

(* get_rate_of_path takes the first of the entries it searches.            *)
LEMMA RateIs ==
  \A f : NodeTypeOK /\ Found(f) # {} =>
    \E i \in Found(f) : RateOf(f) = peers[i].rate /\ \A j \in Found(f) : i <= j
<1> SUFFICES ASSUME NEW f, NodeTypeOK, Found(f) # {}
             PROVE  \E i \in Found(f) : RateOf(f) = peers[i].rate /\ \A j \in Found(f) : i <= j
  OBVIOUS
<1>1. Found(f) \in SUBSET Nat
  BY DEF Found, NodeTypeOK
<1>2. \E i \in Found(f) : \A j \in Found(f) : i <= j
  BY <1>1, LeastNumber
<1> QED
  BY <1>2 DEF RateOf

(* The same after a step.                                                  *)
LEMMA RateIsThen ==
  (\A f : NodeTypeOK /\ Found(f) # {} =>
     \E i \in Found(f) : RateOf(f) = peers[i].rate /\ \A j \in Found(f) : i <= j)'
BY RateIs, PTL

(* A rate is a number, before a step and after it.                         *)
LEMMA RateTypes == \A f : NodeTypeOK /\ Found(f) # {} => RateInUse(f) \in Nat
<1> SUFFICES ASSUME NodeTypeOK, NEW f, Found(f) # {} PROVE RateInUse(f) \in Nat
  OBVIOUS
<1>1. PICK i \in Found(f) : RateOf(f) = peers[i].rate
  BY RateIs
<1>2. peers[i].rate \in Nat
  <2>1. i \in 1 .. Len(peers)
    BY DEF Found
  <2>2. \A S : peers \in Seq(S) => peers[i] \in S
    BY <2>1, ElementOfSeq
  <2>3. peers[i] \in [path : Path, rate : Nat]
    BY <2>2 DEF NodeTypeOK
  <2> QED
    BY <2>3
<1> QED
  BY <1>1, <1>2 DEF RateInUse, NodeTypeOK

(* The same after a step.                                                  *)
LEMMA RateTypesThen == (\A f : NodeTypeOK /\ Found(f) # {} => RateInUse(f) \in Nat)'
BY RateTypes, PTL

(* An entry that is added comes behind those that are there: what was      *)
(* found is found again, with its rate, and a path that was listed but not *)
(* found never is.                                                         *)
LEMMA EntryAdded ==
  ASSUME NodeTypeOK, NodeTypeOK', NEW f,
         peers' = peers \/ \E e \in Entry : peers' = Append(peers, e)
  PROVE  /\ Found(f) # {} => Found(f)' # {} /\ RateOf(f)' = RateOf(f)
         /\ IsListed(f) => IsListed(f)'
         /\ IsListed(f) /\ Found(f)' # {} => Found(f) # {}
<1> DEFINE n == Len(peers)
<1>1. /\ n \in Nat /\ Len(peers') \in {n, n + 1}
      /\ \A i \in 1 .. n : peers'[i] = peers[i]
  <2>1. peers \in Seq([path : Path, rate : Nat]) /\ n \in Nat
    BY DEF NodeTypeOK
  <2>2. CASE peers' = peers
    BY <2>1, <2>2
  <2>3. ASSUME NEW e \in Entry, peers' = Append(peers, e)
        PROVE  Len(peers') = n + 1 /\ \A i \in 1 .. n : peers'[i] = peers[i]
    BY <2>1, <2>3
  <2> QED
    BY <2>1, <2>2, <2>3
<1>2. Searched \in Nat
  BY PeerStreamAssumption
<1>3. /\ Found(f)' = {i \in 1 .. Len(peers') : i <= Searched /\ peers'[i].path = f}
      /\ Found(f) = {i \in 1 .. n : i <= Searched /\ peers[i].path = f}
  BY DEF Found
<1> HIDE DEF n
<1>4. Found(f) \subseteq Found(f)' /\ Found(f)' \subseteq Found(f) \union {n + 1}
  BY <1>1, <1>3
<1>5. IsListed(f) => IsListed(f)'
  BY <1>1 DEF IsListed, n
<1>6. ASSUME IsListed(f), Found(f)' # {} PROVE Found(f) # {}
  <2>1. PICK i \in 1 .. n : peers[i].path = f
    BY <1>6 DEF IsListed, n
  <2>2. PICK j \in Found(f)' : TRUE
    BY <1>6
  <2>3. j \in 1 .. Len(peers') /\ j <= Searched
    BY <1>3
  <2>4. CASE i <= Searched
    BY <1>3, <2>1, <2>4
  <2>5. CASE ~(i <= Searched)
    <3>1. j <= n
      BY <1>1, <1>2, <2>1, <2>3, <2>5
    <3> QED
      BY <1>1, <1>3, <2>3, <3>1
  <2> QED
    BY <2>4, <2>5
<1>7. ASSUME Found(f) # {} PROVE Found(f)' # {} /\ RateOf(f)' = RateOf(f)
  <2>1. Found(f)' # {}
    BY <1>4, <1>7
  <2>2. PICK i \in Found(f) : RateOf(f) = peers[i].rate /\ \A j \in Found(f) : i <= j
    BY <1>7, RateIs
  <2>3. PICK k \in Found(f)' : RateOf(f)' = peers'[k].rate /\ \A j \in Found(f)' : k <= j
    BY <2>1, RateIsThen
  <2>4. i \in 1 .. n /\ k \in 1 .. Len(peers')
    BY <1>3
  <2>5. k = i
    BY <1>1, <1>4, <2>2, <2>3, <2>4
  <2> QED
    BY <1>1, <2>1, <2>2, <2>3, <2>4, <2>5
<1> QED
  BY <1>5, <1>6, <1>7

-----------------------------------------------------------------------------
(* What keeps the node up.                                                 *)

(* Datagrams go from one to the next of the same client and path.          *)
LEMMA Traced ==
  ASSUME TypeOK, [Next]_vars
  PROVE  /\ asked \subseteq asked'
         /\ \A q \in net' :
              \/ \E p \in net : q.asker = p.asker /\ q.path = p.path
              \/ q.asker \in asked' /\ q.path = Want[q.asker].path
<1>1. ASSUME NEW c \in Client, NEW fd \in Fd, View(c, fd)
      PROVE  /\ asked \subseteq asked'
             /\ \A q \in net' : \/ q \in net
                                \/ q.asker \in asked' /\ q.path = Want[q.asker].path
  BY <1>1 DEF View, Ask
<1>2. ASSUME NEW p \in net, NEW r, r.asker = p.asker, r.path = p.path,
             Receive(p, {}) \/ Receive(p, {r})
      PROVE  \A q \in net' : \E o \in net : q.asker = o.asker /\ q.path = o.path
  BY <1>2 DEF Receive
<1>3. ASSUME NEW p \in net
      PROVE  /\ Chunked(p).asker = p.asker /\ Chunked(p).path = p.path
             /\ NextAck(p).asker = p.asker /\ NextAck(p).path = p.path
  BY DEF Chunked, NextAck, TypeOK, Packet
<1>4. ASSUME NEW p \in net, ServeChunk(p) \/ ServeNothing(p)
      PROVE  asked' = asked /\ \A q \in net' : \E o \in net : q.asker = o.asker /\ q.path = o.path
  BY <1>2, <1>3, <1>4 DEF ServeChunk, ServeNothing
<1>5. ASSUME NEW p \in net, Synack(p)
      PROVE  asked' = asked /\ \A q \in net' : \E o \in net : q.asker = o.asker /\ q.path = o.path
  BY <1>2, <1>3, <1>5
  DEF Synack, HeaderFails, NotListed, ChunkFails, LastChunk, ForwardChunk, Blocks
<1>6. ASSUME asked' = asked, net' \subseteq net
      PROVE  asked' = asked /\ \A q \in net' : \E o \in net : q.asker = o.asker /\ q.path = o.path
  BY <1>6
<1> QED
  BY <1>1, <1>4, <1>5, <1>6
  DEF Next, AppendStep, LoadCount, StoreCount, StoreEntry, RemoveStep, DropLast, MoveLast,
      Accept, Hangup, LoseDatagram, SecondClose, vars, transferVars

(* What has been asked, and what has gone wrong, stays so; lists grow at   *)
(* their end; a request that is passed on is for a listed path.            *)
LEMMA Kept ==
  ASSUME NodeTypeOK, TypeOK, [NodeNext]_nodeVars
  PROVE  /\ asked \subseteq asked' /\ silent \subseteq silent'
         /\ malformed => malformed'
         /\ node = "astray" => node' = "astray"
         /\ peers' = peers \/ \E e \in Entry : peers' = Append(peers, e)
         /\ \A c \in asked' \ asked : IsListed(Want[c].path)
<1>1. ASSUME NEW c \in Client, ViewListed(c)
      PROVE  /\ UNCHANGED <<peers, silent, malformed>> /\ asked \subseteq asked' /\ Up
             /\ \A d \in asked' \ asked : IsListed(Want[d].path)
  BY <1>1 DEF ViewListed, Ask, listVars, clientVars
<1>2. CASE AddPeer
  BY <1>2 DEF AddPeer, clientVars, vars, transferVars, Up
<1>3. ASSUME PassOn
      PROVE  UNCHANGED <<peers, silent, malformed, asked>> /\ Up
  BY <1>3 DEF PassOn, Synack, HeaderFails, NotListed, ChunkFails, LastChunk, ForwardChunk, Blocks,
     listVars, clientVars, threadVars
<1>4. ASSUME NEW p \in net, PeerServes(p) \/ PeerHasNoFile(p) \/ NoRate(p) \/ Pace(p)
      PROVE  UNCHANGED <<peers, silent, malformed, asked>> /\ Up
  BY <1>4 DEF PeerServes, PeerHasNoFile, ServeChunk, ServeNothing, NoRate, Pace, listVars,
     clientVars, threadVars, vars, transferVars
<1>5. ASSUME NEW c \in Client, NEW fd \in Fd, AcceptClient(c, fd) \/ LeaveSilently(c, fd)
      PROVE  UNCHANGED <<peers, malformed, asked>> /\ silent \subseteq silent' /\ Up
  BY <1>5 DEF AcceptClient, Accept, LeaveSilently, listVars, clientVars, threadVars
<1>6. ASSUME NEW c \in Client,
             TakeDescriptor(c) \/ BeginLine(c) \/ ViewUnlisted(c) \/ HangupClient(c)
      PROVE  UNCHANGED <<peers, silent, malformed, asked>> /\ Up
  BY <1>6 DEF TakeDescriptor, BeginLine, ViewUnlisted, HangupClient, Hangup, listVars, clientVars,
     threadVars, vars, transferVars
<1>7. ASSUME \/ ListClient \/ BeginOperatorsLine \/ SetLimit \/ Malformed \/ GoAstray
             \/ ReceiveText \/ UnknownType \/ RemoveFailed
      PROVE  /\ UNCHANGED <<peers, silent, asked>> /\ (malformed => malformed') /\ Up
  BY <1>7 DEF ListClient, AppendStep, LoadCount, StoreCount, StoreEntry, BeginOperatorsLine,
     SetLimit, Malformed, GoAstray, ReceiveText, UnknownType, RemoveFailed, RemoveStep,
     SecondClose, DropLast, MoveLast, listVars, clientVars, threadVars, vars, transferVars
<1>8. CASE UNCHANGED nodeVars
  BY <1>8 DEF nodeVars, listVars, clientVars, threadVars, vars, transferVars
<1> QED
  BY <1>1, <1>2, <1>3, <1>4, <1>5, <1>6, <1>7, <1>8 DEF NodeNext, Up

(* Every step keeps Care: whatever ends the process leaves behind a client *)
(* for whom nobody could have been careful, and the list cannot put that   *)
(* right afterwards.                                                       *)
LEMMA CareStep ==
  ASSUME TypeOK, Care, [NodeNext]_nodeVars
  PROVE  Care'
<1>1. NodeTypeOK /\ NodeTypeOK' /\ Taken'
  BY NodeTypeStep DEF Care
<1>2. /\ asked \subseteq asked' /\ silent \subseteq silent'
      /\ (malformed => malformed') /\ (node = "astray" => node' = "astray")
      /\ \A c \in asked' \ asked : IsListed(Want[c].path)
      /\ \A f : /\ Found(f) # {} => Found(f)' # {}
                /\ IsListed(f) => IsListed(f)'
                /\ IsListed(f) /\ Found(f)' # {} => Found(f) # {}
  BY <1>1, Kept, EntryAdded
<1>3. Asked'
  <2>1. \A q \in net' :
          \/ \E p \in net : q.asker = p.asker /\ q.path = p.path
          \/ q.asker \in asked' /\ q.path = Want[q.asker].path
    <3>1. CASE [Next]_vars
      BY <3>1, Traced
    <3>2. CASE Asks
      BY <3>2 DEF Asks, Ask
    <3>3. CASE Leaves \/ Falls \/ Strays
      BY <3>3 DEF Leaves, Falls, Strays, vars, transferVars
    <3> QED
      BY <1>1, <3>1, <3>2, <3>3, NodeSteps
  <2>2. \A p \in net' : p.asker \in asked' /\ p.path = Want[p.asker].path
    BY <1>2, <2>1 DEF Care, Asked
  <2>3. \A c \in asked' : IsListed(Want[c].path)'
    BY <1>2 DEF Care, Asked
  <2> QED
    BY <2>2, <2>3 DEF Asked
<1>4. Texts'
  <2>1. ASSUME NEW p \in net, PeerHasNoFile(p)
        PROVE  \E c \in asked' : Size[Want[c].path] = -1
    BY <1>2, <2>1 DEF PeerHasNoFile, Care, Asked
  <2>2. texts \in Nat
    BY <1>1 DEF NodeTypeOK
  <2>3. texts' = texts \/ texts > 0 \/ \E p \in net : PeerHasNoFile(p)
    BY DEF NodeNext, AcceptClient, ListClient, TakeDescriptor, BeginLine, BeginOperatorsLine,
       LeaveSilently, HangupClient, AddPeer, SetLimit, ViewListed, ViewUnlisted, Malformed,
       GoAstray, PeerServes, ReceiveText, NoRate, Pace, UnknownType, PassOn, RemoveFailed, nodeVars
  <2> QED
    BY <1>2, <2>1, <2>2, <2>3 DEF Care, Texts
<1>5. Careful' => Careful
  <2>1. \A c \in asked : Found(Want[c].path)' # {} => Found(Want[c].path) # {}
    BY <1>2 DEF Care, Asked
  <2> QED
    BY <1>2, <2>1 DEF Careful
<1>6. UpWhileCareful'
  <2>1. CASE Up'
    BY <2>1 DEF UpWhileCareful
  <2>2. CASE ~Up
    BY <1>5, <2>2 DEF Care, UpWhileCareful
  <2>3. ASSUME Up, ~Up' PROVE ~Careful \/ ~Careful'
    <3>1. ASSUME NEW c \in Client, NEW fd \in Fd, LeaveSilently(c, fd) PROVE ~Careful'
      BY <2>3, <3>1 DEF LeaveSilently, Careful, Up
    <3>2. ASSUME ReceiveText PROVE ~Careful
      BY <3>2 DEF ReceiveText, Care, Texts, Careful
    <3>3. ASSUME NEW p \in net, NoRate(p) PROVE ~Careful
      BY <3>3 DEF NoRate, Care, Asked, Careful
    <3>4. ASSUME UnknownType PROVE ~Careful
      BY <3>4 DEF UnknownType, Care, NodeTypeOK, Asked, Careful
    <3>5. ASSUME Malformed \/ GoAstray PROVE ~Careful'
      BY <3>5 DEF Malformed, GoAstray, Careful
    <3> QED
      BY <2>3, <3>1, <3>2, <3>3, <3>4, <3>5
      DEF Up, NodeNext, AcceptClient, ListClient, TakeDescriptor, BeginLine, BeginOperatorsLine,
          HangupClient, AddPeer, SetLimit, ViewListed, ViewUnlisted, PeerServes, PeerHasNoFile,
          Pace, PassOn, RemoveFailed, nodeVars
  <2> QED
    BY <1>5, <2>1, <2>2, <2>3 DEF UpWhileCareful
<1> QED
  BY <1>1, <1>3, <1>4, <1>6 DEF Care

-----------------------------------------------------------------------------
(* How far a path can get between two sleeps.                              *)

(* Steps that leave the list, the rates and the counters alone, and at most*)
(* let go of the datagram.                                                 *)
LEMMA RateKept ==
  ASSUME Rate, UNCHANGED <<peers, limit, count, since>>, paced' \in {paced, Idle}
  PROVE  Rate'
<1>1. \A f : Found(f)' = Found(f) /\ RateInUse(f)' = RateInUse(f)
  BY DEF Found, RateInUse, RateOf
<1>2. \A f \in Path : Bounded(f)'
  BY <1>1 DEF Rate, Bounded, Waiting
<1>3. Waiting'
  BY <1>1 DEF Rate, Bounded, Waiting, Within
<1> QED
  BY <1>2, <1>3 DEF Rate, Bounded, Waiting

(* Every step keeps the bound.                                             *)
LEMMA RateStep ==
  ASSUME TypeOK, NodeTypeOK, NodeTypeOK', Rate, [NodeNext]_nodeVars
  PROVE  Rate'
<1>1. \A f \in Path : since[f] \in Nat
  BY DEF NodeTypeOK
<1>2. count \in Nat
  BY DEF NodeTypeOK
<1>3. CASE AddPeer
  <2>1. limit' = limit /\ count' = count /\ since' = since /\ paced' = paced
    BY <1>3 DEF AddPeer, rateVars
  <2>2. peers' = peers \/ \E e \in Entry : peers' = Append(peers, e)
    BY <1>3 DEF AddPeer
  <2>3. \A f : Found(f) # {} => Found(f)' # {} /\ RateInUse(f)' = RateInUse(f)
    BY <2>1, <2>2, EntryAdded DEF RateInUse
  <2>4. ASSUME NEW f \in Path PROVE Bounded(f)'
    <3>1. CASE Found(f) # {}
      BY <2>1, <2>3, <3>1 DEF Rate, Bounded, Waiting
    <3>2. CASE Found(f) = {}
      <4>1. since[f] = 0 /\ (Found(f)' # {} => RateInUse(f)' \in Nat)
        BY <3>2, RateTypesThen DEF Rate, Bounded, Waiting
      <4> QED
        BY <1>2, <2>1, <4>1 DEF Bounded
    <3> QED
      BY <3>1, <3>2
  <2>5. Waiting'
    BY <2>1, <2>3 DEF Rate, Bounded, Waiting, Within
  <2> QED
    BY <2>4, <2>5 DEF Rate, Bounded, Waiting
<1>4. CASE SetLimit
  <2>1. peers' = peers /\ count' = count /\ paced' = paced /\ since' = [f \in Path |-> 0]
    BY <1>4 DEF SetLimit
  <2>2. \A f : Found(f)' = Found(f)
    BY <2>1 DEF Found
  <2>3. \A f : Found(f)' # {} => RateInUse(f)' \in Nat
    BY RateTypesThen
  <2>4. ASSUME NEW f \in Path PROVE Bounded(f)'
    BY <1>2, <2>1, <2>3 DEF Bounded
  <2>5. Waiting'
    <3> SUFFICES ASSUME paced # Idle
                 PROVE  /\ Found(paced.path)' # {} /\ Within(paced.path)'
                        /\ \A f \in Path : since'[f] <= count'
      BY <2>1 DEF Waiting
    <3>1. paced.path \in Path
      BY DEF NodeTypeOK, TypeOK, Packet
    <3>2. PICK f \in Path : f = paced.path /\ f = paced'.path
      BY <2>1, <3>1
    <3>3. Found(f)' # {} /\ RateInUse(f)' \in Nat
      BY <2>2, <2>3, <3>2 DEF Rate, Bounded, Waiting
    <3> QED
      BY <1>2, <2>1, <3>2, <3>3 DEF Within, Found, RateInUse, RateOf
  <2> QED
    BY <2>4, <2>5 DEF Rate, Bounded, Waiting
<1>5. ASSUME NEW p \in net, Pace(p) PROVE Rate'
  <2>1. PICK f0 \in Path : f0 = p.path
    BY DEF TypeOK, Packet
  <2>2. /\ peers' = peers /\ limit' = limit /\ paced' = p /\ Found(f0) # {}
        /\ IF count + 1 > RateInUse(f0) /\ RateInUse(f0) > 0
           THEN count' = 0 /\ since' = [f \in Path |-> 0]
           ELSE count' = count + 1 /\ since' = since
    BY <1>5, <2>1 DEF Pace, listVars
  <2>3. \A f : Found(f)' = Found(f) /\ RateInUse(f)' = RateInUse(f)
    BY <2>2 DEF Found, RateInUse, RateOf
  <2>4. \A f : Found(f) # {} => RateInUse(f) \in Nat
    BY RateTypes
  <2>5. \A f \in Path : since'[f] <= count' /\ since'[f] <= since[f] /\ since'[f] \in Nat
    BY <1>1, <1>2, <2>2 DEF Rate, Bounded, Waiting
  <2>6. count' \in Nat
    BY <1>2, <2>2
  <2>7. ASSUME NEW f \in Path PROVE Bounded(f)'
    BY <1>1, <2>3, <2>4, <2>5, <2>6 DEF Rate, Bounded, Waiting
  <2>8. RateInUse(f0) > 0 => since'[f0] <= RateInUse(f0)
    <3>1. CASE count + 1 > RateInUse(f0) /\ RateInUse(f0) > 0
      BY <2>2, <2>4, <3>1
    <3>2. CASE ~(count + 1 > RateInUse(f0) /\ RateInUse(f0) > 0)
      BY <1>1, <1>2, <2>2, <2>4, <2>5, <3>2
    <3> QED
      BY <3>1, <3>2
  <2>9. Waiting'
    <3>1. Found(f0)' # {} /\ Within(f0)'
      BY <2>2, <2>3, <2>8 DEF Within
    <3>2. paced'.path = f0
      BY <2>1, <2>2
    <3> QED
      BY <2>5, <3>1, <3>2 DEF Waiting, Within, Found, RateInUse, RateOf
  <2> QED
    BY <2>7, <2>9 DEF Rate, Bounded, Waiting
<1>6. CASE PassOn
  <2>1. PICK f0 \in Path : f0 = paced.path
    BY <1>6 DEF PassOn, NodeTypeOK, TypeOK, Packet
  <2>2. /\ peers' = peers /\ limit' = limit /\ count' = count /\ paced' = Idle
        /\ since' = [since EXCEPT ![f0] = @ + 1] /\ paced # Idle
    BY <1>6, <2>1 DEF PassOn, listVars
  <2>3. \A f : Found(f)' = Found(f) /\ RateInUse(f)' = RateInUse(f)
    BY <2>2 DEF Found, RateInUse, RateOf
  <2>4. /\ Found(f0) # {} /\ (RateInUse(f0) > 0 => since[f0] <= RateInUse(f0))
        /\ since[f0] <= count
    BY <2>1, <2>2 DEF Rate, Bounded, Waiting, Within
  <2>5. RateInUse(f0) \in Nat
    BY <2>4, RateTypes
  <2>6. \A f \in Path : since'[f] = IF f = f0 THEN since[f] + 1 ELSE since[f]
    BY <2>2 DEF NodeTypeOK
  <2>7. ASSUME NEW f \in Path PROVE Bounded(f)'
    <3>1. CASE f = f0
      BY <1>1, <1>2, <2>2, <2>3, <2>4, <2>5, <2>6, <3>1 DEF Bounded
    <3>2. CASE f # f0
      BY <2>2, <2>3, <2>6, <3>2 DEF Rate, Bounded, Waiting
    <3> QED
      BY <3>1, <3>2
  <2> QED
    BY <2>2, <2>7 DEF Rate, Bounded, Waiting
<1>7. ASSUME NEW c \in Client, NEW fd \in Fd, AcceptClient(c, fd) \/ LeaveSilently(c, fd)
      PROVE  Rate'
  BY <1>7, RateKept DEF AcceptClient, LeaveSilently, GoDown, listVars, rateVars
<1>8. ASSUME NEW p \in net, PeerServes(p) \/ PeerHasNoFile(p) \/ NoRate(p) PROVE Rate'
  BY <1>8, RateKept DEF PeerServes, PeerHasNoFile, NoRate, GoDown, listVars, rateVars
<1>9. CASE \/ ListClient \/ BeginOperatorsLine \/ Malformed \/ GoAstray
           \/ ReceiveText \/ UnknownType \/ RemoveFailed \/ UNCHANGED nodeVars
  BY <1>9, RateKept DEF ListClient, BeginOperatorsLine, Malformed, GoAstray, ReceiveText,
     UnknownType, RemoveFailed, GoDown, nodeVars, listVars, rateVars
<1>10. ASSUME NEW c \in Client,
              \/ TakeDescriptor(c) \/ BeginLine(c) \/ ViewListed(c) \/ ViewUnlisted(c)
              \/ HangupClient(c)
       PROVE  Rate'
  BY <1>10, RateKept DEF TakeDescriptor, BeginLine, ViewListed, ViewUnlisted, HangupClient,
     listVars, rateVars
<1> QED
  BY <1>3, <1>4, <1>5, <1>6, <1>7, <1>8, <1>9, <1>10 DEF NodeNext

-----------------------------------------------------------------------------
(* What the clients receive, while nobody has hung up.                     *)

(* When a client leaves without a request, or nobody is left on the        *)
(* descriptor, no datagram is for it.                                      *)
LEMMA LeaveStep ==
  ASSUME TypeOK, SockInv, TransferInv, Leaves
  PROVE  TransferInv'
<1>1. PICK c \in Client \ asked, fd \in Fd : sock[fd] \in {c, Nobody} /\ Close(fd, "cut")
  BY DEF Leaves
<1>2. /\ sock' = [sock EXCEPT ![fd] = Nobody]
      /\ \A d \in Client : ended'[d] = ended[d] \/ ended'[d] = "cut"
      /\ UNCHANGED <<body, asked, hung, net, udp, twice>>
  BY <1>1 DEF Leaves, Close, Closed, TypeOK
<1>3. \A p \in net : p.fd \in Fd /\ p.fd # fd /\ Carries(p, p.asker)'
  BY <1>1, <1>2, Addressed, StillCarries
<1>4. OneDatagram'
  BY <1>2, <1>3 DEF TransferInv, OneDatagram, TypeOK
<1> QED
  BY <1>2, <1>3, <1>4 DEF TransferInv, OwnStream, DoneIsWhole

(* When the process ends, nobody receives any more, and nobody is done.    *)
LEMMA FallStep ==
  ASSUME TypeOK, OwnStream, DoneIsWhole, Falls
  PROVE  OwnStream' /\ DoneIsWhole' /\ ~Up'
<1>1. /\ body' = body /\ ~Up'
      /\ \A c \in Client : ended'[c] = ended[c] \/ ended'[c] = "cut"
  BY DEF Falls, GoDown, Up
<1> QED
  BY <1>1 DEF OwnStream, DoneIsWhole

(* When it has ended, or gone astray, nothing more is followed.            *)
LEMMA DownStep ==
  ASSUME [NodeNext]_nodeVars, ~Up
  PROVE  UNCHANGED nodeVars
BY DEF NodeNext, AcceptClient, ListClient, TakeDescriptor, BeginLine, BeginOperatorsLine,
   LeaveSilently, HangupClient, AddPeer, SetLimit, ViewListed, ViewUnlisted, Malformed, GoAstray,
   PeerServes, PeerHasNoFile, NoRate, Pace, ReceiveText, UnknownType, PassOn, RemoveFailed

(* Who has hung up stays away.                                             *)
LEMMA HungKept ==
  ASSUME NodeTypeOK, [NodeNext]_nodeVars
  PROVE  hung \subseteq hung'
<1>1. [Next]_vars => hung \subseteq hung'
  BY DEF Next, AppendStep, LoadCount, StoreCount, StoreEntry, RemoveStep, SecondClose, DropLast,
     MoveLast, Accept, View, Ask, Hangup, LoseDatagram, ServeChunk, ServeNothing, Synack,
     HeaderFails, NotListed, ChunkFails, LastChunk, ForwardChunk, Blocks, vars, transferVars
<1> QED
  BY <1>1, NodeSteps DEF Asks, Ask, Leaves, Falls, Strays, vars, transferVars

(* While nobody has hung up, who has not asked yet keeps the descriptor    *)
(* through the steps of main, of the network and of the UDP thread.        *)
LEMMA UnaskedStay ==
  ASSUME TypeOK, SockInv, TransferInv, [Next]_vars, NEW c \in Client \ asked,
         NEW fd \in Fd, sock[fd] = c
  PROVE  sock'[fd] = c
<1>1. ASSUME NEW d \in Client, NEW e \in Fd, Accept(d, e) PROVE sock'[fd] = c
  <2>1. sock[e] = Nobody /\ sock' = [sock EXCEPT ![e] = d]
    BY <1>1 DEF Accept
  <2> QED
    BY <2>1, TransferAssumption DEF TypeOK
<1>2. ASSUME NEW p \in net, Synack(p) PROVE sock'[fd] = c
  <2>1. ~SendCanFail(p.fd) /\ sock[p.fd] = p.asker /\ p.asker \in asked
    BY Addressed
  <2>2. sock' = sock \/ sock' = [sock EXCEPT ![p.fd] = Nobody]
    BY <1>2, <2>1 DEF Synack, HeaderFails, NotListed, ChunkFails, LastChunk, ForwardChunk, Blocks,
       Close
  <2> QED
    BY <2>1, <2>2 DEF TypeOK
<1>3. ~SecondClose
  BY DEF SecondClose, TransferInv
<1> QED
  BY <1>1, <1>2, <1>3 DEF Next, AppendStep, LoadCount, StoreCount, StoreEntry, RemoveStep, DropLast,
     MoveLast, View, Ask, Hangup, LoseDatagram, ServeChunk, ServeNothing, vars, transferVars

(* Whose line is being cut, and the descriptor of the thread that cuts it. *)
LEMMA LineStep ==
  ASSUME NodeTypeOK, [NodeNext]_nodeVars
  PROVE  \/ line' \in {Nobody, Operator}
         \/ line' = line /\ (line \in Client => hand'[line] = hand[line])
         \/ line' \in Client /\ sock'[hand'[line']] = line'
<1>1. ASSUME NEW c \in Client, NEW fd \in Fd, LeaveSilently(c, fd)
      PROVE  line' = line /\ (line \in Client => hand'[line] = hand[line])
  BY <1>1 DEF LeaveSilently, NodeTypeOK
<1>2. ASSUME NEW c \in Client, TakeDescriptor(c)
      PROVE  line' = line /\ (line \in Client => hand'[line] = hand[line])
  BY <1>2 DEF TakeDescriptor, NodeTypeOK
<1>3. ASSUME NEW c \in Client, BeginLine(c)
      PROVE  line' \in Client /\ sock'[hand'[line']] = line'
  BY <1>3 DEF BeginLine, vars, transferVars
<1>4. ASSUME NEW c \in Client, ViewListed(c) \/ ViewUnlisted(c) PROVE line' = Nobody
  BY <1>4 DEF ViewListed, ViewUnlisted
<1>5. ASSUME BeginOperatorsLine \/ AddPeer \/ SetLimit PROVE line' \in {Nobody, Operator}
  BY <1>5 DEF BeginOperatorsLine, AddPeer, SetLimit
<1> QED
  BY <1>1, <1>2, <1>3, <1>4, <1>5 DEF NodeNext, AcceptClient, ListClient, HangupClient, Malformed,
     GoAstray, PeerServes, PeerHasNoFile, NoRate, Pace, ReceiveText, UnknownType, PassOn,
     RemoveFailed, nodeVars, threadVars

(* Every step keeps the streams apart.                                     *)
LEMMA StreamsStep ==
  ASSUME MaxTwice = 0, TypeOK, SockInv, NodeTypeOK, NodeTypeOK', Streams, [NodeNext]_nodeVars
  PROVE  Streams'
<1> SUFFICES ASSUME hung' = {}
             PROVE  OwnStream' /\ DoneIsWhole' /\ (Up' => TransferInv' /\ Reading')
  BY DEF Streams
<1>1. OwnStream /\ DoneIsWhole /\ (Up => TransferInv /\ Reading)
  BY HungKept DEF Streams
<1>2. CASE ~Up
  BY <1>1, <1>2, DownStep DEF OwnStream, DoneIsWhole, Up, nodeVars, vars
<1>3. CASE Up
  <2>1. TransferInv /\ Reading
    BY <1>1, <1>3
  <2>2. Nobody \notin Client /\ Operator \notin Client
    BY TransferAssumption, PeerStreamAssumption
  <2>3. line \in Client => hand[line] \in Fd /\ line \notin asked
    BY DEF NodeTypeOK
  <2>4. ASSUME line \in Client => sock'[hand[line]] = line
        PROVE  Reading'
    BY <2>2, <2>4, LineStep DEF Reading
  <2>5. CASE [Next]_vars
    <3>1. TransferInv'
      BY <2>1, <2>5, TransferStep
    <3>2. Reading'
      BY <2>1, <2>3, <2>4, <2>5, UnaskedStay DEF Reading
    <3> QED
      BY <3>1, <3>2 DEF TransferInv
  <2>6. CASE Leaves
    <3>1. TransferInv'
      BY <2>1, <2>6, LeaveStep
    <3>2. PICK c \in Client, fd \in Fd :
            sock[fd] \in {c, Nobody} /\ c # line /\ sock' = [sock EXCEPT ![fd] = Nobody]
      BY <2>6 DEF Leaves, Close
    <3>3. line \in Client => sock'[hand[line]] = line
      BY <2>1, <2>2, <2>3, <3>2 DEF Reading, TypeOK
    <3> QED
      BY <2>4, <3>1, <3>3 DEF TransferInv
  <2>7. CASE Asks
    <3>1. line \in Client /\ hand[line] \in Fd /\ Ask(line, hand[line])
      BY <2>7 DEF Asks
    <3>2. TransferInv'
      BY <2>1, <3>1, AskStep DEF Reading
    <3>3. sock' = sock
      BY <3>1 DEF Ask
    <3> QED
      BY <2>1, <2>4, <3>2, <3>3 DEF TransferInv, Reading
  <2>8. CASE Falls
    BY <1>1, <2>8, FallStep
  <2>9. CASE Strays
    BY <2>1, <2>9 DEF Strays, Up, TransferInv, OwnStream, DoneIsWhole, vars
  <2> QED
    BY <2>5, <2>6, <2>7, <2>8, <2>9, NodeSteps
<1> QED
  BY <1>2, <1>3

-----------------------------------------------------------------------------
(* What every state of every run of the node has.                          *)
LEMMA NodeAlways == NodeSpec => [](TypeOK /\ SockInv /\ Care /\ Rate)
<1>1. NodeInit => TypeOK /\ SockInv /\ Care /\ Rate
  <2> SUFFICES ASSUME NodeInit PROVE TypeOK /\ SockInv /\ Care /\ Rate
    OBVIOUS
  <2>1. TypeOK
    <3>1. Idling \in Udp /\ Idling.at = "idle"
      BY DEF Idling, Udp
    <3> QED
      BY <3>1, TransferAssumption, EmptySeq DEF NodeInit, Init, StreamInit, TypeOK, Main
  <2>2. SockInv
    BY TransferAssumption DEF NodeInit, Init, StreamInit, SockInv
  <2>3. NodeTypeOK
    <3>1. peers \in Seq([path : Path, rate : Nat]) /\ Len(peers) <= MaxListed
      BY PeerStreamAssumption, EmptySeq DEF NodeInit
    <3>2. /\ hand \in [Client -> Fd \union {Free}] /\ \A c \in Client : hand[c] = Free
          /\ since \in [Path -> Nat]
      BY DEF NodeInit
    <3>3. line = Nobody /\ Nobody \notin Client
      BY TransferAssumption DEF NodeInit
    <3>4. /\ limit = 0 /\ count = 0 /\ paced = Idle /\ texts = 0 /\ node = "up"
          /\ told = {} /\ silent = {} /\ asked = {} /\ malformed = FALSE
          /\ orders \in 0 .. MaxOrders
      BY PeerStreamAssumption DEF NodeInit, Init
    <3> QED
      BY <3>1, <3>2, <3>3, <3>4 DEF NodeTypeOK
  <2>4. Care
    BY <2>3 DEF NodeInit, Init, Care, Taken, Asked, Texts, UpWhileCareful, Up
  <2>5. \A f : Found(f) = {}
    BY EmptySeq DEF NodeInit, Found
  <2>6. Rate
    BY <2>5 DEF NodeInit, Rate, Bounded, Waiting
  <2> QED
    BY <2>1, <2>2, <2>4, <2>6
<1>2. TypeOK /\ SockInv /\ Care /\ Rate /\ [NodeNext]_nodeVars
        => (TypeOK /\ SockInv /\ Care /\ Rate)'
  <2> SUFFICES ASSUME TypeOK, SockInv, Care, Rate, [NodeNext]_nodeVars
               PROVE  (TypeOK /\ SockInv /\ Care /\ Rate)'
    OBVIOUS
  <2>1. Care'
    BY CareStep
  <2>2. NodeTypeOK /\ NodeTypeOK'
    BY <2>1 DEF Care
  <2> QED
    BY <2>1, <2>2, NodeSockStep, RateStep
<1> QED
  BY <1>1, <1>2, PTL DEF NodeSpec

(* Between two sleeps of the UDP thread a path with a rate gets no more of *)
(* its chunks through than the rate and the one that was slept for, though *)
(* all paths share one counter, entries are added and limits change: Chunk *)
(* times as many bytes as the "Bytes per second" the code calls it.        *)
THEOREM RatesAreKept == NodeSpec => []Paced
<1>1. TypeOK /\ SockInv /\ Care /\ Rate => Paced
  <2> SUFFICES ASSUME Care, Rate, NEW f \in Path, Found(f) # {}, RateInUse(f) > 0
               PROVE  since[f] * Chunk <= (RateInUse(f) + 1) * Chunk
    BY DEF Care, Paced
  <2>1. since[f] \in Nat /\ RateInUse(f) \in Nat /\ Chunk \in Nat
    BY RateTypes, StreamAssumption DEF Care, NodeTypeOK
  <2>2. since[f] <= RateInUse(f) + 1
    BY DEF Rate, Bounded
  <2>3. \A a, b, c \in Nat : a <= b => a * c <= b * c
    OBVIOUS
  <2> QED
    BY <2>1, <2>2, <2>3
<1> QED
  BY <1>1, NodeAlways, PTL

(* Nothing ends the node but a client that leaves without a request, a     *)
(* request that lacks what its route needs or is /peer/kill, threads that  *)
(* get in each other's way, and requests for paths that are missing, of no *)
(* known type, or too far down the list.                                   *)
THEOREM StaysUp == NodeSpec => []UpWhileCareful
<1>1. TypeOK /\ SockInv /\ Care /\ Rate => UpWhileCareful
  BY DEF Care
<1> QED
  BY <1>1, NodeAlways, PTL

(* Until a client hangs up or threads get in each other's way, each client *)
(* receives the beginning of its own file, and the whole of it before it   *)
(* is done, on a network that repeats nothing: rates, clients that leave,  *)
(* late removals and the end of the node take no chunk from one to another.*)
THEOREM StreamsAreOwn ==
  ASSUME MaxTwice = 0
  PROVE  NodeSpec => []OwnStreamHere
<1>1. NodeInit => Streams
  BY TransferInit, TransferAssumption DEF NodeInit, Streams, Reading, TransferInv
<1>2. TypeOK /\ SockInv /\ Care /\ Rate /\ Streams /\ [NodeNext]_nodeVars => Streams'
  <2> SUFFICES ASSUME TypeOK, SockInv, Care, Rate, Streams, [NodeNext]_nodeVars
               PROVE  Streams'
    OBVIOUS
  <2>1. NodeTypeOK /\ NodeTypeOK'
    BY CareStep DEF Care
  <2> QED
    BY <2>1, StreamsStep
<1>3. Streams => OwnStreamHere
  BY DEF Streams, OwnStreamHere
<1> QED
  BY <1>1, <1>2, <1>3, NodeAlways, PTL DEF NodeSpec
=============================================================================
