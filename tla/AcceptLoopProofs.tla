-------------------------- MODULE AcceptLoopProofs --------------------------
(***************************************************************************)
(* Machine-checked facts about AcceptLoop, for any clients, requests,      *)
(* descriptors and length of the tables.                                   *)
(***************************************************************************)
EXTENDS AcceptLoop, TLAPS

(* Who has been accepted, has a thread, and has been waited for.           *)
Started ==
  /\ waiting \intersect met = {}
  /\ main # Nobody => main \in met /\ pc[main] = "none"
  /\ \A c \in Client : pc[c] # "none" => c \in met
  /\ \A i \in 0 .. index - 1 : threads[i] \in Client \ joined
  /\ \A c \in joined : pc[c] # "none"

(* No client has two descriptors.                                          *)
Sockets ==
  /\ \A fd \in Fd : sock[fd] # Nobody => sock[fd] \in met
  /\ \A f, g \in Fd : sock[f] = sock[g] /\ sock[f] # Nobody => f = g

(* A thread that has received a request is the only one that has it; until *)
(* another thread calls strtok, what is saved is the path of that request, *)
(* if it has one.                                                          *)
Reading == {"path", "version", "answering"}
Text(d) == IF asks[d] \in Pathless THEN End ELSE <<d, 2>>
Lines ==
  /\ \A c \in Client : pc[c] \in {"none", "created", "receiving"} => job[c] = Nobody
  /\ \A c \in Client : pc[c] \in Reading => job[c] \in Client
  /\ \A c \in Client : job[c] # Nobody => said[job[c]] = "read"
  /\ \A b, c \in Client : job[b] = job[c] /\ job[b] # Nobody => b = c
  /\ ~crossed => \A c \in Client :
       /\ pc[c] = "path" => saved = Text(job[c])
       /\ pc[c] \in {"version", "answering"} => line[c] = job[c]

(* Nothing has gone wrong that the properties exclude: the descriptor of a *)
(* thread, and of a transfer, leads to the client it is for, and a client  *)
(* that has been accepted is connected until it has its answer or has gone.*)
Undisturbed == OwnConnection /\ ~hit /\ ~crossed

OwnThread(c) ==
  /\ pc[c] \in Reading \union {"receiving", "closing"} => hand[c] \in Fd /\ sock[hand[c]] = c
  /\ pc[c] \in Reading => job[c] = c
  /\ pc[c] = "closing" => c \in gone

OwnTransfer(m) == sock[m[1]] = m[2] /\ pc[m[2]] = "done"

Attended(c) == c \in Connected \/ c \in gone \/ c \in reply[c]

Own ==
  /\ \A c \in Client : OwnThread(c)
  /\ \A m \in moving : OwnTransfer(m)
  /\ \A c \in Client : reply[c] \subseteq {c}
  /\ \A c \in met : Attended(c)
  /\ down => \E c \in Client : Fatal(c)

-----------------------------------------------------------------------------
(* Whom a descriptor leads to, who is told, and what is left open.         *)
LEMMA SocketTypes ==
  ASSUME TypeOK, NEW e \in Entry \union {Nobody}, NEW d \in Client
  PROVE  /\ Holder(e) \in Client \union {Nobody}
         /\ Closed(e) \in [Fd -> Client \union {Nobody}]
         /\ Told(e, d) \in [Client -> SUBSET Client]
BY DEF TypeOK, Holder, Closed, Told

(* A thread that answers has a path, which is that of some request.        *)
LEMMA RouteLine ==
  ASSUME TypeOK, NEW c \in Client, Route(c) \notin Silent
  PROVE  line[c] \in Client
<1>1. CASE line[c] = Nobody
  BY <1>1 DEF Route, Path, Posts, Silent
<1>2. CASE line[c] # Nobody
  BY <1>2 DEF TypeOK
<1> QED
  BY <1>1, <1>2

(* With the path of its own request a thread takes the route asked for.    *)
LEMMA OwnRoute ==
  ASSUME NEW c \in Client, job[c] \in Client, line[c] = job[c]
  PROVE  Route(c) = asks[job[c]]
BY AcceptAssumption DEF Route, Path

(* Every route is of one kind.                                             *)
LEMMA RouteKinds ==
  /\ Closing \intersect Silent = {} /\ Leaving \intersect Silent = {}
  /\ Remote \intersect Silent = {}
BY DEF Closing, Leaving, Silent, Remote

(* Every action of a worker leaves most of the state alone.                *)
LEMMA WorkerFrame ==
  ASSUME NEW c \in Client, Worker(c)
  PROVE  UNCHANGED <<waiting, met, listed, slot, main, threads, index, joined, asks, gone,
                     again, hit, failed>>
BY DEF Worker, ReadArgument, Receive, ReceiveFails, TakePath, NoPath, TakeVersion,
       CloseFailed, PeerUnknown, EndProcess, AnswerAndClose, LeaveOpen, HandOver,
       mainVars, workVars, talkVars, udpVars, lineVars

(* What a worker does keeps the types.                                     *)
LEMMA WorkerTypes ==
  ASSUME TypeOK, NEW c \in Client, Worker(c)
  PROVE  TypeOK'
<1> USE DEF mainVars, workVars, talkVars, udpVars, lineVars, Goto
<1>1. Holder(hand[c]) \in Client \union {Nobody} /\ Holder(slot) \in Client \union {Nobody}
  BY SocketTypes DEF TypeOK
<1>2. CASE ReadArgument(c)
  BY <1>1, <1>2 DEF ReadArgument, TypeOK
<1>3. CASE Receive(c)
  <2>1. Holder(hand[c]) \in Client
    BY <1>1, <1>3 DEF Receive
  <2>2. crossed' \in BOOLEAN /\ saved' \in (Client \union {Nobody}) \X (0 .. 4)
    BY <1>3, <2>1 DEF Receive, Touch, End, TypeOK
  <2> QED
    BY <1>3, <2>1, <2>2 DEF Receive, TypeOK
<1>4. CASE ReceiveFails(c)
  BY <1>4 DEF ReceiveFails, TypeOK
<1>5. CASE TakePath(c)
  <2>1. saved' \in (Client \union {Nobody}) \X (0 .. 4) /\ saved[1] \in Client \union {Nobody}
    BY <1>5 DEF TakePath, AfterSpace, End, TypeOK
  <2>2. line' \in [Client -> Client \union {Nobody}] /\ crossed' \in BOOLEAN
    BY <1>5, <2>1 DEF TakePath, Touch, TypeOK
  <2> QED
    BY <1>5, <2>1, <2>2 DEF TakePath, TypeOK
<1>6. CASE NoPath(c)
  BY <1>6 DEF NoPath, TypeOK
<1>7. CASE TakeVersion(c)
  <2>1. saved' \in (Client \union {Nobody}) \X (0 .. 4) /\ crossed' \in BOOLEAN
    BY <1>7 DEF TakeVersion, AfterLine, End, Touch, TypeOK
  <2> QED
    BY <1>7, <2>1 DEF TakeVersion, TypeOK
<1>8. CASE CloseFailed(c)
  <2>1. Closed(hand[c]) \in [Fd -> Client \union {Nobody}]
    BY SocketTypes DEF TypeOK
  <2> QED
    BY <1>8, <2>1 DEF CloseFailed, TypeOK
<1>9. CASE PeerUnknown(c) \/ EndProcess(c)
  BY <1>9 DEF PeerUnknown, EndProcess, TypeOK
<1>10. CASE AnswerAndClose(c)
  <2>1. line[c] \in Client
    BY <1>10, RouteLine, RouteKinds DEF AnswerAndClose
  <2>2. /\ Closed(hand[c]) \in [Fd -> Client \union {Nobody}]
        /\ Told(hand[c], line[c]) \in [Client -> SUBSET Client]
    BY <2>1, SocketTypes DEF TypeOK
  <2> QED
    BY <1>10, <2>2 DEF AnswerAndClose, Answered, TypeOK
<1>11. CASE LeaveOpen(c)
  <2>1. Route(c) \in Leaving => Told(hand[c], line[c]) \in [Client -> SUBSET Client]
    BY RouteLine, RouteKinds, SocketTypes DEF TypeOK
  <2>2. reply' \in [Client -> SUBSET Client]
    BY <1>11, <2>1 DEF LeaveOpen, Answered, TypeOK
  <2> QED
    BY <1>11, <2>2 DEF LeaveOpen, TypeOK
<1>12. CASE HandOver(c)
  <2>1. line[c] \in Client
    BY <1>12, RouteLine, RouteKinds DEF HandOver
  <2>2. moving' \subseteq Fd \X Client
    BY <1>12, <2>1 DEF HandOver, TypeOK
  <2> QED
    BY <1>12, <2>2 DEF HandOver, TypeOK
<1> QED
  BY <1>2, <1>3, <1>4, <1>5, <1>6, <1>7, <1>8, <1>9, <1>10, <1>11, <1>12 DEF Worker

(* A worker goes on from where it is, and never back to where it began.    *)
LEMMA WorkerPlace ==
  ASSUME TypeOK, NEW c \in Client, Worker(c)
  PROVE  /\ pc[c] \notin {"none", "done"}
         /\ \A d \in Client \ {c} : pc'[d] = pc[d]
         /\ \/ pc'[c] \in {"receiving", "path", "version", "answering", "closing", "done"}
            \/ pc'[c] = pc[c]
BY DEF Worker, ReadArgument, Receive, ReceiveFails, TakePath, NoPath, TakeVersion,
       CloseFailed, PeerUnknown, EndProcess, AnswerAndClose, LeaveOpen, HandOver, Goto, TypeOK,
       mainVars, workVars, talkVars, udpVars, lineVars

(* What the UDP thread does keeps the types, and leaves the threads alone. *)
LEMMA UdpFrame ==
  ASSUME UdpThread
  PROVE  UNCHANGED <<waiting, met, slot, main, threads, index, joined, pc, hand, took, job,
                     said, asks, gone, failed, line, down>>
BY DEF UdpThread, PassChunk, CutDatagram, Transfer, TransferEnds, TransferFails,
       RemoveSocket, mainVars, workVars, talkVars, udpVars, lineVars

(* The UDP thread keeps the types, though every one of its steps may call  *)
(* strtok and two of them close a descriptor.                              *)
LEMMA UdpTypes ==
  ASSUME TypeOK, UdpThread
  PROVE  TypeOK'
<1> USE DEF mainVars, workVars, talkVars, udpVars, lineVars
<1>1. ASSUME CutDatagram
      PROVE  saved' \in (Client \union {Nobody}) \X (0 .. 4) /\ crossed' \in BOOLEAN
  BY <1>1 DEF CutDatagram, Touch, End, TypeOK
<1>2. CASE PassChunk
  <2>1. CutDatagram
    BY <1>2 DEF PassChunk
  <2> QED
    BY <1>1, <1>2, <2>1, UdpFrame DEF PassChunk, TypeOK
<1>3. ASSUME NEW fd \in Fd, NEW d \in Client, TransferEnds(fd, d) PROVE TypeOK'
  <2>1. CutDatagram /\ moving' \subseteq Fd \X Client
    BY <1>3 DEF TransferEnds, Transfer, TypeOK
  <2>2. sock' \in [Fd -> Client \union {Nobody}] /\ reply' \in [Client -> SUBSET Client]
    <3>1. /\ Closed(fd) \in [Fd -> Client \union {Nobody}]
          /\ Told(fd, d) \in [Client -> SUBSET Client]
      BY SocketTypes DEF Entry
    <3> QED
      BY <1>3, <3>1 DEF TransferEnds, TypeOK
  <2> QED
    BY <1>1, <1>3, <2>1, <2>2, UdpFrame DEF TransferEnds, TypeOK
<1>4. ASSUME NEW fd \in Fd, NEW d \in Client, TransferFails(fd, d) PROVE TypeOK'
  <2>1. CutDatagram /\ moving' \subseteq Fd \X Client
    BY <1>4 DEF TransferFails, Transfer, TypeOK
  <2>2. Closed(fd) \in [Fd -> Client \union {Nobody}]
    <3>1. fd \in Entry \union {Nobody} /\ d \in Client
      BY DEF Entry
    <3> QED
      BY <3>1, SocketTypes
  <2> QED
    BY <1>1, <1>4, <2>1, <2>2, UdpFrame DEF TransferFails, TypeOK
<1>5. CASE RemoveSocket
  <2>1. again \in Fd
    BY <1>5 DEF RemoveSocket, TypeOK
  <2>2. sock' \in [Fd -> Client \union {Nobody}]
    BY <1>5, <2>1 DEF RemoveSocket, Closed, TypeOK
  <2>3. listed' \in [Entry -> Nat] /\ hit' \in BOOLEAN
    <3>1. CASE listed[again] > 0
      <4>1. listed[again] - 1 \in Nat
        BY <2>1, <3>1 DEF Entry, TypeOK
      <4>2. listed' \in [Entry -> Nat]
        BY <1>5, <3>1, <4>1 DEF RemoveSocket, TypeOK
      <4>3. hit' \in BOOLEAN
        BY <1>5, <3>1 DEF RemoveSocket
      <4> QED
        BY <4>2, <4>3
    <3>2. CASE ~(listed[again] > 0)
      BY <1>5, <3>2 DEF RemoveSocket, TypeOK
    <3> QED
      BY <3>1, <3>2
  <2> QED
    BY <1>5, <2>2, <2>3, UdpFrame DEF RemoveSocket, TypeOK
<1> QED
  BY <1>2, <1>3, <1>4, <1>5 DEF UdpThread

(* What the main thread does keeps the types, as long as the thread it     *)
(* waits for is one.                                                       *)
LEMMA MainTypes ==
  ASSUME TypeOK, Started, Main
  PROVE  TypeOK'
<1> USE DEF mainVars, workVars, talkVars, udpVars, lineVars
<1>1. ASSUME NEW c \in Client, NEW fd \in Fd, Accept(c, fd) PROVE TypeOK'
  <2>1. listed' \in [Entry -> Nat] /\ sock' \in [Fd -> Client \union {Nobody}]
    BY <1>1 DEF Accept, Entry, TypeOK
  <2> QED
    BY <1>1, <2>1 DEF Accept, Entry, TypeOK
<1>2. CASE AcceptFails
  <2>1. listed' \in [Entry -> Nat] /\ failed' \in 0 .. MaxFailed
    BY <1>2, AcceptAssumption DEF AcceptFails, Entry, TypeOK
  <2> QED
    BY <1>2, <2>1 DEF AcceptFails, Entry, TypeOK
<1>3. CASE SpawnThread
  <2>1. /\ main \in Client /\ index \in 0 .. MaxThreads - 1
        /\ index' \in 0 .. MaxThreads
    BY <1>3, AcceptAssumption DEF SpawnThread, TypeOK
  <2>2. pc' \in [Client -> {"none", "created", "receiving", "path", "version",
                            "answering", "closing", "done"}]
    BY <1>3, <2>1 DEF SpawnThread, Created, TypeOK
  <2>3. threads' \in [0 .. MaxThreads - 1 -> Client \union {Nobody}]
    BY <1>3, <2>1 DEF SpawnThread, TypeOK
  <2> QED
    BY <1>3, <2>1, <2>2, <2>3 DEF SpawnThread, TypeOK
<1>4. CASE JoinAndSpawn
  <2>1. /\ main \in Client /\ threads[0] \in Client
        /\ index' \in 0 .. MaxThreads
    BY <1>4, AcceptAssumption DEF JoinAndSpawn, Started, TypeOK
  <2>2. pc' \in [Client -> {"none", "created", "receiving", "path", "version",
                            "answering", "closing", "done"}]
    BY <1>4, <2>1 DEF JoinAndSpawn, Created, TypeOK
  <2>3. threads' \in [0 .. MaxThreads - 1 -> Client \union {Nobody}]
    BY <1>4, <2>1 DEF JoinAndSpawn
  <2> QED
    BY <1>4, <2>1, <2>2, <2>3 DEF JoinAndSpawn, TypeOK
<1> QED
  BY <1>1, <1>2, <1>3, <1>4 DEF Main

(* Every step keeps the types.                                             *)
LEMMA TypeStep ==
  ASSUME TypeOK, Started, [Next]_vars
  PROVE  TypeOK'
<1> USE DEF mainVars, workVars, talkVars, udpVars, lineVars
<1>1. ASSUME NEW c \in Client, Connect(c) \/ SendRequest(c) \/ Hangup(c) PROVE TypeOK'
  <2>1. CASE Connect(c)
    BY <2>1 DEF Connect, TypeOK
  <2>2. CASE SendRequest(c)
    <3>1. asks' \in [Client -> Routes \union {"none"}]
      <4>1. PICK route \in Asks[c] : asks' = [asks EXCEPT ![c] = route]
        BY <2>2 DEF SendRequest
      <4>2. route \in Routes
        BY <4>1, AcceptAssumption
      <4> QED
        BY <4>1, <4>2 DEF TypeOK
    <3> QED
      BY <2>2, <3>1 DEF SendRequest, TypeOK
  <2>3. CASE Hangup(c)
    BY <2>3 DEF Hangup, TypeOK
  <2> QED
    BY <1>1, <2>1, <2>2, <2>3
<1>2. CASE UNCHANGED vars
  BY <1>2 DEF vars, TypeOK
<1> QED
  BY <1>1, <1>2, MainTypes, WorkerTypes, UdpTypes DEF Next

(* Every thread is started for an accepted client and waited for once.     *)
LEMMA StartedStep ==
  ASSUME TypeOK, Started, [Next]_vars
  PROVE  Started'
<1> USE DEF mainVars, workVars, talkVars, udpVars, lineVars
<1>1. ASSUME NEW c \in Client, Connect(c) PROVE Started'
  BY <1>1 DEF Connect, Started
<1>2. ASSUME NEW c \in Client, NEW fd \in Fd, Accept(c, fd) PROVE Started'
  BY <1>2, AcceptAssumption DEF Accept, Started, TypeOK
<1>3. CASE SpawnThread
  <2>1. /\ main \in Client /\ main \in met /\ pc[main] = "none"
        /\ index \in 0 .. MaxThreads - 1 /\ MaxThreads \in Nat \ {0}
        /\ main \notin joined
    BY <1>3, AcceptAssumption DEF SpawnThread, Started, TypeOK
  <2>2. /\ pc' = [pc EXCEPT ![main] = "created"] /\ threads' = [threads EXCEPT ![index] = main]
        /\ index' = index + 1 /\ main' = Nobody
        /\ UNCHANGED <<waiting, met, joined>>
    BY <1>3 DEF SpawnThread, Created
  <2>3. \A i \in 0 .. index' - 1 : threads'[i] \in Client \ joined'
    <3> SUFFICES ASSUME NEW i \in 0 .. index PROVE threads'[i] \in Client \ joined
      BY <2>1, <2>2
    <3>1. CASE i = index
      BY <2>1, <2>2, <3>1 DEF TypeOK
    <3>2. CASE i # index
      <4>1. i \in 0 .. index - 1 /\ i \in 0 .. MaxThreads - 1
        BY <2>1, <3>2
      <4> QED
        BY <2>1, <2>2, <4>1, <3>2 DEF Started, TypeOK
    <3> QED
      BY <3>1, <3>2
  <2> QED
    BY <2>1, <2>2, <2>3 DEF Started, TypeOK
<1>4. CASE JoinAndSpawn
  <2>1. /\ main \in Client /\ main \in met /\ pc[main] = "none"
        /\ threads[0] \in Client /\ pc[threads[0]] = "done"
    BY <1>4, AcceptAssumption DEF JoinAndSpawn, Started, TypeOK
  <2>2. /\ pc' = [pc EXCEPT ![main] = "created"] /\ joined' = joined \union {threads[0]}
        /\ index' = 0 /\ main' = Nobody
        /\ UNCHANGED <<waiting, met>>
    BY <1>4 DEF JoinAndSpawn, Created
  <2>3. 0 .. index' - 1 = {}
    BY <2>2
  <2> QED
    BY <2>1, <2>2, <2>3 DEF Started, TypeOK
<1>5. ASSUME UNCHANGED <<waiting, met, main, threads, index, joined>>,
             \A c \in Client : pc'[c] = "none" <=> pc[c] = "none"
      PROVE  Started'
  BY <1>5 DEF Started, TypeOK
<1>6. ASSUME NEW c \in Client, Worker(c) PROVE Started'
  <2>1. \A d \in Client : pc'[d] = "none" <=> pc[d] = "none"
    BY <1>6, WorkerPlace
  <2> QED
    BY <1>5, <1>6, <2>1, WorkerFrame
<1>7. CASE UdpThread
  BY <1>5, <1>7, UdpFrame
<1>8. ASSUME NEW c \in Client, SendRequest(c) \/ Hangup(c) PROVE Started'
  BY <1>5, <1>8 DEF SendRequest, Hangup
<1>9. CASE AcceptFails
  BY <1>5, <1>9 DEF AcceptFails
<1>10. CASE UNCHANGED vars
  BY <1>5, <1>10 DEF vars
<1> QED
  BY <1>1, <1>2, <1>3, <1>4, <1>6, <1>7, <1>8, <1>9, <1>10 DEF Next, Main

(* At first nobody has been accepted and there are no threads.             *)
LEMMA InitTypes ==
  ASSUME Init
  PROVE  TypeOK /\ Started
<1>1. saved \in (Client \union {Nobody}) \X (0 .. 4) /\ index \in 0 .. MaxThreads
  BY AcceptAssumption DEF Init, End
<1>2. failed \in 0 .. MaxFailed /\ 0 .. index - 1 = {}
  BY AcceptAssumption DEF Init
<1> QED
  BY <1>1, <1>2 DEF Init, TypeOK, Started

(* The thread main waits for is one that was started and that nobody has   *)
(* waited for.                                                             *)
THEOREM JoinsAreValid == Spec => []JoinsValid
<1>1. Init => TypeOK /\ Started
  BY InitTypes
<1>2. TypeOK /\ Started /\ [Next]_vars => (TypeOK /\ Started)'
  BY TypeStep, StartedStep
<1>3. TypeOK /\ Started => JoinsValid
  BY AcceptAssumption DEF Started, JoinsValid
<1> QED
  BY <1>1, <1>2, <1>3, PTL DEF Spec

-----------------------------------------------------------------------------
(* Closing a descriptor takes it from the client it leads to, if any, and  *)
(* from no other.                                                          *)
LEMMA CloseOne ==
  ASSUME TypeOK, NEW e \in Entry \union {Nobody}, sock' = Closed(e)
  PROVE  /\ \A f \in Fd : sock'[f] = IF f = e THEN Nobody ELSE sock[f]
         /\ \A c \in Client \ {Holder(e)}, f \in Fd : sock[f] = c => sock'[f] = c
         /\ Connected \ {Holder(e)} \subseteq Connected'
<1>1. \A f \in Fd : sock'[f] = IF f = e THEN Nobody ELSE sock[f]
  BY DEF Closed, TypeOK
<1>2. \A c \in Client \ {Holder(e)}, f \in Fd : sock[f] = c => sock'[f] = c
  BY <1>1 DEF Holder
<1>3. Connected \ {Holder(e)} \subseteq Connected'
  BY <1>1, <1>2 DEF Connected, TypeOK
<1> QED
  BY <1>1, <1>2, <1>3

(* A step that moves descriptors either closes one or accepts a client.    *)
LEMMA SockMoves ==
  ASSUME TypeOK, [Next]_vars
  PROVE  \/ sock' = sock
         \/ \E e \in Entry \union {Nobody} : sock' = Closed(e) /\ met' = met
         \/ \E c \in Client, fd \in Fd : Accept(c, fd)
<1> USE DEF mainVars, workVars, talkVars, udpVars, lineVars
<1>1. ASSUME NEW c \in Client, Worker(c)
      PROVE  sock' = sock \/ (sock' = Closed(hand[c]) /\ met' = met)
  BY <1>1 DEF Worker, ReadArgument, Receive, ReceiveFails, TakePath, NoPath, TakeVersion,
              CloseFailed, PeerUnknown, EndProcess, AnswerAndClose, LeaveOpen, HandOver
<1>2. \A c \in Client : hand[c] \in Entry \union {Nobody}
  BY DEF TypeOK
<1>3. ASSUME UdpThread
      PROVE  \/ sock' = sock
             \/ \E e \in Entry \union {Nobody} : sock' = Closed(e) /\ met' = met
  <2>1. CASE PassChunk
    BY <2>1 DEF PassChunk
  <2>2. ASSUME NEW fd \in Fd, NEW d \in Client, TransferEnds(fd, d) \/ TransferFails(fd, d)
        PROVE  sock' = sock \/ sock' = Closed(fd)
    BY <2>2 DEF TransferEnds, TransferFails
  <2>3. CASE RemoveSocket
    <3>1. again \in Fd /\ (sock' = sock \/ sock' = Closed(again))
      BY <2>3 DEF RemoveSocket, TypeOK
    <3> QED
      BY <1>3, <3>1, UdpFrame DEF Entry
  <2> QED
    BY <1>3, <2>1, <2>2, <2>3, UdpFrame DEF UdpThread, Entry
<1> QED
  BY <1>1, <1>2, <1>3
     DEF Next, Main, Connect, SendRequest, Hangup, AcceptFails, SpawnThread, JoinAndSpawn, vars

(* No client gets a second descriptor.                                     *)
LEMMA SocketsStep ==
  ASSUME TypeOK, Started, Sockets, [Next]_vars
  PROVE  Sockets'
<1>1. CASE sock' = sock
  <2>1. met \subseteq met'
    BY WorkerFrame, UdpFrame
       DEF Next, Main, Connect, SendRequest, Hangup, Accept, AcceptFails, SpawnThread,
           JoinAndSpawn, vars, mainVars, workVars, talkVars, udpVars, lineVars
  <2> QED
    BY <1>1, <2>1 DEF Sockets
<1>2. ASSUME NEW e \in Entry \union {Nobody}, sock' = Closed(e), met' = met PROVE Sockets'
  BY <1>2, CloseOne DEF Sockets
<1>3. ASSUME NEW c \in Client, NEW fd \in Fd, Accept(c, fd) PROVE Sockets'
  <2>1. c \notin met /\ met' = met \union {c} /\ sock' = [sock EXCEPT ![fd] = c]
    BY <1>3 DEF Accept, Started
  <2> QED
    BY <2>1 DEF Sockets, TypeOK
<1> QED
  BY <1>1, <1>2, <1>3, SockMoves

-----------------------------------------------------------------------------
(* As long as nobody has interfered, what a thread cuts the path from is   *)
(* its own request, still on its stack.                                    *)
LEMMA OwnText ==
  ASSUME TypeOK, Lines, ~crossed, NEW c \in Client, pc[c] = "path"
  PROVE  /\ job[c] \in Client /\ said[job[c]] = "read"
         /\ saved = Text(job[c]) /\ ~Stale(saved)
         /\ saved # End => saved = <<job[c], 2>>
         /\ saved = End => asks[job[c]] \in Pathless
<1>1. saved = Text(job[c]) /\ job[c] \in Client /\ said[job[c]] = "read"
  BY AcceptAssumption DEF Lines, Reading
<1>2. <<job[c], 2>> # End
  BY DEF End
<1>3. ASSUME NEW t \in Client, job[t] = saved[1], job[t] # Nobody, pc[t] \in {"closing", "done"}
      PROVE  FALSE
  <2>1. CASE saved = End
    BY <1>3, <2>1 DEF End
  <2>2. CASE saved = <<job[c], 2>>
    <3>1. t = c
      BY <1>1, <1>3, <2>2, AcceptAssumption DEF Lines
    <3> QED
      BY <1>3, <3>1
  <2> QED
    BY <1>1, <2>1, <2>2 DEF Text
<1> QED
  BY <1>1, <1>2, <1>3 DEF Stale, Text

(* A step of one thread leaves what the others have received.              *)
LEMMA WorkerOthers ==
  ASSUME TypeOK, NEW c \in Client, Worker(c), NEW d \in Client, d # c
  PROVE  /\ pc'[d] = pc[d] /\ hand'[d] = hand[d] /\ took'[d] = took[d]
         /\ job'[d] = job[d] /\ line'[d] = line[d]
BY DEF Worker, ReadArgument, Receive, ReceiveFails, TakePath, NoPath, TakeVersion,
       CloseFailed, PeerUnknown, EndProcess, AnswerAndClose, LeaveOpen, HandOver, Goto, TypeOK,
       mainVars, workVars, talkVars, udpVars, lineVars

(* Requests are received once, and a path is cut from one's own unless     *)
(* another thread has come between.                                        *)
LEMMA LinesWorker ==
  ASSUME TypeOK, Lines, NEW c \in Client, Worker(c)
  PROVE  Lines'
<1> USE DEF mainVars, workVars, talkVars, udpVars, lineVars, Goto
<1>1. CASE ReadArgument(c)
  BY <1>1 DEF ReadArgument, Lines, Reading, Text, TypeOK
<1>2. CASE Receive(c)
  <2> DEFINE h == Holder(hand[c])
  <2>1. h \in Client /\ said[h] = "sent" /\ pc[c] = "receiving"
    BY <1>2, SocketTypes DEF Receive, TypeOK
  <2> HIDE DEF h
  <2>2. /\ job' = [job EXCEPT ![c] = h] /\ said' = [said EXCEPT ![h] = "read"]
        /\ saved' = Text(h) /\ asks' = asks /\ pc' = [pc EXCEPT ![c] = "path"] /\ line' = line
        /\ crossed' = (crossed \/ \E d \in Client \ {c} : pc[d] = "path")
    BY <1>2 DEF Receive, Touch, Text, h
  <2>3. \A d \in Client : job[d] # h
    BY <2>1, AcceptAssumption DEF Lines
  <2>4. \A d \in Client : pc'[d] \in {"none", "created", "receiving"} => job'[d] = Nobody
    BY <2>1, <2>2 DEF Lines, TypeOK
  <2>5. \A d \in Client : pc'[d] \in Reading => job'[d] \in Client
    BY <2>1, <2>2 DEF Lines, Reading, TypeOK
  <2>6. \A d \in Client : job'[d] # Nobody => said'[job'[d]] = "read"
    BY <2>1, <2>2 DEF Lines, TypeOK
  <2>7. \A b, d \in Client : job'[b] = job'[d] /\ job'[b] # Nobody => b = d
    BY <2>2, <2>3 DEF Lines, TypeOK
  <2>8. ~crossed' => \A d \in Client :
          /\ pc'[d] = "path" => saved' = Text(job[d])'
          /\ pc'[d] \in {"version", "answering"} => line'[d] = job'[d]
    BY <2>2 DEF Lines, Text, TypeOK
  <2> QED
    BY <2>4, <2>5, <2>6, <2>7, <2>8 DEF Lines
<1>3. CASE TakePath(c)
  <2>1. /\ pc[c] = "path" /\ pc' = [pc EXCEPT ![c] = "version"]
        /\ job' = job /\ said' = said /\ saved # End
        /\ crossed' = (crossed \/ \E d \in Client \ {c} : pc[d] = "path")
    BY <1>3 DEF TakePath, Touch
  <2>2. \A d \in Client \ {c} : line'[d] = line[d]
    BY <1>3, WorkerOthers
  <2>3. ~crossed' => line'[c] = job[c]
    <3> SUFFICES ASSUME ~crossed' PROVE line'[c] = job[c]
      OBVIOUS
    <3>1. saved[1] = job[c] /\ saved[2] = 2 /\ ~Stale(saved)
      <4>1. ~crossed
        BY <2>1
      <4>2. saved = <<job[c], 2>> /\ ~Stale(saved)
        BY <2>1, <4>1, OwnText
      <4> QED
        BY <4>2
    <3>2. line' = [line EXCEPT ![c] = job[c]]
      BY <1>3, <3>1 DEF TakePath
    <3> QED
      BY <3>2 DEF TypeOK
  <2> QED
    BY <2>1, <2>2, <2>3 DEF Lines, Reading, TypeOK
<1>4. CASE TakeVersion(c)
  <2>1. /\ pc[c] = "version" /\ pc' = [pc EXCEPT ![c] = "answering"]
        /\ job' = job /\ said' = said /\ line' = line
        /\ crossed' = (crossed \/ \E d \in Client \ {c} : pc[d] = "path")
    BY <1>4 DEF TakeVersion, Touch
  <2> QED
    BY <2>1 DEF Lines, Reading, TypeOK
<1>5. CASE NoPath(c) \/ PeerUnknown(c) \/ EndProcess(c)
  BY <1>5 DEF NoPath, PeerUnknown, EndProcess, Lines, Text
<1>6. ASSUME pc[c] \notin {"none", "created"},
             \E p \in {"closing", "done"} : pc' = [pc EXCEPT ![c] = p],
             UNCHANGED <<job, said, asks, saved, line, crossed>>
      PROVE  Lines'
  BY <1>6 DEF Lines, Reading, Text, TypeOK
<1>7. CASE ReceiveFails(c)
  BY <1>6, <1>7 DEF ReceiveFails
<1>8. CASE CloseFailed(c)
  BY <1>6, <1>8 DEF CloseFailed
<1>9. CASE AnswerAndClose(c)
  BY <1>6, <1>9 DEF AnswerAndClose
<1>10. CASE LeaveOpen(c)
  BY <1>6, <1>10 DEF LeaveOpen
<1>11. CASE HandOver(c)
  BY <1>6, <1>11 DEF HandOver
<1> QED
  BY <1>1, <1>2, <1>3, <1>4, <1>5, <1>7, <1>8, <1>9, <1>10, <1>11 DEF Worker

(* Every step keeps the requests with their threads, and what strtok saved *)
(* with the thread that called last.                                       *)
LEMMA LinesStep ==
  ASSUME TypeOK, Started, Lines, [Next]_vars
  PROVE  Lines'
<1> USE DEF mainVars, workVars, talkVars, udpVars, lineVars
<1>1. CASE UdpThread
  <2>1. UNCHANGED <<pc, job, said, asks, line>>
    BY <1>1, UdpFrame
  <2>2. \/ UNCHANGED <<saved, crossed>>
        \/ crossed' = (crossed \/ \E d \in Client \ {Nobody} : pc[d] = "path")
    BY <1>1 DEF UdpThread, PassChunk, TransferEnds, TransferFails, Transfer, CutDatagram,
                Touch, RemoveSocket
  <2> QED
    BY <2>1, <2>2, AcceptAssumption DEF Lines, Text
<1>2. ASSUME pc[main] = "none", main \in Client, pc' = [pc EXCEPT ![main] = "created"],
             UNCHANGED <<job, said, asks, saved, line, crossed>>
      PROVE  Lines'
  BY <1>2 DEF Lines, Reading, Text, TypeOK
<1>3. CASE SpawnThread \/ JoinAndSpawn
  <2>1. main \in Client /\ pc[main] = "none" /\ pc' = [pc EXCEPT ![main] = "created"]
    BY <1>3 DEF SpawnThread, JoinAndSpawn, Created, Started, TypeOK
  <2> QED
    BY <1>2, <1>3, <2>1 DEF SpawnThread, JoinAndSpawn
<1>4. ASSUME NEW c \in Client, SendRequest(c) PROVE Lines'
  <2>1. /\ said[c] = "nothing" /\ said' = [said EXCEPT ![c] = "sent"]
        /\ \A d \in Client \ {c} : asks'[d] = asks[d]
        /\ UNCHANGED <<pc, job, saved, line, crossed>>
    BY <1>4 DEF SendRequest, TypeOK
  <2>2. \A d \in Client : job[d] # Nobody => job[d] # c /\ said[job[d]] = "read"
    BY <2>1 DEF Lines
  <2>3. \A d \in Client : pc[d] = "path" => job[d] \in Client \ {c}
    BY <2>2, AcceptAssumption DEF Lines, Reading
  <2> QED
    BY <2>1, <2>2, <2>3 DEF Lines, Text, TypeOK
<1>5. ASSUME UNCHANGED <<pc, job, said, asks, saved, line, crossed>> PROVE Lines'
  BY <1>5 DEF Lines, Text
<1>6. CASE UNCHANGED vars
  BY <1>5, <1>6 DEF vars
<1> QED
  BY <1>1, <1>3, <1>4, <1>5, <1>6, LinesWorker
     DEF Next, Main, Connect, Hangup, Accept, AcceptFails

-----------------------------------------------------------------------------
(* What the properties exclude stays so once it has happened.              *)
LEMMA UndisturbedBefore ==
  ASSUME TypeOK, Started, [Next]_vars, Undisturbed'
  PROVE  Undisturbed
<1> USE DEF mainVars, workVars, talkVars, udpVars, lineVars
<1>1. ~hit
  BY DEF Undisturbed, Next, Main, Worker, UdpThread, vars, Connect, SendRequest, Hangup, Accept,
         AcceptFails, SpawnThread, JoinAndSpawn, ReadArgument, Receive, ReceiveFails, TakePath,
         NoPath, TakeVersion, CloseFailed, PeerUnknown, EndProcess, AnswerAndClose, LeaveOpen, HandOver,
         PassChunk, TransferEnds, TransferFails, Transfer, RemoveSocket
<1>2. ~crossed
  BY DEF Undisturbed, Next, Main, Worker, UdpThread, vars, Connect, SendRequest, Hangup, Accept,
         AcceptFails, SpawnThread, JoinAndSpawn, ReadArgument, Receive, ReceiveFails, TakePath,
         NoPath, TakeVersion, CloseFailed, PeerUnknown, EndProcess, AnswerAndClose, LeaveOpen, HandOver,
         PassChunk, TransferEnds, TransferFails, Transfer, CutDatagram, Touch, RemoveSocket
<1>3. ASSUME NEW c \in Client, pc[c] \notin {"none", "created"} PROVE took[c] = c
  <2>1. pc'[c] \notin {"none", "created"} /\ took'[c] = took[c]
    <3>1. ASSUME NEW d \in Client, Worker(d)
          PROVE  pc'[c] \notin {"none", "created"} /\ took'[c] = took[c]
      <4>1. CASE d # c
        BY <1>3, <3>1, <4>1, WorkerOthers
      <4>2. CASE d = c
        BY <1>3, <3>1, <4>2, WorkerPlace
           DEF Worker, ReadArgument, Receive, ReceiveFails, TakePath, NoPath, TakeVersion,
               CloseFailed, PeerUnknown, EndProcess, AnswerAndClose, LeaveOpen, HandOver
      <4> QED
        BY <4>1, <4>2
    <3>2. CASE SpawnThread \/ JoinAndSpawn
      BY <1>3, <3>2 DEF SpawnThread, JoinAndSpawn, Created, Started, TypeOK
    <3>3. CASE UNCHANGED <<pc, took>>
      BY <1>3, <3>3
    <3> QED
      BY <3>1, <3>2, <3>3, UdpFrame
         DEF Next, Main, Connect, SendRequest, Hangup, Accept, AcceptFails, vars
  <2> QED
    BY <2>1 DEF Undisturbed, OwnConnection
<1> QED
  BY <1>1, <1>2, <1>3 DEF Undisturbed, OwnConnection

(* A step of c that leaves the descriptors of others alone disturbs no     *)
(* other thread and no transfer.                                           *)
LEMMA OthersOwn ==
  ASSUME TypeOK, Sockets, Own, NEW c \in Client, Worker(c), pc[c] # "done",
         \A d \in Client \ {c}, f \in Fd : sock[f] = d => sock'[f] = d
  PROVE  /\ \A d \in Client \ {c} : OwnThread(d)'
         /\ \A m \in moving : OwnTransfer(m)'
<1>1. ASSUME NEW d \in Client, d # c PROVE OwnThread(d)'
  <2>1. pc'[d] = pc[d] /\ hand'[d] = hand[d] /\ job'[d] = job[d] /\ gone' = gone
    BY <1>1, WorkerOthers, WorkerFrame
  <2> QED
    BY <1>1, <2>1 DEF Own, OwnThread
<1>2. ASSUME NEW m \in moving PROVE OwnTransfer(m)'
  <2>1. m[1] \in Fd /\ m[2] \in Client /\ sock[m[1]] = m[2] /\ pc[m[2]] = "done"
    BY DEF Own, OwnTransfer, TypeOK
  <2>2. m[2] # c /\ pc'[m[2]] = pc[m[2]]
    BY <2>1, WorkerOthers
  <2> QED
    BY <2>1, <2>2 DEF OwnTransfer
<1> QED
  BY <1>1, <1>2

(* A worker in order stays in order, and does what it does to its own      *)
(* client.                                                                 *)
LEMMA OwnWorker ==
  ASSUME TypeOK, TypeOK', Started, Sockets, Lines, Lines', Own, Undisturbed, Undisturbed',
         NEW c \in Client, Worker(c)
  PROVE  Own'
<1> USE DEF mainVars, workVars, talkVars, udpVars, lineVars, Goto
<1>1. pc[c] \notin {"none", "done"} /\ met' = met /\ gone' = gone /\ ~crossed /\ ~crossed'
  BY WorkerPlace, WorkerFrame DEF Undisturbed
<1>2. \A d \in met : Attended(d)
  BY DEF Own
<1>3. OwnThread(c) /\ \A d \in Client : reply[d] \subseteq {d}
  BY DEF Own
(* The steps that keep every descriptor where it is.                       *)
<1>4. ASSUME sock' = sock, moving' = moving, OwnThread(c)',
             \A d \in Client : reply[d] \subseteq reply'[d] /\ reply'[d] \subseteq {d},
             down' => \E d \in Client : Fatal(d)'
      PROVE  Own'
  <2>1. /\ \A d \in Client \ {c} : OwnThread(d)'
        /\ \A m \in moving : OwnTransfer(m)'
    BY <1>1, <1>4, OthersOwn
  <2>2. \A d \in met' : Attended(d)'
    BY <1>1, <1>2, <1>4 DEF Attended, Connected, TypeOK
  <2> QED
    BY <1>4, <2>1, <2>2 DEF Own
<1>5. down' = down => (down' => \E d \in Client : Fatal(d)')
  <2>1. \A d \in Client : said[d] = "read" => said'[d] = "read"
    BY DEF Worker, ReadArgument, Receive, ReceiveFails, TakePath, NoPath, TakeVersion,
           CloseFailed, PeerUnknown, EndProcess, AnswerAndClose, LeaveOpen, HandOver, TypeOK
  <2>2. asks' = asks
    BY WorkerFrame
  <2> QED
    BY <1>1, <2>1, <2>2 DEF Own, Fatal
<1>6. CASE ReadArgument(c)
  <2>1. took'[c] = c /\ took'[c] = Holder(slot) /\ hand'[c] = slot /\ pc'[c] = "receiving"
    BY <1>6 DEF ReadArgument, Undisturbed, OwnConnection, TypeOK
  <2>2. slot \in Fd /\ sock[slot] = c
    BY <2>1, AcceptAssumption DEF Holder
  <2>3. OwnThread(c)'
    BY <1>6, <2>1, <2>2 DEF OwnThread, Reading, ReadArgument
  <2> QED
    BY <1>3, <1>4, <1>5, <1>6, <2>3 DEF ReadArgument
<1>7. CASE Receive(c)
  <2>1. hand[c] \in Fd /\ sock[hand[c]] = c
    BY <1>3, <1>7 DEF OwnThread, Receive
  <2>2. Holder(hand[c]) = c
    BY <2>1 DEF Holder
  <2>3. job'[c] = c /\ pc'[c] = "path" /\ hand' = hand /\ sock' = sock
    BY <1>7, <2>2 DEF Receive, TypeOK
  <2>4. OwnThread(c)'
    BY <2>1, <2>3 DEF OwnThread
  <2> QED
    BY <1>3, <1>4, <1>5, <1>7, <2>4 DEF Receive
<1>8. CASE ReceiveFails(c)
  <2>1. hand[c] \in Fd /\ sock[hand[c]] = c
    BY <1>3, <1>8 DEF OwnThread, ReceiveFails
  <2>2. c \in gone
    BY <1>8, <2>1, AcceptAssumption DEF ReceiveFails, Holder
  <2>3. pc'[c] = "closing" /\ hand' = hand /\ sock' = sock
    BY <1>8 DEF ReceiveFails, TypeOK
  <2>4. OwnThread(c)'
    BY <1>1, <2>1, <2>2, <2>3 DEF OwnThread, Reading
  <2> QED
    BY <1>3, <1>4, <1>5, <1>8, <2>4 DEF ReceiveFails
<1>9. CASE TakePath(c) \/ TakeVersion(c)
  <2>1. pc[c] \in Reading /\ pc'[c] \in Reading /\ UNCHANGED <<hand, sock, job, reply, moving, down>>
    BY <1>9 DEF TakePath, TakeVersion, Reading, TypeOK
  <2>2. OwnThread(c)'
    BY <1>3, <2>1 DEF OwnThread, Reading
  <2> QED
    BY <1>3, <1>4, <1>5, <2>1, <2>2
<1>10. CASE NoPath(c)
  <2>1. Fatal(job[c]) /\ job[c] \in Client
    BY <1>1, <1>10, OwnText DEF NoPath, Fatal
  <2>3. Fatal(job[c])'
    BY <2>1, <1>10 DEF NoPath, Fatal
  <2>4. OwnThread(c)'
    BY <1>3, <1>10 DEF OwnThread, NoPath
  <2> QED
    BY <1>3, <1>4, <1>10, <2>1, <2>3, <2>4 DEF NoPath
(* A thread that answers has the path and the descriptor of its client.    *)
<1>11. ASSUME pc[c] = "answering"
       PROVE  /\ hand[c] \in Fd /\ sock[hand[c]] = c /\ Holder(hand[c]) = c
              /\ job[c] = c /\ line[c] = c /\ Route(c) = asks[c]
              /\ said[c] = "read"
  <2>1. hand[c] \in Fd /\ sock[hand[c]] = c /\ job[c] = c
    BY <1>3, <1>11 DEF OwnThread, Reading
  <2>2. line[c] = job[c] /\ said[c] = "read"
    BY <1>1, <1>11, <2>1, AcceptAssumption DEF Lines
  <2> QED
    BY <2>1, <2>2, OwnRoute DEF Holder
<1>12. CASE PeerUnknown(c) \/ EndProcess(c)
  <2>1. Fatal(c)
    BY <1>11, <1>12, AcceptAssumption DEF PeerUnknown, EndProcess, Fatal
  <2>2. Fatal(c)' /\ OwnThread(c)'
    BY <1>3, <1>12, <2>1 DEF OwnThread, PeerUnknown, EndProcess, Fatal
  <2> QED
    BY <1>3, <1>4, <1>12, <2>2 DEF PeerUnknown, EndProcess
<1>13. CASE LeaveOpen(c)
  <2>1. pc[c] = "answering" /\ pc'[c] = "done" /\ UNCHANGED <<sock, moving, down>>
    BY <1>13 DEF LeaveOpen, TypeOK
  <2>2. reply' = reply \/ reply' = [reply EXCEPT ![c] = @ \union {c}]
    BY <1>11, <1>13, <2>1, AcceptAssumption DEF LeaveOpen, Answered, Told
  <2>3. \A d \in Client : reply[d] \subseteq reply'[d] /\ reply'[d] \subseteq {d}
    <3>1. \A d \in Client : reply'[d] = reply[d] \/ (d = c /\ reply'[d] = reply[d] \union {c})
      BY <2>2 DEF TypeOK
    <3> QED
      BY <1>3, <3>1
  <2>4. OwnThread(c)'
    BY <2>1 DEF OwnThread, Reading
  <2> QED
    BY <1>4, <1>5, <2>1, <2>3, <2>4
<1>14. CASE HandOver(c)
  <2>1. /\ pc[c] = "answering" /\ pc'[c] = "done" /\ UNCHANGED <<sock, reply, down>>
        /\ moving' = moving \union (({hand[c]} \intersect Fd) \X {line[c]})
    BY <1>14 DEF HandOver, TypeOK
  <2>2. moving' = moving \union {<<hand[c], c>>}
    BY <1>11, <2>1
  <2>3. OwnThread(c)' /\ \A m \in {<<hand[c], c>>} : OwnTransfer(m)'
    BY <1>11, <2>1 DEF OwnThread, OwnTransfer, Reading
  <2>4. /\ \A d \in Client \ {c} : OwnThread(d)'
        /\ \A m \in moving : OwnTransfer(m)'
    BY <1>1, <2>1, OthersOwn
  <2>5. \A d \in met' : Attended(d)'
    BY <1>1, <1>2, <2>1 DEF Attended, Connected
  <2>6. \A m \in moving' : OwnTransfer(m)'
    BY <2>2, <2>3, <2>4
  <2> QED
    BY <1>3, <1>5, <2>1, <2>3, <2>4, <2>5, <2>6 DEF Own
(* The steps that close the thread's own descriptor.                       *)
<1>15. ASSUME sock' = Closed(hand[c]), moving' = moving, down' = down, pc'[c] = "done",
              hand[c] \in Fd, sock[hand[c]] = c, c \in gone \/ c \in reply'[c],
              \A d \in Client : reply[d] \subseteq reply'[d] /\ reply'[d] \subseteq {d}
       PROVE  Own'
  <2>1. Holder(hand[c]) = c /\ hand[c] \in Entry
    BY <1>15 DEF Holder, Entry
  <2>2. /\ \A d \in Client \ {c}, f \in Fd : sock[f] = d => sock'[f] = d
        /\ Connected \ {c} \subseteq Connected'
    BY <1>15, <2>1, CloseOne
  <2>3. /\ \A d \in Client \ {c} : OwnThread(d)'
        /\ \A m \in moving : OwnTransfer(m)'
    BY <1>1, <2>2, OthersOwn
  <2>4. OwnThread(c)'
    BY <1>15 DEF OwnThread, Reading
  <2>5. \A d \in met' : Attended(d)'
    BY <1>1, <1>2, <1>15, <2>2 DEF Attended, TypeOK
  <2> QED
    BY <1>5, <1>15, <2>3, <2>4, <2>5 DEF Own
<1>16. CASE CloseFailed(c)
  <2>1. hand[c] \in Fd /\ sock[hand[c]] = c /\ c \in gone
    BY <1>3, <1>16 DEF OwnThread, CloseFailed
  <2>2. pc'[c] = "done" /\ sock' = Closed(hand[c]) /\ UNCHANGED <<reply, moving, down>>
    BY <1>16 DEF CloseFailed, TypeOK
  <2> QED
    BY <1>3, <1>15, <2>1, <2>2
<1>17. CASE AnswerAndClose(c)
  <2>1. /\ pc[c] = "answering" /\ pc'[c] = "done" /\ sock' = Closed(hand[c])
        /\ UNCHANGED <<moving, down>> /\ reply' = Told(hand[c], line[c])
    BY <1>17 DEF AnswerAndClose, Answered, TypeOK
  <2>2. reply' = [reply EXCEPT ![c] = @ \union {c}]
    BY <1>11, <2>1, AcceptAssumption DEF Told
  <2>3. /\ \A d \in Client : reply[d] \subseteq reply'[d] /\ reply'[d] \subseteq {d}
        /\ c \in reply'[c]
    BY <1>3, <2>2 DEF TypeOK
  <2> QED
    BY <1>11, <1>15, <2>1, <2>3
<1> QED
  BY <1>6, <1>7, <1>8, <1>9, <1>10, <1>12, <1>13, <1>14, <1>16, <1>17 DEF Worker

(* A transfer that ends or fails takes its own client's descriptor.        *)
LEMMA OwnUdp ==
  ASSUME TypeOK, TypeOK', Sockets, Own, Undisturbed, Undisturbed', UdpThread
  PROVE  Own'
<1>1. UNCHANGED <<met, pc, hand, job, said, asks, gone, down>> /\ ~hit'
  BY UdpFrame DEF Undisturbed
<1>2. ASSUME sock' = sock, moving' \subseteq moving, reply' = reply PROVE Own'
  BY <1>1, <1>2 DEF Own, OwnThread, OwnTransfer, Attended, Connected, Fatal
<1>3. ASSUME NEW fd \in Fd, NEW d \in Client, <<fd, d>> \in moving,
             moving' = moving \ {<<fd, d>>}, sock' = Closed(fd),
             reply' = reply \/ reply' = [reply EXCEPT ![d] = @ \union {d}],
             d \in gone \/ d \in reply'[d]
      PROVE  Own'
  <2>1. sock[fd] = d /\ pc[d] = "done" /\ Holder(fd) = d /\ fd \in Entry
    <3>1. OwnTransfer(<<fd, d>>)
      BY <1>3 DEF Own
    <3> QED
      BY <3>1 DEF OwnTransfer, Holder, Entry
  <2>2. /\ \A b \in Client \ {d}, f \in Fd : sock[f] = b => sock'[f] = b
        /\ Connected \ {d} \subseteq Connected'
    BY <1>3, <2>1, CloseOne
  <2>3. ASSUME NEW c \in Client PROVE OwnThread(c)'
    BY <1>1, <2>1, <2>2, <2>3 DEF Own, OwnThread, Reading
  <2>4. ASSUME NEW m \in moving' PROVE OwnTransfer(m)'
    <3>1. m \in moving /\ m # <<fd, d>> /\ OwnTransfer(m) /\ m[1] \in Fd /\ m[2] \in Client
      BY <1>3, <2>4 DEF Own, TypeOK
    <3>2. m = <<m[1], m[2]>>
      BY <3>1 DEF TypeOK
    <3>3. m[2] # d
      BY <2>1, <3>1, <3>2, AcceptAssumption DEF OwnTransfer, Sockets
    <3> QED
      BY <1>1, <2>2, <3>1, <3>3 DEF OwnTransfer
  <2>5. \A c \in Client : reply[c] \subseteq reply'[c] /\ reply'[c] \subseteq {c}
    <3>1. \A c \in Client : reply'[c] = reply[c] \/ (c = d /\ reply'[c] = reply[c] \union {d})
      BY <1>3 DEF TypeOK
    <3> QED
      BY <3>1 DEF Own
  <2>6. \A c \in met' : Attended(c)'
    BY <1>1, <1>3, <2>2, <2>5 DEF Own, Attended, TypeOK
  <2> QED
    BY <1>1, <2>3, <2>4, <2>5, <2>6 DEF Own, Fatal
<1>4. CASE PassChunk
  BY <1>2, <1>4 DEF PassChunk, talkVars, udpVars
<1>5. ASSUME NEW fd \in Fd, NEW d \in Client, TransferEnds(fd, d) PROVE Own'
  <2>1. /\ <<fd, d>> \in moving /\ moving' = moving \ {<<fd, d>>}
        /\ \/ reply' = reply /\ sock' = sock
           \/ sock[fd] # Nobody /\ reply' = Told(fd, d) /\ sock' = Closed(fd)
    BY <1>5 DEF TransferEnds, Transfer
  <2>2. CASE reply' = reply /\ sock' = sock
    BY <1>2, <2>1, <2>2
  <2>3. CASE sock[fd] # Nobody /\ reply' = Told(fd, d) /\ sock' = Closed(fd)
    <3>1. OwnTransfer(<<fd, d>>)
      BY <2>1 DEF Own
    <3>2. Holder(fd) = d
      BY <3>1 DEF OwnTransfer, Holder
    <3>3. reply' = [reply EXCEPT ![d] = @ \union {d}]
      BY <2>3, <3>2, AcceptAssumption DEF Told
    <3>4. d \in reply'[d]
      BY <3>3 DEF TypeOK
    <3> QED
      BY <1>3, <2>1, <2>3, <3>3, <3>4
  <2> QED
    BY <2>1, <2>2, <2>3
<1>6. ASSUME NEW fd \in Fd, NEW d \in Client, TransferFails(fd, d) PROVE Own'
  <2>1. /\ <<fd, d>> \in moving /\ moving' = moving \ {<<fd, d>>} /\ sock' = Closed(fd)
        /\ reply' = reply /\ (sock[fd] # Nobody => sock[fd] \in gone)
    BY <1>6 DEF TransferFails, Transfer
  <2>2. OwnTransfer(<<fd, d>>)
    BY <2>1 DEF Own
  <2>3. d \in gone
    BY <2>1, <2>2, AcceptAssumption DEF OwnTransfer
  <2> QED
    BY <1>3, <2>1, <2>3
<1>7. CASE RemoveSocket
  <2>1. again \in Fd /\ reply' = reply /\ moving' = moving
    BY <1>7 DEF RemoveSocket, talkVars, TypeOK
  <2>2. sock' = sock
    <3>1. CASE sock' = Closed(again) /\ hit' = (hit \/ sock[again] # Nobody)
      <4>1. sock[again] = Nobody
        BY <1>1, <3>1
      <4> QED
        BY <2>1, <3>1, <4>1 DEF Closed, TypeOK
    <3>2. CASE sock' = sock
      BY <3>2
    <3> QED
      BY <1>7, <3>1, <3>2 DEF RemoveSocket
  <2> QED
    BY <1>2, <2>1, <2>2
<1> QED
  BY <1>4, <1>5, <1>6, <1>7 DEF UdpThread

(* Undisturbed, every thread and transfer has its own client.              *)
LEMMA OwnStep ==
  ASSUME TypeOK, TypeOK', Started, Sockets, Lines, Lines', Undisturbed => Own, [Next]_vars
  PROVE  (Undisturbed => Own)'
<1> SUFFICES ASSUME Undisturbed' PROVE Own'
  OBVIOUS
<1> USE DEF mainVars, workVars, talkVars, udpVars, lineVars
<1>1. Undisturbed /\ Own
  BY UndisturbedBefore
<1>2. ASSUME NEW c \in Client, NEW fd \in Fd, Accept(c, fd) PROVE Own'
  <2>1. /\ c \notin met /\ sock[fd] = Nobody /\ sock' = [sock EXCEPT ![fd] = c]
        /\ met' = met \union {c} /\ UNCHANGED <<pc, hand, job, said, asks, gone, moving, reply, down>>
    BY <1>2 DEF Accept, Started
  <2>2. \A d \in Client, f \in Fd : sock[f] = d => sock'[f] = d
    BY <2>1, AcceptAssumption DEF TypeOK
  <2>3. sock'[fd] = c /\ c # Nobody /\ c \in Connected'
    BY <2>1, AcceptAssumption DEF Connected, TypeOK
  <2>4. Connected \subseteq Connected'
    BY <2>2 DEF Connected, TypeOK
  <2>5. ASSUME NEW m \in moving PROVE OwnTransfer(m)'
    <3>1. OwnTransfer(m) /\ m[1] \in Fd /\ m[2] \in Client
      BY <1>1 DEF Own, TypeOK
    <3> QED
      BY <2>1, <2>2, <3>1 DEF OwnTransfer
  <2>6. ASSUME NEW d \in Client PROVE OwnThread(d)'
    BY <1>1, <2>1, <2>2 DEF Own, OwnThread
  <2>7. \A d \in met' : Attended(d)'
    BY <1>1, <2>1, <2>3, <2>4 DEF Own, Attended
  <2> QED
    BY <1>1, <2>1, <2>5, <2>6, <2>7 DEF Own, Fatal
<1>3. CASE SpawnThread \/ JoinAndSpawn
  <2>1. /\ main \in Client /\ pc[main] = "none" /\ pc' = [pc EXCEPT ![main] = "created"]
        /\ UNCHANGED <<hand, job, said, asks, gone, sock, met, moving, reply, down>>
    BY <1>3 DEF SpawnThread, JoinAndSpawn, Created, Started, TypeOK
  <2>2. ASSUME NEW d \in Client PROVE OwnThread(d)'
    <3>1. pc'[d] = pc[d] \/ pc'[d] = "created"
      BY <2>1 DEF TypeOK
    <3> QED
      BY <1>1, <2>1, <3>1 DEF Own, OwnThread, Reading
  <2>3. ASSUME NEW m \in moving PROVE OwnTransfer(m)'
    <3>1. OwnTransfer(m) /\ m[2] \in Client
      BY <1>1 DEF Own, TypeOK
    <3>2. m[2] # main
      BY <2>1, <3>1 DEF OwnTransfer
    <3> QED
      BY <2>1, <3>1, <3>2 DEF OwnTransfer, TypeOK
  <2> QED
    BY <1>1, <2>1, <2>2, <2>3 DEF Own, Attended, Connected, Fatal
<1>4. ASSUME NEW c \in Client, Hangup(c) PROVE Own'
  <2>1. /\ gone \subseteq gone'
        /\ UNCHANGED <<pc, hand, job, said, asks, sock, met, moving, reply, down>>
    BY <1>4 DEF Hangup
  <2> QED
    BY <1>1, <2>1 DEF Own, OwnThread, OwnTransfer, Attended, Connected, Fatal
<1>5. ASSUME UNCHANGED <<pc, hand, job, gone, sock, met, moving, reply, down>>,
             \A d \in Client : Fatal(d) => Fatal(d)'
      PROVE  Own'
  BY <1>1, <1>5 DEF Own, OwnThread, OwnTransfer, Attended, Connected
<1>9. ASSUME NEW c \in Client, SendRequest(c) PROVE Own'
  <2>1. \A d \in Client : Fatal(d) => Fatal(d)'
    BY <1>9 DEF SendRequest, Fatal, TypeOK
  <2> QED
    BY <1>5, <1>9, <2>1 DEF SendRequest
<1>10. ASSUME UNCHANGED <<pc, hand, job, gone, sock, met, moving, reply, down, said, asks>>
       PROVE  Own'
  BY <1>5, <1>10 DEF Fatal
<1>6. ASSUME NEW c \in Client, Worker(c) PROVE Own'
  BY <1>1, <1>6, OwnWorker
<1>7. CASE UdpThread
  BY <1>1, <1>7, OwnUdp
<1>8. CASE UNCHANGED vars
  BY <1>8, <1>10 DEF vars
<1> QED
  BY <1>2, <1>3, <1>4, <1>6, <1>7, <1>8, <1>9, <1>10
     DEF Next, Main, Connect, AcceptFails

-----------------------------------------------------------------------------
(* The invariant from which the rest follows.                              *)
LoopInv ==
  /\ TypeOK /\ Started
  /\ Sockets
  /\ Lines
  /\ Undisturbed => Own

(* Every step keeps the invariant.                                         *)
LEMMA LoopCorrect == Spec => []LoopInv
<1>1. Init => LoopInv
  <2> SUFFICES ASSUME Init PROVE LoopInv
    OBVIOUS
  <2>1. TypeOK /\ Started
    BY InitTypes
  <2>2. Sockets /\ Lines
    BY DEF Init, Sockets, Lines, Reading
  <2>3. Own
    BY DEF Init, Own, OwnThread, Reading
  <2> QED
    BY <2>1, <2>2, <2>3 DEF LoopInv
<1>2. LoopInv /\ [Next]_vars => LoopInv'
  <2> SUFFICES ASSUME LoopInv, [Next]_vars PROVE LoopInv'
    OBVIOUS
  <2>1. TypeOK' /\ Started'
    BY TypeStep, StartedStep DEF LoopInv
  <2>2. Sockets' /\ Lines'
    BY SocketsStep, LinesStep DEF LoopInv
  <2>3. (Undisturbed => Own)'
    BY <2>1, <2>2, OwnStep DEF LoopInv
  <2> QED
    BY <2>1, <2>2, <2>3 DEF LoopInv
<1> QED
  BY <1>1, <1>2, PTL DEF Spec

(* A worker acts on the path of its own request unless strtok was called   *)
(* in between; without that, a late argument or a second close on a        *)
(* connection in use, only a request that does so by itself ends the       *)
(* process.                                                                *)
THEOREM LinesAreOwn == Spec => []LinesOwn
<1>1. LoopInv => LinesOwn
  BY DEF LoopInv, Lines, Undisturbed, Own, LinesOwn
<1> QED
  BY <1>1, LoopCorrect, PTL

(* With arguments read in time, no second close on a connection in use and *)
(* no crossed path, answers reach those who asked, and nobody who waits for*)
(* one loses the connection.                                               *)
THEOREM SafeWhenPrompt == Spec => []PromptSafe
<1>1. LoopInv => PromptSafe
  BY DEF LoopInv, Undisturbed, Own, Attended, PromptSafe
<1> QED
  BY <1>1, LoopCorrect, PTL
=============================================================================
