----------------------------- MODULE AcceptLoop -----------------------------
(***************************************************************************)
(* The accept loop of main and the worker threads it starts, one for each  *)
(* connection.  The loop gives a worker the address of its own variable    *)
(* tcp_connection_fd; a worker reads its descriptor from there whenever it *)
(* first runs.  Workers receive a request, and depending on its route they *)
(* answer and close, leave the descriptor open, or hand it over to the UDP *)
(* thread.  Every accept, failed ones included, adds an entry to           *)
(* connections[]; only remove_socket takes one away.                       *)
(*                                                                         *)
(* A worker cuts the first line of a request into its words with strtok,   *)
(* which keeps the place it has come to in one variable for all threads.   *)
(*                                                                         *)
(* A thread has the name of the client it was started for.  Appending to   *)
(* and removing from connections[] are single steps here, and so is a call *)
(* of strtok.                                                              *)
(***************************************************************************)
EXTENDS Integers

CONSTANTS
  Client,      \* connections; each client makes one, with one request
  Fd,          \* descriptors the process can have open for them
  Nobody,      \* no client, no thread, no descriptor
  Asks,        \* Asks[c]: the routes c's request can have
  MaxThreads,  \* MAX_THREADS, the length of threads[] and of connections[]
  MaxFailed    \* bound: accepts that fail for want of a descriptor

(* Routes that are answered by send_str, send_json_str or send_http_302,   *)
(* which close the descriptor.                                             *)
Closing == {"home", "link-state", "search", "uuid", "neighbors", "map", "rank",
            "addneighbor"}

(* Routes that return with the descriptor open: send_html_from_file,       *)
(* transfer_file_chunk and send_http_206 do not close it.                  *)
Leaving == {"add", "config", "missing file", "own file"}

(* Routes that return without an answer, and with the descriptor open.     *)
Silent == {"status", "unknown", "peer unreachable", "not JSON", "no body"}

(* /peer/view of a file another node holds.                                *)
Remote == {"peer file"}

(* Routes that end the process: /peer/kill, and paths that lack what their *)
(* command takes for granted, such as /peer and /peer/view, for which      *)
(* strcmp, strlen, strcpy or atoi is given NULL.                           *)
Ending == {"kill", "malformed"}

(* The first line has no second word, and so no route at all.              *)
Pathless == {"no path"}

Routes == Closing \union Leaving \union Silent \union Remote \union Ending \union Pathless

ASSUME AcceptAssumption ==
  /\ Asks \in [Client -> SUBSET Routes]
  /\ Fd \subseteq Nat /\ Nobody \notin Client \union Int
  /\ MaxThreads \in Nat \ {0} /\ MaxFailed \in Nat

VARIABLES
  waiting,  \* clients in the backlog of the listening socket
  met,      \* clients whose connection has been accepted
  sock,     \* sock[fd]: the client descriptor fd is connected to
  listed,   \* listed[e]: entries of connections[] that are e
  slot,     \* tcp_connection_fd
  main,     \* what the main thread does next; "spawn" for a given client
  threads,  \* threads[]: whom a thread was started for
  index,    \* thread_index
  joined,   \* threads that have been joined
  pc,       \* where a thread is
  hand,     \* the descriptor it has read
  took,     \* the client it was connected to when the thread read it
  job,      \* whose request the thread has received
  said,     \* what the client has done: "nothing", "sent", "read" by a thread
  asks,     \* the route of the request a client has sent
  gone,     \* clients that have closed their end
  reply,    \* reply[c]: whose requests have been answered to c
  moving,   \* transfers: the descriptor, and the client that asked
  again,    \* the descriptor the UDP thread has closed and will close again
  hit,      \* such a second close has hit a connection
  failed,   \* accepts that failed
  saved,    \* where strtok(NULL) goes on: whose text, and at which word
  line,     \* line[c]: whose path thread c has taken for its own
  crossed,  \* strtok has been called while a thread waited to take its path
  down      \* the process has ended

mainVars == <<slot, main, threads, index, joined>>
workVars == <<pc, hand, took, job>>
talkVars == <<said, asks, gone, reply>>
udpVars == <<moving, again, hit>>
lineVars == <<saved, line, crossed, down>>
vars == <<waiting, met, sock, listed, mainVars, workVars, talkVars, udpVars, failed,
          lineVars>>

Entry == Fd \union {-1}

Unused == {fd \in Fd : sock[fd] = Nobody}

Connected == {sock[fd] : fd \in Fd} \ {Nobody}

TypeOK ==
  /\ waiting \subseteq Client /\ met \subseteq Client /\ gone \subseteq Client
  /\ sock \in [Fd -> Client \union {Nobody}]
  /\ listed \in [Entry -> Nat]
  /\ slot \in Entry \union {Nobody}
  /\ main \in Client \union {Nobody}
  /\ threads \in [0 .. MaxThreads - 1 -> Client \union {Nobody}]
  /\ index \in 0 .. MaxThreads
  /\ joined \subseteq Client
  /\ pc \in [Client -> {"none", "created", "receiving", "path", "version",
                    "answering", "closing", "done"}]
  /\ hand \in [Client -> Entry \union {Nobody}]
  /\ took \in [Client -> Client \union {Nobody}]
  /\ job \in [Client -> Client \union {Nobody}]
  /\ said \in [Client -> {"nothing", "sent", "read"}]
  /\ asks \in [Client -> Routes \union {"none"}]
  /\ reply \in [Client -> SUBSET Client]
  /\ moving \subseteq Fd \X Client
  /\ again \in Fd \union {Nobody} /\ hit \in BOOLEAN
  /\ failed \in 0 .. MaxFailed
  /\ saved \in (Client \union {Nobody}) \X (0 .. 4)
  /\ line \in [Client -> Client \union {Nobody}]
  /\ crossed \in BOOLEAN /\ down \in BOOLEAN

(* Nothing is left of the text that was last given to strtok.              *)
End == <<Nobody, 0>>

Init ==
  /\ waiting = {} /\ met = {} /\ gone = {} /\ moving = {} /\ joined = {}
  /\ sock = [fd \in Fd |-> Nobody]
  /\ listed = [e \in Entry |-> 0]
  /\ slot = Nobody
  /\ main = Nobody
  /\ threads = [i \in 0 .. MaxThreads - 1 |-> Nobody]
  /\ index = 0
  /\ pc = [c \in Client |-> "none"]
  /\ hand = [c \in Client |-> Nobody]
  /\ took = [c \in Client |-> Nobody]
  /\ job = [c \in Client |-> Nobody]
  /\ said = [c \in Client |-> "nothing"]
  /\ asks = [c \in Client |-> "none"]
  /\ reply = [c \in Client |-> {}]
  /\ again = Nobody /\ hit = FALSE
  /\ failed = 0
  /\ saved = End
  /\ line = [c \in Client |-> Nobody]
  /\ crossed = FALSE /\ down = FALSE

-----------------------------------------------------------------------------
(* The clients.                                                            *)

Connect(c) ==
  /\ c \notin waiting \union met
  /\ waiting' = waiting \union {c}
  /\ UNCHANGED <<met, sock, listed, mainVars, workVars, talkVars, udpVars,
                 failed, lineVars>>

SendRequest(c) ==
  /\ c \in met \ gone
  /\ said[c] = "nothing"
  /\ said' = [said EXCEPT ![c] = "sent"]
  /\ \E route \in Asks[c] : asks' = [asks EXCEPT ![c] = route]
  /\ UNCHANGED <<waiting, met, sock, listed, mainVars, workVars, gone, reply,
                 udpVars, failed, lineVars>>

Hangup(c) ==
  /\ c \in met \ gone
  /\ gone' = gone \union {c}
  /\ UNCHANGED <<waiting, met, sock, listed, mainVars, workVars, said, asks, reply,
                 udpVars, failed, lineVars>>

-----------------------------------------------------------------------------
(* The main thread.                                                        *)

(* accept returns an unused descriptor; it is stored in the loop's variable*)
(* and in connections[].                                                   *)
Accept(c, fd) ==
  /\ main = Nobody
  /\ c \in waiting
  /\ sock[fd] = Nobody
  /\ waiting' = waiting \ {c}
  /\ met' = met \union {c}
  /\ sock' = [sock EXCEPT ![fd] = c]
  /\ slot' = fd
  /\ listed' = [listed EXCEPT ![fd] = @ + 1]
  /\ main' = c
  /\ UNCHANGED <<threads, index, joined, workVars, talkVars, udpVars, failed,
                 lineVars>>

(* With no descriptor left accept fails; the -1 is stored and listed all   *)
(* the same before the loop continues.                                     *)
AcceptFails ==
  /\ main = Nobody
  /\ waiting # {}
  /\ Unused = {}
  /\ failed < MaxFailed
  /\ failed' = failed + 1
  /\ slot' = -1
  /\ listed' = [listed EXCEPT ![-1] = @ + 1]
  /\ UNCHANGED <<waiting, met, sock, main, threads, index, joined, workVars,
                 talkVars, udpVars, lineVars>>

Created(c) == pc' = [pc EXCEPT ![c] = "created"]

SpawnThread ==
  /\ main # Nobody
  /\ index < MaxThreads
  /\ threads' = [threads EXCEPT ![index] = main]
  /\ index' = index + 1
  /\ Created(main)
  /\ main' = Nobody
  /\ UNCHANGED <<waiting, met, sock, listed, slot, joined, hand, took, job,
                 talkVars, udpVars, failed, lineVars>>

(* Mutant of JoinAndSpawn: the index is not reset, so that the new entry is*)
(* behind the table.                                                       *)
JoinAndSpawnBehind ==
  /\ main # Nobody
  /\ index = MaxThreads
  /\ threads[0] # Nobody => pc[threads[0]] = "done"
  /\ joined' = joined \union {threads[0]}
  /\ threads' = [i \in 0 .. MaxThreads - 1 |-> Nobody]
  /\ Created(main)
  /\ main' = Nobody
  /\ UNCHANGED <<waiting, met, sock, listed, slot, index, hand, took, job, talkVars,
                 udpVars, failed, lineVars>>

(* The table is full: main waits for the thread in its first entry (no     *)
(* other), clears the table and starts the new thread in the first entry,  *)
(* which the next connection will use again.                               *)
JoinAndSpawn ==
  /\ main # Nobody
  /\ index = MaxThreads
  /\ threads[0] # Nobody => pc[threads[0]] = "done"
  /\ joined' = joined \union {threads[0]}
  /\ threads' = [i \in 0 .. MaxThreads - 1 |-> IF i = 0 THEN main ELSE Nobody]
  /\ index' = 0
  /\ Created(main)
  /\ main' = Nobody
  /\ UNCHANGED <<waiting, met, sock, listed, slot, hand, took, job, talkVars,
                 udpVars, failed, lineVars>>

-----------------------------------------------------------------------------
(* The worker threads.                                                     *)

Holder(e) == IF e \in Fd THEN sock[e] ELSE Nobody

Goto(c, place) == pc' = [pc EXCEPT ![c] = place]

(* thread_routine: fd = *(int * )arg.                                      *)
ReadArgument(c) ==
  /\ pc[c] = "created"
  /\ hand' = [hand EXCEPT ![c] = slot]
  /\ took' = [took EXCEPT ![c] = Holder(slot)]
  /\ Goto(c, "receiving")
  /\ UNCHANGED <<waiting, met, sock, listed, mainVars, job, talkVars,
                 udpVars, failed, lineVars>>

(* A thread calls strtok.                                                  *)
Touch(c) == crossed' = (crossed \/ \E d \in Client \ {c} : pc[d] = "path")

(* Mutant of Receive: strtok goes on with the text it had.                 *)
ReceiveMore(c) ==
  /\ pc[c] = "receiving"
  /\ Holder(hand[c]) # Nobody
  /\ said[Holder(hand[c])] = "sent"
  /\ job' = [job EXCEPT ![c] = Holder(hand[c])]
  /\ said' = [said EXCEPT ![Holder(hand[c])] = "read"]
  /\ Touch(c)
  /\ Goto(c, "path")
  /\ UNCHANGED <<waiting, met, sock, listed, mainVars, hand, took, asks, gone,
                 reply, udpVars, failed, saved, line, down>>

(* recv returns a request, of whoever the descriptor leads to now; its     *)
(* first word is the method, after which there may be nothing.             *)
Receive(c) ==
  /\ pc[c] = "receiving"
  /\ Holder(hand[c]) # Nobody
  /\ said[Holder(hand[c])] = "sent"
  /\ job' = [job EXCEPT ![c] = Holder(hand[c])]
  /\ said' = [said EXCEPT ![Holder(hand[c])] = "read"]
  /\ saved' = IF asks[Holder(hand[c])] \in Pathless THEN End ELSE <<Holder(hand[c]), 2>>
  /\ Touch(c)
  /\ Goto(c, "path")
  /\ UNCHANGED <<waiting, met, sock, listed, mainVars, hand, took, asks, gone,
                 reply, udpVars, failed, line, down>>

(* What strtok leaves when it has cut off the word at a place: the third   *)
(* word of a request is the version, and 4 is anywhere in its headers. The *)
(* id of a datagram has two words.  A space does not end a line.           *)
AfterSpace(place) ==
  IF place[1] = Nobody THEN {End}
  ELSE IF place[2] = 2 THEN {<<place[1], 3>>} ELSE {<<place[1], 4>>, End}
AfterLine(place) ==
  IF place[1] = Nobody THEN {End}
  ELSE IF place[2] = 2 THEN {<<place[1], 4>>} ELSE {<<place[1], 4>>, End}

(* The text is that of a thread that has ended, and whatever its stack is. *)
Stale(place) ==
  \E t \in Client : job[t] = place[1] /\ job[t] # Nobody /\ pc[t] \in {"closing", "done"}

(* The second word is the path.                                            *)
TakePath(c) ==
  /\ pc[c] = "path"
  /\ saved # End
  /\ \/ line' = [line EXCEPT ![c] = IF saved[2] = 2 THEN saved[1] ELSE Nobody]
     \/ Stale(saved) /\ line' = [line EXCEPT ![c] = Nobody]
  /\ saved' \in AfterSpace(saved)
  /\ Touch(c)
  /\ Goto(c, "version")
  /\ UNCHANGED <<waiting, met, sock, listed, mainVars, hand, took, job, talkVars,
                 udpVars, failed, down>>

(* There is none, in the request or in what has taken its place: strncpy is*)
(* given NULL.                                                             *)
NoPath(c) ==
  /\ pc[c] = "path"
  /\ saved = End \/ Stale(saved)
  /\ down' = TRUE
  /\ UNCHANGED <<waiting, met, sock, listed, mainVars, workVars, talkVars, udpVars,
                 failed, saved, line, crossed>>

TakeVersion(c) ==
  /\ pc[c] = "version"
  /\ saved' \in AfterLine(saved)
  /\ Touch(c)
  /\ Goto(c, "answering")
  /\ UNCHANGED <<waiting, met, sock, listed, mainVars, hand, took, job, talkVars,
                 udpVars, failed, line, down>>

(* The route the request takes: method and body are the thread's own, the  *)
(* path is that of the line it has taken.                                  *)
Posts == {"link-state", "not JSON", "no body"}
Path(c) == IF line[c] = Nobody THEN "unknown" ELSE asks[line[c]]
Route(c) ==
  IF Path(c) # "home" /\ (asks[job[c]] \in Posts) # (Path(c) \in Posts)
  THEN "unknown"
  ELSE IF Path(c) \in Posts THEN asks[job[c]] ELSE Path(c)

(* recv returns 0 or -1: the client has gone, or the descriptor is closed. *)
ReceiveFails(c) ==
  /\ pc[c] = "receiving"
  /\ LET d == Holder(hand[c])
     IN d # Nobody => d \in gone /\ said[d] # "sent"
  /\ Goto(c, "closing")
  /\ UNCHANGED <<waiting, met, sock, listed, mainVars, hand, took, job, talkVars,
                 udpVars, failed, lineVars>>

Closed(e) == IF e \in Fd THEN [sock EXCEPT ![e] = Nobody] ELSE sock

(* Mutant of CloseFailed: the thread goes back to recv.                    *)
CloseAndReceive(c) ==
  /\ pc[c] = "closing"
  /\ sock' = Closed(hand[c])
  /\ Goto(c, "receiving")
  /\ UNCHANGED <<waiting, met, listed, mainVars, hand, took, job, talkVars,
                 udpVars, failed, lineVars>>

CloseFailed(c) ==
  /\ pc[c] = "closing"
  /\ sock' = Closed(hand[c])
  /\ Goto(c, "done")
  /\ UNCHANGED <<waiting, met, listed, mainVars, hand, took, job, talkVars,
                 udpVars, failed, lineVars>>

(* What is sent on a descriptor reaches the client it leads to now.        *)
Told(e, d) ==
  IF Holder(e) = Nobody THEN reply
  ELSE [reply EXCEPT ![Holder(e)] = @ \union {d}]

Answered(c) == reply' = Told(hand[c], line[c])

(* An advertisement's sender has no address any more: the connection has   *)
(* been reset, or the descriptor is closed.                                *)
PeerUnknown(c) ==
  /\ pc[c] = "answering"
  /\ Route(c) = "link-state"
  /\ Holder(hand[c]) \in gone \union {Nobody}
  /\ down' = TRUE
  /\ UNCHANGED <<waiting, met, sock, listed, mainVars, workVars, talkVars, udpVars,
                 failed, saved, line, crossed>>

(* The node is told to end, or the path lacks what its command takes.      *)
EndProcess(c) ==
  /\ pc[c] = "answering"
  /\ Route(c) \in Ending
  /\ down' = TRUE
  /\ UNCHANGED <<waiting, met, sock, listed, mainVars, workVars, talkVars, udpVars,
                 failed, saved, line, crossed>>

(* Mutant of AnswerAndClose: the caller closes the descriptor once more.   *)
AnswerAndCloseTwice(c) ==
  /\ pc[c] = "answering"
  /\ Route(c) \in Closing
  /\ Route(c) = "link-state" => Holder(hand[c]) # Nobody
  /\ Answered(c)
  /\ sock' = Closed(hand[c])
  /\ Goto(c, "closing")
  /\ UNCHANGED <<waiting, met, listed, mainVars, hand, took, job, said, asks,
                 gone, udpVars, failed, lineVars>>

AnswerAndClose(c) ==
  /\ pc[c] = "answering"
  /\ Route(c) \in Closing
  /\ Route(c) = "link-state" => Holder(hand[c]) # Nobody
  /\ Answered(c)
  /\ sock' = Closed(hand[c])
  /\ Goto(c, "done")
  /\ UNCHANGED <<waiting, met, listed, mainVars, hand, took, job, said, asks,
                 gone, udpVars, failed, lineVars>>

LeaveOpen(c) ==
  /\ pc[c] = "answering"
  /\ \/ Route(c) \in Leaving /\ Answered(c)
     \/ Route(c) \in Silent /\ UNCHANGED reply
  /\ Goto(c, "done")
  /\ UNCHANGED <<waiting, met, sock, listed, mainVars, hand, took, job, said, asks,
                 gone, udpVars, failed, lineVars>>

(* The ack for the peer's file is sent, the number of the descriptor in it.*)
HandOver(c) ==
  /\ pc[c] = "answering"
  /\ Route(c) \in Remote
  /\ moving' = moving \union (({hand[c]} \intersect Fd) \X {line[c]})
  /\ Goto(c, "done")
  /\ UNCHANGED <<waiting, met, sock, listed, mainVars, hand, took, job, talkVars,
                 again, hit, failed, lineVars>>

(* The id of a datagram is cut with strtok, and so is the name of the file *)
(* in the first one.                                                       *)
CutDatagram ==
  /\ again = Nobody
  /\ saved' \in {<<Nobody, 2>>, End}
  /\ Touch(Nobody)
  /\ UNCHANGED <<line, down>>

(* The UDP thread sends a chunk that is not the last one.                  *)
PassChunk ==
  /\ moving # {}
  /\ CutDatagram
  /\ UNCHANGED <<waiting, met, sock, listed, mainVars, workVars, talkVars,
                 udpVars, failed>>

(* The UDP thread has the last chunk of d's file for descriptor fd.        *)
Transfer(fd, d) ==
  /\ <<fd, d>> \in moving
  /\ CutDatagram
  /\ moving' = moving \ {<<fd, d>>}
  /\ UNCHANGED <<waiting, met, mainVars, workVars, said, asks, gone, failed>>

(* It is sent and the descriptor closed; its entry in connections[] stays. *)
(* A number that has no entry is dropped with the chunk.                   *)
TransferEnds(fd, d) ==
  /\ Transfer(fd, d)
  /\ IF listed[fd] = 0 THEN UNCHANGED <<reply, sock>>
     ELSE /\ sock[fd] # Nobody
          /\ reply' = Told(fd, d)
          /\ sock' = Closed(fd)
  /\ UNCHANGED <<listed, again, hit>>

(* It cannot be sent: the descriptor is closed, and then closed once more  *)
(* and taken off the list by remove_socket.                                *)
TransferFails(fd, d) ==
  /\ Transfer(fd, d)
  /\ listed[fd] > 0 /\ (sock[fd] # Nobody => sock[fd] \in gone)
  /\ sock' = Closed(fd)
  /\ again' = fd
  /\ UNCHANGED <<reply, listed, hit>>

RemoveSocket ==
  /\ again # Nobody
  /\ IF listed[again] > 0
     THEN /\ sock' = Closed(again)
          /\ listed' = [listed EXCEPT ![again] = @ - 1]
          /\ hit' = (hit \/ sock[again] # Nobody)
     ELSE UNCHANGED <<sock, listed, hit>>
  /\ again' = Nobody
  /\ UNCHANGED <<waiting, met, mainVars, workVars, talkVars, moving, failed,
                 lineVars>>

-----------------------------------------------------------------------------
Worker(c) ==
  /\ ~down
  /\ \/ ReadArgument(c)
     \/ Receive(c)
     \/ ReceiveFails(c)
     \/ TakePath(c)
     \/ NoPath(c)
     \/ TakeVersion(c)
     \/ CloseFailed(c)
     \/ PeerUnknown(c)
     \/ EndProcess(c)
     \/ AnswerAndClose(c)
     \/ LeaveOpen(c)
     \/ HandOver(c)

Main ==
  /\ ~down
  /\ \/ \E c \in Client, fd \in Fd : Accept(c, fd)
     \/ AcceptFails
     \/ SpawnThread
     \/ JoinAndSpawn

UdpThread ==
  /\ ~down
  /\ \/ PassChunk
     \/ \E fd \in Fd, c \in Client : TransferEnds(fd, c) \/ TransferFails(fd, c)
     \/ RemoveSocket

Next ==
  \/ \E c \in Client : Connect(c) \/ SendRequest(c) \/ Hangup(c)
  \/ Main
  \/ \E c \in Client : Worker(c)
  \/ UdpThread

Spec == Init /\ [][Next]_vars

(* Places where a worker may stay for ever, for want of any timeout: in    *)
(* recv, as long as the client neither sends nor goes, and in the sends of *)
(* a file, as long as it does not read.  All other answers are short.      *)
Listening(c) ==
  /\ pc[c] = "receiving"
  /\ Holder(hand[c]) # Nobody
  /\ Holder(hand[c]) \notin gone /\ said[Holder(hand[c])] # "sent"

SendingFile(c) == pc[c] = "answering" /\ Route(c) = "own file"

(* The main thread keeps running, and so does a worker that nothing holds  *)
(* up.  Nothing is assumed of the clients.                                 *)
Fairness ==
  /\ WF_vars(Main)
  /\ \A c \in Client : WF_vars(~SendingFile(c) /\ Worker(c))

FairSpec == Spec /\ Fairness

-----------------------------------------------------------------------------
(* The thread main waits for when the table is full is one that was started*)
(* and that nobody has waited for: pthread_join is never given an empty    *)
(* entry or an ended thread's.                                             *)
JoinsValid ==
  /\ TypeOK
  /\ main # Nobody /\ index = MaxThreads =>
       threads[0] # Nobody /\ threads[0] \notin joined

(* Each worker serves the connection it was started for: it has read its   *)
(* argument before the loop went on.                                       *)
OwnConnection ==
  \A c \in Client : pc[c] \notin {"none", "created"} => took[c] = c

(* A request that ends the process by itself once a thread has read it: it *)
(* is told to end, the request lacks what the code takes for granted, or   *)
(* the sender of an advertisement has reset the connection.                *)
Fatal(c) ==
  /\ said[c] = "read"
  /\ \/ asks[c] \in Ending \union Pathless
     \/ asks[c] = "link-state" /\ c \in gone

(* Whatever else the threads do, a worker acts on the path of the request  *)
(* it received as long as no thread has called strtok between the two calls*)
(* that cut off its method and its path.  If moreover every worker has read*)
(* its argument in time and no second close has hit a connection, nothing  *)
(* ends the process but a request that does so by itself.                  *)
LinesOwn ==
  ~crossed =>
    /\ \A c \in Client :
         pc[c] \in {"version", "answering"} => line[c] = job[c]
    /\ down /\ OwnConnection /\ ~hit => \E c \in Client : Fatal(c)

(* As long as every worker has read its argument in time, the second close *)
(* of a failed transfer has hit nobody and no path was cut by two threads, *)
(* answers reach the client that asked and no other, and no connection is  *)
(* closed before its client has its answer or has gone: no other way to    *)
(* close a descriptor hits one that has a new owner, although entries of   *)
(* connections[] outlive theirs.                                           *)
PromptSafe ==
  OwnConnection /\ ~hit /\ ~crossed =>
    /\ \A c \in Client : reply[c] \subseteq {c}
    /\ \A c \in met \ Connected : c \in gone \/ c \in reply[c]

(* Main does not come back to accept: the process has ended; or the thread *)
(* it joins, with the table full, is held up by a client, while the others *)
(* in the table may long have ended; or every descriptor is taken by a     *)
(* connection whose thread has ended without closing it or is held up.     *)
HeldUp(c) == Listening(c) \/ SendingFile(c)
Stuck ==
  \/ down
  \/ main # Nobody /\ index = MaxThreads /\ HeldUp(threads[0])
  \/ /\ main = Nobody
     /\ \A fd \in Fd : sock[fd] \in {c \in Client : pc[c] = "done" \/ HeldUp(c)}

(* Every client in the backlog is accepted in the end, also when the table *)
(* of threads is full, unless main is stuck for good.                      *)
AllAccepted ==
  \A c \in Client : []<>(c \notin waiting) \/ <>[]Stuck
=============================================================================
