----------------------------- MODULE ForkServer -----------------------------
(***************************************************************************)
(* The hw1 server: the parent process accepts a connection, forks a child  *)
(* for it and closes its own copy of the descriptor; the child answers one *)
(* request and exits; the parent's SIGCHLD handler reaps children.  The    *)
(* handler interrupts the loop at any point and SIGCHLD stays pending, once*)
(* for any number of children, while it runs.                              *)
(*                                                                         *)
(* A file is its size: byte i of a file is told from other bytes by i.     *)
(***************************************************************************)
EXTENDS RangeAnswer, Sequences, FiniteSets

CONSTANTS
  Client,        \* clients; one connection and one child each
  Buffer,        \* bytes a read asks for, 4096
  FileSize,      \* the size of ./content/<path> at first
  Asks,          \* Asks[c]: what c may request
  Parent,        \* the parent process; a child goes by its client's name
  None,          \* new_fd before the first accept
  MaxForkFails,  \* bound: forks that fail
  MaxHangups,    \* bound: clients that go away early
  MaxTruncations \* bound: times the file is cut short

(* A request is for "/", for a path that is not there, for one whose type  *)
(* is unknown, or for the file; silent clients close without one.          *)
Request == [what : {"root", "missing", "untyped", "file", "silent"}, range : RangeType]

ASSUME ServerAssumption ==
  /\ Buffer \in Nat \ {0} /\ FileSize \in Nat
  /\ Asks \in [Client -> SUBSET Request]
  /\ Parent \notin Client /\ None \notin Client
  /\ MaxForkFails \in Nat /\ MaxHangups \in Nat /\ MaxTruncations \in Nat

VARIABLES
  backlog,   \* connections the kernel has for accept
  pc,        \* where the parent's loop is
  cur,       \* new_fd
  held,      \* held[p]: the connections process p has a descriptor of
  child,     \* child[c]: where the child for c is
  ask,       \* ask[c]: the request it has received
  left,      \* left[c]: its bytes_to_read
  pos,       \* pos[c]: the offset in its file
  got,       \* got[c]: the bytes of the file c has received, in order
  status,    \* status[c]: the status of its answer, 0 before
  ended,     \* the clients whose connection has been closed
  hung,      \* the clients that have gone away
  sigchld,   \* SIGCHLD is pending in the parent
  handling,  \* sigchld_handler is running
  size,      \* of the file
  fails, cuts

parentVars == <<backlog, pc, cur, sigchld, handling>>
childVars == <<ask, left, pos, got, status>>
boundVars == <<fails, cuts>>
vars == <<parentVars, held, child, childVars, ended, hung, size, boundVars>>

TypeOK ==
  /\ backlog \in Seq(Client)
  /\ pc \in {"accept", "fork", "close"}
  /\ cur \in Client \union {None}
  /\ held \in [Client \union {Parent} -> SUBSET Client]
  /\ child \in [Client -> {"none", "recv", "send", "exit", "zombie", "reaped"}]
  /\ ask \in [Client -> Request \union {None}]
  /\ \A c \in Client : ask[c] \in Asks[c] \union {None}
  /\ left \in [Client -> Int]
  /\ pos \in [Client -> Nat]
  /\ got \in [Client -> Seq(Nat)]
  /\ status \in [Client -> {0, 200, 206, 404, 416}]
  /\ ended \subseteq Client /\ hung \subseteq Client
  /\ sigchld \in BOOLEAN /\ handling \in BOOLEAN
  /\ size \in 0 .. FileSize
  /\ fails \in 0 .. MaxForkFails /\ cuts \in 0 .. MaxTruncations

Init ==
  /\ backlog = << >>
  /\ pc = "accept" /\ cur = None
  /\ held = [p \in Client \union {Parent} |-> {}]
  /\ child = [c \in Client |-> "none"]
  /\ ask = [c \in Client |-> None]
  /\ left = [c \in Client |-> 0] /\ pos = [c \in Client |-> 0]
  /\ got = [c \in Client |-> << >>]
  /\ status = [c \in Client |-> 0]
  /\ ended = {} /\ hung = {}
  /\ sigchld = FALSE /\ handling = FALSE
  /\ size = FileSize
  /\ fails = 0 /\ cuts = 0

Known(c) == c \in ended \/ (\E p \in DOMAIN held : c \in held[p])
               \/ (\E i \in DOMAIN backlog : backlog[i] = c)

(* Process p gives up descriptors; a connection is closed with its last.   *)
Drop(p, cs) ==
  /\ held' = [held EXCEPT ![p] = @ \ cs]
  /\ ended' = ended \union {c \in cs : \A q \in DOMAIN held \ {p} : c \notin held[q]}

-----------------------------------------------------------------------------
(* The world outside.                                                      *)

Connect(c) ==
  /\ ~Known(c)
  /\ backlog' = Append(backlog, c)
  /\ UNCHANGED <<pc, cur, sigchld, handling, held, child, childVars, ended, hung, size,
                 boundVars>>

Hangup(c) ==
  /\ Known(c) /\ c \notin hung \union ended
  /\ Cardinality(hung) < MaxHangups
  /\ hung' = hung \union {c}
  /\ UNCHANGED <<parentVars, held, child, childVars, ended, size, boundVars>>

Truncate ==
  /\ cuts < MaxTruncations
  /\ cuts' = cuts + 1
  /\ \E s \in 0 .. size - 1 : size' = s
  /\ UNCHANGED <<parentVars, held, child, childVars, ended, hung, fails>>

-----------------------------------------------------------------------------
(* The parent: main.                                                       *)

AcceptConnection ==
  /\ ~handling
  /\ pc = "accept" /\ backlog # << >>
  /\ cur' = Head(backlog)
  /\ backlog' = Tail(backlog)
  /\ held' = [held EXCEPT ![Parent] = @ \union {Head(backlog)}]
  /\ pc' = "fork"
  /\ UNCHANGED <<sigchld, handling, child, childVars, ended, hung, size, boundVars>>

(* The child has a copy of every descriptor of the parent.                 *)
Fork ==
  /\ ~handling
  /\ pc = "fork"
  /\ child' = [child EXCEPT ![cur] = "recv"]
  /\ held' = [held EXCEPT ![cur] = held[Parent]]
  /\ pc' = "close"
  /\ UNCHANGED <<backlog, cur, sigchld, handling, childVars, ended, hung, size, boundVars>>

(* pid is -1: the parent goes on as after any fork.                        *)
ForkFails ==
  /\ ~handling
  /\ pc = "fork"
  /\ fails < MaxForkFails
  /\ fails' = fails + 1
  /\ pc' = "close"
  /\ UNCHANGED <<backlog, cur, sigchld, handling, held, child, childVars, ended, hung, size,
                 cuts>>

(* Mutant of ParentCloses: the parent keeps its copy.                      *)
ParentKeeps ==
  /\ ~handling
  /\ pc = "close"
  /\ pc' = "accept"
  /\ UNCHANGED <<backlog, cur, sigchld, handling, held, child, childVars, ended, hung, size,
                 boundVars>>

ParentCloses ==
  /\ ~handling
  /\ pc = "close"
  /\ Drop(Parent, {cur})
  /\ pc' = "accept"
  /\ UNCHANGED <<backlog, cur, sigchld, handling, child, childVars, hung, size, boundVars>>

ParentStep == AcceptConnection \/ Fork \/ ForkFails \/ ParentCloses

(* sigchld_handler.                                                        *)
EnterHandler ==
  /\ sigchld /\ ~handling
  /\ handling' = TRUE
  /\ sigchld' = FALSE
  /\ UNCHANGED <<backlog, pc, cur, held, child, childVars, ended, hung, size, boundVars>>

Zombies == {c \in Client : child[c] = "zombie"}

Reap ==
  /\ handling
  /\ \E c \in Zombies : child' = [child EXCEPT ![c] = "reaped"]
  /\ UNCHANGED <<parentVars, held, childVars, ended, hung, size, boundVars>>

(* Mutant of LeaveHandler: waitpid is called once, not until it finds none.*)
LeaveHandlerEarly ==
  /\ handling
  /\ handling' = FALSE
  /\ UNCHANGED <<backlog, pc, cur, sigchld, held, child, childVars, ended, hung, size,
                 boundVars>>

LeaveHandler ==
  /\ handling
  /\ Zombies = {}
  /\ handling' = FALSE
  /\ UNCHANGED <<backlog, pc, cur, sigchld, held, child, childVars, ended, hung, size,
                 boundVars>>

-----------------------------------------------------------------------------
(* A child.                                                                *)

(* It ends, by exit or by a signal; the kernel closes what it has open.    *)
Die(c) ==
  /\ child' = [child EXCEPT ![c] = "zombie"]
  /\ Drop(c, held[c])
  /\ sigchld' = TRUE

DieUnanswered(c) == Die(c) /\ UNCHANGED <<left, pos, got, status>>

(* An answer that is not file content: "/", 404 or 416.                    *)
Answer(c, code) ==
  /\ status' = [status EXCEPT ![c] = code]
  /\ child' = [child EXCEPT ![c] = "exit"]
  /\ UNCHANGED <<held, ended, sigchld, left, pos, got>>

(* transfer_file_chunk up to its first read.                               *)
StartFile(c, r) ==
  /\ status' = [status EXCEPT ![c] = Status(r, size)]
  /\ left' = [left EXCEPT ![c] = BytesToRead(r, size)]
  /\ pos' = [pos EXCEPT ![c] = FirstByte(r)]
  /\ child' = [child EXCEPT ![c] = "send"]
  /\ UNCHANGED <<held, ended, sigchld, got>>

(* A read of nothing leaves no path to look at, and an unknown type is     *)
(* exit(1): the child ends without an answer.                              *)
Receive(c) ==
  /\ child[c] = "recv"
  /\ \E r \in Asks[c] :
       /\ ask' = [ask EXCEPT ![c] = r]
       /\ \/ r.what \in {"silent", "untyped"} /\ DieUnanswered(c)
          \/ c \in hung /\ DieUnanswered(c)
          \/ r.what = "root" /\ Answer(c, 200)
          \/ r.what = "missing" /\ Answer(c, 404)
          \/ r.what = "file" /\ ~Satisfiable(r.range, size) /\ Answer(c, 416)
          \/ r.what = "file" /\ Satisfiable(r.range, size) /\ StartFile(c, r.range)
  /\ UNCHANGED <<backlog, pc, cur, handling, hung, size, boundVars>>

(* What read returns: at most a buffer, at most what is left of the range, *)
(* at most what is left of the file.                                       *)
Wanted(c) == IF status[c] = 206 THEN Least2(Buffer, left[c]) ELSE Buffer
ReadBytes(c) == IF pos[c] >= size THEN 0 ELSE Least2(Wanted(c), size - pos[c])

Sending(c) == child[c] = "send" /\ (status[c] = 206 => left[c] > 0)

(* Mutant of SendSome: a full buffer is read, whatever the range has left. *)
SendSomeFull(c) ==
  /\ Sending(c)
  /\ pos[c] < size
  /\ LET n == Least2(Buffer, size - pos[c])
     IN /\ pos' = [pos EXCEPT ![c] = @ + n]
        /\ left' = [left EXCEPT ![c] = @ - n]
        /\ got' = [got EXCEPT ![c] = @ \o [i \in 1 .. n |-> pos[c] + i - 1]]
  /\ UNCHANGED <<parentVars, held, child, ask, status, ended, hung, size, boundVars>>

(* One round of the loop: read and send.                                   *)
SendSome(c) ==
  /\ Sending(c)
  /\ ReadBytes(c) > 0
  /\ pos' = [pos EXCEPT ![c] = @ + ReadBytes(c)]
  /\ left' = [left EXCEPT ![c] = @ - ReadBytes(c)]
  /\ got' = IF c \in hung THEN got
            ELSE [got EXCEPT ![c] = @ \o [i \in 1 .. ReadBytes(c) |-> pos[c] + i - 1]]
  /\ UNCHANGED <<parentVars, held, child, ask, status, ended, hung, size, boundVars>>

(* The client has gone: SIGPIPE, which hw1 does not handle.                *)
SendBreaks(c) ==
  /\ Sending(c) /\ ReadBytes(c) > 0
  /\ c \in hung
  /\ Die(c)
  /\ UNCHANGED <<backlog, pc, cur, handling, childVars, hung, size, boundVars>>

(* All is sent: of a range when nothing is left, of a file at its end.  A  *)
(* range whose file has been cut is not: read returns 0 for ever, and the  *)
(* loop goes round without a step of any consequence.                      *)
SendEnds(c) ==
  /\ child[c] = "send"
  /\ IF status[c] = 206 THEN left[c] <= 0 ELSE ReadBytes(c) = 0
  /\ child' = [child EXCEPT ![c] = "exit"]
  /\ UNCHANGED <<parentVars, held, childVars, ended, hung, size, boundVars>>

(* close(new_fd) and exit(0).                                              *)
ChildExits(c) ==
  /\ child[c] = "exit"
  /\ Die(c)
  /\ UNCHANGED <<backlog, pc, cur, handling, childVars, hung, size, boundVars>>

Child(c) == Receive(c) \/ SendSome(c) \/ SendBreaks(c) \/ SendEnds(c) \/ ChildExits(c)

-----------------------------------------------------------------------------
Next ==
  \/ \E c \in Client : Connect(c) \/ Hangup(c)
  \/ Truncate
  \/ AcceptConnection \/ Fork \/ ForkFails \/ ParentCloses
  \/ EnterHandler \/ Reap \/ LeaveHandler
  \/ \E c \in Client :
       Receive(c) \/ SendSome(c) \/ SendBreaks(c) \/ SendEnds(c) \/ ChildExits(c)

Spec == Init /\ [][Next]_vars

(* recv and send have no time limit: a child waits in them for a client    *)
(* that is still there to send its request, and to read.                   *)
HeldUp(c) ==
  /\ child[c] = "recv" \/ (Sending(c) /\ ReadBytes(c) > 0)
  /\ c \notin hung

(* The scheduler runs every process; the parent's loop is held up by its   *)
(* handler only as often as children end.  Nothing is asked of clients.    *)
Fairness ==
  /\ SF_vars(ParentStep)
  /\ WF_vars(EnterHandler) /\ WF_vars(Reap \/ LeaveHandler)
  /\ \A c \in Client : WF_vars(~HeldUp(c) /\ Child(c))

FairSpec == Spec /\ Fairness

-----------------------------------------------------------------------------
(* No dead child is forgotten: SIGCHLD is not counted, so one signal may   *)
(* stand for several children, or for one reaped already.                  *)
ZombiesAreSeen == Zombies # {} => sigchld \/ handling

(* A client's connection is open in its own child, and in the parent until *)
(* the fork: no other child keeps it open when its own is done.            *)
OneHolder ==
  /\ TypeOK
  /\ \A c \in Client :
       /\ \A p \in Client \ {c} : c \notin held[p]
       /\ c \in held[Parent] => cur = c /\ pc # "accept"

(* What a client gets are the bytes RFC 7233 selects, one after the other  *)
(* from the first on, and all of them before the child for it exits; a file*)
(* cut in between takes bytes away but never adds or reorders any.  This is*)
(* of whole files and the ranges that the code understands.                *)
GotSelected ==
  \A c \in Client :
    ask[c] # None =>
    LET r == ask[c].range
    IN Understood(r) =>
         /\ \A i \in DOMAIN got[c] :
              got[c][i] = FirstByte(r) + i - 1 /\ got[c][i] \in Selected(r, FileSize)
         /\ child[c] = "exit" /\ status[c] \in {200, 206} /\ ask[c].what = "file"
              /\ c \notin hung /\ cuts = 0
              => Len(got[c]) = Cardinality(Selected(r, FileSize))

(* Every accepted connection is closed in the end and its child reaped,    *)
(* unless the file shrinks under a child that is to send a range of it, or *)
(* its own client stays and never sends, or reads, what the child awaits;  *)
(* a client that does holds up no other one's connection.                  *)
Accepted(c) == c \in held[Parent]
ClosedAndReaped ==
  \A c \in Client :
    \/ Accepted(c) ~> \/ c \in ended /\ child[c] \in {"none", "reaped"}
                      \/ cuts > 0 /\ status[c] = 206
    \/ <>[]HeldUp(c)
=============================================================================
