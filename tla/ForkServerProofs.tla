-------------------------- MODULE ForkServerProofs --------------------------
(***************************************************************************)
(* Machine-checked facts about ForkServer, for any clients, requests, file *)
(* size and buffer, and any number of faults.                              *)
(***************************************************************************)
EXTENDS ForkServer, FiniteSetTheorems, SequenceTheorems, TLAPS

(* What the parent has open, by where it is in its loop; a child has at    *)
(* most its own connection.                                                *)
Holding ==
  /\ \A c \in Client : held[c] \subseteq {c}
  /\ pc = "accept" => held[Parent] = {}
  /\ pc # "accept" => cur \in Client /\ held[Parent] = {cur}

(* A connection that waits, for accept or for fork, has no child yet and   *)
(* comes once; one that has had a child has been taken up.                 *)
Waiting(c) == \E i \in DOMAIN backlog : backlog[i] = c
Taken(c) == c \in ended \/ \E p \in Client \union {Parent} : c \in held[p]
Once ==
  /\ \A c \in Client : Waiting(c) => child[c] = "none" /\ ~Taken(c)
  /\ \A i, j \in DOMAIN backlog : backlog[i] = backlog[j] => i = j
  /\ pc = "fork" => child[cur] = "none"
  /\ \A c \in Client : child[c] # "none" => Taken(c)

(* A client that is being sent the file, or has been.                      *)
Served(c) == status[c] \in {200, 206} /\ ask[c].what = "file"

(* Where a transfer is: the offset and what is left add up to the end of   *)
(* the range in the file as it was at the start, and the client, while it  *)
(* is there, has everything from the first byte to the offset.             *)
Progress(c) ==
  LET first == FirstByte(ask[c].range)
      last == LastByte(ask[c].range, FileSize)
  IN /\ status[c] = 200 <=> ask[c].range.kind = "none"
     /\ pos[c] >= first
     /\ pos[c] + left[c] - 1 <= last
     /\ cuts = 0 => pos[c] + left[c] - 1 = last
     /\ status[c] = 206 => left[c] >= 0 \/ pos[c] = first
     /\ status[c] = 200 => pos[c] <= FileSize
     /\ c \notin hung => pos[c] = first + Len(got[c])
     /\ \A i \in DOMAIN got[c] : /\ got[c][i] = first + i - 1
                                 /\ got[c][i] < FileSize
                                 /\ status[c] = 206 => got[c][i] <= last

(* A transfer has an answer behind it, and is over only at its end.        *)
Sent(c) ==
  /\ child[c] \in {"none", "recv"} => status[c] = 0
  /\ status[c] # 0 => ask[c] \in Asks[c]
  /\ child[c] = "send" => Served(c)
  /\ ~Served(c) => got[c] = << >>
  /\ Served(c) => Progress(c)
  /\ child[c] = "exit" /\ Served(c) =>
       /\ status[c] = 206 => left[c] <= 0
       /\ status[c] = 200 /\ cuts = 0 => pos[c] = FileSize

Transfer ==
  /\ cuts = 0 => size = FileSize
  /\ \A c \in Client : Sent(c)

-----------------------------------------------------------------------------
(* The bytes of a range are numbers, and a longer file has a later end.    *)
LEMMA RangeBytes ==
  ASSUME NEW r \in RangeType, NEW n \in Nat, NEW m \in 0 .. n
  PROVE  /\ FirstByte(r) \in Nat
         /\ LastByte(r, m) \in Int /\ LastByte(r, n) \in Int
         /\ LastByte(r, m) <= LastByte(r, n)
         /\ LastByte(r, n) < n
         /\ BytesToRead(r, m) \in Int
BY DEF RangeType, FirstByte, LastByte, BytesToRead, Least2

(* What RFC 7233 selects is an interval, the one the code computes.        *)
LEMMA SelectedIsInterval ==
  ASSUME NEW r \in RangeType, Understood(r), NEW n \in Nat
  PROVE  Selected(r, n) = FirstByte(r) .. LastByte(r, n)
<1>1. /\ r.kind \in {"none", "closed", "from"} /\ r.first \in Nat /\ r.last \in Nat
      /\ ~Invalid(r)
  BY DEF RangeType, Understood
<1>2. CASE r.kind = "none"
  BY <1>2 DEF Selected, FirstByte, LastByte
<1>3. CASE r.kind = "closed"
  BY <1>1, <1>3 DEF Selected, FirstByte, LastByte, Least2
<1>4. CASE r.kind = "from"
  BY <1>1, <1>4 DEF Selected, FirstByte, LastByte
<1> QED
  BY <1>1, <1>2, <1>3, <1>4

(* What a request is.                                                      *)
LEMMA RequestTypes ==
  ASSUME NEW c \in Client, NEW r \in Asks[c]
  PROVE  /\ r \in Request /\ r.range \in RangeType
         /\ r.what \in {"root", "missing", "untyped", "file", "silent"}
BY ServerAssumption DEF Request

(* A read returns what there is, of what is asked for.                     *)
LEMMA ReadTypes ==
  ASSUME TypeOK, NEW c \in Client, Sending(c)
  PROVE  /\ ReadBytes(c) \in Nat
         /\ ReadBytes(c) > 0 <=> pos[c] < size
         /\ pos[c] < size => pos[c] + ReadBytes(c) <= size
         /\ status[c] = 206 => ReadBytes(c) <= left[c]
<1>1. /\ pos[c] \in Nat /\ left[c] \in Int /\ size \in Nat /\ Buffer \in Nat \ {0}
      /\ status[c] = 206 => left[c] > 0
  BY ServerAssumption DEF TypeOK, Sending
<1> QED
  BY <1>1 DEF ReadBytes, Wanted, Least2

(* What a round sends is appended to what the client has.                  *)
LEMMA SentTypes ==
  ASSUME TypeOK, NEW c \in Client, Sending(c)
  PROVE  LET more == [i \in 1 .. ReadBytes(c) |-> pos[c] + i - 1]
         IN /\ more \in Seq(Nat) /\ Len(more) = ReadBytes(c)
            /\ \A i \in 1 .. ReadBytes(c) : more[i] = pos[c] + i - 1
            /\ got[c] \o more \in Seq(Nat)
            /\ Len(got[c] \o more) = Len(got[c]) + ReadBytes(c)
            /\ \A i \in DOMAIN (got[c] \o more) :
                 (got[c] \o more)[i] = IF i <= Len(got[c]) THEN got[c][i]
                                       ELSE pos[c] + (i - Len(got[c])) - 1
<1> DEFINE more == [i \in 1 .. ReadBytes(c) |-> pos[c] + i - 1]
<1>1. pos[c] \in Nat /\ ReadBytes(c) \in Nat /\ got[c] \in Seq(Nat)
  BY ReadTypes DEF TypeOK
<1>2. \A i \in 1 .. ReadBytes(c) : pos[c] + i - 1 \in Nat
  BY <1>1
<1>3. more \in Seq(Nat) /\ Len(more) = ReadBytes(c)
  BY <1>1, <1>2
<1>4. /\ got[c] \o more \in Seq(Nat)
      /\ Len(got[c] \o more) = Len(got[c]) + Len(more)
      /\ \A i \in 1 .. Len(got[c]) + Len(more) :
           (got[c] \o more)[i] = IF i <= Len(got[c]) THEN got[c][i] ELSE more[i - Len(got[c])]
  BY <1>1, <1>3, ConcatProperties
<1>5. Len(got[c]) \in Nat /\ DOMAIN (got[c] \o more) = 1 .. Len(got[c]) + Len(more)
  BY <1>1, <1>4, LenProperties
<1>6. \A i \in 1 .. Len(got[c]) + ReadBytes(c) :
        i > Len(got[c]) => i - Len(got[c]) \in 1 .. ReadBytes(c)
  BY <1>1, <1>5
<1> HIDE DEF more
<1>7. \A i \in 1 .. ReadBytes(c) : more[i] = pos[c] + i - 1
  BY DEF more
<1> QED
  BY <1>1, <1>3, <1>4, <1>5, <1>6, <1>7 DEF more

(* Giving up descriptors keeps the types.                                  *)
LEMMA DropTypes ==
  ASSUME TypeOK, NEW p \in Client \union {Parent}, NEW cs \in SUBSET Client, Drop(p, cs)
  PROVE  /\ held' \in [Client \union {Parent} -> SUBSET Client]
         /\ ended' \subseteq Client
BY DEF Drop, TypeOK

(* What Receive leaves behind, for each request.                           *)
LEMMA ReceiveTypes ==
  ASSUME TypeOK, NEW c \in Client, Receive(c)
  PROVE  TypeOK'
<1>1. PICK r \in Asks[c] :
        /\ ask' = [ask EXCEPT ![c] = r]
        /\ \/ DieUnanswered(c)
           \/ Answer(c, 200) \/ Answer(c, 404) \/ Answer(c, 416)
           \/ Satisfiable(r.range, size) /\ StartFile(c, r.range)
  BY DEF Receive
<1>2. /\ ask' \in [Client -> Request \union {None}]
      /\ \A d \in Client : ask'[d] \in Asks[d] \union {None}
  BY <1>1, RequestTypes DEF TypeOK
<1>3. UNCHANGED <<backlog, pc, cur, handling, hung, size, fails, cuts>>
  BY DEF Receive, boundVars
<1>4. CASE DieUnanswered(c)
  <2>1. held' \in [Client \union {Parent} -> SUBSET Client] /\ ended' \subseteq Client
    <3>1. Drop(c, held[c]) /\ held[c] \in SUBSET Client
      BY <1>4 DEF DieUnanswered, Die, TypeOK
    <3> QED
      BY <3>1, DropTypes
  <2> QED
    BY <1>2, <1>3, <1>4, <2>1 DEF DieUnanswered, Die, TypeOK
<1>5. ASSUME NEW code \in {200, 404, 416}, Answer(c, code) PROVE TypeOK'
  BY <1>2, <1>3, <1>5 DEF Answer, TypeOK
<1>6. CASE Satisfiable(r.range, size) /\ StartFile(c, r.range)
  <2>1. /\ r.range \in RangeType /\ FileSize \in Nat /\ size \in 0 .. FileSize
        /\ Status(r.range, size) \in {200, 206}
    BY <1>6, RequestTypes, ServerAssumption DEF TypeOK, Status
  <2> DEFINE range == r.range
  <2> HIDE DEF range
  <2>2. BytesToRead(range, size) \in Int /\ FirstByte(range) \in Nat
    <3>1. range \in RangeType
      BY <2>1 DEF range
    <3> QED
      BY <2>1, <3>1, RangeBytes
  <2> QED
    BY <1>2, <1>3, <1>6, <2>1, <2>2 DEF StartFile, TypeOK, range
<1> QED
  BY <1>1, <1>4, <1>5, <1>6

(* Connections, processes, answers and signals keep their types.           *)
LEMMA TypeStep ==
  ASSUME TypeOK, Holding, [Next]_vars
  PROVE  TypeOK'
<1> USE DEF parentVars, childVars, boundVars
<1>1. ASSUME NEW c \in Client, Connect(c) PROVE TypeOK'
  BY <1>1, AppendProperties DEF Connect, TypeOK
<1>2. ASSUME NEW c \in Client, Hangup(c) PROVE TypeOK'
  BY <1>2 DEF Hangup, TypeOK
<1>3. ASSUME Truncate PROVE TypeOK'
  <2>1. size' \in 0 .. FileSize /\ cuts' \in 0 .. MaxTruncations
    BY <1>3, ServerAssumption DEF Truncate, TypeOK
  <2> QED
    BY <1>3, <2>1 DEF Truncate, TypeOK
<1>4. ASSUME AcceptConnection PROVE TypeOK'
  <2>1. Head(backlog) \in Client /\ Tail(backlog) \in Seq(Client)
    BY <1>4, HeadTailProperties DEF AcceptConnection, TypeOK
  <2> QED
    BY <1>4, <2>1, SMTT(30) DEF AcceptConnection, TypeOK
<1>5. ASSUME Fork PROVE TypeOK'
  BY <1>5 DEF Fork, TypeOK
<1>6. ASSUME ForkFails PROVE TypeOK'
  BY <1>6, ServerAssumption DEF ForkFails, TypeOK
<1>7. ASSUME ParentCloses PROVE TypeOK'
  <2>1. cur \in Client /\ Drop(Parent, {cur})
    BY <1>7 DEF ParentCloses, Holding
  <2>2. held' \in [Client \union {Parent} -> SUBSET Client] /\ ended' \subseteq Client
    BY <2>1, DropTypes
  <2> QED
    BY <1>7, <2>2 DEF ParentCloses, TypeOK
<1>8. ASSUME EnterHandler \/ LeaveHandler PROVE TypeOK'
  <2>1. CASE EnterHandler
    BY <2>1 DEF EnterHandler, TypeOK
  <2>2. CASE LeaveHandler
    BY <2>2 DEF LeaveHandler, TypeOK
  <2> QED
    BY <1>8, <2>1, <2>2
<1>9. ASSUME Reap PROVE TypeOK'
  BY <1>9 DEF Reap, Zombies, TypeOK
<1>10. ASSUME NEW c \in Client, Receive(c) PROVE TypeOK'
  BY <1>10, ReceiveTypes
<1>11. ASSUME NEW c \in Client, SendSome(c) PROVE TypeOK'
  <2> DEFINE more == [i \in 1 .. ReadBytes(c) |-> pos[c] + i - 1]
  <2>1. /\ pos[c] + ReadBytes(c) \in Nat /\ left[c] - ReadBytes(c) \in Int
        /\ got[c] \o more \in Seq(Nat)
    <3>1. Sending(c)
      BY <1>11 DEF SendSome
    <3>2. pos[c] \in Nat /\ left[c] \in Int /\ ReadBytes(c) \in Nat
      BY <3>1, ReadTypes DEF TypeOK
    <3>3. got[c] \o more \in Seq(Nat)
      BY <3>1, SentTypes
    <3> QED
      BY <3>2, <3>3
  <2> HIDE DEF more
  <2>2. got' = IF c \in hung THEN got ELSE [got EXCEPT ![c] = @ \o more]
    BY <1>11 DEF SendSome, more
  <2>3. got' \in [Client -> Seq(Nat)]
    BY <2>1, <2>2 DEF TypeOK
  <2>4. pos' \in [Client -> Nat] /\ left' \in [Client -> Int]
    BY <1>11, <2>1 DEF SendSome, TypeOK
  <2> QED
    BY <1>11, <2>3, <2>4 DEF SendSome, TypeOK
<1>12. ASSUME NEW c \in Client, SendBreaks(c) \/ ChildExits(c) PROVE TypeOK'
  <2>1. Die(c) /\ held[c] \in SUBSET Client
    BY <1>12 DEF SendBreaks, ChildExits, TypeOK
  <2>2. held' \in [Client \union {Parent} -> SUBSET Client] /\ ended' \subseteq Client
    BY <2>1, DropTypes DEF Die
  <2>3. /\ child' = [child EXCEPT ![c] = "zombie"] /\ sigchld' = TRUE
        /\ UNCHANGED <<backlog, pc, cur, handling, ask, left, pos, got, status, hung, size,
                       fails, cuts>>
    BY <1>12, <2>1 DEF SendBreaks, ChildExits, Die
  <2> QED
    BY <2>2, <2>3 DEF TypeOK
<1>13. ASSUME NEW c \in Client, SendEnds(c) PROVE TypeOK'
  BY <1>13 DEF SendEnds, TypeOK
<1>14. CASE UNCHANGED vars
  BY <1>14 DEF vars, TypeOK
<1> QED
  BY <1>1, <1>2, <1>3, <1>4, <1>5, <1>6, <1>7, <1>8, <1>9, <1>10, <1>11, <1>12,
     <1>13, <1>14 DEF Next

-----------------------------------------------------------------------------
(* One step, whatever it is: who has which descriptor.                     *)
LEMMA HoldingStep ==
  ASSUME TypeOK, Holding, [Next]_vars
  PROVE  Holding'
<1> USE DEF parentVars, childVars, boundVars
<1>1. ASSUME AcceptConnection PROVE Holding'
  <2>1. Head(backlog) \in Client /\ held[Parent] = {}
    BY <1>1, HeadTailProperties DEF AcceptConnection, TypeOK, Holding
  <2> QED
    BY <1>1, <2>1, ServerAssumption DEF AcceptConnection, TypeOK, Holding
<1>2. ASSUME Fork PROVE Holding'
  BY <1>2, ServerAssumption DEF Fork, TypeOK, Holding
<1>3. ASSUME ForkFails PROVE Holding'
  BY <1>3 DEF ForkFails, Holding
<1>4. ASSUME ParentCloses PROVE Holding'
  <2>1. held' = [held EXCEPT ![Parent] = {}] /\ pc' = "accept"
    <3>1. held[Parent] = {cur} /\ held[Parent] \ {cur} = {}
      BY <1>4 DEF ParentCloses, Holding
    <3> QED
      BY <1>4, <3>1 DEF ParentCloses, Drop
  <2> QED
    BY <2>1, ServerAssumption DEF TypeOK, Holding
<1>5. ASSUME NEW c \in Client, Die(c), UNCHANGED <<pc, cur>> PROVE Holding'
  <2>1. held' = [held EXCEPT ![c] = {}]
    <3>1. held[c] \ held[c] = {}
      OBVIOUS
    <3> QED
      BY <1>5, <3>1 DEF Die, Drop
  <2> QED
    BY <1>5, <2>1, ServerAssumption DEF TypeOK, Holding
<1>6. ASSUME NEW c \in Client, Receive(c) \/ SendBreaks(c) \/ ChildExits(c) PROVE Holding'
  <2>1. CASE held' = held
    BY <1>6, <2>1 DEF Receive, SendBreaks, ChildExits, Holding
  <2>2. CASE held' # held
    <3>1. Die(c) /\ UNCHANGED <<pc, cur>>
      BY <1>6, <2>2 DEF Receive, Answer, StartFile, DieUnanswered, SendBreaks, ChildExits
    <3> QED
      BY <1>5, <3>1
  <2> QED
    BY <2>1, <2>2
<1>7. ASSUME UNCHANGED <<held, pc, cur>> PROVE Holding'
  BY <1>7 DEF Holding
<1> QED
  BY <1>1, <1>2, <1>3, <1>4, <1>6, <1>7
     DEF Next, vars, Connect, Hangup, Truncate, EnterHandler, Reap, LeaveHandler,
         SendSome, SendEnds

(* The initial states have the types, and nothing is open.                 *)
LEMMA InitTypes ==
  ASSUME Init
  PROVE  TypeOK /\ Holding
<1>1. << >> \in Seq(Client) /\ << >> \in Seq(Nat)
  BY EmptySeq
<1>2. FileSize \in 0 .. FileSize /\ 0 \in 0 .. MaxForkFails /\ 0 \in 0 .. MaxTruncations
  BY ServerAssumption
<1>3. Holding
  BY ServerAssumption DEF Init, Holding
<1>4. /\ held \in [Client \union {Parent} -> SUBSET Client]
      /\ child \in [Client -> {"none", "recv", "send", "exit", "zombie", "reaped"}]
      /\ got \in [Client -> Seq(Nat)]
  BY <1>1 DEF Init
<1>5. /\ ask \in [Client -> Request \union {None}]
      /\ \A c \in Client : ask[c] \in Asks[c] \union {None}
      /\ left \in [Client -> Int] /\ pos \in [Client -> Nat]
      /\ status \in [Client -> {0, 200, 206, 404, 416}]
  BY DEF Init
<1> QED
  BY <1>1, <1>2, <1>3, <1>4, <1>5 DEF Init, TypeOK

(* Connections, processes, answers and signals keep their types, and the   *)
(* parent is where its descriptors say.                                    *)
THEOREM TypeCorrect == Spec => [](TypeOK /\ Holding)
<1>1. Init => TypeOK /\ Holding
  BY InitTypes
<1>2. TypeOK /\ Holding /\ [Next]_vars => (TypeOK /\ Holding)'
  BY TypeStep, HoldingStep
<1> QED
  BY <1>1, <1>2, PTL DEF Spec

(* A connection is open in its own child and, until the fork is done, in   *)
(* the parent: no child keeps another's connection open.                   *)
THEOREM OneHolderHolds == Spec => []OneHolder
<1>1. TypeOK /\ Holding => OneHolder
  BY ServerAssumption DEF TypeOK, Holding, OneHolder
<1> QED
  BY <1>1, TypeCorrect, PTL

(* While a child is dead and not reaped, its signal is pending or handled. *)
THEOREM ZombiesSeen == Spec => []ZombiesAreSeen
<1>1. Init => ZombiesAreSeen
  BY DEF Init, ZombiesAreSeen, Zombies
<1>2. TypeOK /\ Holding /\ ZombiesAreSeen /\ [Next]_vars => ZombiesAreSeen'
  <2> SUFFICES ASSUME TypeOK, Holding, ZombiesAreSeen, [Next]_vars PROVE ZombiesAreSeen'
    OBVIOUS
  <2> USE DEF parentVars, childVars, boundVars
  <2>1. CASE Zombies' \subseteq Zombies /\ UNCHANGED <<sigchld, handling>>
    BY <2>1 DEF ZombiesAreSeen
  <2>2. CASE sigchld' \/ handling'
    BY <2>2 DEF ZombiesAreSeen
  <2>3. ASSUME Fork PROVE Zombies' \subseteq Zombies /\ UNCHANGED <<sigchld, handling>>
    BY <2>3 DEF Fork, Zombies, TypeOK
  <2>4. ASSUME Reap PROVE Zombies' \subseteq Zombies /\ UNCHANGED <<sigchld, handling>>
    BY <2>4 DEF Reap, Zombies, TypeOK
  <2>5. CASE LeaveHandler
    BY <2>5 DEF LeaveHandler, Zombies, ZombiesAreSeen
  <2>6. CASE EnterHandler
    BY <2>2, <2>6 DEF EnterHandler
  <2>7. ASSUME NEW c \in Client, Receive(c) \/ SendBreaks(c) \/ SendEnds(c) \/ ChildExits(c)
        PROVE  sigchld' \/ (Zombies' \subseteq Zombies /\ UNCHANGED <<sigchld, handling>>)
    BY <2>7 DEF Receive, SendBreaks, SendEnds, ChildExits, Die, DieUnanswered, Answer,
                StartFile, Zombies, TypeOK
  <2>8. ASSUME UNCHANGED <<child, sigchld, handling>>
        PROVE  Zombies' \subseteq Zombies /\ UNCHANGED <<sigchld, handling>>
    BY <2>8 DEF Zombies
  <2> QED
    BY <2>1, <2>2, <2>3, <2>4, <2>5, <2>6, <2>7, <2>8
       DEF Next, vars, Connect, Hangup, Truncate, AcceptConnection, ForkFails,
           ParentCloses, SendSome
<1> QED
  BY <1>1, <1>2, TypeCorrect, PTL DEF Spec

-----------------------------------------------------------------------------
(* Giving up descriptors that are held leaves taken what was taken.        *)
LEMMA DropTaken ==
  ASSUME TypeOK, NEW p \in Client \union {Parent}, NEW cs \in SUBSET held[p], Drop(p, cs),
         NEW c \in Client
  PROVE  Taken(c)' <=> Taken(c)
<1>1. /\ held' = [held EXCEPT ![p] = @ \ cs]
      /\ ended' = ended \union {d \in cs : \A q \in (Client \union {Parent}) \ {p} :
                                              d \notin held[q]}
  BY DEF Drop, TypeOK
<1>2. \A q \in Client \union {Parent} :
        held'[q] = IF q = p THEN held[p] \ cs ELSE held[q]
  BY <1>1 DEF TypeOK
<1>3. CASE c \in cs
  BY <1>1, <1>2, <1>3 DEF Taken
<1>4. CASE c \notin cs
  BY <1>1, <1>2, <1>4 DEF Taken
<1> QED
  BY <1>3, <1>4

(* What is known of a client: it waits or has been taken up.               *)
LEMMA KnownIs ==
  ASSUME TypeOK, NEW c \in Client
  PROVE  Known(c) <=> Waiting(c) \/ Taken(c)
BY DEF Known, Waiting, Taken, TypeOK

(* One step: every client is accepted once and has one child.              *)
LEMMA OnceStep ==
  ASSUME TypeOK, Holding, Once, [Next]_vars
  PROVE  Once'
<1> USE DEF parentVars, childVars, boundVars
<1>1. ASSUME NEW c \in Client, Connect(c) PROVE Once'
  <2>1. ~Waiting(c) /\ ~Taken(c) /\ child[c] = "none"
    BY <1>1, KnownIs DEF Connect, Once
  <2>2. /\ \A d \in Client : Taken(d)' <=> Taken(d)
        /\ child' = child /\ pc' = pc /\ cur' = cur
    BY <1>1 DEF Connect, Taken
  <2>3. /\ DOMAIN backlog = 1 .. Len(backlog) /\ Len(backlog) \in Nat
        /\ DOMAIN backlog' = 1 .. Len(backlog) + 1
        /\ \A i \in 1 .. Len(backlog) : backlog'[i] = backlog[i]
        /\ backlog'[Len(backlog) + 1] = c
    BY <1>1, AppendProperties, LenProperties DEF Connect, TypeOK
  <2>4. \A d \in Client : Waiting(d)' => Waiting(d) \/ d = c
    BY <2>3 DEF Waiting
  <2>5. \A i, j \in DOMAIN backlog' : backlog'[i] = backlog'[j] => i = j
    BY <2>1, <2>3 DEF Once, Waiting
  <2> QED
    BY <2>1, <2>2, <2>4, <2>5 DEF Once
<1>2. ASSUME AcceptConnection PROVE Once'
  <2> DEFINE c == Head(backlog)
  <2>1. /\ backlog # << >> /\ backlog' = Tail(backlog) /\ cur' = c /\ child' = child
        /\ ended' = ended /\ held' = [held EXCEPT ![Parent] = @ \union {c}]
    BY <1>2 DEF AcceptConnection
  <2>2. /\ Len(backlog) \in Nat \ {0} /\ DOMAIN backlog = 1 .. Len(backlog)
        /\ DOMAIN backlog' = 1 .. Len(backlog) - 1
        /\ \A i \in 1 .. Len(backlog) - 1 : backlog'[i] = backlog[i + 1]
        /\ c = backlog[1] /\ c \in Client
    BY <2>1, HeadTailProperties, LenProperties, EmptySeq DEF TypeOK
  <2>3. child[c] = "none"
    BY <2>2 DEF Once, Waiting
  <2>4. \A d \in Client : Waiting(d)' => Waiting(d) /\ d # c
    BY <2>2 DEF Once, Waiting
  <2>5. \A i, j \in DOMAIN backlog' : backlog'[i] = backlog'[j] => i = j
    BY <2>2 DEF Once
  <2>6. \A d \in Client : Taken(d) => Taken(d)'
    BY <2>1 DEF Taken, TypeOK
  <2>7. \A d \in Client : Taken(d)' => Taken(d) \/ d = c
    BY <2>1 DEF Taken, TypeOK
  <2> HIDE DEF c
  <2> QED
    BY <2>1, <2>3, <2>4, <2>5, <2>6, <2>7 DEF Once
<1>3. ASSUME Fork PROVE Once'
  <2>1. /\ cur \in Client /\ held[Parent] = {cur} /\ held[cur] \subseteq {cur}
        /\ child' = [child EXCEPT ![cur] = "recv"] /\ pc' = "close"
        /\ held' = [held EXCEPT ![cur] = held[Parent]]
        /\ ended' = ended /\ backlog' = backlog
    BY <1>3 DEF Fork, Holding
  <2>2. \A d \in Client : Taken(d)' <=> Taken(d)
    BY <2>1, ServerAssumption DEF Taken, TypeOK
  <2>3. Taken(cur)
    BY <2>1 DEF Taken
  <2>4. \A d \in Client : Waiting(d)' <=> Waiting(d)
    BY <2>1 DEF Waiting
  <2>5. \A d \in Client \ {cur} : child'[d] = child[d]
    BY <2>1 DEF TypeOK
  <2>6. ~Waiting(cur)
    BY <2>1, <2>3 DEF Once
  <2>7. \A d \in Client : Waiting(d)' => child'[d] = "none" /\ ~Taken(d)'
    BY <2>2, <2>4, <2>5, <2>6 DEF Once
  <2>8. \A d \in Client : child'[d] # "none" => Taken(d)'
    BY <2>2, <2>3, <2>5 DEF Once
  <2> QED
    BY <2>1, <2>7, <2>8 DEF Once
<1>4. ASSUME ForkFails PROVE Once'
  BY <1>4 DEF ForkFails, Once, Waiting, Taken
<1>5. ASSUME ParentCloses PROVE Once'
  <2>1. Drop(Parent, {cur}) /\ {cur} \in SUBSET held[Parent]
    BY <1>5 DEF ParentCloses, Holding
  <2>2. \A d \in Client : Taken(d)' <=> Taken(d)
    BY <2>1, DropTaken
  <2> QED
    BY <1>5, <2>2 DEF ParentCloses, Once, Waiting
<1>6. ASSUME NEW c \in Client, Die(c), child[c] # "none", UNCHANGED <<backlog, pc, cur>>
      PROVE  Once'
  <2>1. Drop(c, held[c]) /\ child' = [child EXCEPT ![c] = "zombie"]
    BY <1>6 DEF Die
  <2>2. \A d \in Client : Taken(d)' <=> Taken(d)
    BY <2>1, DropTaken
  <2> QED
    BY <1>6, <2>1, <2>2, SMTT(30) DEF Once, Waiting, Holding, TypeOK
<1>7. ASSUME UNCHANGED <<backlog, pc, cur, held, ended>>,
             \A c \in Client : child'[c] = "none" <=> child[c] = "none"
      PROVE  Once'
  BY <1>7 DEF Once, Waiting, Taken, Holding
<1>8. ASSUME Reap PROVE Once'
  <2>1. \A c \in Client : child'[c] = "none" <=> child[c] = "none"
    BY <1>8 DEF Reap, Zombies, TypeOK
  <2> QED
    BY <1>7, <1>8, <2>1 DEF Reap
<1>9. ASSUME NEW c \in Client, Receive(c) \/ SendBreaks(c) \/ SendEnds(c) \/ ChildExits(c)
      PROVE  Once'
  <2>1. child[c] # "none" /\ UNCHANGED <<backlog, pc, cur>>
    BY <1>9 DEF Receive, SendBreaks, SendEnds, ChildExits, Sending
  <2>2. \/ Die(c)
        \/ /\ UNCHANGED <<held, ended>>
           /\ \E s \in {"send", "exit"} : child' = [child EXCEPT ![c] = s]
    BY <1>9 DEF Receive, SendBreaks, SendEnds, ChildExits, DieUnanswered, Answer, StartFile
  <2>3. CASE Die(c)
    BY <1>6, <2>1, <2>3
  <2>4. CASE UNCHANGED <<held, ended>> /\ \E s \in {"send", "exit"} :
                                            child' = [child EXCEPT ![c] = s]
    <3>1. \A d \in Client : child'[d] = "none" <=> child[d] = "none"
      BY <2>1, <2>4 DEF TypeOK
    <3> QED
      BY <1>7, <2>1, <2>4, <3>1
  <2> QED
    BY <2>2, <2>3, <2>4
<1>10. ASSUME UNCHANGED <<backlog, pc, cur, held, ended, child>> PROVE Once'
  BY <1>7, <1>10
<1> QED
  BY <1>1, <1>2, <1>3, <1>4, <1>5, <1>8, <1>9, <1>10
     DEF Next, vars, Hangup, Truncate, EnterHandler, LeaveHandler, SendSome

-----------------------------------------------------------------------------
(* A client whose child is elsewhere is sent nothing; what it lacks by     *)
(* having gone, or by a cut of the file, is not held against the transfer. *)
LEMMA SentStays ==
  ASSUME Transfer, NEW c \in Client,
         ask'[c] = ask[c], left'[c] = left[c], pos'[c] = pos[c], got'[c] = got[c],
         status'[c] = status[c],
         \/ child'[c] = child[c] \/ child'[c] \in {"zombie", "reaped"}
         \/ child[c] = "none" /\ child'[c] = "recv",
         hung \subseteq hung', cuts' = 0 => cuts = 0
  PROVE  Sent(c)'
<1>1. Served(c)' <=> Served(c)
  BY DEF Served
<1>2. Progress(c) => Progress(c)'
  BY DEF Progress
<1> QED
  BY <1>1, <1>2 DEF Transfer, Sent

(* transfer_file_chunk starts at the first byte of the range, with the     *)
(* length of the range left, as the file is.                               *)
LEMMA StartProgress ==
  ASSUME TypeOK, Transfer, NEW c \in Client, NEW r \in Asks[c], child[c] = "recv",
         r.what = "file", Satisfiable(r.range, size), StartFile(c, r.range),
         ask' = [ask EXCEPT ![c] = r], cuts' = cuts, hung' = hung
  PROVE  Sent(c)'
<1> DEFINE range == r.range
<1>1. /\ range \in RangeType /\ FileSize \in Nat /\ size \in 0 .. FileSize
      /\ cuts = 0 => size = FileSize
  BY RequestTypes, ServerAssumption DEF TypeOK, Transfer
<1>2. got[c] = << >> /\ Len(got[c]) = 0 /\ DOMAIN got[c] = {}
  BY DEF Transfer, Sent, Served
<1>3. /\ ask'[c] = r /\ status'[c] = Status(range, size)
      /\ left'[c] = BytesToRead(range, size) /\ pos'[c] = FirstByte(range)
      /\ child'[c] = "send" /\ got' = got
  BY DEF StartFile, TypeOK
<1>4. /\ FirstByte(range) \in Nat /\ LastByte(range, size) \in Int
      /\ LastByte(range, FileSize) \in Int
      /\ LastByte(range, size) <= LastByte(range, FileSize)
  <2> HIDE DEF range
  <2> QED
    BY <1>1, RangeBytes
<1>5. FirstByte(range) + BytesToRead(range, size) - 1 = LastByte(range, size)
  <2> HIDE DEF range
  <2> QED
    BY <1>4 DEF BytesToRead
<1>6. Status(range, size) = IF range.kind = "none" THEN 200 ELSE 206
  BY DEF Status
<1>7. Served(c)'
  BY <1>3, <1>6 DEF Served
<1>8. range.kind = "none" => FirstByte(range) = 0
  BY DEF FirstByte
<1>9. Progress(c)'
  <2> HIDE DEF range
  <2>1. ask'[c].range = range
    BY <1>3 DEF range
  <2>2. status'[c] = 200 => pos'[c] <= FileSize
    BY <1>1, <1>3, <1>6, <1>8
  <2>3. pos'[c] + left'[c] - 1 = LastByte(range, size)
    BY <1>3, <1>5
  <2>4. cuts' = 0 => LastByte(range, size) = LastByte(range, FileSize)
    BY <1>1
  <2> QED
    BY <1>2, <1>3, <1>4, <1>6, <2>1, <2>2, <2>3, <2>4 DEF Progress
<1> QED
  BY <1>3, <1>6, <1>7, <1>9 DEF Sent

(* A round of the loop keeps the offset and what is left in step, and sends*)
(* the bytes at the offset.                                                *)
LEMMA RoundProgress ==
  ASSUME TypeOK, Transfer, NEW c \in Client, SendSome(c)
  PROVE  Sent(c)'
<1> DEFINE n == ReadBytes(c)
           more == [i \in 1 .. n |-> pos[c] + i - 1]
           first == FirstByte(ask[c].range)
           last == LastByte(ask[c].range, FileSize)
<1>1. /\ Served(c) /\ Progress(c) /\ ask[c] \in Asks[c] /\ child[c] = "send"
      /\ status[c] = 206 => left[c] > 0
  BY DEF SendSome, Sending, Transfer, Sent, Served
<1>2. /\ ask[c].range \in RangeType /\ FileSize \in Nat /\ size \in 0 .. FileSize
      /\ pos[c] \in Nat /\ left[c] \in Int /\ got[c] \in Seq(Nat)
      /\ Len(got[c]) \in Nat /\ DOMAIN got[c] = 1 .. Len(got[c])
  BY <1>1, RequestTypes, ServerAssumption, LenProperties DEF TypeOK
<1>3. first \in Nat /\ last \in Int
  BY <1>2, RangeBytes
<1>4. /\ n \in Nat /\ n > 0 /\ pos[c] + n <= FileSize
      /\ status[c] = 206 => n <= left[c]
  BY <1>2, ReadTypes DEF SendSome
<1>5. /\ Len(got[c] \o more) = Len(got[c]) + n
      /\ DOMAIN (got[c] \o more) = 1 .. Len(got[c]) + n
      /\ \A i \in 1 .. Len(got[c]) + n :
           (got[c] \o more)[i] = IF i <= Len(got[c]) THEN got[c][i]
                                 ELSE pos[c] + (i - Len(got[c])) - 1
  <2>1. /\ got[c] \o more \in Seq(Nat) /\ Len(got[c] \o more) = Len(got[c]) + n
        /\ \A i \in DOMAIN (got[c] \o more) :
             (got[c] \o more)[i] = IF i <= Len(got[c]) THEN got[c][i]
                                   ELSE pos[c] + (i - Len(got[c])) - 1
    BY SentTypes DEF SendSome
  <2> QED
    BY <2>1, LenProperties
<1>6. /\ ask' = ask /\ status' = status /\ child' = child /\ hung' = hung /\ cuts' = cuts
      /\ pos'[c] = pos[c] + n /\ left'[c] = left[c] - n
      /\ got'[c] = IF c \in hung THEN got[c] ELSE got[c] \o more
  BY DEF SendSome, TypeOK, childVars, boundVars
<1> HIDE DEF n, more, first, last
<1>7. /\ status[c] = 200 <=> ask[c].range.kind = "none"
      /\ pos[c] >= first
      /\ pos[c] + left[c] - 1 <= last
      /\ cuts = 0 => pos[c] + left[c] - 1 = last
      /\ status[c] = 206 => left[c] >= 0 \/ pos[c] = first
      /\ c \notin hung => pos[c] = first + Len(got[c])
      /\ \A i \in DOMAIN got[c] : /\ got[c][i] = first + i - 1
                                  /\ got[c][i] < FileSize
                                  /\ status[c] = 206 => got[c][i] <= last
  BY <1>1 DEF Progress, first, last
<1>8. \A i \in DOMAIN got'[c] : /\ got'[c][i] = first + i - 1
                                /\ got'[c][i] < FileSize
                                /\ status[c] = 206 => got'[c][i] <= last
  <2>1. CASE c \in hung
    BY <1>6, <1>7, <2>1
  <2>2. CASE c \notin hung
    <3> SUFFICES ASSUME NEW i \in 1 .. Len(got[c]) + n
                 PROVE  /\ got'[c][i] = first + i - 1 /\ got'[c][i] < FileSize
                        /\ status[c] = 206 => got'[c][i] <= last
      BY <1>5, <1>6, <2>2
    <3>1. got'[c][i] = IF i <= Len(got[c]) THEN got[c][i]
                       ELSE pos[c] + (i - Len(got[c])) - 1
      BY <1>5, <1>6, <2>2
    <3>2. CASE i <= Len(got[c])
      <4>1. i \in DOMAIN got[c] /\ got'[c][i] = got[c][i]
        BY <1>2, <1>4, <3>1, <3>2
      <4> QED
        BY <1>7, <4>1
    <3>3. CASE i > Len(got[c])
      <4>1. got'[c][i] = first + i - 1
        BY <1>2, <1>3, <1>4, <1>7, <2>2, <3>1, <3>3
      <4>2. i - Len(got[c]) <= n /\ got'[c][i] = pos[c] + (i - Len(got[c])) - 1
        BY <1>2, <1>4, <3>1, <3>3
      <4>3. got'[c][i] < FileSize
        BY <1>2, <1>4, <4>2
      <4>4. status[c] = 206 => got'[c][i] <= last
        BY <1>2, <1>3, <1>4, <1>7, <4>2, SMTT(30)
      <4> QED
        BY <4>1, <4>3, <4>4
    <3> QED
      BY <1>2, <3>2, <3>3
  <2> QED
    BY <2>1, <2>2
<1>9. c \notin hung => pos'[c] = first + Len(got'[c])
  <2>1. c \notin hung => Len(got'[c]) = Len(got[c]) + n
    BY <1>5, <1>6
  <2>2. c \notin hung => pos[c] = first + Len(got[c])
    BY <1>7
  <2>3. pos'[c] = pos[c] + n /\ n \in Nat /\ Len(got[c]) \in Nat
    BY <1>2, <1>4, <1>6
  <2> QED
    BY <1>3, <2>1, <2>2, <2>3
<1>10. /\ pos'[c] >= first /\ pos'[c] + left'[c] = pos[c] + left[c]
       /\ status[c] = 206 => left'[c] >= 0
       /\ pos'[c] <= FileSize
  BY <1>2, <1>3, <1>4, <1>6, <1>7
<1>11. Progress(c)'
  <2>1. first = FirstByte(ask'[c].range) /\ last = LastByte(ask'[c].range, FileSize)
    BY <1>6 DEF first, last
  <2>2. /\ status'[c] = 200 <=> ask'[c].range.kind = "none"
        /\ pos'[c] + left'[c] - 1 <= last
        /\ cuts' = 0 => pos'[c] + left'[c] - 1 = last
    <3>1. /\ status[c] = 200 <=> ask[c].range.kind = "none"
          /\ pos[c] + left[c] - 1 <= last
          /\ cuts = 0 => pos[c] + left[c] - 1 = last
      BY <1>7
    <3>2. ask' = ask /\ status' = status /\ cuts' = cuts
      BY <1>6
    <3>3. pos'[c] + left'[c] = pos[c] + left[c]
      BY <1>10
    <3>4. status'[c] = 200 <=> ask'[c].range.kind = "none"
      BY <3>1, <3>2
    <3>5. pos'[c] \in Int /\ left'[c] \in Int
      BY <1>2, <1>4, <1>6
    <3>6. pos'[c] + left'[c] - 1 = pos[c] + left[c] - 1
      <4>1. pos[c] \in Int /\ left[c] \in Int
        BY <1>2
      <4> QED
        BY <3>3, <3>5, <4>1
    <3> QED
      BY <3>1, <3>2, <3>4, <3>6
  <2>3. c \notin hung' => pos'[c] = first + Len(got'[c])
    BY <1>6, <1>9
  <2>4. \A i \in DOMAIN got'[c] : /\ got'[c][i] = first + i - 1
                                  /\ got'[c][i] < FileSize
                                  /\ status'[c] = 206 => got'[c][i] <= last
    BY <1>6, <1>8
  <2> HIDE DEF first, last
  <2> QED
    BY <1>6, <1>10, <2>1, <2>2, <2>3, <2>4 DEF Progress
<1>12. Served(c)'
  BY <1>1, <1>6 DEF Served
<1> QED
  BY <1>1, <1>6, <1>11, <1>12, ServerAssumption DEF Sent, Served

(* One step: every transfer is as far as its offset says.                  *)
LEMMA TransferStep ==
  ASSUME TypeOK, Holding, Once, Transfer, [Next]_vars
  PROVE  Transfer'
<1> USE DEF parentVars, childVars, boundVars
<1>1. ASSUME ask' = ask, left' = left, pos' = pos, got' = got, status' = status,
             size' = size, cuts' = cuts, hung \subseteq hung',
             \A c \in Client : \/ child'[c] = child[c]
                               \/ child'[c] \in {"zombie", "reaped"}
                               \/ child[c] = "none" /\ child'[c] = "recv"
      PROVE  Transfer'
  BY <1>1, SentStays DEF Transfer
<1>2. ASSUME Truncate PROVE Transfer'
  <2>1. cuts' # 0
    BY <1>2 DEF Truncate, TypeOK
  <2>2. \A c \in Client : Sent(c)'
    BY <1>2, <2>1, SentStays DEF Truncate
  <2> QED
    BY <2>1, <2>2 DEF Transfer
<1>3. ASSUME Fork PROVE Transfer'
  <2>1. \A c \in Client : child'[c] = child[c] \/ (child[c] = "none" /\ child'[c] = "recv")
    <3>1. child[cur] = "none" /\ child' = [child EXCEPT ![cur] = "recv"]
      BY <1>3 DEF Fork, Once
    <3> QED
      BY <3>1 DEF TypeOK
  <2> QED
    BY <1>1, <1>3, <2>1 DEF Fork
<1>4. ASSUME Reap PROVE Transfer'
  <2>1. \A c \in Client : child'[c] = child[c] \/ child'[c] = "reaped"
    BY <1>4 DEF Reap, TypeOK
  <2> QED
    BY <1>1, <1>4, <2>1 DEF Reap
<1>5. ASSUME NEW c \in Client, SendBreaks(c) \/ ChildExits(c) PROVE Transfer'
  <2>1. child' = [child EXCEPT ![c] = "zombie"]
    BY <1>5 DEF SendBreaks, ChildExits, Die
  <2>2. \A d \in Client : child'[d] = child[d] \/ child'[d] = "zombie"
    BY <2>1 DEF TypeOK
  <2> QED
    BY <1>1, <1>5, <2>2 DEF SendBreaks, ChildExits
<1>6. ASSUME NEW c \in Client, Receive(c) PROVE Transfer'
  <2>1. PICK r \in Asks[c] :
          /\ ask' = [ask EXCEPT ![c] = r]
          /\ \/ r.what \in {"silent", "untyped"} /\ DieUnanswered(c)
             \/ c \in hung /\ DieUnanswered(c)
             \/ r.what = "root" /\ Answer(c, 200)
             \/ r.what = "missing" /\ Answer(c, 404)
             \/ r.what = "file" /\ ~Satisfiable(r.range, size) /\ Answer(c, 416)
             \/ r.what = "file" /\ Satisfiable(r.range, size) /\ StartFile(c, r.range)
    BY <1>6 DEF Receive
  <2>2. /\ child[c] = "recv" /\ UNCHANGED <<hung, size, cuts>>
        /\ status[c] = 0 /\ got[c] = << >>
    BY <1>6 DEF Receive, Transfer, Sent, Served
  <2>3. ASSUME NEW d \in Client, d # c PROVE Sent(d)'
    <3>1. /\ ask'[d] = ask[d] /\ left'[d] = left[d] /\ pos'[d] = pos[d] /\ got'[d] = got[d]
          /\ status'[d] = status[d] /\ child'[d] = child[d]
      BY <2>1, <2>3 DEF DieUnanswered, Die, Answer, StartFile, TypeOK
    <3> QED
      BY <2>2, <3>1, SentStays
  <2>4. CASE DieUnanswered(c)
    <3>1. status'[c] = 0 /\ got'[c] = << >> /\ child'[c] = "zombie"
      BY <2>2, <2>4 DEF DieUnanswered, Die, TypeOK
    <3> QED
      BY <2>2, <2>3, <3>1 DEF Transfer, Sent, Served
  <2>5. ASSUME NEW code \in {200, 404, 416}, Answer(c, code), code = 200 => r.what = "root"
        PROVE  Transfer'
    <3>1. status'[c] = code /\ got'[c] = << >> /\ child'[c] = "exit" /\ ask'[c] = r
      BY <2>1, <2>2, <2>5 DEF Answer, TypeOK
    <3>2. ~Served(c)'
      BY <2>5, <3>1 DEF Served
    <3>3. Sent(c)'
      BY <2>5, <3>1, <3>2 DEF Sent
    <3> QED
      BY <2>2, <2>3, <3>3 DEF Transfer
  <2>6. CASE r.what = "file" /\ Satisfiable(r.range, size) /\ StartFile(c, r.range)
    <3>1. Sent(c)'
      BY <2>1, <2>2, <2>6, StartProgress
    <3> QED
      BY <2>2, <2>3, <3>1 DEF Transfer
  <2> QED
    BY <2>1, <2>4, <2>5, <2>6
<1>7. ASSUME NEW c \in Client, SendSome(c) PROVE Transfer'
  <2>1. ASSUME NEW d \in Client, d # c PROVE Sent(d)'
    <3>1. /\ ask'[d] = ask[d] /\ left'[d] = left[d] /\ pos'[d] = pos[d] /\ got'[d] = got[d]
          /\ status'[d] = status[d] /\ child'[d] = child[d] /\ UNCHANGED <<hung, cuts>>
      BY <1>7, <2>1 DEF SendSome, TypeOK
    <3> QED
      BY <3>1, SentStays
  <2>2. Sent(c)'
    BY <1>7, RoundProgress
  <2> QED
    BY <1>7, <2>1, <2>2 DEF SendSome, Transfer
<1>8. ASSUME NEW c \in Client, SendEnds(c) PROVE Transfer'
  <2>1. ASSUME NEW d \in Client, d # c PROVE Sent(d)'
    <3>1. child'[d] = child[d]
      BY <1>8, <2>1 DEF SendEnds, TypeOK
    <3> QED
      BY <1>8, <3>1, SentStays DEF SendEnds
  <2>2. /\ Served(c) /\ Progress(c) /\ ask[c] \in Asks[c] /\ child[c] = "send"
    BY <1>8 DEF SendEnds, Transfer, Sent, Served
  <2>3. Served(c)' /\ Progress(c)'
    BY <1>8, <2>2 DEF SendEnds, Served, Progress
  <2>4. status[c] = 206 => left[c] <= 0
    BY <1>8 DEF SendEnds
  <2>5. ASSUME status[c] = 200, cuts = 0 PROVE pos[c] = FileSize
    <3>1. /\ ReadBytes(c) = 0 /\ size = FileSize /\ pos[c] <= FileSize
          /\ pos[c] \in Nat /\ FileSize \in Nat
      BY <1>8, <2>2, <2>5, ServerAssumption DEF SendEnds, Transfer, Progress, TypeOK
    <3>2. pos[c] >= size
      BY <2>5, <2>2, <3>1, ReadTypes DEF Sending
    <3> QED
      BY <3>1, <3>2
  <2>6. Sent(c)'
    BY <1>8, <2>2, <2>3, <2>4, <2>5 DEF SendEnds, Sent, TypeOK
  <2> QED
    BY <1>8, <2>1, <2>6 DEF SendEnds, Transfer
<1>9. ASSUME UNCHANGED <<ask, left, pos, got, status, child, size, cuts>>,
             hung \subseteq hung'
      PROVE  Transfer'
  BY <1>1, <1>9
<1>10. CASE AcceptConnection \/ ForkFails \/ ParentCloses \/ EnterHandler \/ LeaveHandler
  BY <1>9, <1>10 DEF AcceptConnection, ForkFails, ParentCloses, EnterHandler, LeaveHandler
<1>11. ASSUME NEW c \in Client, Connect(c) \/ Hangup(c) PROVE Transfer'
  BY <1>9, <1>11 DEF Connect, Hangup
<1> QED
  BY <1>2, <1>3, <1>4, <1>5, <1>6, <1>7, <1>8, <1>9, <1>10, <1>11 DEF Next, vars

(* What a client is sent are the bytes it asked for, in order, and all of  *)
(* them before its child exits, for any range that the code understands.   *)
THEOREM GotWhatWasSelected == Spec => []GotSelected
<1> DEFINE IInv == TypeOK /\ Holding /\ Once /\ Transfer
<1>1. Init => IInv
  <2> SUFFICES ASSUME Init PROVE IInv
    OBVIOUS
  <2>1. TypeOK /\ Holding
    BY InitTypes
  <2>2. Once
    BY DEF Init, Once, Waiting, Taken
  <2>3. Transfer
    BY DEF Init, Transfer, Sent, Served
  <2> QED
    BY <2>1, <2>2, <2>3
<1>2. IInv /\ [Next]_vars => IInv'
  BY TypeStep, HoldingStep, OnceStep, TransferStep
<1>3. IInv => GotSelected
  <2> SUFFICES ASSUME TypeOK, Transfer, NEW c \in Client, ask[c] # None,
                      Understood(ask[c].range)
               PROVE  /\ \A i \in DOMAIN got[c] :
                            /\ got[c][i] = FirstByte(ask[c].range) + i - 1
                            /\ got[c][i] \in Selected(ask[c].range, FileSize)
                      /\ child[c] = "exit" /\ Served(c) /\ c \notin hung /\ cuts = 0 =>
                           Len(got[c]) = Cardinality(Selected(ask[c].range, FileSize))
    BY DEF GotSelected, Served
  <2> DEFINE range == ask[c].range
             first == FirstByte(range)
             last == LastByte(range, FileSize)
  <2>1. range \in RangeType /\ FileSize \in Nat /\ ask[c] \in Asks[c]
    BY RequestTypes, ServerAssumption DEF TypeOK
  <2>2. first \in Nat /\ last \in Int /\ Selected(range, FileSize) = first .. last
    BY <2>1, RangeBytes, SelectedIsInterval
  <2>3. CASE ~Served(c)
    BY <2>3 DEF Transfer, Sent
  <2>4. CASE Served(c)
    <3>1. Progress(c) /\ (status[c] = 200 <=> range.kind = "none")
      BY <2>4 DEF Transfer, Sent, Progress
    <3>2. status[c] = 200 => first = 0 /\ last = FileSize - 1
      BY <3>1 DEF FirstByte, LastByte
    <3>3. /\ DOMAIN got[c] = 1 .. Len(got[c]) /\ Len(got[c]) \in Nat
          /\ pos[c] \in Nat /\ left[c] \in Int
      BY LenProperties DEF TypeOK
    <3> HIDE DEF first, last
    <3>4. /\ \A i \in DOMAIN got[c] : /\ got[c][i] = first + i - 1
                                      /\ got[c][i] < FileSize
                                      /\ status[c] = 206 => got[c][i] <= last
          /\ cuts = 0 => pos[c] + left[c] - 1 = last
          /\ status[c] = 206 => left[c] >= 0 \/ pos[c] = first
          /\ c \notin hung => pos[c] = first + Len(got[c])
          /\ pos[c] >= first /\ status[c] \in {200, 206}
      BY <2>4, <3>1 DEF Progress, Served, first, last
    <3>5. ASSUME NEW i \in DOMAIN got[c]
          PROVE  got[c][i] = first + i - 1 /\ got[c][i] \in first .. last
      <4>1. got[c][i] <= last
        <5>1. CASE status[c] = 206
          BY <3>4, <5>1
        <5>2. CASE status[c] = 200
          <6>1. got[c][i] \in Int /\ got[c][i] < FileSize /\ last = FileSize - 1
            BY <2>2, <3>2, <3>3, <3>4, <5>2
          <6> QED
            BY <2>1, <6>1
        <5> QED
          BY <3>4, <5>1, <5>2
      <4>2. got[c][i] = first + i - 1 /\ i \in Nat \ {0}
        BY <3>3, <3>4
      <4> QED
        BY <2>2, <4>1, <4>2
    <3>6. ASSUME child[c] = "exit", c \notin hung, cuts = 0
          PROVE  Len(got[c]) = Cardinality(first .. last)
      <4>1. pos[c] = first + Len(got[c]) /\ pos[c] + left[c] - 1 = last
        BY <3>4, <3>6
      <4>2. last >= first => Len(got[c]) = last - first + 1
        <5>1. CASE status[c] = 206
          <6>1. left[c] <= 0 /\ (left[c] >= 0 \/ pos[c] = first)
            BY <2>4, <3>4, <3>6, <5>1 DEF Transfer, Sent
          <6> QED
            BY <2>2, <3>3, <4>1, <6>1, SMTT(30)
        <5>2. CASE status[c] = 200
          <6>1. pos[c] = FileSize /\ first = 0 /\ last = FileSize - 1
            BY <2>4, <3>2, <3>6, <5>2 DEF Transfer, Sent
          <6> QED
            BY <2>1, <2>2, <3>3, <4>1, <6>1
        <5> QED
          BY <3>4, <5>1, <5>2
      <4>3. last < first => Len(got[c]) = 0
        <5>1. CASE Len(got[c]) = 0
          BY <5>1
        <5>2. CASE Len(got[c]) # 0
          <6>1. 1 \in DOMAIN got[c]
            BY <3>3, <5>2
          <6>2. got[c][1] \in first .. last
            BY <3>5, <6>1
          <6> QED
            BY <2>2, <6>2
        <5> QED
          BY <5>1, <5>2
      <4>4. Cardinality(first .. last) = IF first > last THEN 0 ELSE last - first + 1
        BY <2>2, FS_Interval
      <4> QED
        BY <2>2, <4>2, <4>3, <4>4
    <3> QED
      BY <2>2, <2>4, <3>5, <3>6 DEF first, last
  <2> QED
    BY <2>3, <2>4
<1> QED
  BY <1>1, <1>2, <1>3, PTL DEF Spec
=============================================================================
