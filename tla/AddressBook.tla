----------------------------- MODULE AddressBook -----------------------------
(***************************************************************************)
(* How hw4 nodes find each other.  A node keeps two addresses of a peer:   *)
(* the one in global_config.peers, to which check_peer_status sends, and   *)
(* the one in network_map, which /peer/view asks for a file.  The first    *)
(* comes from node.conf, from an operator or from another node's table, the*)
(* second from the connection on which the peer's advertisement arrived.   *)
(* A node that restarts may have another address.                          *)
(*                                                                         *)
(* A host is written as a name: "localhost" (127.0.0.1, ::1) is another    *)
(* host to every host that reads it.  Here the tables have room for all,   *)
(* and a node handles one advertisement at a time (PeerTable has handlers  *)
(* that overlap).  With an addneighbor that makes two threads that change  *)
(* network_map, an array of lists, without a lock: a deletion walks to a   *)
(* node and later takes it out, an insertion reads the head of a list and  *)
(* later stores a new one.  A walk along a list is one step.               *)
(***************************************************************************)
EXTENDS Integers, Sequences, FiniteSets

CONSTANTS
  Node,       \* the nodes; a node and its uuid are one value
  Host,       \* the hosts
  Port,       \* the ports nodes can have
  Home,       \* Home[n]: the address n has first
  Conf,       \* Conf[n][u]: the address that the peer_i line for u gives
  Addable,    \* Addable[n]: entries operators pass to n's /peer/addneighbor
  Localhost,  \* the name every host has for itself
  Unset,      \* a host field that is never written: what malloc left there
  None,       \* no entry
  Bucket,     \* Bucket[u]: hash_func of uuid u
  Id,         \* bound: list nodes in use at a time for one uuid, in one node
  MaxBusy,    \* bound: nodes whose handler is at work at a time
  MaxMoves,   \* bound: restarts
  MaxAdds     \* bound: uses of addneighbor

Address == [host : Host, port : Port]
Name == [host : Host \union {Localhost, Unset}, port : Port]
Entry == Name \union {None}

(* A node of network_map's lists: the key, an identity and the value.      *)
ListNode == [uuid : Node, id : Id, name : Name]
Lists == {Bucket[u] : u \in Node}

ASSUME BookAssumption ==
  /\ Localhost \notin Host /\ Unset \notin Host /\ Localhost # Unset
  /\ None \notin Name
  /\ Home \in [Node -> Address]
  /\ \A n, u \in Node : n # u => Home[n] # Home[u]
  /\ Conf \in [Node -> [Node -> Entry]]
  /\ Addable \in [Node -> SUBSET [uuid : Node, name : Name]]
  /\ DOMAIN Bucket = Node /\ Id # {}
  /\ MaxMoves \in Nat /\ MaxAdds \in Nat

VARIABLES
  addr,     \* addr[n]: where n runs and listens
  had,      \* had[n]: the addresses it has had
  peers,    \* peers[n][u]: the address in global_config.peers
  map,      \* map[n][b]: the nodes of bucket b of network_map, head first
  holders,  \* holders[n]: who is filed as a holder of some file
  work,     \* work[n]: the advertisement n's handler thread is at
  adding,   \* adding[n]: the neighbor n's addneighbor thread is at
  at,       \* at[n][w]: where writer w is in network_map, and what it has read
  lost,     \* lost[n]: the uuids dropped with a head that was outdated
  astray,   \* astray[n]: network_map leads to a node that has been freed
  moves, adds

netVars == <<addr, had, moves, adds>>
mapVars == <<map, at, lost, astray>>
vars == <<netVars, mapVars, peers, holders, work, adding>>

NoWork == [step |-> "idle"]
Work ==
  [step : {"files", "map", "remap", "merge"},
   from : Node, name : Name, peers : [Node -> Entry]]
NoAdding == [step |-> "idle"]
Adding == [step : {"map"}, uuid : Node, port : Port]

(* The two threads of a node that change its network_map.                  *)
Writer == {"handler", "operator"}
Place == [step : {"idle", "find", "cut", "cuthead", "search", "head", "link"},
          seen : Seq(ListNode)]
Out == [w \in Writer |-> [step |-> "idle", seen |-> << >>]]

TypeOK ==
  /\ addr \in [Node -> Address]
  /\ had \in [Node -> SUBSET Address]
  /\ \A n \in Node : addr[n] \in had[n]
  /\ \A n, u \in Node : n # u => addr[n] # addr[u]
  /\ peers \in [Node -> [Node -> Entry]]
  /\ map \in [Node -> [Lists -> Seq(ListNode)]]
  /\ at \in [Node -> [Writer -> Place]]
  /\ lost \in [Node -> SUBSET Node] /\ astray \in [Node -> BOOLEAN]
  /\ holders \in [Node -> SUBSET Node]
  /\ work \in [Node -> Work \union {NoWork}]
  /\ adding \in [Node -> Adding \union {NoAdding}]
  /\ moves \in 0 .. MaxMoves /\ adds \in 0 .. MaxAdds

EmptyMap == [b \in Lists |-> << >>]

(* main: strcpy(global_config.host, "localhost"), and the own entry.       *)
OwnNode(n, a) ==
  [uuid |-> n, id |-> CHOOSE i \in Id : TRUE,
   name |-> [host |-> Localhost, port |-> a.port]]
OwnMap(n, a) == [EmptyMap EXCEPT ![Bucket[n]] = <<OwnNode(n, a)>>]

Init ==
  /\ addr = Home
  /\ had = [n \in Node |-> {Home[n]}]
  /\ peers = Conf
  /\ map = [n \in Node |-> OwnMap(n, Home[n])]
  /\ holders = [n \in Node |-> {}]
  /\ work = [n \in Node |-> NoWork]
  /\ adding = [n \in Node |-> NoAdding]
  /\ at = [n \in Node |-> Out]
  /\ lost = [n \in Node |-> {}] /\ astray = [n \in Node |-> FALSE]
  /\ moves = 0 /\ adds = 0

(* What an address written down at n leads to.                             *)
Resolved(n, name) ==
  [host |-> IF name.host = Localhost THEN addr[n].host ELSE name.host, port |-> name.port]

(* What a connection from n to t says of n, by getpeername; the port is the*)
(* one n's configuration has.                                              *)
Seen(n, t) ==
  [host |-> IF addr[n].host = addr[t].host THEN Localhost ELSE addr[n].host,
   port |-> addr[n].port]

-----------------------------------------------------------------------------
(* check_peer_status: n connects to the address it has for u and sends its *)
(* table to whatever node is there.                                        *)
Advertise(n, u) ==
  /\ peers[n][u] # None
  /\ Cardinality({t \in Node : work[t] # NoWork}) < MaxBusy
  /\ \E t \in Node :
       /\ addr[t] = Resolved(n, peers[n][u])
       /\ work[t] = NoWork
       /\ work' = [work EXCEPT ![t] = [step |-> "files", from |-> n, name |-> Seen(n, t),
                                       peers |-> peers[n]]]
  /\ UNCHANGED <<netVars, mapVars, peers, holders, adding>>

(* The handler of POST /link-state: update_peer_to_files_map, and the host *)
(* from getpeername.                                                       *)
FileHolder(t) ==
  /\ work[t].step = "files"
  /\ holders' = [holders EXCEPT ![t] = @ \union {work[t].from}]
  /\ work' = [work EXCEPT ![t].step = "map"]
  /\ at' = [at EXCEPT ![t]["handler"].step = "find"]
  /\ UNCHANGED <<netVars, map, lost, astray, peers, adding>>

(* What t's table gets from an advertisement, once network_map has it: the *)
(* sender as it was seen, the sender's peers as the sender has them.  An   *)
(* entry that is there keeps its address.                                  *)
Offered(w, u) == IF u = w.from THEN w.name ELSE w.peers[u]
Merge(t) ==
  /\ work[t].step = "merge"
  /\ peers' = [peers EXCEPT ![t] =
       [u \in Node |-> IF u = t \/ @[u] # None THEN @[u] ELSE Offered(work[t], u)]]
  /\ work' = [work EXCEPT ![t] = NoWork]
  /\ UNCHANGED <<netVars, mapVars, holders, adding>>

(* /peer/addneighbor: the new entry, which must not be there yet; then the *)
(* one in network_map.                                                     *)
AddPeer(n) ==
  /\ adding[n] = NoAdding
  /\ adds < MaxAdds
  /\ adds' = adds + 1
  /\ \E e \in Addable[n] :
       /\ peers[n][e.uuid] = None
       /\ peers' = [peers EXCEPT ![n][e.uuid] = e.name]
       /\ adding' = [adding EXCEPT ![n] = [step |-> "map", uuid |-> e.uuid,
                                           port |-> e.name.port]]
  /\ at' = [at EXCEPT ![n]["operator"].step = "find"]
  /\ UNCHANGED <<addr, had, moves, map, lost, astray, holders, work>>

-----------------------------------------------------------------------------
(* A writer's update of network_map: update_network_map, which a handler   *)
(* follows with hash_table_update_node_config.  Both delete the uuid's node*)
(* if there is one, and put a new one.                                     *)

Uuid(n, w) == IF w = "handler" THEN work[n].from ELSE adding[n].uuid

(* Mutant of Filed: the sender's own name for its host.                    *)
FiledOwnName(n, w) ==
  IF w = "handler" THEN [work[n].name EXCEPT !.host = Localhost]
  ELSE [host |-> Unset, port |-> adding[n].port]

(* The address that is put.  addneighbor's is made by url_path_to_config,  *)
(* which writes the host into a JSON text from which json_to_node_config   *)
(* does not read it.                                                       *)
Filed(n, w) ==
  IF w = "handler" THEN work[n].name ELSE [host |-> Unset, port |-> adding[n].port]

Nodes(list) == {list[i] : i \in DOMAIN list}
List(n, u) == map[n][Bucket[u]]
Matches(n, u) == {i \in DOMAIN List(n, u) : List(n, u)[i].uuid = u}
First(n, u) == CHOOSE i \in Matches(n, u) : \A j \in Matches(n, u) : i <= j
Known(n) == {u \in Node : Matches(n, u) # {}}

Is(n, w, step) == at[n][w].step = step /\ ~astray[n]
Goto(n, w, step, seen) == at' = [at EXCEPT ![n][w] = [step |-> step, seen |-> seen]]

(* hash_table_delete walks to the uuid's first node and the one before it. *)
Find(n, w) ==
  /\ Is(n, w, "find")
  /\ LET u == Uuid(n, w)
         i == First(n, u)
     IN IF Matches(n, u) = {} THEN Goto(n, w, "search", << >>)
        ELSE IF i = 1 THEN Goto(n, w, "cuthead", List(n, u))
        ELSE Goto(n, w, "cut", <<List(n, u)[i - 1], List(n, u)[i]>>)
  /\ UNCHANGED <<netVars, map, lost, astray, peers, holders, work, adding>>

(* A list in which node x is the next of node p, when p's next is changed. *)
Without(list, p, x) ==
  LET after == {i \in DOMAIN list : i > 1 /\ list[i] = x /\ list[i - 1] = p}
  IN IF after = {} THEN list
     ELSE LET i == CHOOSE i \in after : TRUE
          IN [j \in 1 .. Len(list) - 1 |-> IF j < i THEN list[j] ELSE list[j + 1]]

(* The writer's list becomes another one, with a head or behind a node that*)
(* was read before: entries it has not seen are dropped.                   *)
Overtaken(n, w) == at[n][w].seen # List(n, Uuid(n, w))
Relist(n, w, list) == map' = [map EXCEPT ![n][Bucket[Uuid(n, w)]] = list]
Drop(n, dropped) == lost' = [lost EXCEPT ![n] = (@ \union dropped) \ Known(n)']

(* Node x is freed.  If the list or the other writer still leads to it, the*)
(* node will be using free memory: its network_map is not followed then.   *)
Lose(n) ==
  /\ astray' = [astray EXCEPT ![n] = TRUE]
  /\ map' = [map EXCEPT ![n] = EmptyMap]
  /\ lost' = [lost EXCEPT ![n] = {}]
  /\ at' = [at EXCEPT ![n] = [v \in Writer |-> [step |-> at[n][v].step, seen |-> << >>]]]
Held(n, v, p, x) ==
  LET seen == at[n][v].seen
  IN x \in Nodes(IF at[n][v].step = "cut" THEN seen ELSE Without(seen, p, x))
Free(n, w, list, p, x, dropped) ==
  IF x \in Nodes(list) \/ \E v \in Writer \ {w} : Held(n, v, p, x)
  THEN Lose(n)
  ELSE /\ Relist(n, w, list)
       /\ at' = [at EXCEPT ![n] = [v \in Writer |->
            IF v = w THEN [step |-> "search", seen |-> << >>]
            ELSE [step |-> at[n][v].step, seen |-> Without(at[n][v].seen, p, x)]]]
       /\ Drop(n, dropped)
       /\ UNCHANGED astray

(* Mutant of CutHead: the bucket becomes empty.                            *)
CutHeadAll(n, w) ==
  /\ Is(n, w, "cuthead")
  /\ LET seen == at[n][w].seen IN
     Free(n, w, << >>, Head(seen), Head(seen),
          IF Overtaken(n, w) THEN Known(n) \ {Uuid(n, w)} ELSE {})
  /\ UNCHANGED <<netVars, peers, holders, work, adding>>

(* The node is the first one: its next becomes the head.                   *)
CutHead(n, w) ==
  /\ Is(n, w, "cuthead")
  /\ LET seen == at[n][w].seen IN
     Free(n, w, Tail(seen), Head(seen), Head(seen),
          IF Overtaken(n, w) THEN Known(n) \ {Uuid(n, w)} ELSE {})
  /\ UNCHANGED <<netVars, peers, holders, work, adding>>

Cut(n, w) ==
  /\ Is(n, w, "cut")
  /\ LET p == at[n][w].seen[1]
         x == at[n][w].seen[2]
     IN Free(n, w, Without(List(n, Uuid(n, w)), p, x), p, x, {})
  /\ UNCHANGED <<netVars, peers, holders, work, adding>>

(* What follows an update: a handler's second one, or the merge.           *)
Follows(n, w) == IF w = "handler" /\ work[n].step = "map" THEN "find" ELSE "idle"
Done(n, w) ==
  IF w = "handler"
  THEN /\ work' = [work EXCEPT ![n].step = IF @ = "map" THEN "remap" ELSE "merge"]
       /\ UNCHANGED adding
  ELSE /\ adding' = [adding EXCEPT ![n] = NoAdding]
       /\ UNCHANGED work

(* hash_table_put gives the node that it finds the new value.              *)
Renamed(list, x, name) ==
  [i \in DOMAIN list |-> IF list[i] = x THEN [x EXCEPT !.name = name] ELSE list[i]]
Search(n, w) ==
  /\ Is(n, w, "search")
  /\ LET u == Uuid(n, w)
         x == List(n, u)[First(n, u)]
     IN IF Matches(n, u) = {}
        THEN Goto(n, w, "head", << >>) /\ UNCHANGED <<map, work, adding>>
        ELSE /\ map' = [map EXCEPT ![n] = [b \in Lists |-> Renamed(@[b], x, Filed(n, w))]]
             /\ at' = [at EXCEPT ![n] = [v \in Writer |->
                  IF v = w THEN [step |-> Follows(n, w), seen |-> << >>]
                  ELSE [step |-> at[n][v].step,
                        seen |-> Renamed(at[n][v].seen, x, Filed(n, w))]]]
             /\ Done(n, w)
  /\ UNCHANGED <<netVars, lost, astray, peers, holders>>

(* It allocates one otherwise, reads the head, and stores the new head.    *)
ReadHead(n, w) ==
  /\ Is(n, w, "head")
  /\ Goto(n, w, "link", List(n, Uuid(n, w)))
  /\ UNCHANGED <<netVars, map, lost, astray, peers, holders, work, adding>>

InUse(n, u) ==
  {x.id : x \in {y \in UNION ({Nodes(map[n][b]) : b \in Lists}
                             \union {Nodes(at[n][v].seen) : v \in Writer}) : y.uuid = u}}
NewNode(n, w) ==
  [uuid |-> Uuid(n, w), id |-> CHOOSE i \in Id : i \notin InUse(n, Uuid(n, w)),
   name |-> Filed(n, w)]
Link(n, w) ==
  /\ Is(n, w, "link") /\ ~(Id \subseteq InUse(n, Uuid(n, w)))
  /\ Relist(n, w, <<NewNode(n, w)>> \o at[n][w].seen)
  /\ Drop(n, IF Overtaken(n, w) THEN Known(n) ELSE {})
  /\ Goto(n, w, Follows(n, w), << >>)
  /\ Done(n, w)
  /\ UNCHANGED <<netVars, astray, peers, holders>>

(* An update once a freed node is in use.                                  *)
Wander(n, w) ==
  /\ astray[n] /\ at[n][w].step # "idle"
  /\ Goto(n, w, Follows(n, w), << >>)
  /\ Done(n, w)
  /\ UNCHANGED <<netVars, map, lost, astray, peers, holders>>

Update(n, w) ==
  Find(n, w) \/ CutHead(n, w) \/ Cut(n, w) \/ Search(n, w) \/ ReadHead(n, w) \/ Link(n, w)
    \/ Wander(n, w)

-----------------------------------------------------------------------------
(* n ends and is started at a free address, with the same node.conf except *)
(* for its own ports.                                                      *)
Move(n) ==
  /\ moves < MaxMoves
  /\ moves' = moves + 1
  /\ \E a \in Address :
       /\ \A u \in Node : addr[u] # a
       /\ addr' = [addr EXCEPT ![n] = a]
       /\ had' = [had EXCEPT ![n] = @ \union {a}]
       /\ map' = [map EXCEPT ![n] = OwnMap(n, a)]
  /\ peers' = [peers EXCEPT ![n] = Conf[n]]
  /\ holders' = [holders EXCEPT ![n] = {}]
  /\ work' = [work EXCEPT ![n] = NoWork]
  /\ adding' = [adding EXCEPT ![n] = NoAdding]
  /\ at' = [at EXCEPT ![n] = Out]
  /\ lost' = [lost EXCEPT ![n] = {}] /\ astray' = [astray EXCEPT ![n] = FALSE]
  /\ UNCHANGED adds

Handle(t) == FileHolder(t) \/ Update(t, "handler") \/ Merge(t)

Next ==
  \/ \E n, u \in Node : Advertise(n, u)
  \/ \E n \in Node : FileHolder(n) \/ Merge(n) \/ AddPeer(n) \/ Move(n)
  \/ \E n \in Node, w \in Writer :
       \/ Find(n, w) \/ CutHead(n, w) \/ Cut(n, w) \/ Search(n, w)
       \/ ReadHead(n, w) \/ Link(n, w) \/ Wander(n, w)

Spec == Init /\ [][Next]_vars

(* Handler threads are scheduled, and the checker of a node comes round to *)
(* each of its peers again and again; that the other end has a thread for  *)
(* it now and then makes that strong.  Only peers that node.conf names by  *)
(* their host need it.                                                     *)
Knows(n, t) == Conf[n][t] \in Address /\ n # t
Fairness ==
  /\ \A t \in Node : WF_vars(Handle(t))
  /\ \A n, t \in Node : Knows(n, t) => SF_vars(Advertise(n, t))

FairSpec == Spec /\ Fairness

-----------------------------------------------------------------------------
(* The address /peer/view would ask when u is the holder it picks.         *)
Mapped(n, u) == IF u \in Known(n) THEN List(n, u)[First(n, u)].name ELSE None
Asked(n, u) == Resolved(n, Mapped(n, u))

(* view never asks a place where the holder has never been: the only host  *)
(* it can find in network_map is one the holder has spoken from, or the one*)
(* addneighbor did not write.                                              *)
MapTrue ==
  /\ TypeOK
  /\ \A n, u \in Node :
       Mapped(n, u) # None /\ Mapped(n, u).host # Unset => Asked(n, u) \in had[u]

(* A holder can be asked, except when its first advertisement has not got  *)
(* further than the file index, its entry is being replaced, or a thread   *)
(* has dropped it from its bucket with a head that the other thread had    *)
(* changed; until a node is freed that the other thread was at.            *)
GapOnlyWhileHandled ==
  \A n \in Node : \A u \in holders[n] :
    ~astray[n] /\ u \notin Known(n) /\ u \notin lost[n] =>
      \/ work[n] # NoWork /\ work[n].from = u
      \/ adding[n] # NoAdding /\ adding[n].uuid = u

(* A node that has moved is found again at its new address by every node   *)
(* it has configured by the name of its host, from wherever it moved,      *)
(* unless that node moves too or is using a list node that was freed.      *)
MovedIsFound ==
  \A n, t \in Node : Knows(n, t) =>
    []<>(\/ Mapped(t, n) # None /\ Asked(t, n) = addr[n]
         \/ addr[t] # Home[t]
         \/ astray[t])
=============================================================================
