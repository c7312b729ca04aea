------------------------------ MODULE PeerTable ------------------------------
(***************************************************************************)
(* The hw3 node: global_config.peers and network_map, changed by request   *)
(* threads step by step and without a lock.  A thread handles POST         *)
(* /link-state (it replaces the sender's entry of network_map and merges   *)
(* the sender's table into the peer table), GET /peer/addneighbor, or GET  *)
(* /peer/map (which replaces the node's own entry before it prints).  The  *)
(* thread of check_peer_status, /peer/neighbors and /peer/rank read the    *)
(* peer table at any time.                                                 *)
(*                                                                         *)
(* `peers[peer_count++]' is a load and a store.  network_map is an array of*)
(* lists: an insertion reads the head of a list and later stores a new one,*)
(* a deletion walks to a node and later takes it out.  A string copy is one*)
(* step, and so is a walk along a list.                                    *)
(***************************************************************************)
EXTENDS Integers, Sequences, FiniteSets

CONSTANTS
  Peer,        \* uuids of other nodes
  Self,        \* the node's own uuid
  Blank,       \* the uuid of an entry that was never filled in; no thread
  Handler,     \* request threads that run at the same time
  MaxPeers,    \* MAX_PEERS
  Memory,      \* bound: entries for which there is memory, peers[] and behind it
  MaxRequests, \* bound: requests in a behaviour
  MaxCost,     \* bound: the largest weight
  Conf,        \* the peer_i lines of node.conf, a sequence of entries
  Advert,      \* what other nodes send: their uuid and the table they offer
  Addable,     \* entries operators pass to /peer/addneighbor
  Bucket,      \* Bucket[u]: hash_func of uuid u
  Id,          \* bound: list nodes in use at a time for one uuid
  Least        \* Least[u]: no path to u is cheaper

Uuid == Peer \union {Self}
Weight == 0 .. MaxCost
EntryType == [uuid : Uuid \union {Blank}, weight : Weight]
RequestType ==
  [kind : {"none", "merge", "add", "map"}, from : Uuid \union {Blank},
   offer : UNION {[S -> Weight] : S \in SUBSET Uuid}]

NoRequest == [kind |-> "none", from |-> Blank, offer |-> << >>]

ASSUME TableAssumption ==
  /\ Self \notin Peer /\ Blank \notin Uuid
  /\ IsFiniteSet(Handler)
  /\ MaxPeers \in Nat \ {0} /\ MaxRequests \in Nat /\ MaxCost \in Nat
  /\ Memory \in Nat /\ Memory >= MaxPeers
  /\ Conf \in Seq([uuid : Peer, weight : Weight]) /\ Len(Conf) <= MaxPeers
  /\ Advert \subseteq {r \in RequestType :
       r.kind = "merge" /\ r.from \in Peer /\ Self \in DOMAIN r.offer
         /\ r.offer[r.from] = 0 /\ r.from \in DOMAIN r.offer}
  /\ Addable \subseteq [uuid : Peer, weight : Weight]
  /\ DOMAIN Bucket = Uuid

(* node.conf names a peer once: read_config_file does not look.            *)
ASSUME ConfAssumption ==
  \A i, j \in DOMAIN Conf : Conf[i].uuid = Conf[j].uuid => i = j

(* What Least says: no cost that is configured, added or offered is less   *)
(* than that of a path.                                                    *)
ASSUME LeastAssumption ==
  /\ Least \in [Uuid -> Weight]
  /\ \A i \in DOMAIN Conf : Conf[i].weight >= Least[Conf[i].uuid]
  /\ \A e \in Addable : e.weight >= Least[e.uuid]
  /\ \A r \in Advert :
       /\ r.offer[Self] >= Least[r.from]
       /\ \A u \in DOMAIN r.offer : Least[r.from] + r.offer[u] >= Least[u]

VARIABLES
  slots,   \* global_config.peers and the memory behind it
  count,   \* global_config.peer_count
  table,   \* table[b]: the nodes of bucket b of network_map, head first
  pc,      \* where a thread is
  req,     \* the request it handles
  given,   \* its given_weight
  todo,    \* the entries of the received table it has not been through
  cur,     \* the one it is at
  at,      \* the slot it is at
  seen,    \* what it has read of a list: all from the head, or two nodes
  begun,   \* requests so far
  heard,   \* the uuids whose entry has been put in network_map
  lost,    \* those that a thread has dropped with a head that was outdated
  astray,  \* network_map leads to a node that has been freed
  overlap  \* two requests have been handled at the same time

tableVars == <<slots, count>>
mapVars == <<table, seen, heard, lost, astray>>
threadVars == <<pc, req, given, todo, cur, at>>
vars == <<tableVars, mapVars, threadVars, begun, overlap>>

(* Threads that have passed the test against MAX_PEERS can take slots that *)
(* are behind the array.                                                   *)
Slot == 0 .. Memory - 1

Node == [uuid : Uuid, id : Id]
Lists == {Bucket[u] : u \in Uuid}
EmptyTable == [b \in Lists |-> << >>]
NothingSeen == [h \in Handler |-> << >>]

TypeOK ==
  /\ slots \in [Slot -> EntryType]
  /\ count \in Nat
  /\ table \in [Lists -> Seq(Node)] /\ seen \in [Handler -> Seq(Node)]
  /\ pc \in [Handler -> {"idle", "look", "find", "cut", "cuthead", "search", "head",
                         "link", "given", "loop", "take", "bump", "uuid", "weight",
                         "lower", "addbump"}]
  /\ req \in [Handler -> RequestType]
  /\ given \in [Handler -> Weight]
  /\ todo \in [Handler -> SUBSET Peer]
  /\ cur \in [Handler -> Peer \union {Blank}]
  /\ at \in [Handler -> Slot]
  /\ begun \in 0 .. MaxRequests
  /\ heard \subseteq Uuid /\ lost \subseteq Uuid /\ astray \in BOOLEAN
  /\ overlap \in BOOLEAN

(* read_config_file; the rest of the array is zero.                        *)
Init ==
  /\ slots = [i \in Slot |-> IF i < Len(Conf) THEN Conf[i + 1]
                             ELSE [uuid |-> Blank, weight |-> 0]]
  /\ count = Len(Conf)
  /\ table = EmptyTable /\ seen = NothingSeen
  /\ pc = [h \in Handler |-> "idle"]
  /\ req = [h \in Handler |-> NoRequest]
  /\ given = [h \in Handler |-> 0]
  /\ todo = [h \in Handler |-> {}]
  /\ cur = [h \in Handler |-> Blank]
  /\ at = [h \in Handler |-> 0]
  /\ begun = 0
  /\ heard = {} /\ lost = {} /\ astray = FALSE
  /\ overlap = FALSE

Goto(h, place) == pc' = [pc EXCEPT ![h] = place]

(* The scans over peers[0 .. peer_count - 1]: the first entry with a uuid. *)
Places(u) == {i \in Slot : i < count /\ slots[i].uuid = u}
First(u) == CHOOSE i \in Places(u) : \A j \in Places(u) : i <= j

-----------------------------------------------------------------------------
(* A request begins: its body or its path is parsed into memory of the     *)
(* thread's own.                                                           *)
Begin(h, r, place) ==
  /\ pc[h] = "idle"
  /\ begun < MaxRequests
  /\ begun' = begun + 1
  /\ req' = [req EXCEPT ![h] = r]
  /\ Goto(h, place)
  /\ overlap' = (overlap \/ \E g \in Handler \ {h} : pc[g] # "idle")

PostLinkState(h) ==
  /\ \E r \in Advert : Begin(h, r, "look")
  /\ UNCHANGED <<tableVars, mapVars, given, todo, cur, at>>

(* /peer/map refreshes the node's own entry first.                         *)
GetMap(h) ==
  /\ Begin(h, [kind |-> "map", from |-> Self, offer |-> << >>], "look")
  /\ UNCHANGED <<tableVars, mapVars, given, todo, cur, at>>

(* Mutant of AddNeighbor: without the search for the uuid in the table.    *)
AddNeighborAgain(h) ==
  /\ \E e \in Addable :
       /\ count < MaxPeers
       /\ Begin(h, [kind |-> "add", from |-> e.uuid, offer |-> << >>], "addbump")
       /\ slots' = [slots EXCEPT ![count] = e]
  /\ UNCHANGED <<count, mapVars, given, todo, cur, at>>

(* add_peer_from_string: a full table and a known uuid are refused;        *)
(* otherwise the entry behind the last one is filled and counted.          *)
AddNeighbor(h) ==
  /\ \E e \in Addable :
       /\ count < MaxPeers
       /\ Places(e.uuid) = {}
       /\ Begin(h, [kind |-> "add", from |-> e.uuid, offer |-> << >>], "addbump")
       /\ slots' = [slots EXCEPT ![count] = e]
  /\ UNCHANGED <<count, mapVars, given, todo, cur, at>>

AddCount(h) ==
  /\ pc[h] = "addbump"
  /\ count' = count + 1
  /\ Goto(h, "look")
  /\ UNCHANGED <<slots, mapVars, req, given, todo, cur, at, begun, overlap>>

-----------------------------------------------------------------------------
(* update_network_map: get, delete if there is one, put.                   *)

Nodes(list) == {list[i] : i \in DOMAIN list}
Known == {x.uuid : x \in UNION {Nodes(table[b]) : b \in Lists}}
List(h) == table[Bucket[req[h].from]]

(* Once a freed node is in use a lookup may find anything.                 *)
Finds(h) == req[h].from \in Known \/ astray
Misses(h) == req[h].from \notin Known

MapLook(h) ==
  /\ pc[h] = "look"
  /\ \/ Finds(h) /\ Goto(h, "find")
     \/ Misses(h) /\ Goto(h, "search")
  /\ UNCHANGED <<tableVars, mapVars, req, given, todo, cur, at, begun, overlap>>

(* hash_table_delete walks to the first node of the uuid, if it still has  *)
(* one, and the node before it.                                            *)
Matches(h) == {i \in DOMAIN List(h) : List(h)[i].uuid = req[h].from}
MapFind(h) ==
  /\ pc[h] = "find"
  /\ IF Matches(h) = {}
     THEN Goto(h, "search") /\ UNCHANGED seen
     ELSE LET i == CHOOSE i \in Matches(h) : \A j \in Matches(h) : i <= j
          IN IF i = 1
             THEN Goto(h, "cuthead") /\ seen' = [seen EXCEPT ![h] = List(h)]
             ELSE /\ Goto(h, "cut")
                  /\ seen' = [seen EXCEPT ![h] = <<List(h)[i - 1], List(h)[i]>>]
  /\ UNCHANGED <<tableVars, table, heard, lost, astray, req, given, todo, cur, at, begun,
                 overlap>>

(* A list in which node x is the next of node p, when p's next is changed. *)
Without(list, p, x) ==
  LET after == {i \in DOMAIN list : i > 1 /\ list[i] = x /\ list[i - 1] = p}
  IN IF after = {} THEN list
     ELSE LET i == CHOOSE i \in after : TRUE
          IN [j \in 1 .. Len(list) - 1 |-> IF j < i THEN list[j] ELSE list[j + 1]]

(* The thread's list becomes another one, with a head or behind a node that*)
(* was read before: entries it has not seen are dropped.                   *)
Overtaken(h) == seen[h] # List(h)
Relist(h, list) == table' = [table EXCEPT ![Bucket[req[h].from]] = list]
Drop(dropped) == lost' = (lost \union dropped) \ Known'

(* Node x is freed.  Whoever still leads to it, or is about to change it,  *)
(* will be using free memory: from then on network_map is not followed.    *)
Astray ==
  /\ astray' = TRUE
  /\ table' = EmptyTable /\ seen' = NothingSeen /\ lost' = {}
Held(g, p, x) == x \in Nodes(IF pc[g] = "cut" THEN seen[g] ELSE Without(seen[g], p, x))
Free(h, list, p, x, dropped) ==
  IF x \in Nodes(list) \/ \E g \in Handler \ {h} : Held(g, p, x)
  THEN Astray
  ELSE /\ Relist(h, list)
       /\ seen' = [g \in Handler |-> IF g = h THEN << >> ELSE Without(seen[g], p, x)]
       /\ Drop(dropped)
       /\ UNCHANGED astray

(* The node is the first one: its next becomes the head.                   *)
MapCutHead(h) ==
  /\ pc[h] = "cuthead"
  /\ IF seen[h] = << >> THEN UNCHANGED <<table, seen, lost, astray>>
     ELSE Free(h, Tail(seen[h]), Head(seen[h]), Head(seen[h]),
               IF Overtaken(h) THEN Known \ {req[h].from} ELSE {})
  /\ Goto(h, "search")
  /\ UNCHANGED <<tableVars, heard, req, given, todo, cur, at, begun, overlap>>

MapCut(h) ==
  /\ pc[h] = "cut"
  /\ IF seen[h] = << >> THEN UNCHANGED <<table, seen, lost, astray>>
     ELSE Free(h, Without(List(h), seen[h][1], seen[h][2]), seen[h][1], seen[h][2], {})
  /\ Goto(h, "search")
  /\ UNCHANGED <<tableVars, heard, req, given, todo, cur, at, begun, overlap>>

(* What follows the update of network_map.                                 *)
Mapped(h) ==
  /\ Goto(h, IF req[h].kind = "merge" THEN "given" ELSE "idle")
  /\ req' = IF req[h].kind = "merge" THEN req ELSE [req EXCEPT ![h] = NoRequest]
  /\ heard' = heard \union {req[h].from}

(* hash_table_put gives an existing node the new value, or allocates one.  *)
MapSearch(h) ==
  /\ pc[h] = "search"
  /\ \/ Finds(h) /\ Mapped(h)
     \/ Misses(h) /\ Goto(h, "head") /\ UNCHANGED <<req, heard>>
  /\ UNCHANGED <<tableVars, table, seen, lost, astray, given, todo, cur, at, begun, overlap>>

MapReadHead(h) ==
  /\ pc[h] = "head"
  /\ seen' = [seen EXCEPT ![h] = List(h)]
  /\ Goto(h, "link")
  /\ UNCHANGED <<tableVars, table, heard, lost, astray, req, given, todo, cur, at, begun,
                 overlap>>

InUse(u) ==
  {x.id : x \in {y \in UNION ({Nodes(table[b]) : b \in Lists}
                             \union {Nodes(seen[g]) : g \in Handler}) : y.uuid = u}}
NewNode(h) ==
  [uuid |-> req[h].from, id |-> CHOOSE i \in Id : i \notin InUse(req[h].from)]

(* Mutant of MapLink: the new node has no next one.                        *)
MapLinkAlone(h) ==
  /\ pc[h] = "link" /\ ~(Id \subseteq InUse(req[h].from))
  /\ IF astray THEN UNCHANGED <<table, seen, lost>>
     ELSE /\ Relist(h, <<NewNode(h)>>)
          /\ seen' = [seen EXCEPT ![h] = << >>]
          /\ Drop(IF Overtaken(h) THEN Known ELSE {})
  /\ Mapped(h)
  /\ UNCHANGED <<tableVars, astray, given, todo, cur, at, begun, overlap>>

MapLink(h) ==
  /\ pc[h] = "link" /\ ~(Id \subseteq InUse(req[h].from))
  /\ IF astray THEN UNCHANGED <<table, seen, lost>>
     ELSE /\ Relist(h, <<NewNode(h)>> \o seen[h])
          /\ seen' = [seen EXCEPT ![h] = << >>]
          /\ Drop(IF Overtaken(h) THEN Known ELSE {})
  /\ Mapped(h)
  /\ UNCHANGED <<tableVars, astray, given, todo, cur, at, begun, overlap>>

-----------------------------------------------------------------------------
(* update_peer_weights_last_seen.                                          *)

OwnWeight(u) == IF Places(u) = {} THEN 0 ELSE slots[First(u)].weight

(* given_weight: the node's weight for the sender, or when that is 0 the   *)
(* sender's for the node.                                                  *)
Given(r) == IF OwnWeight(r.from) # 0 THEN OwnWeight(r.from) ELSE r.offer[Self]

ReadGiven(h) ==
  /\ pc[h] = "given"
  /\ given' = [given EXCEPT ![h] = Given(req[h])]
  /\ todo' = [todo EXCEPT ![h] = DOMAIN req[h].offer \ {Self}]
  /\ Goto(h, "loop")
  /\ UNCHANGED <<tableVars, mapVars, req, cur, at, begun, overlap>>

(* new_weight, as far as the bound lets weights grow.                      *)
Via(h, u) ==
  IF given[h] + req[h].offer[u] <= MaxCost THEN given[h] + req[h].offer[u] ELSE MaxCost

Done(h, u) == todo' = [todo EXCEPT ![h] = @ \ {u}]

(* Mutant of FindNew: the test lets one entry too many in.                 *)
FindNewOneMore(h) ==
  /\ pc[h] = "loop"
  /\ count <= MaxPeers
  /\ \E u \in todo[h] : Places(u) = {} /\ cur' = [cur EXCEPT ![h] = u]
  /\ Goto(h, "take")
  /\ UNCHANGED <<tableVars, mapVars, req, given, todo, at, begun, overlap>>

(* An entry that is not in the table, and there is room: it will be added. *)
FindNew(h) ==
  /\ pc[h] = "loop"
  /\ count < MaxPeers
  /\ \E u \in todo[h] : Places(u) = {} /\ cur' = [cur EXCEPT ![h] = u]
  /\ Goto(h, "take")
  /\ UNCHANGED <<tableVars, mapVars, req, given, todo, at, begun, overlap>>

(* The table is full: the rest of the hash bucket is abandoned with it.    *)
FindFull(h) ==
  /\ pc[h] = "loop"
  /\ count >= MaxPeers
  /\ \E u \in todo[h] :
       /\ Places(u) = {}
       /\ \E left \in SUBSET (todo[h] \ {u}) : todo' = [todo EXCEPT ![h] = left]
  /\ UNCHANGED <<tableVars, mapVars, pc, req, given, cur, at, begun, overlap>>

(* Mutant of FindKnown: without the comparison of the weights.             *)
FindKnownTaken(h) ==
  /\ pc[h] = "loop"
  /\ \E u \in todo[h] :
       /\ Places(u) # {}
       /\ Done(h, u)
       /\ IF u # req[h].from
          THEN /\ cur' = [cur EXCEPT ![h] = u]
               /\ at' = [at EXCEPT ![h] = First(u)]
               /\ Goto(h, "lower")
          ELSE UNCHANGED <<cur, at, pc>>
  /\ UNCHANGED <<tableVars, mapVars, req, given, begun, overlap>>

(* An entry that is: its weight is compared unless it is the sender's own. *)
FindKnown(h) ==
  /\ pc[h] = "loop"
  /\ \E u \in todo[h] :
       /\ Places(u) # {}
       /\ Done(h, u)
       /\ IF u # req[h].from /\ Via(h, u) < slots[First(u)].weight
          THEN /\ cur' = [cur EXCEPT ![h] = u]
               /\ at' = [at EXCEPT ![h] = First(u)]
               /\ Goto(h, "lower")
          ELSE UNCHANGED <<cur, at, pc>>
  /\ UNCHANGED <<tableVars, mapVars, req, given, begun, overlap>>

(* &config->peers[config->peer_count++]                                    *)
TakeSlot(h) ==
  /\ pc[h] = "take"
  /\ count < Memory
  /\ at' = [at EXCEPT ![h] = count]
  /\ Goto(h, "bump")
  /\ UNCHANGED <<tableVars, mapVars, req, given, todo, cur, begun, overlap>>

BumpCount(h) ==
  /\ pc[h] = "bump"
  /\ count' = at[h] + 1
  /\ Goto(h, "uuid")
  /\ UNCHANGED <<slots, mapVars, req, given, todo, cur, at, begun, overlap>>

FillUuid(h) ==
  /\ pc[h] = "uuid"
  /\ slots' = [slots EXCEPT ![at[h]].uuid = cur[h]]
  /\ Goto(h, "weight")
  /\ UNCHANGED <<count, mapVars, req, given, todo, cur, at, begun, overlap>>

FillWeight(h) ==
  /\ pc[h] = "weight"
  /\ slots' = [slots EXCEPT ![at[h]].weight = Via(h, cur[h])]
  /\ Done(h, cur[h])
  /\ Goto(h, "loop")
  /\ UNCHANGED <<count, mapVars, req, given, cur, at, begun, overlap>>

LowerWeight(h) ==
  /\ pc[h] = "lower"
  /\ slots' = [slots EXCEPT ![at[h]].weight = Via(h, cur[h])]
  /\ Goto(h, "loop")
  /\ UNCHANGED <<count, mapVars, req, given, todo, cur, at, begun, overlap>>

Finish(h) ==
  /\ pc[h] = "loop" /\ todo[h] = {}
  /\ Goto(h, "idle")
  /\ req' = [req EXCEPT ![h] = NoRequest]
  /\ UNCHANGED <<tableVars, mapVars, given, todo, cur, at, begun, overlap>>

-----------------------------------------------------------------------------
Next ==
  \E h \in Handler :
    \/ PostLinkState(h) \/ GetMap(h) \/ AddNeighbor(h) \/ AddCount(h)
    \/ MapLook(h) \/ MapFind(h) \/ MapCutHead(h) \/ MapCut(h)
    \/ MapSearch(h) \/ MapReadHead(h) \/ MapLink(h)
    \/ ReadGiven(h) \/ FindNew(h) \/ FindFull(h) \/ FindKnown(h) \/ TakeSlot(h)
    \/ BumpCount(h) \/ FillUuid(h) \/ FillWeight(h) \/ LowerWeight(h) \/ Finish(h)

Spec == Init /\ [][Next]_vars

-----------------------------------------------------------------------------
(***************************************************************************)
(* Properties.                                                             *)
(***************************************************************************)

(* An entry that is counted and that no thread is about to fill in.        *)
Filled(i) == i < count /\ \A h \in Handler : pc[h] \in {"uuid", "weight"} => at[h] # i

(* The table as RouteTable sees it: the first filled entry of a peer.      *)
mapped ==
  [u \in Peer |->
     LET own == {i \in Places(u) : Filled(i)} IN
     IF own = {} THEN MaxCost + 1
     ELSE slots[CHOOSE i \in own : \A j \in own : i <= j].weight]

Routes ==
  INSTANCE RouteTable WITH cost <- mapped, Cost <- Weight, Unknown <- MaxCost + 1,
                           Least <- [u \in Peer |-> Least[u]]

(* As long as no two requests have been handled at the same time, the      *)
(* table is a route table: a peer that has been entered stays, and its     *)
(* weight only falls and never below the cheapest path.                    *)
AloneImplements == Routes!RouteInit /\ [][~overlap' => Routes!RouteNext]_mapped

(* The test against MAX_PEERS and the increment are two steps: a second    *)
(* request thread can push the count behind the array, but by one entry    *)
(* only, whatever is added and lost meanwhile.  A third one lowers the     *)
(* count with a value that it loaded long ago, again and again, while the  *)
(* others push it: that bound is not one of the number of threads.         *)
OverrunBounded ==
  /\ TypeOK
  /\ Cardinality(Handler) \in 1 .. 2 => count <= MaxPeers + Cardinality(Handler) - 1

(* A uuid is in the table once, unless two requests have been handled at   *)
(* the same time: their searches can both miss it and both append it.      *)
UniqueAlone == overlap \/ \A u \in Peer : Cardinality(Places(u)) <= 1

(* A node that has been entered in network_map is missing from it only     *)
(* while some request is between taking its entry out and putting it back, *)
(* or since a thread stored a head that another one had changed since it   *)
(* was read.  This holds until a node is freed that another thread was at. *)
MissingWhileReplaced ==
  ~astray =>
    \A u \in heard \ (Known \union lost) :
      \E h \in Handler : pc[h] \in {"search", "head", "link"} /\ req[h].from = u
=============================================================================
