----------------------------- MODULE LinkState -----------------------------
(***************************************************************************)
(* The TCP peer checker of hw4: every node repeatedly POSTs its own config *)
(* (peer table with weights, file map) to each peer it knows, and merges   *)
(* the configs POSTed to it into three tables of its own:                  *)
(*                                                                         *)
(*   global_config.peers  ->  known[n], weight[n]                          *)
(*   network_map          ->  netmap[n]   (its keys)                       *)
(*   ht_filepaths         ->  holders[n]  (path -> keys of info->peers)    *)
(*                                                                         *)
(* A node and its uuid, host and ports are one value.  Handlers are atomic *)
(* here: LinkState is about what nodes make of each other's snapshots when *)
(* snapshots are delayed, reordered, lost, and when nodes restart.         *)
(***************************************************************************)
EXTENDS Integers, FiniteSets

CONSTANTS
  Node,        \* the nodes of the network
  Path,        \* content paths (and what a garbled path can look like)
  Conn,        \* slots for accepted connections not handled yet
  Idle,        \* a free slot
  MaxPeers,    \* MAX_PEERS, the length of global_config.peers
  MaxFaults,   \* bound: restarts and lost connections in a behaviour
  Neighbor,    \* Neighbor[n]: the peer_i entries of n's node.conf
  Addable,     \* Addable[n]: what the operator passes to /peer/addneighbor
  Metric,      \* Metric[n][u]: the metric n's operator gives the link to u
  Dist,        \* Dist[n][u]: a lower bound of every path of such links
  Content,     \* Content[n]: the files in n's content directory
  KeyOutcome   \* KeyOutcome[p]: what hash_table_put_str can make of key p

Configured(n) == Neighbor[n] \union Addable[n]

ASSUME NodeAssumption ==
  /\ IsFiniteSet(Node)
  /\ Node # {}
  /\ MaxPeers \in Nat /\ MaxFaults \in Nat
  /\ Neighbor \in [Node -> SUBSET Node]
  /\ Addable \in [Node -> SUBSET Node]
  /\ \A n \in Node : Cardinality(Neighbor[n]) <= MaxPeers
  /\ Content \in [Node -> SUBSET Path]
  /\ KeyOutcome \in [Path -> SUBSET Path]
  /\ \A p \in Path : KeyOutcome[p] # {}

ASSUME MetricAssumption ==
  /\ Metric \in [Node -> [Node -> Nat]]
  /\ Dist \in [Node -> [Node -> Nat]]
  /\ \A n \in Node : Dist[n][n] = 0
  /\ \A n, u \in Node : Dist[n][u] = Dist[u][n]
  /\ \A n, u, v \in Node : Dist[n][v] <= Dist[n][u] + Dist[u][v]
  /\ \A n \in Node : \A u \in Configured(n) : Dist[n][u] <= Metric[n][u]

VARIABLES
  known,     \* known[n]: the uuids in global_config.peers[0..peer_count-1]
  weight,    \* weight[n][u]: their weight field; 0 for an unused entry
  netmap,    \* netmap[n]: the keys of network_map
  holders,   \* holders[n][p]: ht_filepaths[p]->peers; {} when p is absent
  conn,      \* conn[c]: the advertisement waiting in connection c, or Idle
  faults     \* restarts and lost connections so far

vars == <<known, weight, netmap, holders, conn, faults>>

Message ==
  [from : Node, to : Node, known : SUBSET Node,
   weight : [Node -> Nat], paths : SUBSET Path]

TypeOK ==
  /\ known \in [Node -> SUBSET Node]
  /\ weight \in [Node -> [Node -> Nat]]
  /\ netmap \in [Node -> SUBSET Node]
  /\ holders \in [Node -> [Path -> SUBSET Node]]
  /\ conn \in [Conn -> Message \union {Idle}]
  /\ faults \in 0 .. MaxFaults

-----------------------------------------------------------------------------
(* What read_config_file leaves in global_config: the configured peers.    *)
ConfWeight(n) == [u \in Node |-> IF u \in Neighbor[n] THEN Metric[n][u] ELSE 0]

Init ==
  /\ known = Neighbor
  /\ weight = [n \in Node |-> ConfWeight(n)]
  /\ netmap = [n \in Node |-> {n}]
  /\ holders = [n \in Node |-> [p \in Path |-> {}]]
  /\ conn = [c \in Conn |-> Idle]
  /\ faults = 0

(* The paths in ht_filepaths, which file_map_to_json writes as keys.       *)
Listed(n) == {p \in Path : holders[n][p] # {}}

(***************************************************************************)
(* One iteration of check_peer_status: n connects to its peer m and sends  *)
(* the JSON of its config and of its file map.  A peer entry that is n     *)
(* itself is not skipped, the `continue' after "Skipping self" being       *)
(* commented out.                                                          *)
(***************************************************************************)
Advertise(n, m) ==
  /\ m \in known[n]
  /\ \E c \in Conn :
       /\ conn[c] = Idle
       /\ conn' = [conn EXCEPT ![c] =
            [from |-> n, to |-> m, known |-> known[n],
             weight |-> weight[n], paths |-> Listed(n)]]
  /\ UNCHANGED <<known, weight, netmap, holders, faults>>

(* The hash table node_config_to_hashmap makes of a received config: the   *)
(* sender at weight 0 and its peers at their own weights.                  *)
Offered(msg) == {msg.from} \union msg.known
OfferedWeight(msg, u) == IF u = msg.from THEN 0 ELSE msg.weight[u]

(* Mutants of GivenWeight: the sender's own weight for n is not consulted; *)
(* the -1 of find_peer_weight is used as a weight.                         *)
GivenOwnOnly(n, msg) ==
  IF msg.from \in known[n] THEN weight[n][msg.from] ELSE 0
GivenNotFound(n, msg) ==
  IF msg.from \in known[n] THEN weight[n][msg.from] ELSE -1

(* given_weight: n's weight for the sender; when that is 0 (or there is    *)
(* none) the sender's weight for n; 0 when the sender has none either.     *)
GivenWeight(n, msg) ==
  IF msg.from \in known[n] /\ weight[n][msg.from] # 0
  THEN weight[n][msg.from]
  ELSE IF n \in Offered(msg) THEN OfferedWeight(msg, n) ELSE 0

Via(n, msg, u) == GivenWeight(n, msg) + OfferedWeight(msg, u)

(* Mutant of Newcomers: the test for n's own uuid is missing.              *)
NewcomersOrSelf(n, msg) == Offered(msg) \ known[n]

Newcomers(n, msg) == Offered(msg) \ (known[n] \union {n})

(* Mutant of Room: `>' for `>=' in the test against MAX_PEERS.             *)
RoomOffByOne(n) == MaxPeers + 1 - Cardinality(known[n])

Room(n) == MaxPeers - Cardinality(known[n])

(* The entries appended to the peer table.  When they do not all fit, the  *)
(* hash order of the received table decides which do.                      *)
Appended(n, msg) ==
  IF Cardinality(Newcomers(n, msg)) <= Room(n)
  THEN {Newcomers(n, msg)}
  ELSE {S \in SUBSET Newcomers(n, msg) : Cardinality(S) = Room(n)}

(* Mutant of Comparable: the first weight learned for a peer is kept.      *)
ComparableNever(n, msg) == {}

(* The known entries whose weight is compared.  The `break' at a full      *)
(* table abandons the rest of a bucket, hence any part of them.            *)
Comparable(n, msg) == (Offered(msg) \intersect known[n]) \ {n, msg.from}

Compared(n, msg) ==
  IF Cardinality(Newcomers(n, msg)) <= Room(n)
  THEN {Comparable(n, msg)}
  ELSE SUBSET Comparable(n, msg)

(* Mutant of Lower: the latest weight wins.                                *)
LatestWeight(a, b) == a

Lower(a, b) == IF a < b THEN a ELSE b

(* update_peer_weights_last_seen, for the added and compared entries.      *)
Reweighed(n, msg, added, compared) ==
  [u \in Node |->
     IF u \in added THEN Via(n, msg, u)
     ELSE IF u \in compared THEN Lower(Via(n, msg, u), weight[n][u])
     ELSE weight[n][u]]

(* Mutants of Refiled: the receiver enters itself, not the sender; a path  *)
(* that has a holder gets no other.                                        *)
RefiledAsSelf(n, msg, key) ==
  [p \in Path |->
     IF \E q \in msg.paths : key[q] = p
     THEN holders[n][p] \union {n}
     ELSE holders[n][p]]
RefiledFirstOnly(n, msg, key) ==
  [p \in Path |->
     IF holders[n][p] = {} /\ \E q \in msg.paths : key[q] = p
     THEN {msg.from}
     ELSE holders[n][p]]

(* json_to_files_map: the key each received path is stored under.  The copy*)
(* has the length of another string and no terminator.                     *)
ReceivedKeys(msg) ==
  {key \in [msg.paths -> Path] : \A q \in msg.paths : key[q] \in KeyOutcome[q]}

(* update_peer_to_files_map: the sender becomes a holder of every path it  *)
(* lists, under the key the copy of that path has become.                  *)
Refiled(n, msg, key) ==
  [p \in Path |->
     IF \E q \in msg.paths : key[q] = p
     THEN holders[n][p] \union {msg.from}
     ELSE holders[n][p]]

(* Mutant of HandleLinkState: network_map is only updated for a sender that*)
(* is in the peer table.                                                   *)
HandleUnmapped(c) ==
  /\ conn[c] # Idle
  /\ LET msg == conn[c]
         n   == msg.to
     IN /\ \E key \in ReceivedKeys(msg) :
             holders' = [holders EXCEPT ![n] = Refiled(n, msg, key)]
        /\ netmap' = [netmap EXCEPT ![n] = @ \union ({msg.from} \intersect known[n])]
        /\ \E added \in Appended(n, msg), compared \in Compared(n, msg) :
             /\ known' = [known EXCEPT ![n] = @ \union added]
             /\ weight' = [weight EXCEPT ![n] =
                             Reweighed(n, msg, added, compared)]
  /\ conn' = [conn EXCEPT ![c] = Idle]
  /\ UNCHANGED faults

(* The POST /link-state branch of child_routine.                           *)
HandleLinkState(c) ==
  /\ conn[c] # Idle
  /\ LET msg == conn[c]
         n   == msg.to
     IN /\ \E key \in ReceivedKeys(msg) :
             holders' = [holders EXCEPT ![n] = Refiled(n, msg, key)]
        /\ netmap' = [netmap EXCEPT ![n] = @ \union {msg.from}]
        /\ \E added \in Appended(n, msg), compared \in Compared(n, msg) :
             /\ known' = [known EXCEPT ![n] = @ \union added]
             /\ weight' = [weight EXCEPT ![n] =
                             Reweighed(n, msg, added, compared)]
  /\ conn' = [conn EXCEPT ![c] = Idle]
  /\ UNCHANGED faults

(* The returns before anything is stored: recv gives nothing, or only a    *)
(* part that json_to_node_config cannot parse.  The sender has already     *)
(* closed its socket and does not notice.                                  *)
LoseConn(c) ==
  /\ conn[c] # Idle
  /\ faults < MaxFaults
  /\ faults' = faults + 1
  /\ conn' = [conn EXCEPT ![c] = Idle]
  /\ UNCHANGED <<known, weight, netmap, holders>>

(* GET /peer/addneighbor: a uuid already in the table is refused (-2), a   *)
(* full table too (-1).                                                    *)
AddNeighbor(n, u) ==
  /\ u \in Addable[n] \ known[n]
  /\ Cardinality(known[n]) < MaxPeers
  /\ known' = [known EXCEPT ![n] = @ \union {u}]
  /\ weight' = [weight EXCEPT ![n][u] = Metric[n][u]]
  /\ netmap' = [netmap EXCEPT ![n] = @ \union {u}]
  /\ UNCHANGED <<holders, conn, faults>>

(* One directory entry of list_files: a file of the content directory is   *)
(* listed with n as its holder, unless the path is listed already.         *)
ScanFile(n, p) ==
  /\ p \in Content[n]
  /\ holders[n][p] = {}
  /\ holders' = [holders EXCEPT ![n][p] = {n}]
  /\ UNCHANGED <<known, weight, netmap, conn, faults>>

(* The process ends (/peer/kill, a crash) and is started again: main reads *)
(* node.conf, the tables are empty, connections to it are gone.            *)
Restart(n) ==
  /\ faults < MaxFaults
  /\ faults' = faults + 1
  /\ known' = [known EXCEPT ![n] = Neighbor[n]]
  /\ weight' = [weight EXCEPT ![n] = ConfWeight(n)]
  /\ netmap' = [netmap EXCEPT ![n] = {n}]
  /\ holders' = [holders EXCEPT ![n] = [p \in Path |-> {}]]
  /\ conn' = [c \in Conn |->
                IF conn[c] # Idle /\ conn[c].to = n THEN Idle ELSE conn[c]]

Next ==
  \/ \E n, m \in Node : Advertise(n, m)
  \/ \E c \in Conn : HandleLinkState(c)
  \/ \E c \in Conn : LoseConn(c)
  \/ \E n, u \in Node : AddNeighbor(n, u)
  \/ \E n \in Node, p \in Path : ScanFile(n, p)
  \/ \E n \in Node : Restart(n)

Spec == Init /\ [][Next]_vars

(* The sender thread loops over its peers for ever, a handler thread runs  *)
(* to its end, the folder monitor scans for ever.  Advertise needs strong  *)
(* fairness only because the slots are a bound of the model: the thread    *)
(* comes back to every peer, and a slot is free again and again.           *)
Fairness ==
  /\ \A n, m \in Node : SF_vars(Advertise(n, m))
  /\ \A c \in Conn : WF_vars(HandleLinkState(c))
  /\ \A n \in Node : \A p \in Path : WF_vars(ScanFile(n, p))

FairSpec == Spec /\ Fairness

-----------------------------------------------------------------------------
(* A weight is never less than the cheapest path of configured links: no   *)
(* order, delay or loss of advertisements and no restart makes a node      *)
(* believe in a path that does not exist.                                  *)
WeightSound ==
  \A n \in Node : \A u \in known[n] : weight[n][u] >= Dist[n][u]

(* The same of the snapshots still in flight, and a snapshot always names  *)
(* the node it is for: that is what makes given_weight meaningful when the *)
(* receiver does not know the sender.                                      *)
SnapshotSound ==
  \A c \in Conn : conn[c] # Idle =>
    /\ conn[c].to \in conn[c].known
    /\ \A u \in conn[c].known : conn[c].weight[u] >= Dist[conn[c].from][u]

RoutingInv == WeightSound /\ SnapshotSound

(* Gossip that comes back to the node it is about never enters that node's *)
(* own peer table: only its operator can put it there.                     *)
NoSelfEntry == \A n \in Node : n \in known[n] => n \in Configured(n)

(* The peer table is never longer than its array, and an entry outside it  *)
(* was never written.                                                      *)
TableBounded ==
  \A n \in Node :
    /\ Cardinality(known[n]) <= MaxPeers
    /\ \A u \in Node \ known[n] : weight[n][u] = 0

(* Every holder /peer/view can pick has an entry in network_map, where it  *)
(* looks up the address to send the request to.                            *)
HolderIsMapped == \A n \in Node, p \in Path : holders[n][p] \subseteq netmap[n]

(* The inductive form: main puts the node itself in its network_map.       *)
MappedInv == HolderIsMapped /\ \A n \in Node : n \in netmap[n]

(* A node that lists itself as a holder has the file.                      *)
SelfHolderTrue ==
  \A n \in Node, p \in Path : n \in holders[n][p] => p \in Content[n]

(* While a node runs, its weight for a peer never rises and no peer, map   *)
(* entry or holder is forgotten: advertisements may be applied late, twice *)
(* or in any order.                                                        *)
OnlyImproves ==
  [][(\E n \in Node : Restart(n)) \/
     \A n \in Node :
       /\ known[n] \subseteq known'[n]
       /\ netmap[n] \subseteq netmap'[n]
       /\ \A u \in known[n] : weight'[n][u] <= weight[n][u]
       /\ \A p \in Path : holders[n][p] \subseteq holders'[n][p]]_vars

(* The inductive form of NoSelfEntry and SelfHolderTrue in a network where *)
(* no operator configures a node as its own neighbor.                      *)
NoSelfAdvertised ==
  \A c \in Conn : conn[c] # Idle => conn[c].from # conn[c].to

(* In the end every node's weight for every other is the cheapest path.    *)
Converged ==
  <>[](\A n, u \in Node : n # u => u \in known[n] /\ weight[n][u] = Dist[n][u])

(* In the end every other node lists the owner of a file as its holder.    *)
OwnersFound ==
  <>[](\A n, u \in Node : n # u => \A p \in Content[u] : u \in holders[n][p])
=============================================================================
