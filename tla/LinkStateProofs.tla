-------------------------- MODULE LinkStateProofs --------------------------
(***************************************************************************)
(* Machine-checked facts about LinkState, for every network, table size    *)
(* and fault budget the assumptions of LinkState allow.                    *)
(***************************************************************************)
EXTENDS LinkState, FiniteSetTheorems, TLAPS

(* An occupied slot holds an advertisement.                                *)
LEMMA ConnMessage ==
  ASSUME TypeOK, NEW c \in Conn, conn[c] # Idle
  PROVE  /\ conn[c] \in Message
         /\ conn[c].from \in Node /\ conn[c].to \in Node
         /\ conn[c].known \subseteq Node /\ conn[c].paths \subseteq Path
         /\ conn[c].weight \in [Node -> Nat]
<1>1. conn[c] \in Message
  BY DEF TypeOK
<1> QED
  BY <1>1 DEF Message

(* given_weight and the weight of a path through the sender are naturals.  *)
LEMMA ViaNat ==
  ASSUME TypeOK, NEW c \in Conn, conn[c] # Idle
  PROVE  /\ GivenWeight(conn[c].to, conn[c]) \in Nat
         /\ \A u \in Node : OfferedWeight(conn[c], u) \in Nat
         /\ \A u \in Node : Via(conn[c].to, conn[c], u) \in Nat
<1>1. \A u \in Node : OfferedWeight(conn[c], u) \in Nat
  BY ConnMessage DEF OfferedWeight
<1>2. GivenWeight(conn[c].to, conn[c]) \in Nat
  BY <1>1, ConnMessage DEF GivenWeight, TypeOK
<1> QED
  BY <1>1, <1>2 DEF Via

(* What HandleLinkState writes to the peer table and to the file map.      *)
LEMMA MergeTypes ==
  ASSUME TypeOK, NEW c \in Conn, conn[c] # Idle,
         NEW added \in Appended(conn[c].to, conn[c]),
         NEW compared \in Compared(conn[c].to, conn[c]),
         NEW key \in [conn[c].paths -> Path]
  PROVE  /\ added \subseteq Newcomers(conn[c].to, conn[c])
         /\ compared \subseteq Comparable(conn[c].to, conn[c])
         /\ added \subseteq Node
         /\ Reweighed(conn[c].to, conn[c], added, compared) \in [Node -> Nat]
         /\ Refiled(conn[c].to, conn[c], key) \in [Path -> SUBSET Node]
<1> DEFINE msg == conn[c]
           n   == conn[c].to
<1>1. added \subseteq Newcomers(n, msg) /\ compared \subseteq Comparable(n, msg)
  BY DEF Appended, Compared
<1>2. added \subseteq Node
  BY <1>1, ConnMessage DEF Newcomers, Offered
<1>3. \A u \in Node : Via(n, msg, u) \in Nat /\ weight[n][u] \in Nat
  BY ConnMessage, ViaNat DEF TypeOK
<1>4. Reweighed(n, msg, added, compared) \in [Node -> Nat]
  BY <1>3 DEF Reweighed, Lower
<1>5. Refiled(n, msg, key) \in [Path -> SUBSET Node]
  BY ConnMessage DEF Refiled, TypeOK
<1> QED
  BY <1>1, <1>2, <1>4, <1>5

(* What HandleLinkState does to everything but the peer table and the file *)
(* map, and the choices it makes for those two.                            *)
LEMMA HandleFrame ==
  ASSUME NEW c \in Conn, HandleLinkState(c)
  PROVE  /\ conn[c] # Idle
         /\ conn' = [conn EXCEPT ![c] = Idle]
         /\ netmap' = [netmap EXCEPT ![conn[c].to] = @ \union {conn[c].from}]
         /\ faults' = faults
BY DEF HandleLinkState

(* The keys that the copied paths become, and the order of the merge.      *)
LEMMA HandleChoices ==
  ASSUME NEW c \in Conn, HandleLinkState(c)
  PROVE  /\ \E key \in [conn[c].paths -> Path] :
              holders' = [holders EXCEPT ![conn[c].to] =
                            Refiled(conn[c].to, conn[c], key)]
         /\ \E added \in Appended(conn[c].to, conn[c]),
               compared \in Compared(conn[c].to, conn[c]) :
              /\ known' = [known EXCEPT ![conn[c].to] = @ \union added]
              /\ weight' = [weight EXCEPT ![conn[c].to] =
                              Reweighed(conn[c].to, conn[c], added, compared)]
BY DEF HandleLinkState, ReceivedKeys

-----------------------------------------------------------------------------
(* The tables, the connections and the fault budget keep their types.      *)
THEOREM TypeCorrect == Spec => []TypeOK
<1>1. Init => TypeOK
  BY NodeAssumption, MetricAssumption DEF Init, TypeOK, ConfWeight
<1>2. TypeOK /\ [Next]_vars => TypeOK'
  <2> SUFFICES ASSUME TypeOK, [Next]_vars PROVE TypeOK'
    OBVIOUS
  <2>1. ASSUME NEW n \in Node, NEW m \in Node, Advertise(n, m) PROVE TypeOK'
    <3>1. PICK c \in Conn :
            conn' = [conn EXCEPT ![c] =
              [from |-> n, to |-> m, known |-> known[n],
               weight |-> weight[n], paths |-> Listed(n)]]
      BY <2>1 DEF Advertise
    <3>2. [from |-> n, to |-> m, known |-> known[n],
           weight |-> weight[n], paths |-> Listed(n)] \in Message
      BY DEF TypeOK, Message, Listed
    <3> QED
      BY <2>1, <3>1, <3>2 DEF Advertise, TypeOK
  <2>2. ASSUME NEW c \in Conn, HandleLinkState(c) PROVE TypeOK'
    <3>1. conn[c] # Idle
      BY <2>2 DEF HandleLinkState
    <3>2. PICK key \in [conn[c].paths -> Path],
               added \in Appended(conn[c].to, conn[c]),
               compared \in Compared(conn[c].to, conn[c]) :
            /\ holders' = [holders EXCEPT ![conn[c].to] =
                             Refiled(conn[c].to, conn[c], key)]
            /\ known' = [known EXCEPT ![conn[c].to] = @ \union added]
            /\ weight' = [weight EXCEPT ![conn[c].to] =
                            Reweighed(conn[c].to, conn[c], added, compared)]
      BY <2>2, HandleChoices
    <3>3. /\ Refiled(conn[c].to, conn[c], key) \in [Path -> SUBSET Node]
          /\ Reweighed(conn[c].to, conn[c], added, compared) \in [Node -> Nat]
          /\ added \subseteq Node
      BY <3>1, MergeTypes
    <3>4. conn[c].to \in Node /\ conn[c].from \in Node
      BY <3>1, ConnMessage
    <3>5. holders' \in [Node -> [Path -> SUBSET Node]]
      BY <3>2, <3>3, <3>4 DEF TypeOK
    <3>6. known' \in [Node -> SUBSET Node] /\ weight' \in [Node -> [Node -> Nat]]
      BY <3>2, <3>3, <3>4 DEF TypeOK
    <3>7. netmap' \in [Node -> SUBSET Node]
      BY <2>2, <3>4, HandleFrame DEF TypeOK
    <3>8. conn' \in [Conn -> Message \union {Idle}] /\ faults' \in 0 .. MaxFaults
      BY <2>2, HandleFrame DEF TypeOK
    <3> QED
      BY <3>5, <3>6, <3>7, <3>8 DEF TypeOK
  <2>3. ASSUME NEW c \in Conn, LoseConn(c) PROVE TypeOK'
    BY <2>3, NodeAssumption DEF LoseConn, TypeOK
  <2>4. ASSUME NEW n \in Node, NEW u \in Node, AddNeighbor(n, u) PROVE TypeOK'
    BY <2>4, MetricAssumption DEF AddNeighbor, TypeOK
  <2>5. ASSUME NEW n \in Node, NEW p \in Path, ScanFile(n, p) PROVE TypeOK'
    BY <2>5 DEF ScanFile, TypeOK
  <2>6. ASSUME NEW n \in Node, Restart(n) PROVE TypeOK'
    <3>1. ConfWeight(n) \in [Node -> Nat]
      BY MetricAssumption DEF ConfWeight
    <3>2. conn' \in [Conn -> Message \union {Idle}]
      BY <2>6 DEF Restart, TypeOK
    <3>3. known' \in [Node -> SUBSET Node] /\ weight' \in [Node -> [Node -> Nat]]
      BY <2>6, <3>1, NodeAssumption DEF Restart, TypeOK
    <3>4. /\ netmap' \in [Node -> SUBSET Node]
          /\ holders' \in [Node -> [Path -> SUBSET Node]]
      BY <2>6 DEF Restart, TypeOK
    <3>5. faults' \in 0 .. MaxFaults
      BY <2>6, NodeAssumption DEF Restart, TypeOK
    <3> QED
      BY <3>2, <3>3, <3>4, <3>5 DEF TypeOK
  <2>7. CASE UNCHANGED vars
    BY <2>7 DEF vars, TypeOK
  <2> QED
    BY <2>1, <2>2, <2>3, <2>4, <2>5, <2>6, <2>7 DEF Next
<1> QED
  BY <1>1, <1>2, PTL DEF Spec

(***************************************************************************)
(* Routing.  RoutingInv is inductive given TypeOK: what a node believes    *)
(* and what is in flight are both bounded below by Dist, and the triangle  *)
(* inequality carries the bound through given_weight + peer->weight.       *)
(***************************************************************************)
LEMMA ViaSound ==
  ASSUME TypeOK, RoutingInv, NEW c \in Conn, conn[c] # Idle,
         NEW u \in Offered(conn[c])
  PROVE  Via(conn[c].to, conn[c], u) >= Dist[conn[c].to][u]
<1> DEFINE msg == conn[c]
           n   == conn[c].to
           m   == conn[c].from
<1>1. /\ n \in Node /\ m \in Node /\ u \in Node
      /\ msg.known \subseteq Node /\ n \in msg.known
  BY ConnMessage DEF Offered, RoutingInv, SnapshotSound
<1>2. /\ Dist[n][m] \in Nat /\ Dist[m][u] \in Nat /\ Dist[n][u] \in Nat
      /\ Dist[m][m] = 0 /\ Dist[n][n] = 0
      /\ Dist[n][m] = Dist[m][n]
      /\ Dist[n][u] <= Dist[n][m] + Dist[m][u]
  BY <1>1, MetricAssumption
<1>3. OfferedWeight(msg, u) >= Dist[m][u]
  <2>1. CASE u = m
    BY <2>1, <1>2 DEF OfferedWeight
  <2>2. CASE u # m
    BY <2>2 DEF OfferedWeight, Offered, RoutingInv, SnapshotSound
  <2> QED
    BY <2>1, <2>2
<1>4. GivenWeight(n, msg) >= Dist[n][m]
  <2>1. CASE m \in known[n] /\ weight[n][m] # 0
    <3>1. weight[n][m] >= Dist[n][m]
      BY <2>1, <1>1 DEF RoutingInv, WeightSound
    <3> QED
      BY <2>1, <3>1 DEF GivenWeight
  <2>2. CASE ~(m \in known[n] /\ weight[n][m] # 0)
    <3>1. n \in Offered(msg)
      BY <1>1 DEF Offered
    <3>2. GivenWeight(n, msg) = OfferedWeight(msg, n)
      BY <2>2, <3>1 DEF GivenWeight
    <3>3. CASE n = m
      BY <3>2, <3>3, <1>2 DEF OfferedWeight
    <3>4. CASE n # m
      <4>1. msg.weight[n] >= Dist[m][n]
        BY <1>1 DEF RoutingInv, SnapshotSound
      <4> QED
        BY <3>2, <3>4, <4>1, <1>2 DEF OfferedWeight
    <3> QED
      BY <3>3, <3>4
  <2> QED
    BY <2>1, <2>2
<1>5. /\ GivenWeight(n, msg) \in Nat /\ OfferedWeight(msg, u) \in Nat
  BY <1>1, ViaNat
<1>6. GivenWeight(n, msg) + OfferedWeight(msg, u) >= Dist[n][u]
  BY <1>2, <1>3, <1>4, <1>5
<1> QED
  BY <1>6 DEF Via

(* A merge keeps the receiver's weights above the cheapest paths.          *)
LEMMA HandleSound ==
  ASSUME TypeOK, RoutingInv, NEW c \in Conn, HandleLinkState(c)
  PROVE  WeightSound'
<1> DEFINE msg == conn[c]
           n   == conn[c].to
<1>1. conn[c] # Idle
  BY HandleFrame
<1>2. PICK added \in Appended(n, msg), compared \in Compared(n, msg) :
        /\ known' = [known EXCEPT ![n] = @ \union added]
        /\ weight' = [weight EXCEPT ![n] = Reweighed(n, msg, added, compared)]
  BY HandleChoices
<1>3. /\ added \subseteq Offered(msg) /\ compared \subseteq Offered(msg)
      /\ compared \subseteq known[n]
  BY DEF Appended, Compared, Newcomers, Comparable
<1>4. n \in Node
  BY <1>1, ConnMessage
<1>5. ASSUME NEW v \in Node, NEW u \in known'[v]
      PROVE  weight'[v][u] >= Dist[v][u]
  <2>1. CASE v # n
    BY <2>1, <1>2, <1>5 DEF RoutingInv, WeightSound, TypeOK
  <2>2. CASE v = n
    <3>1. u \in Node /\ u \in known[n] \union added
      BY <2>2, <1>1, <1>2, <1>3, <1>4, ConnMessage DEF TypeOK, Offered
    <3>2. weight'[n][u] = Reweighed(n, msg, added, compared)[u]
      BY <1>2, <1>4 DEF TypeOK
    <3>3. CASE u \in added
      BY <2>2, <3>1, <3>2, <3>3, <1>1, <1>3, ViaSound DEF Reweighed
    <3>4. CASE u \notin added /\ u \in compared
      <4>1. weight[n][u] >= Dist[n][u] /\ Via(n, msg, u) >= Dist[n][u]
        BY <3>4, <1>1, <1>3, <1>4, ViaSound DEF RoutingInv, WeightSound
      <4>2. Reweighed(n, msg, added, compared)[u]
              = Lower(Via(n, msg, u), weight[n][u])
        BY <3>1, <3>4 DEF Reweighed
      <4> QED
        BY <2>2, <3>2, <4>1, <4>2 DEF Lower
    <3>5. CASE u \notin added /\ u \notin compared
      <4>1. weight[n][u] >= Dist[n][u]
        BY <3>1, <3>5, <1>4 DEF RoutingInv, WeightSound
      <4>2. Reweighed(n, msg, added, compared)[u] = weight[n][u]
        BY <3>1, <3>5 DEF Reweighed
      <4> QED
        BY <2>2, <3>2, <4>1, <4>2
    <3> QED
      BY <3>3, <3>4, <3>5
  <2> QED
    BY <2>1, <2>2
<1> QED
  BY <1>5 DEF WeightSound

(* Freeing slots takes nothing away from what holds of those in flight.    *)
LEMMA FewerSnapshots ==
  ASSUME SnapshotSound,
         \A c \in Conn : conn'[c] = Idle \/ conn'[c] = conn[c]
  PROVE  SnapshotSound'
BY DEF SnapshotSound

(* No order, delay or loss of advertisements and no restart makes a node's *)
(* weight for a peer less than the cheapest path of configured links.      *)
THEOREM RoutingSound == Spec => []RoutingInv
<1>1. Init => RoutingInv
  <2> SUFFICES ASSUME Init PROVE RoutingInv
    OBVIOUS
  <2>1. WeightSound
    BY MetricAssumption, NodeAssumption
       DEF Init, WeightSound, ConfWeight, Configured
  <2>2. SnapshotSound
    BY DEF Init, SnapshotSound
  <2> QED
    BY <2>1, <2>2 DEF RoutingInv
<1>2. TypeOK /\ RoutingInv /\ [Next]_vars => RoutingInv'
  <2> SUFFICES ASSUME TypeOK, RoutingInv, [Next]_vars PROVE RoutingInv'
    OBVIOUS
  <2> USE DEF RoutingInv
  <2>1. ASSUME NEW n \in Node, NEW m \in Node, Advertise(n, m)
        PROVE  RoutingInv'
    <3>1. WeightSound'
      BY <2>1 DEF Advertise, WeightSound
    <3>2. PICK c \in Conn :
            conn' = [conn EXCEPT ![c] =
              [from |-> n, to |-> m, known |-> known[n],
               weight |-> weight[n], paths |-> Listed(n)]]
      BY <2>1 DEF Advertise
    <3>3. m \in known[n]
      BY <2>1 DEF Advertise
    <3>4. ASSUME NEW d \in Conn, conn'[d] # Idle
          PROVE  /\ conn'[d].to \in conn'[d].known
                 /\ \A u \in conn'[d].known :
                      conn'[d].weight[u] >= Dist[conn'[d].from][u]
      <4>1. CASE d = c
        BY <4>1, <3>2, <3>3 DEF WeightSound, TypeOK
      <4>2. CASE d # c
        BY <4>2, <3>2, <3>4 DEF SnapshotSound, TypeOK
      <4> QED
        BY <4>1, <4>2
    <3> QED
      BY <3>1, <3>4 DEF SnapshotSound
  <2>2. ASSUME NEW c \in Conn, HandleLinkState(c) PROVE RoutingInv'
    <3>1. WeightSound'
      BY <2>2, HandleSound
    <3>2. \A d \in Conn : conn'[d] = Idle \/ conn'[d] = conn[d]
      BY <2>2, HandleFrame DEF TypeOK
    <3> QED
      BY <3>1, <3>2, FewerSnapshots
  <2>3. ASSUME NEW c \in Conn, LoseConn(c) PROVE RoutingInv'
    <3>1. WeightSound'
      BY <2>3 DEF LoseConn, WeightSound
    <3>2. \A d \in Conn : conn'[d] = Idle \/ conn'[d] = conn[d]
      BY <2>3 DEF LoseConn, TypeOK
    <3> QED
      BY <3>1, <3>2, FewerSnapshots
  <2>4. ASSUME NEW n \in Node, NEW u \in Node, AddNeighbor(n, u)
        PROVE  RoutingInv'
    <3>1. Dist[n][u] <= Metric[n][u]
      BY <2>4, MetricAssumption DEF AddNeighbor, Configured
    <3>2. WeightSound'
      BY <2>4, <3>1, MetricAssumption DEF AddNeighbor, WeightSound, TypeOK
    <3> QED
      BY <2>4, <3>2 DEF AddNeighbor, SnapshotSound
  <2>5. ASSUME NEW n \in Node, NEW p \in Path, ScanFile(n, p)
        PROVE  RoutingInv'
    BY <2>5 DEF ScanFile, WeightSound, SnapshotSound
  <2>6. ASSUME NEW n \in Node, Restart(n) PROVE RoutingInv'
    <3>1. \A u \in Neighbor[n] : ConfWeight(n)[u] >= Dist[n][u]
      BY MetricAssumption, NodeAssumption DEF ConfWeight, Configured
    <3>2. WeightSound'
      BY <2>6, <3>1 DEF Restart, WeightSound, TypeOK
    <3>3. \A d \in Conn : conn'[d] = Idle \/ conn'[d] = conn[d]
      BY <2>6 DEF Restart
    <3> QED
      BY <3>2, <3>3, FewerSnapshots
  <2>7. CASE UNCHANGED vars
    BY <2>7 DEF vars, WeightSound, SnapshotSound
  <2> QED
    BY <2>1, <2>2, <2>3, <2>4, <2>5, <2>6, <2>7 DEF Next
<1> QED
  BY <1>1, <1>2, TypeCorrect, PTL DEF Spec

(* No weight in a table is less than the distance: the part of the above   *)
(* that a reader of /peer/rank sees.                                       *)
THEOREM WeightsSound == Spec => []WeightSound
BY RoutingSound, PTL DEF RoutingInv

-----------------------------------------------------------------------------
(* /peer/view never finds a holder without an address in network_map.      *)
THEOREM HoldersMapped == Spec => []HolderIsMapped
<1>1. Init => MappedInv
  BY DEF Init, MappedInv, HolderIsMapped
<1>2. TypeOK /\ MappedInv /\ [Next]_vars => MappedInv'
  <2> SUFFICES ASSUME TypeOK, MappedInv, [Next]_vars PROVE MappedInv'
    OBVIOUS
  <2> USE DEF MappedInv
  <2>1. ASSUME NEW n \in Node, NEW m \in Node, Advertise(n, m)
        PROVE  MappedInv'
    BY <2>1 DEF Advertise, HolderIsMapped
  <2>2. ASSUME NEW c \in Conn, HandleLinkState(c) PROVE MappedInv'
    <3>1. PICK key \in [conn[c].paths -> Path] :
            holders' = [holders EXCEPT ![conn[c].to] =
                          Refiled(conn[c].to, conn[c], key)]
      BY <2>2, HandleChoices
    <3>2. netmap' = [netmap EXCEPT ![conn[c].to] = @ \union {conn[c].from}]
      BY <2>2, HandleFrame
    <3>3. ASSUME NEW n \in Node, NEW p \in Path
          PROVE  holders'[n][p] \subseteq netmap'[n]
      <4>1. CASE n = conn[c].to
        <5>1. holders'[n][p] \subseteq holders[n][p] \union {conn[c].from}
          BY <4>1, <3>1 DEF Refiled, TypeOK
        <5>2. netmap'[n] = netmap[n] \union {conn[c].from}
          BY <4>1, <3>2 DEF TypeOK
        <5> QED
          BY <5>1, <5>2 DEF HolderIsMapped
      <4>2. CASE n # conn[c].to
        BY <4>2, <3>1, <3>2 DEF HolderIsMapped, TypeOK
      <4> QED
        BY <4>1, <4>2
    <3>4. \A n \in Node : n \in netmap'[n]
      BY <3>2 DEF TypeOK
    <3> QED
      BY <3>3, <3>4 DEF HolderIsMapped
  <2>3. ASSUME NEW c \in Conn, LoseConn(c) PROVE MappedInv'
    BY <2>3 DEF LoseConn, HolderIsMapped
  <2>4. ASSUME NEW n \in Node, NEW u \in Node, AddNeighbor(n, u)
        PROVE  MappedInv'
    BY <2>4 DEF AddNeighbor, HolderIsMapped, TypeOK
  <2>5. ASSUME NEW n \in Node, NEW p \in Path, ScanFile(n, p)
        PROVE  MappedInv'
    BY <2>5 DEF ScanFile, HolderIsMapped, TypeOK
  <2>6. ASSUME NEW n \in Node, Restart(n) PROVE MappedInv'
    BY <2>6 DEF Restart, HolderIsMapped, TypeOK
  <2>7. CASE UNCHANGED vars
    BY <2>7 DEF vars, HolderIsMapped
  <2> QED
    BY <2>1, <2>2, <2>3, <2>4, <2>5, <2>6, <2>7 DEF Next
<1> QED
  BY <1>1, <1>2, TypeCorrect, PTL DEF Spec, MappedInv

-----------------------------------------------------------------------------
(* A merge appends no more entries than the peer table has room for.       *)
LEMMA AppendedFits ==
  ASSUME TypeOK, TableBounded, NEW c \in Conn, conn[c] # Idle,
         NEW added \in Appended(conn[c].to, conn[c])
  PROVE  Cardinality(known[conn[c].to] \union added) <= MaxPeers
<1> DEFINE n == conn[c].to
<1>1. n \in Node /\ known[n] \subseteq Node /\ Newcomers(n, conn[c]) \subseteq Node
  BY ConnMessage DEF TypeOK, Newcomers, Offered
<1>2. added \subseteq Newcomers(n, conn[c])
  BY DEF Appended
<1>3. IsFiniteSet(known[n]) /\ IsFiniteSet(added)
  BY <1>1, <1>2, NodeAssumption, FS_Subset
<1>4. known[n] \intersect added = {}
  BY <1>2 DEF Newcomers
<1>5. /\ Cardinality(known[n]) \in Nat /\ Cardinality(added) \in Nat
      /\ MaxPeers \in Nat
  BY <1>3, FS_CardinalityType, NodeAssumption
<1>6. Cardinality(added) <= Room(n)
  BY <1>1, <1>5 DEF Appended, Room, TableBounded
<1>7. Cardinality(known[n] \union added) = Cardinality(known[n]) + Cardinality(added)
  BY <1>3, <1>4, FS_Union, FS_EmptySet, <1>5
<1> QED
  BY <1>5, <1>6, <1>7 DEF Room

(* The peer array is never overrun, and unused entries hold no weight.     *)
THEOREM TablesBounded == Spec => []TableBounded
<1>1. Init => TableBounded
  BY NodeAssumption DEF Init, TableBounded, ConfWeight
<1>2. TypeOK /\ TableBounded /\ [Next]_vars => TableBounded'
  <2> SUFFICES ASSUME TypeOK, TableBounded, [Next]_vars PROVE TableBounded'
    OBVIOUS
  <2>1. ASSUME NEW n \in Node, NEW m \in Node, Advertise(n, m)
        PROVE  TableBounded'
    BY <2>1 DEF Advertise, TableBounded
  <2>2. ASSUME NEW c \in Conn, HandleLinkState(c) PROVE TableBounded'
    <3> DEFINE n == conn[c].to
    <3>1. conn[c] # Idle /\ n \in Node
      BY <2>2, HandleFrame, ConnMessage
    <3>2. PICK added \in Appended(n, conn[c]), compared \in Compared(n, conn[c]) :
            /\ known' = [known EXCEPT ![n] = @ \union added]
            /\ weight' = [weight EXCEPT ![n] =
                            Reweighed(n, conn[c], added, compared)]
      BY <2>2, HandleChoices
    <3>3. Cardinality(known[n] \union added) <= MaxPeers
      BY <3>1, AppendedFits
    <3>4. compared \subseteq known[n]
      BY DEF Compared, Comparable
    <3>5. ASSUME NEW v \in Node
          PROVE  /\ Cardinality(known'[v]) <= MaxPeers
                 /\ \A u \in Node \ known'[v] : weight'[v][u] = 0
      <4>1. CASE v = n
        <5>1. known'[v] = known[n] \union added
          BY <4>1, <3>1, <3>2 DEF TypeOK
        <5>2. weight'[v] = Reweighed(n, conn[c], added, compared)
          BY <4>1, <3>1, <3>2 DEF TypeOK
        <5>3. \A u \in Node \ known'[v] : weight'[v][u] = 0
          BY <3>1, <5>1, <5>2, <3>4 DEF Reweighed, TableBounded
        <5> QED
          BY <5>1, <5>3, <3>3
      <4>2. CASE v # n
        BY <4>2, <3>1, <3>2 DEF TypeOK, TableBounded
      <4> QED
        BY <4>1, <4>2
    <3> QED
      BY <3>5 DEF TableBounded
  <2>3. ASSUME NEW c \in Conn, LoseConn(c) PROVE TableBounded'
    BY <2>3 DEF LoseConn, TableBounded
  <2>4. ASSUME NEW n \in Node, NEW u \in Node, AddNeighbor(n, u)
        PROVE  TableBounded'
    <3>1. IsFiniteSet(known[n])
      BY NodeAssumption, FS_Subset DEF TypeOK
    <3>2. Cardinality(known[n] \union {u}) = Cardinality(known[n]) + 1
      BY <2>4, <3>1, FS_AddElement DEF AddNeighbor
    <3>3. Cardinality(known[n] \union {u}) <= MaxPeers
      BY <2>4, <3>1, <3>2, FS_CardinalityType, NodeAssumption DEF AddNeighbor
    <3>4. known' = [known EXCEPT ![n] = @ \union {u}]
          /\ weight' = [weight EXCEPT ![n][u] = Metric[n][u]]
      BY <2>4 DEF AddNeighbor
    <3> QED
      BY <3>3, <3>4 DEF TableBounded, TypeOK
  <2>5. ASSUME NEW n \in Node, NEW p \in Path, ScanFile(n, p)
        PROVE  TableBounded'
    BY <2>5 DEF ScanFile, TableBounded
  <2>6. ASSUME NEW n \in Node, Restart(n) PROVE TableBounded'
    <3>1. /\ known' = [known EXCEPT ![n] = Neighbor[n]]
          /\ weight' = [weight EXCEPT ![n] = ConfWeight(n)]
      BY <2>6 DEF Restart
    <3>2. \A u \in Node \ Neighbor[n] : ConfWeight(n)[u] = 0
      BY DEF ConfWeight
    <3> QED
      BY <3>1, <3>2, NodeAssumption DEF TableBounded, TypeOK
  <2>7. CASE UNCHANGED vars
    BY <2>7 DEF vars, TableBounded
  <2> QED
    BY <2>1, <2>2, <2>3, <2>4, <2>5, <2>6, <2>7 DEF Next
<1> QED
  BY <1>1, <1>2, TypeCorrect, PTL DEF Spec

-----------------------------------------------------------------------------
(* A node enters its own peer table only by its own configuration.         *)
THEOREM SelfEntryConfigured == Spec => []NoSelfEntry
<1>1. Init => NoSelfEntry
  BY DEF Init, NoSelfEntry, Configured
<1>2. TypeOK /\ NoSelfEntry /\ [Next]_vars => NoSelfEntry'
  <2> SUFFICES ASSUME TypeOK, NoSelfEntry, [Next]_vars PROVE NoSelfEntry'
    OBVIOUS
  <2>1. ASSUME NEW n \in Node, NEW m \in Node, Advertise(n, m)
        PROVE  NoSelfEntry'
    BY <2>1 DEF Advertise, NoSelfEntry
  <2>2. ASSUME NEW c \in Conn, HandleLinkState(c) PROVE NoSelfEntry'
    <3>1. PICK added \in Appended(conn[c].to, conn[c]) :
            known' = [known EXCEPT ![conn[c].to] = @ \union added]
      BY <2>2, HandleChoices
    <3>2. conn[c].to \notin added
      BY DEF Appended, Newcomers
    <3> QED
      BY <3>1, <3>2 DEF NoSelfEntry, TypeOK
  <2>3. ASSUME NEW c \in Conn, LoseConn(c) PROVE NoSelfEntry'
    BY <2>3 DEF LoseConn, NoSelfEntry
  <2>4. ASSUME NEW n \in Node, NEW u \in Node, AddNeighbor(n, u)
        PROVE  NoSelfEntry'
    BY <2>4 DEF AddNeighbor, NoSelfEntry, TypeOK, Configured
  <2>5. ASSUME NEW n \in Node, NEW p \in Path, ScanFile(n, p)
        PROVE  NoSelfEntry'
    BY <2>5 DEF ScanFile, NoSelfEntry
  <2>6. ASSUME NEW n \in Node, Restart(n) PROVE NoSelfEntry'
    BY <2>6 DEF Restart, NoSelfEntry, TypeOK, Configured
  <2>7. CASE UNCHANGED vars
    BY <2>7 DEF vars, NoSelfEntry
  <2> QED
    BY <2>1, <2>2, <2>3, <2>4, <2>5, <2>6, <2>7 DEF Next
<1> QED
  BY <1>1, <1>2, TypeCorrect, PTL DEF Spec

(* Where no node is configured as its own neighbor, a node that lists      *)
(* itself as a holder of a path has the file on its disk.                  *)
THEOREM SelfHoldersTrue ==
  ASSUME \A n \in Node : n \notin Configured(n)
  PROVE  Spec => []SelfHolderTrue
<1> DEFINE SelfInv == SelfHolderTrue /\ NoSelfAdvertised
<1>1. Init => SelfInv
  BY DEF Init, SelfHolderTrue, NoSelfAdvertised
<1>2. TypeOK /\ NoSelfEntry /\ SelfInv /\ [Next]_vars => SelfInv'
  <2> SUFFICES ASSUME TypeOK, NoSelfEntry, SelfHolderTrue, NoSelfAdvertised,
                      [Next]_vars
               PROVE  SelfHolderTrue' /\ NoSelfAdvertised'
    OBVIOUS
  <2>1. ASSUME NEW n \in Node, NEW m \in Node, Advertise(n, m)
        PROVE  SelfHolderTrue' /\ NoSelfAdvertised'
    <3>1. n # m
      BY <2>1 DEF Advertise, NoSelfEntry
    <3>2. NoSelfAdvertised'
      BY <2>1, <3>1 DEF Advertise, NoSelfAdvertised, TypeOK
    <3> QED
      BY <2>1, <3>2 DEF Advertise, SelfHolderTrue
  <2>2. ASSUME NEW c \in Conn, HandleLinkState(c)
        PROVE  SelfHolderTrue' /\ NoSelfAdvertised'
    <3>1. PICK key \in [conn[c].paths -> Path] :
            holders' = [holders EXCEPT ![conn[c].to] =
                          Refiled(conn[c].to, conn[c], key)]
      BY <2>2, HandleChoices
    <3>2. conn[c].to # conn[c].from
      BY <2>2, HandleFrame DEF NoSelfAdvertised
    <3>3. SelfHolderTrue'
      BY <3>1, <3>2 DEF SelfHolderTrue, Refiled, TypeOK
    <3>4. NoSelfAdvertised'
      BY <2>2, HandleFrame DEF NoSelfAdvertised, TypeOK
    <3> QED
      BY <3>3, <3>4
  <2>3. ASSUME NEW c \in Conn, LoseConn(c)
        PROVE  SelfHolderTrue' /\ NoSelfAdvertised'
    BY <2>3 DEF LoseConn, SelfHolderTrue, NoSelfAdvertised, TypeOK
  <2>4. ASSUME NEW n \in Node, NEW u \in Node, AddNeighbor(n, u)
        PROVE  SelfHolderTrue' /\ NoSelfAdvertised'
    BY <2>4 DEF AddNeighbor, SelfHolderTrue, NoSelfAdvertised
  <2>5. ASSUME NEW n \in Node, NEW p \in Path, ScanFile(n, p)
        PROVE  SelfHolderTrue' /\ NoSelfAdvertised'
    BY <2>5 DEF ScanFile, SelfHolderTrue, NoSelfAdvertised, TypeOK
  <2>6. ASSUME NEW n \in Node, Restart(n)
        PROVE  SelfHolderTrue' /\ NoSelfAdvertised'
    <3>1. SelfHolderTrue'
      BY <2>6 DEF Restart, SelfHolderTrue, TypeOK
    <3>2. NoSelfAdvertised'
      BY <2>6 DEF Restart, NoSelfAdvertised
    <3> QED
      BY <3>1, <3>2
  <2>7. CASE UNCHANGED vars
    BY <2>7 DEF vars, SelfHolderTrue, NoSelfAdvertised
  <2> QED
    BY <2>1, <2>2, <2>3, <2>4, <2>5, <2>6, <2>7 DEF Next
<1> QED
  BY <1>1, <1>2, TypeCorrect, SelfEntryConfigured, PTL DEF Spec

-----------------------------------------------------------------------------
(* Between restarts the tables only improve, whatever is applied and when. *)
THEOREM TablesImprove == Spec => OnlyImproves
<1> DEFINE Better ==
      \A n \in Node :
        /\ known[n] \subseteq known'[n]
        /\ netmap[n] \subseteq netmap'[n]
        /\ \A u \in known[n] : weight'[n][u] <= weight[n][u]
        /\ \A p \in Path : holders[n][p] \subseteq holders'[n][p]
<1>1. TypeOK /\ [Next]_vars => [(\E n \in Node : Restart(n)) \/ Better]_vars
  <2> SUFFICES ASSUME TypeOK, Next PROVE (\E n \in Node : Restart(n)) \/ Better
    OBVIOUS
  <2>0. \A n, u \in Node : weight[n][u] <= weight[n][u]
    BY DEF TypeOK
  <2>1. ASSUME NEW n \in Node, NEW m \in Node, Advertise(n, m) PROVE Better
    BY <2>0, <2>1 DEF Advertise, TypeOK
  <2>2. ASSUME NEW c \in Conn, HandleLinkState(c) PROVE Better
    <3> DEFINE n == conn[c].to
    <3>1. conn[c] # Idle /\ n \in Node
      BY <2>2, HandleFrame, ConnMessage
    <3>2. PICK added \in Appended(n, conn[c]), compared \in Compared(n, conn[c]),
               key \in [conn[c].paths -> Path] :
            /\ known' = [known EXCEPT ![n] = @ \union added]
            /\ weight' = [weight EXCEPT ![n] =
                            Reweighed(n, conn[c], added, compared)]
            /\ holders' = [holders EXCEPT ![n] = Refiled(n, conn[c], key)]
      BY <2>2, HandleChoices
    <3>3. netmap' = [netmap EXCEPT ![n] = @ \union {conn[c].from}]
      BY <2>2, HandleFrame
    <3>4. \A v \in Node : known[v] \subseteq known'[v] /\ netmap[v] \subseteq netmap'[v]
      BY <3>1, <3>2, <3>3 DEF TypeOK
    <3>5. \A v \in Node, p \in Path : holders[v][p] \subseteq holders'[v][p]
      BY <3>1, <3>2 DEF Refiled, TypeOK
    <3>6. ASSUME NEW v \in Node, NEW u \in known[v]
          PROVE  weight'[v][u] <= weight[v][u]
      <4>1. CASE v # n
        BY <4>1, <2>0, <3>2 DEF TypeOK
      <4>2. CASE v = n
        <5>1. u \in Node /\ u \notin added
          BY <4>2 DEF TypeOK, Appended, Newcomers
        <5>2. weight'[v][u] = Reweighed(n, conn[c], added, compared)[u]
          BY <4>2, <3>1, <3>2 DEF TypeOK
        <5>3. Via(n, conn[c], u) \in Nat /\ weight[v][u] \in Nat
          BY <5>1, <3>1, ViaNat DEF TypeOK
        <5> QED
          BY <4>2, <5>1, <5>2, <5>3 DEF Reweighed, Lower
      <4> QED
        BY <4>1, <4>2
    <3> QED
      BY <3>4, <3>5, <3>6
  <2>3. ASSUME NEW c \in Conn, LoseConn(c) PROVE Better
    BY <2>0, <2>3 DEF LoseConn, TypeOK
  <2>4. ASSUME NEW n \in Node, NEW u \in Node, AddNeighbor(n, u) PROVE Better
    <3>1. \A v \in Node : /\ known[v] \subseteq known'[v]
                         /\ netmap[v] \subseteq netmap'[v]
                         /\ holders'[v] = holders[v]
      BY <2>4 DEF AddNeighbor, TypeOK
    <3>2. \A v \in Node : \A w \in known[v] : weight'[v][w] = weight[v][w]
      BY <2>4 DEF AddNeighbor, TypeOK
    <3> QED
      BY <2>0, <3>1, <3>2 DEF TypeOK
  <2>5. ASSUME NEW n \in Node, NEW p \in Path, ScanFile(n, p) PROVE Better
    BY <2>0, <2>5 DEF ScanFile, TypeOK
  <2> QED
    BY <2>1, <2>2, <2>3, <2>4, <2>5 DEF Next
<1> QED
  BY <1>1, TypeCorrect, PTL DEF Spec, OnlyImproves
=============================================================================
