--------------------------- MODULE PeerTableProofs ---------------------------
(***************************************************************************)
(* Machine-checked facts about PeerTable, for any peers, node.conf, table  *)
(* size, requests and, where it is not said, any number of request threads.*)
(***************************************************************************)
EXTENDS PeerTable, FiniteSetTheorems, TLAPS

Merging == {"given", "loop", "take", "bump", "uuid", "weight", "lower"}
MapPlaces == {"look", "find", "cut", "cuthead", "search", "head", "link"}
Replaces == MapPlaces \union {"addbump"}

(* A step of an update of network_map.                                     *)
MapStep(h) ==
  \/ MapLook(h) \/ MapFind(h) \/ MapCutHead(h) \/ MapCut(h)
  \/ MapSearch(h) \/ MapReadHead(h) \/ MapLink(h)

(* What a thread works on: a merge has an advertisement that was sent, and *)
(* is at an entry of its table; an update of network_map is for a node.    *)
Works(h) ==
  /\ pc[h] \in Merging => req[h] \in Advert
  /\ pc[h] \in Replaces =>
       req[h].from \in Uuid /\ (req[h].kind = "merge" => req[h] \in Advert)
  /\ pc[h] \in Merging \ {"given"} => todo[h] \subseteq DOMAIN req[h].offer \ {Self}
  /\ pc[h] \in Merging \ {"given", "loop"} => cur[h] \in DOMAIN req[h].offer \ {Self}
Working == \A h \in Handler : Works(h)

-----------------------------------------------------------------------------
(* An advertisement has a sender, which is another node, and costs.        *)
LEMMA AdvertTypes ==
  ASSUME NEW r \in Advert
  PROVE  /\ r \in RequestType /\ r.kind = "merge" /\ r.from \in Peer
         /\ Self \in DOMAIN r.offer /\ r.from \in DOMAIN r.offer /\ r.offer[r.from] = 0
         /\ DOMAIN r.offer \subseteq Uuid
         /\ \A u \in DOMAIN r.offer : r.offer[u] \in Weight
<1>1. /\ r \in RequestType /\ r.kind = "merge" /\ r.from \in Peer
      /\ Self \in DOMAIN r.offer /\ r.from \in DOMAIN r.offer /\ r.offer[r.from] = 0
  BY TableAssumption
<1>2. r.offer \in UNION {[S -> Weight] : S \in SUBSET Uuid}
  BY <1>1 DEF RequestType
<1>3. PICK S \in SUBSET Uuid : r.offer \in [S -> Weight]
  BY <1>2
<1> QED
  BY <1>1, <1>3

(* The two requests that the model makes up.                               *)
LEMMA PlainTypes ==
  ASSUME NEW k \in {"none", "add", "map"}, NEW u \in Uuid \union {Blank}
  PROVE  [kind |-> k, from |-> u, offer |-> << >>] \in RequestType
<1>1. << >> \in [{} -> Weight]
  BY SMT
<1>2. << >> \in UNION {[S -> Weight] : S \in SUBSET Uuid}
  BY <1>1
<1> QED
  BY <1>2 DEF RequestType

(* A set of numbers has a least one.                                       *)
LEMMA LeastNumber ==
  ASSUME NEW S \in SUBSET Nat, S # {}
  PROVE  \E m \in S : \A n \in S : m <= n
<1> DEFINE Below == {p \in Nat \X Nat : p[1] < p[2]}
<1>1. IsWellFoundedOn(Below, Nat)
  BY NatLessThanWellFounded DEF OpToRel
<1>2. \E m \in S : \A n \in S : ~(<<n, m>> \in Below)
  BY <1>1, WFMin
<1>3. \A m, n \in Nat : n < m => <<n, m>> \in Below
  OBVIOUS
<1> HIDE DEF Below
<1>4. ASSUME NEW m \in S, \A n \in S : ~(<<n, m>> \in Below)
      PROVE  \A n \in S : m <= n
  <2>1. \A n \in S : ~(n < m)
    BY <1>3, <1>4
  <2> QED
    BY <2>1
<1> QED
  BY <1>2, <1>4

(* The slot that the scan finds.                                           *)
LEMMA FirstPlace ==
  ASSUME TypeOK, NEW u, Places(u) # {}
  PROVE  /\ First(u) \in Slot /\ First(u) < count /\ slots[First(u)].uuid = u
         /\ slots[First(u)] \in EntryType
         /\ \A j \in Slot : j < count /\ slots[j].uuid = u => First(u) <= j
<1>1. Places(u) \subseteq Nat
  BY TableAssumption DEF Places, Slot
<1>2. \E m \in Places(u) : \A j \in Places(u) : m <= j
  BY <1>1, LeastNumber
<1>3. First(u) \in Places(u) /\ \A j \in Places(u) : First(u) <= j
  BY <1>2 DEF First
<1> QED
  BY <1>3 DEF Places, TypeOK

(* Nothing that is computed is a cost above the bound.                     *)
LEMMA WeightTypes ==
  ASSUME TypeOK, NEW h \in Handler
  PROVE  /\ \A u \in Uuid : OwnWeight(u) \in Weight
         /\ req[h] \in Advert => Given(req[h]) \in Weight
         /\ \A u \in Uuid : req[h] \in Advert /\ u \in DOMAIN req[h].offer => Via(h, u) \in Weight
<1>1. ASSUME NEW u \in Uuid PROVE OwnWeight(u) \in Weight
  <2>1. CASE Places(u) = {}
    BY <2>1, TableAssumption DEF OwnWeight, Weight
  <2>2. CASE Places(u) # {}
    BY <2>2, FirstPlace DEF OwnWeight, EntryType
  <2> QED
    BY <2>1, <2>2
<1>2. req[h] \in Advert => Given(req[h]) \in Weight
  BY <1>1, AdvertTypes DEF Given, Uuid
<1>3. ASSUME NEW u \in Uuid, req[h] \in Advert, u \in DOMAIN req[h].offer
      PROVE  Via(h, u) \in Weight
  <2>1. given[h] \in 0 .. MaxCost /\ req[h].offer[u] \in 0 .. MaxCost
    BY <1>3, AdvertTypes DEF TypeOK, Weight
  <2> QED
    BY <2>1, TableAssumption DEF Via, Weight
<1> QED
  BY <1>1, <1>2, <1>3

-----------------------------------------------------------------------------
(* A step of h leaves the other threads what they work on.                 *)
LEMMA OthersWork ==
  ASSUME Working, NEW h \in Handler, Works(h)',
         \A g \in Handler \ {h} : /\ pc'[g] = pc[g] /\ req'[g] = req[g]
                                  /\ todo'[g] = todo[g] /\ cur'[g] = cur[g]
  PROVE  Working'
BY DEF Working, Works

(* A request that begins.                                                  *)
LEMMA BeginTypes ==
  ASSUME TypeOK, NEW h \in Handler, NEW r \in RequestType, NEW place \in {"look", "addbump"},
         Begin(h, r, place)
  PROVE  /\ pc[h] = "idle" /\ pc'[h] = place /\ req'[h] = r
         /\ \A g \in Handler \ {h} : pc'[g] = pc[g] /\ req'[g] = req[g]
         /\ pc' = [pc EXCEPT ![h] = place]
         /\ req' \in [Handler -> RequestType]
         /\ begun' \in 0 .. MaxRequests /\ overlap' \in BOOLEAN
<1>1. begun' \in 0 .. MaxRequests
  BY TableAssumption DEF Begin, TypeOK
<1> QED
  BY <1>1 DEF Begin, Goto, TypeOK

(* What an update of network_map is followed by.                           *)
LEMMA MappedTypes ==
  ASSUME TypeOK, NEW h \in Handler, req[h].from \in Uuid, Mapped(h)
  PROVE  /\ pc'[h] = IF req[h].kind = "merge" THEN "given" ELSE "idle"
         /\ req'[h] = IF req[h].kind = "merge" THEN req[h] ELSE NoRequest
         /\ \A g \in Handler \ {h} : pc'[g] = pc[g] /\ req'[g] = req[g]
         /\ req' \in [Handler -> RequestType]
         /\ heard' \subseteq Uuid /\ req[h].from \in heard' /\ heard \subseteq heard'
<1>1. NoRequest \in RequestType
  BY PlainTypes DEF NoRequest
<1>2. req' \in [Handler -> RequestType]
  BY <1>1 DEF Mapped, TypeOK
<1>3. /\ pc'[h] = IF req[h].kind = "merge" THEN "given" ELSE "idle"
      /\ \A g \in Handler \ {h} : pc'[g] = pc[g]
  BY DEF Mapped, Goto, TypeOK
<1>4. /\ req'[h] = IF req[h].kind = "merge" THEN req[h] ELSE NoRequest
      /\ \A g \in Handler \ {h} : req'[g] = req[g]
  BY DEF Mapped, TypeOK
<1>5. heard' = heard \union {req[h].from} /\ heard \subseteq Uuid
  BY DEF Mapped, TypeOK
<1>6. heard' \subseteq Uuid /\ req[h].from \in heard' /\ heard \subseteq heard'
  BY <1>5
<1> QED
  BY <1>2, <1>3, <1>4, <1>6

(* A list without a node that follows another one: nothing else is gone,   *)
(* and the first node stays the first.                                     *)
LEMMA WithoutList ==
  ASSUME NEW list \in Seq(Node), NEW p, NEW x
  PROVE  /\ Without(list, p, x) \in Seq(Node)
         /\ Nodes(list) \subseteq Nodes(Without(list, p, x)) \union {x}
         /\ list # << >> => Without(list, p, x) # << >> /\ Without(list, p, x)[1] = list[1]
         /\ x \notin Nodes(list) => Without(list, p, x) = list
<1> DEFINE after == {i \in DOMAIN list : i > 1 /\ list[i] = x /\ list[i - 1] = p}
<1>1. CASE after = {}
  <2>1. Without(list, p, x) = list
    BY <1>1 DEF Without
  <2> QED
    BY <2>1
<1>2. CASE after # {}
  <2>1. PICK i \in after : i = CHOOSE k \in after : TRUE
    BY <1>2
  <2>2. i \in DOMAIN list /\ i \in Nat /\ i > 1 /\ i <= Len(list) /\ Len(list) \in Nat /\ list[i] = x
    OBVIOUS
  <2> DEFINE rest == [j \in 1 .. Len(list) - 1 |-> IF j < i THEN list[j] ELSE list[j + 1]]
  <2>3. Without(list, p, x) = rest
    BY <1>2, <2>1 DEF Without
  <2>4. Len(list) - 1 \in Nat /\ Len(list) - 1 >= 1
    BY <2>2
  <2>5. \A j \in 1 .. Len(list) - 1 : j \in DOMAIN list /\ j + 1 \in DOMAIN list
    BY <2>2
  <2>6. rest \in Seq(Node) /\ Len(rest) = Len(list) - 1 /\ DOMAIN rest = 1 .. Len(list) - 1
    BY <2>4, <2>5
  <2>7. rest # << >> /\ rest[1] = list[1]
    BY <2>2, <2>4, <2>6
  <2>8. ASSUME NEW k \in DOMAIN list, k # i PROVE \E j \in DOMAIN rest : rest[j] = list[k]
    <3>1. CASE k < i
      <4>1. k \in 1 .. Len(list) - 1 /\ rest[k] = list[k]
        BY <2>2, <3>1
      <4> QED
        BY <2>6, <4>1
    <3>2. CASE k > i
      <4>1. k - 1 \in 1 .. Len(list) - 1 /\ ~(k - 1 < i) /\ (k - 1) + 1 = k
        BY <2>2, <3>2
      <4>2. rest[k - 1] = list[k]
        BY <4>1
      <4> QED
        BY <2>6, <4>1, <4>2
    <3> QED
      BY <2>2, <2>8, <3>1, <3>2
  <2> HIDE DEF rest
  <2>9. Nodes(list) \subseteq Nodes(rest) \union {x}
    BY <2>2, <2>8 DEF Nodes
  <2> QED
    BY <2>2, <2>3, <2>6, <2>7, <2>9 DEF Nodes
<1> QED
  BY <1>1, <1>2

(* The uuids of network_map are uuids.                                     *)
LEMMA KnownTypes ==
  ASSUME TypeOK
  PROVE  Known \subseteq Uuid
<1>1. ASSUME NEW b \in Lists, NEW i \in DOMAIN table[b] PROVE table[b][i].uuid \in Uuid
  <2>1. table[b] \in Seq(Node)
    BY DEF TypeOK
  <2>2. table[b][i] \in Node
    BY <2>1
  <2> QED
    BY <2>2 DEF Node
<1> QED
  BY <1>1 DEF Known, Nodes

(* What a step of an update of network_map leaves alone, and where it goes.*)
LEMMA MapFrame ==
  ASSUME TypeOK, NEW h \in Handler, MapStep(h)
  PROVE  /\ slots' = slots /\ count' = count /\ given' = given /\ todo' = todo
         /\ cur' = cur /\ at' = at /\ begun' = begun /\ overlap' = overlap
         /\ pc[h] \in MapPlaces
         /\ pc'[h] \in (MapPlaces \ {"look"}) \union {"given", "idle"}
         /\ \A g \in Handler \ {h} : pc'[g] = pc[g] /\ req'[g] = req[g]
         /\ DOMAIN pc' = Handler
<1> USE DEF tableVars, mapVars, threadVars, MapPlaces
<1>1. CASE MapLook(h)
  BY <1>1 DEF MapLook, Goto, TypeOK
<1>2. CASE MapFind(h)
  <2>1. /\ pc[h] = "find"
        /\ Goto(h, "search") \/ Goto(h, "cuthead") \/ Goto(h, "cut")
        /\ UNCHANGED <<tableVars, req, given, todo, cur, at, begun, overlap>>
    BY <1>2 DEF MapFind
  <2> QED
    BY <2>1 DEF Goto, TypeOK
<1>3. CASE MapCutHead(h) \/ MapCut(h)
  <2>1. /\ pc[h] \in {"cut", "cuthead"} /\ Goto(h, "search")
        /\ UNCHANGED <<tableVars, req, given, todo, cur, at, begun, overlap>>
    BY <1>3 DEF MapCutHead, MapCut
  <2> QED
    BY <2>1 DEF Goto, TypeOK
<1>4. CASE MapSearch(h) \/ MapLink(h)
  <2>1. /\ pc[h] \in {"search", "link"}
        /\ Mapped(h) \/ (Goto(h, "head") /\ UNCHANGED req)
        /\ UNCHANGED <<tableVars, given, todo, cur, at, begun, overlap>>
    BY <1>4 DEF MapSearch, MapLink
  <2> QED
    BY <2>1 DEF Mapped, Goto, TypeOK
<1>5. CASE MapReadHead(h)
  BY <1>5 DEF MapReadHead, Goto, TypeOK
<1> QED
  BY <1>1, <1>2, <1>3, <1>4, <1>5 DEF MapStep

(* A node that is freed leaves lists and sets of uuids.                    *)
LEMMA FreeTypes ==
  ASSUME TypeOK, NEW h \in Handler, NEW list \in Seq(Node), NEW p, NEW x,
         NEW dropped \in SUBSET Uuid, Free(h, list, p, x, dropped)
  PROVE  /\ table' \in [Lists -> Seq(Node)] /\ seen' \in [Handler -> Seq(Node)]
         /\ lost' \subseteq Uuid /\ astray' \in BOOLEAN
<1>1. << >> \in Seq(Node)
  OBVIOUS
<1>2. CASE Astray
  BY <1>1, <1>2 DEF Astray, EmptyTable, NothingSeen
<1>3. CASE /\ Relist(h, list)
           /\ seen' = [g \in Handler |-> IF g = h THEN << >> ELSE Without(seen[g], p, x)]
           /\ Drop(dropped)
           /\ UNCHANGED astray
  <2>1. \A g \in Handler : Without(seen[g], p, x) \in Seq(Node)
    BY WithoutList DEF TypeOK
  <2>2. seen' \in [Handler -> Seq(Node)]
    BY <1>1, <1>3, <2>1
  <2>3. table' \in [Lists -> Seq(Node)]
    BY <1>3 DEF Relist, TypeOK
  <2>4. lost' \subseteq Uuid
    BY <1>3 DEF Drop, TypeOK
  <2> QED
    BY <1>3, <2>2, <2>3, <2>4 DEF TypeOK
<1> QED
  BY <1>2, <1>3 DEF Free

(* A thread that is at the list of a node: the list and the node it finds. *)
LEMMA ListTypes ==
  ASSUME TypeOK, NEW h \in Handler, req[h].from \in Uuid
  PROVE  /\ Bucket[req[h].from] \in Lists /\ List(h) \in Seq(Node)
         /\ \A i \in DOMAIN List(h) : i > 1 => i - 1 \in DOMAIN List(h)
         /\ \A i \in DOMAIN List(h) : i \in Nat /\ i >= 1 /\ List(h)[i] \in Node
<1>1. Bucket[req[h].from] \in Lists
  BY DEF Lists
<1>2. List(h) \in Seq(Node)
  BY <1>1 DEF List, TypeOK
<1> QED
  BY <1>1, <1>2

(* What MapFind finds.                                                     *)
LEMMA FoundNode ==
  ASSUME TypeOK, NEW h \in Handler, req[h].from \in Uuid, MapFind(h)
  PROVE  \/ pc'[h] = "search" /\ seen' = seen
         \/ /\ pc'[h] = "cuthead" /\ seen' = [seen EXCEPT ![h] = List(h)]
            /\ List(h) # << >> /\ List(h)[1].uuid = req[h].from
         \/ \E p, x \in Node : /\ pc'[h] = "cut" /\ seen' = [seen EXCEPT ![h] = <<p, x>>]
                               /\ x.uuid = req[h].from
<1>1. /\ \A place : Goto(h, place) => pc'[h] = place
  BY DEF Goto, TypeOK
<1>2. CASE Matches(h) = {}
  BY <1>1, <1>2 DEF MapFind
<1>3. CASE Matches(h) # {}
  <2>1. Matches(h) \subseteq Nat
    BY ListTypes DEF Matches
  <2>2. \E m \in Matches(h) : \A j \in Matches(h) : m <= j
    BY <1>3, <2>1, LeastNumber
  <2>3. PICK i \in Matches(h) : i = CHOOSE m \in Matches(h) : \A j \in Matches(h) : m <= j
    BY <2>2
  <2>4. i \in DOMAIN List(h) /\ List(h)[i].uuid = req[h].from
    BY DEF Matches
  <2>5. CASE i = 1
    <3>1. Goto(h, "cuthead") /\ seen' = [seen EXCEPT ![h] = List(h)]
      BY <1>3, <2>3, <2>5 DEF MapFind
    <3>2. List(h) # << >>
      BY <2>4
    <3> QED
      BY <1>1, <2>4, <2>5, <3>1, <3>2
  <2>6. CASE i # 1
    <3>1. Goto(h, "cut") /\ seen' = [seen EXCEPT ![h] = <<List(h)[i - 1], List(h)[i]>>]
      BY <1>3, <2>3, <2>6 DEF MapFind
    <3>2. List(h)[i - 1] \in Node /\ List(h)[i] \in Node
      <4>1. i \in Nat /\ i > 1
        BY <2>4, <2>6, ListTypes
      <4> QED
        BY <2>4, <4>1, ListTypes
    <3> QED
      BY <1>1, <2>4, <3>1, <3>2
  <2> QED
    BY <2>5, <2>6
<1> QED
  BY <1>2, <1>3

(* The node that is put in front of the others.                            *)
LEMMA LinkTypes ==
  ASSUME TypeOK, NEW h \in Handler, req[h].from \in Uuid, MapLink(h)
  PROVE  /\ NewNode(h) \in Node /\ NewNode(h).uuid = req[h].from
         /\ <<NewNode(h)>> \o seen[h] \in Seq(Node)
         /\ Nodes(<<NewNode(h)>> \o seen[h]) = {NewNode(h)} \union Nodes(seen[h])
<1>1. \E i \in Id : i \notin InUse(req[h].from)
  BY DEF MapLink
<1>2. (CHOOSE i \in Id : i \notin InUse(req[h].from)) \in Id
  BY <1>1
<1>3. NewNode(h) \in Node /\ NewNode(h).uuid = req[h].from
  BY <1>2 DEF NewNode, Node
<1>4. seen[h] \in Seq(Node)
  BY DEF TypeOK
<1> DEFINE new == NewNode(h)
<1> HIDE DEF new
<1>5. ASSUME NEW list \in Seq(Node), new \in Node
      PROVE  /\ <<new>> \o list \in Seq(Node)
             /\ Nodes(<<new>> \o list) = {new} \union Nodes(list)
  <2>1. <<new>> \o list \in Seq(Node) /\ Len(<<new>> \o list) = Len(list) + 1
    BY <1>5
  <2>2. (<<new>> \o list)[1] = new /\ 1 \in DOMAIN (<<new>> \o list)
    BY <1>5
  <2>3. \A i \in DOMAIN list : i + 1 \in DOMAIN (<<new>> \o list) /\ (<<new>> \o list)[i + 1] = list[i]
    BY <1>5
  <2>4. \A i \in DOMAIN (<<new>> \o list) :
          i = 1 \/ (i - 1 \in DOMAIN list /\ (<<new>> \o list)[i] = list[i - 1])
    BY <1>5
  <2>5. Nodes(list) \subseteq Nodes(<<new>> \o list) /\ new \in Nodes(<<new>> \o list)
    BY <2>2, <2>3 DEF Nodes
  <2>6. Nodes(<<new>> \o list) \subseteq {new} \union Nodes(list)
    BY <2>2, <2>4 DEF Nodes
  <2> QED
    BY <2>1, <2>5, <2>6
<1> QED
  BY <1>3, <1>4, <1>5 DEF new

(* network_map stays an array of lists.                                    *)
LEMMA MapTypes ==
  ASSUME TypeOK, NEW h \in Handler, req[h].from \in Uuid, MapStep(h)
  PROVE  /\ table' \in [Lists -> Seq(Node)] /\ seen' \in [Handler -> Seq(Node)]
         /\ lost' \subseteq Uuid /\ astray' \in BOOLEAN
<1>1. CASE MapLook(h) \/ MapSearch(h)
  BY <1>1 DEF MapLook, MapSearch, mapVars, TypeOK
<1>2. CASE MapFind(h)
  <2>1. \A p, x \in Node : <<p, x>> \in Seq(Node)
    OBVIOUS
  <2>2. seen' \in [Handler -> Seq(Node)]
    <3>1. \E list \in Seq(Node) : seen' = seen \/ seen' = [seen EXCEPT ![h] = list]
      BY <1>2, <2>1, FoundNode, ListTypes
    <3> QED
      BY <3>1 DEF TypeOK
  <2> QED
    BY <1>2, <2>2 DEF MapFind, TypeOK
<1>3. CASE MapCutHead(h) \/ MapCut(h)
  <2>1. CASE UNCHANGED <<table, seen, lost, astray>>
    BY <2>1 DEF TypeOK
  <2>2. CASE ~ UNCHANGED <<table, seen, lost, astray>>
    <3>1. Known \subseteq Uuid /\ seen[h] \in Seq(Node)
      BY KnownTypes DEF TypeOK
    <3>2. seen[h] # << >>
      BY <1>3, <2>2 DEF MapCutHead, MapCut
    <3>3. Tail(seen[h]) \in Seq(Node) /\ Without(List(h), seen[h][1], seen[h][2]) \in Seq(Node)
      BY <3>1, <3>2, ListTypes, WithoutList
    <3>4. (IF Overtaken(h) THEN Known \ {req[h].from} ELSE {}) \in SUBSET Uuid
      BY <3>1
    <3>5. CASE MapCutHead(h)
      <4>1. Free(h, Tail(seen[h]), Head(seen[h]), Head(seen[h]),
                 IF Overtaken(h) THEN Known \ {req[h].from} ELSE {})
        BY <3>2, <3>5 DEF MapCutHead
      <4> QED
        BY <3>3, <3>4, <4>1, FreeTypes
    <3>6. CASE MapCut(h)
      <4>1. Free(h, Without(List(h), seen[h][1], seen[h][2]), seen[h][1], seen[h][2], {})
        BY <3>2, <3>6 DEF MapCut
      <4> QED
        BY <3>3, <4>1, FreeTypes
    <3> QED
      BY <1>3, <3>5, <3>6
  <2> QED
    BY <2>1, <2>2
<1>4. CASE MapReadHead(h)
  BY <1>4, ListTypes DEF MapReadHead, TypeOK
<1>5. CASE MapLink(h)
  <2>1. CASE astray
    BY <1>5, <2>1 DEF MapLink, TypeOK
  <2>2. CASE ~astray
    <3>1. /\ table' = [table EXCEPT ![Bucket[req[h].from]] = <<NewNode(h)>> \o seen[h]]
          /\ seen' = [seen EXCEPT ![h] = << >>]
          /\ lost' = (lost \union IF Overtaken(h) THEN Known ELSE {}) \ Known'
          /\ astray' = astray
      BY <1>5, <2>2 DEF MapLink, Relist, Drop
    <3>2. table' \in [Lists -> Seq(Node)]
      BY <1>5, <3>1, LinkTypes DEF TypeOK
    <3>3. << >> \in Seq(Node)
      OBVIOUS
    <3>4. seen' \in [Handler -> Seq(Node)]
      BY <3>1, <3>3 DEF TypeOK
    <3>5. lost' \subseteq Uuid
      BY <3>1, KnownTypes DEF TypeOK
    <3> QED
      BY <3>1, <3>2, <3>4, <3>5 DEF TypeOK
  <2> QED
    BY <2>1, <2>2
<1> QED
  BY <1>1, <1>2, <1>3, <1>4, <1>5 DEF MapStep

(* Tables, counts and threads keep their types.                            *)
LEMMA TypeStep ==
  ASSUME TypeOK, Working, [Next]_vars
  PROVE  TypeOK' /\ Working'
<1> USE DEF tableVars, mapVars, threadVars
<1>1. ASSUME NEW h \in Handler, PostLinkState(h) PROVE TypeOK' /\ Working'
  <2>1. PICK r \in Advert : Begin(h, r, "look")
    BY <1>1 DEF PostLinkState
  <2>2. r \in RequestType /\ r.from \in Uuid
    BY AdvertTypes DEF Uuid
  <2>3. /\ pc'[h] = "look" /\ req'[h] = r
        /\ \A g \in Handler \ {h} : pc'[g] = pc[g] /\ req'[g] = req[g]
        /\ pc' = [pc EXCEPT ![h] = "look"]
        /\ req' \in [Handler -> RequestType]
        /\ begun' \in 0 .. MaxRequests /\ overlap' \in BOOLEAN
    BY <2>1, <2>2, BeginTypes
  <2>4. Works(h)'
    BY <2>2, <2>3 DEF Works, Merging, Replaces, MapPlaces
  <2> QED
    BY <1>1, <2>3, <2>4, OthersWork DEF PostLinkState, TypeOK
<1>2. ASSUME NEW h \in Handler, GetMap(h) PROVE TypeOK' /\ Working'
  <2> DEFINE r == [kind |-> "map", from |-> Self, offer |-> << >>]
  <2>1. Begin(h, r, "look")
    BY <1>2 DEF GetMap
  <2>2. r \in RequestType /\ r.from \in Uuid /\ r.kind # "merge"
    BY PlainTypes DEF Uuid
  <2>3. /\ pc'[h] = "look" /\ req'[h] = r
        /\ \A g \in Handler \ {h} : pc'[g] = pc[g] /\ req'[g] = req[g]
        /\ pc' = [pc EXCEPT ![h] = "look"]
        /\ req' \in [Handler -> RequestType]
        /\ begun' \in 0 .. MaxRequests /\ overlap' \in BOOLEAN
    BY <2>1, <2>2, BeginTypes
  <2> HIDE DEF r
  <2>4. Works(h)'
    BY <2>2, <2>3 DEF Works, Merging, Replaces, MapPlaces
  <2> QED
    BY <1>2, <2>3, <2>4, OthersWork DEF GetMap, TypeOK
<1>3. ASSUME NEW h \in Handler, AddNeighbor(h) PROVE TypeOK' /\ Working'
  <2>1. PICK e \in Addable :
          /\ Begin(h, [kind |-> "add", from |-> e.uuid, offer |-> << >>], "addbump")
          /\ slots' = [slots EXCEPT ![count] = e]
    BY <1>3 DEF AddNeighbor
  <2>2. e \in [uuid : Peer, weight : Weight]
    BY TableAssumption
  <2>3. e \in EntryType /\ e.uuid \in Uuid
    BY <2>2 DEF EntryType, Uuid
  <2> DEFINE r == [kind |-> "add", from |-> e.uuid, offer |-> << >>]
  <2>4. r \in RequestType /\ r.from \in Uuid /\ r.kind # "merge"
    BY <2>3, PlainTypes
  <2>5. /\ pc'[h] = "addbump" /\ req'[h] = r
        /\ \A g \in Handler \ {h} : pc'[g] = pc[g] /\ req'[g] = req[g]
        /\ pc' = [pc EXCEPT ![h] = "addbump"]
        /\ req' \in [Handler -> RequestType]
        /\ begun' \in 0 .. MaxRequests /\ overlap' \in BOOLEAN
    BY <2>1, <2>4, BeginTypes
  <2> HIDE DEF r
  <2>6. Works(h)'
    BY <2>4, <2>5 DEF Works, Merging, Replaces, MapPlaces
  <2>7. slots' \in [Slot -> EntryType]
    BY <2>1, <2>3 DEF TypeOK
  <2> QED
    BY <1>3, <2>5, <2>6, <2>7, OthersWork DEF AddNeighbor, TypeOK
<1>4. ASSUME NEW h \in Handler, AddCount(h) PROVE TypeOK' /\ Working'
  <2>1. /\ pc[h] = "addbump" /\ pc'[h] = "look"
        /\ \A g \in Handler \ {h} : pc'[g] = pc[g]
    BY <1>4 DEF AddCount, Goto, TypeOK
  <2>2. Works(h)'
    BY <1>4, <2>1 DEF AddCount, Working, Works, Merging, Replaces, MapPlaces
  <2> QED
    BY <1>4, <2>1, <2>2, OthersWork DEF AddCount, Goto, TypeOK
<1>5. ASSUME NEW h \in Handler, MapStep(h) PROVE TypeOK' /\ Working'
  <2>1. /\ pc[h] \in MapPlaces
        /\ pc'[h] \in (MapPlaces \ {"look"}) \union {"given", "idle"}
        /\ \A g \in Handler \ {h} : pc'[g] = pc[g] /\ req'[g] = req[g]
        /\ slots' = slots /\ count' = count /\ given' = given /\ todo' = todo
        /\ cur' = cur /\ at' = at /\ begun' = begun /\ overlap' = overlap
        /\ DOMAIN pc' = Handler
    BY <1>5, MapFrame
  <2>2. req[h].from \in Uuid /\ (req[h].kind = "merge" => req[h] \in Advert)
    BY <2>1 DEF Working, Works, Replaces
  <2>3. /\ table' \in [Lists -> Seq(Node)] /\ seen' \in [Handler -> Seq(Node)]
        /\ lost' \subseteq Uuid /\ astray' \in BOOLEAN
    BY <1>5, <2>2, MapTypes
  <2>4. /\ req' \in [Handler -> RequestType] /\ heard' \subseteq Uuid
        /\ Works(h)'
    <3>1. CASE Mapped(h)
      <4>1. /\ pc'[h] = IF req[h].kind = "merge" THEN "given" ELSE "idle"
            /\ req'[h] = IF req[h].kind = "merge" THEN req[h] ELSE NoRequest
            /\ req' \in [Handler -> RequestType] /\ heard' \subseteq Uuid
        BY <2>2, <3>1, MappedTypes
      <4> QED
        BY <2>2, <4>1 DEF Works, Merging, Replaces, MapPlaces
    <3>2. CASE ~Mapped(h)
      <4>1. req' = req /\ heard' = heard
        BY <1>5, <3>2 DEF MapStep, MapLook, MapFind, MapCutHead, MapCut, MapSearch,
                          MapReadHead, MapLink
      <4>2. pc'[h] \in MapPlaces
        BY <1>5, <3>2 DEF MapStep, MapLook, MapFind, MapCutHead, MapCut, MapSearch,
                          MapReadHead, MapLink, Goto, MapPlaces, TypeOK
      <4>3. Works(h)'
        BY <2>2, <4>1, <4>2 DEF Works, Merging, Replaces, MapPlaces
      <4> QED
        BY <4>1, <4>3 DEF TypeOK
    <3> QED
      BY <3>1, <3>2
  <2>5. pc' \in [Handler -> MapPlaces \union Merging \union {"idle", "addbump"}]
    <3>1. pc' = [g \in Handler |-> pc'[g]]
      BY <1>5 DEF MapStep, MapLook, MapFind, MapCutHead, MapCut, MapSearch, MapReadHead,
                  MapLink, Mapped, Goto, TypeOK
    <3>2. \A g \in Handler : pc'[g] \in MapPlaces \union Merging \union {"idle", "addbump"}
      BY <2>1 DEF TypeOK, MapPlaces, Merging
    <3> QED
      BY <3>1, <3>2
  <2>6. Working'
    BY <2>1, <2>4, OthersWork
  <2> QED
    BY <2>1, <2>3, <2>4, <2>5, <2>6 DEF TypeOK, MapPlaces, Merging
<1>8. ASSUME NEW h \in Handler, ReadGiven(h) PROVE TypeOK' /\ Working'
  <2>1. req[h] \in Advert /\ DOMAIN req[h].offer \ {Self} \subseteq Peer
    BY <1>8, AdvertTypes DEF ReadGiven, Working, Works, Merging, Uuid
  <2>2. /\ pc'[h] = "loop" /\ todo'[h] = DOMAIN req[h].offer \ {Self}
        /\ \A g \in Handler \ {h} : pc'[g] = pc[g] /\ todo'[g] = todo[g]
    BY <1>8 DEF ReadGiven, Goto, TypeOK
  <2>3. given' \in [Handler -> Weight]
    BY <1>8, <2>1, WeightTypes DEF ReadGiven, TypeOK
  <2>4. Works(h)'
    BY <1>8, <2>1, <2>2 DEF ReadGiven, Works, Merging, Replaces, MapPlaces
  <2> QED
    BY <1>8, <2>1, <2>2, <2>3, <2>4, OthersWork DEF ReadGiven, Goto, TypeOK
<1>9. ASSUME NEW h \in Handler, pc[h] = "loop", NEW u \in todo[h],
             FindNew(h), cur' = [cur EXCEPT ![h] = u]
      PROVE  TypeOK' /\ Working'
  <2>1. u \in DOMAIN req[h].offer \ {Self} /\ req[h] \in Advert /\ u \in Peer
    BY <1>9 DEF Working, Works, Merging, TypeOK
  <2>2. /\ pc'[h] = "take" /\ cur'[h] = u
        /\ \A g \in Handler \ {h} : pc'[g] = pc[g] /\ cur'[g] = cur[g]
    BY <1>9 DEF FindNew, Goto, TypeOK
  <2>3. Works(h)'
    BY <1>9, <2>1, <2>2 DEF FindNew, Working, Works, Merging, Replaces, MapPlaces
  <2> QED
    BY <1>9, <2>1, <2>2, <2>3, OthersWork DEF FindNew, Goto, TypeOK
<1>10. ASSUME NEW h \in Handler, FindFull(h) PROVE TypeOK' /\ Working'
  <2>1. PICK left \in SUBSET todo[h] : todo' = [todo EXCEPT ![h] = left]
    BY <1>10 DEF FindFull
  <2>2. /\ todo'[h] \subseteq todo[h] /\ todo' \in [Handler -> SUBSET Peer]
        /\ \A g \in Handler \ {h} : todo'[g] = todo[g]
    BY <2>1 DEF TypeOK
  <2>3. Works(h)'
    BY <1>10, <2>2 DEF FindFull, Working, Works, Merging, Replaces, MapPlaces
  <2> QED
    BY <1>10, <2>2, <2>3, OthersWork DEF FindFull, TypeOK
<1>11. ASSUME NEW h \in Handler, FindKnown(h) PROVE TypeOK' /\ Working'
  <2>1. PICK u \in todo[h] :
          /\ Places(u) # {}
          /\ Done(h, u)
          /\ IF u # req[h].from /\ Via(h, u) < slots[First(u)].weight
             THEN /\ cur' = [cur EXCEPT ![h] = u]
                  /\ at' = [at EXCEPT ![h] = First(u)]
                  /\ Goto(h, "lower")
             ELSE UNCHANGED <<cur, at, pc>>
    BY <1>11 DEF FindKnown
  <2>2. /\ todo'[h] \subseteq todo[h] /\ todo' \in [Handler -> SUBSET Peer]
        /\ \A g \in Handler \ {h} : todo'[g] = todo[g]
    BY <2>1 DEF Done, TypeOK
  <2>3. u \in DOMAIN req[h].offer \ {Self} /\ u \in Peer
    BY <1>11 DEF FindKnown, Working, Works, Merging, TypeOK
  <2>4. First(u) \in Slot
    BY <2>1, FirstPlace
  <2>5. CASE UNCHANGED <<cur, at, pc>>
    <3>1. Works(h)'
      BY <1>11, <2>2, <2>5 DEF FindKnown, Working, Works, Merging, Replaces, MapPlaces
    <3> QED
      BY <1>11, <2>2, <2>5, <3>1, OthersWork DEF FindKnown, TypeOK
  <2>6. CASE /\ cur' = [cur EXCEPT ![h] = u]
             /\ at' = [at EXCEPT ![h] = First(u)]
             /\ Goto(h, "lower")
    <3>1. /\ pc'[h] = "lower" /\ cur'[h] = u
          /\ \A g \in Handler \ {h} : pc'[g] = pc[g] /\ cur'[g] = cur[g]
      BY <2>6 DEF Goto, TypeOK
    <3>2. Works(h)'
      BY <1>11, <2>2, <2>3, <3>1 DEF FindKnown, Working, Works, Merging, Replaces, MapPlaces
    <3>3. /\ pc' \in [Handler -> MapPlaces \union Merging \union {"idle", "addbump"}]
          /\ cur' \in [Handler -> Peer \union {Blank}] /\ at' \in [Handler -> Slot]
      BY <2>3, <2>4, <2>6 DEF Goto, TypeOK, MapPlaces, Merging
    <3> QED
      BY <1>11, <2>2, <3>1, <3>2, <3>3, OthersWork DEF FindKnown, TypeOK, MapPlaces, Merging
  <2> QED
    BY <2>1, <2>5, <2>6
<1>12. ASSUME NEW h \in Handler, TakeSlot(h) \/ BumpCount(h) PROVE TypeOK' /\ Working'
  <2>1. /\ pc[h] \in {"take", "bump"} /\ pc'[h] \in {"bump", "uuid"}
        /\ \A g \in Handler \ {h} : pc'[g] = pc[g]
    BY <1>12 DEF TakeSlot, BumpCount, Goto, TypeOK
  <2>2. Works(h)'
    BY <1>12, <2>1 DEF TakeSlot, BumpCount, Working, Works, Merging, Replaces, MapPlaces
  <2>3. at' \in [Handler -> Slot] /\ count' \in Nat
    <3>1. at[h] \in Nat /\ (TakeSlot(h) => count \in Slot)
      BY TableAssumption DEF TakeSlot, Slot, TypeOK
    <3>2. CASE TakeSlot(h)
      BY <3>1, <3>2 DEF TakeSlot, TypeOK
    <3>3. CASE BumpCount(h)
      BY <3>1, <3>3 DEF BumpCount, TypeOK
    <3> QED
      BY <1>12, <3>2, <3>3
  <2> QED
    BY <1>12, <2>1, <2>2, <2>3, OthersWork DEF TakeSlot, BumpCount, Goto, TypeOK
<1>13. ASSUME NEW h \in Handler, FillUuid(h) PROVE TypeOK' /\ Working'
  <2>1. /\ pc[h] = "uuid" /\ pc'[h] = "weight"
        /\ \A g \in Handler \ {h} : pc'[g] = pc[g]
    BY <1>13 DEF FillUuid, Goto, TypeOK
  <2>2. Works(h)'
    BY <1>13, <2>1 DEF FillUuid, Working, Works, Merging, Replaces, MapPlaces
  <2>3. slots' \in [Slot -> EntryType]
    <3>1. slots[at[h]] \in EntryType /\ cur[h] \in Uuid \union {Blank}
      BY DEF TypeOK, Uuid
    <3>2. [slots[at[h]] EXCEPT !.uuid = cur[h]] \in EntryType
      BY <3>1 DEF EntryType
    <3> QED
      BY <1>13, <3>2 DEF FillUuid, TypeOK
  <2> QED
    BY <1>13, <2>1, <2>2, <2>3, OthersWork DEF FillUuid, Goto, TypeOK
<1>14. ASSUME NEW h \in Handler, FillWeight(h) \/ LowerWeight(h) PROVE TypeOK' /\ Working'
  <2>1. /\ pc[h] \in {"weight", "lower"} /\ pc'[h] = "loop"
        /\ \A g \in Handler \ {h} : pc'[g] = pc[g]
    BY <1>14 DEF FillWeight, LowerWeight, Goto, TypeOK
  <2>2. /\ todo'[h] \subseteq todo[h] /\ todo' \in [Handler -> SUBSET Peer]
        /\ \A g \in Handler \ {h} : todo'[g] = todo[g]
    <3>1. todo' = [todo EXCEPT ![h] = @ \ {cur[h]}] \/ todo' = todo
      BY <1>14 DEF FillWeight, LowerWeight, Done
    <3> QED
      BY <3>1 DEF TypeOK
  <2>3. Works(h)'
    BY <1>14, <2>1, <2>2 DEF FillWeight, LowerWeight, Working, Works, Merging, Replaces, MapPlaces
  <2>4. slots' \in [Slot -> EntryType]
    <3>1. req[h] \in Advert /\ cur[h] \in DOMAIN req[h].offer
      BY <2>1 DEF Working, Works, Merging
    <3>2. slots[at[h]] \in EntryType /\ Via(h, cur[h]) \in Weight
      BY <3>1, AdvertTypes, WeightTypes DEF TypeOK
    <3>3. [slots[at[h]] EXCEPT !.weight = Via(h, cur[h])] \in EntryType
      BY <3>2 DEF EntryType
    <3> QED
      BY <1>14, <3>3 DEF FillWeight, LowerWeight, TypeOK
  <2> QED
    BY <1>14, <2>1, <2>2, <2>3, <2>4, OthersWork DEF FillWeight, LowerWeight, Goto, TypeOK
<1>15. ASSUME NEW h \in Handler, Finish(h) PROVE TypeOK' /\ Working'
  <2>1. /\ pc'[h] = "idle"
        /\ \A g \in Handler \ {h} : pc'[g] = pc[g] /\ req'[g] = req[g]
    BY <1>15 DEF Finish, Goto, TypeOK
  <2>2. req' \in [Handler -> RequestType]
    BY <1>15, PlainTypes DEF Finish, NoRequest, TypeOK
  <2>3. Works(h)'
    BY <2>1 DEF Works, Merging, Replaces, MapPlaces
  <2> QED
    BY <1>15, <2>1, <2>2, <2>3, OthersWork DEF Finish, Goto, TypeOK
<1>16. CASE UNCHANGED vars
  BY <1>16 DEF vars, TypeOK, Working, Works
<1>17. ASSUME NEW h \in Handler, FindNew(h) PROVE TypeOK' /\ Working'
  BY <1>9, <1>17 DEF FindNew
<1> QED
  BY <1>1, <1>2, <1>3, <1>4, <1>5, <1>8, <1>10, <1>11, <1>12, <1>13, <1>14,
     <1>15, <1>16, <1>17 DEF Next, MapStep

(* The peers of node.conf.                                                 *)
LEMMA ConfTypes ==
  /\ Len(Conf) \in Nat /\ DOMAIN Conf = 1 .. Len(Conf)
  /\ \A k \in 1 .. Len(Conf) : Conf[k] \in [uuid : Peer, weight : Weight]
<1> DEFINE S == [uuid : Peer, weight : Weight]
<1>1. Conf \in Seq(S)
  BY TableAssumption
<1> HIDE DEF S
<1>2. /\ Len(Conf) \in Nat /\ DOMAIN Conf = 1 .. Len(Conf)
      /\ \A k \in 1 .. Len(Conf) : Conf[k] \in S
  BY <1>1
<1> QED
  BY <1>2 DEF S

(* The table that node.conf gives is of the right types.                   *)
LEMMA InitTypes == Init => TypeOK /\ Working
<1> SUFFICES ASSUME Init PROVE TypeOK /\ Working
  OBVIOUS
<1>1. slots \in [Slot -> EntryType]
  <2>1. ASSUME NEW i \in Slot, i < Len(Conf) PROVE Conf[i + 1] \in EntryType
    <3>1. i + 1 \in 1 .. Len(Conf)
      BY <2>1, ConfTypes DEF Slot
    <3>2. Conf[i + 1] \in [uuid : Peer, weight : Weight]
      BY <3>1, ConfTypes
    <3> QED
      BY <3>2 DEF EntryType, Uuid
  <2>2. [uuid |-> Blank, weight |-> 0] \in EntryType
    BY TableAssumption DEF EntryType, Weight
  <2> QED
    BY <2>1, <2>2 DEF Init
<1>2. count \in Nat /\ begun \in 0 .. MaxRequests
  BY TableAssumption DEF Init
<1>3. 0 \in Weight /\ 0 \in Slot
  BY TableAssumption DEF Weight, Slot
<1>4. req \in [Handler -> RequestType]
  BY PlainTypes DEF Init, NoRequest
<1>5. table \in [Lists -> Seq(Node)] /\ seen \in [Handler -> Seq(Node)]
  <2>1. << >> \in Seq(Node)
    OBVIOUS
  <2> QED
    BY <2>1 DEF Init, EmptyTable, NothingSeen
<1>6. TypeOK
  BY <1>1, <1>2, <1>3, <1>4, <1>5 DEF Init, TypeOK
<1>7. Working
  BY DEF Init, Working, Works, Merging, Replaces, MapPlaces
<1> QED
  BY <1>6, <1>7

-----------------------------------------------------------------------------
(* What a thread that is about to take a node out has read: the node, and  *)
(* the nodes from it on or the one before it.                              *)
Cutting(h) ==
  seen[h] # << >> => /\ pc[h] = "cuthead" => seen[h][1].uuid = req[h].from
                     /\ pc[h] = "cut" => Len(seen[h]) = 2 /\ seen[h][2].uuid = req[h].from
MissingInv == MissingWhileReplaced /\ \A h \in Handler : Cutting(h)

Putting == {"search", "head", "link"}
PutBy(u) == \E h \in Handler : pc[h] \in Putting /\ req[h].from = u

(* The property in these words.                                            *)
LEMMA MissingIs ==
  MissingWhileReplaced <=> (~astray => \A u \in heard : u \in Known \/ u \in lost \/ PutBy(u))
BY DEF MissingWhileReplaced, PutBy, Putting

(* The same after a step.                                                  *)
LEMMA MissingIsThen ==
  (MissingWhileReplaced <=> (~astray => \A u \in heard : u \in Known \/ u \in lost \/ PutBy(u)))'
BY MissingIs, PTL

(* A step of h that is not at network_map.                                 *)
LEMMA MissingFrame ==
  ASSUME MissingInv, NEW h \in Handler, UNCHANGED <<table, seen, heard, lost, astray>>,
         pc[h] \notin Putting, pc'[h] \notin {"cut", "cuthead"},
         \A g \in Handler \ {h} : pc'[g] = pc[g] /\ req'[g] = req[g]
  PROVE  MissingInv'
<1>1. Known' = Known
  BY DEF Known
<1>2. \A u : PutBy(u) => PutBy(u)'
  BY DEF PutBy
<1>3. MissingWhileReplaced'
  BY <1>1, <1>2, MissingIs, MissingIsThen DEF MissingInv
<1>4. \A g \in Handler : Cutting(g)'
  BY DEF MissingInv, Cutting
<1> QED
  BY <1>3, <1>4 DEF MissingInv

(* A step of h that takes nothing out but nodes of its own uuid, and then  *)
(* puts that uuid in or is on the way to it.                               *)
LEMMA MissingMap ==
  ASSUME TypeOK, MissingInv, NEW h \in Handler, ~astray' => ~astray,
         \A g \in Handler \ {h} : pc'[g] = pc[g] /\ req'[g] = req[g],
         ~astray' => Known \union lost \subseteq Known' \union lost' \union {req[h].from},
         ~astray' => heard' \subseteq heard \union {req[h].from},
         \/ astray' \/ req[h].from \in Known'
         \/ \E g \in Handler : pc'[g] \in Putting /\ req'[g].from = req[h].from
         \/ /\ heard' = heard /\ pc[h] \notin Putting
            /\ Known \union lost \subseteq Known' \union lost'
  PROVE  MissingWhileReplaced'
<1> SUFFICES ASSUME ~astray', NEW u \in heard'
             PROVE  u \in Known' \/ u \in lost' \/ PutBy(u)'
  BY MissingIsThen
<1>1. \A v \in heard : v \in Known \/ v \in lost \/ PutBy(v)
  BY MissingIs DEF MissingInv
<1>2. CASE u # req[h].from
  <2>1. PutBy(u) => PutBy(u)'
    BY <1>2 DEF PutBy
  <2> QED
    BY <1>1, <1>2, <2>1
<1>3. CASE /\ u = req[h].from
           /\ \/ u \in Known'
              \/ \E g \in Handler : pc'[g] \in Putting /\ req'[g].from = req[h].from
  BY <1>3 DEF PutBy
<1>4. CASE /\ u = req[h].from /\ heard' = heard /\ pc[h] \notin Putting
           /\ Known \union lost \subseteq Known' \union lost'
  <2>1. PutBy(u) => PutBy(u)'
    BY <1>4 DEF PutBy
  <2> QED
    BY <1>1, <1>4, <2>1
<1> QED
  BY <1>2, <1>3, <1>4

(* A thread that has read a node and is at it is still at it when another  *)
(* thread has freed one: it was not that one.                              *)
LEMMA CuttingStays ==
  ASSUME TypeOK, NEW g \in Handler, Cutting(g), NEW p, NEW x, ~Held(g, p, x),
         seen'[g] = Without(seen[g], p, x), pc'[g] = pc[g], req'[g] = req[g]
  PROVE  Cutting(g)'
<1>1. seen[g] \in Seq(Node)
  BY DEF TypeOK
<1>2. CASE pc[g] = "cut"
  <2>1. seen'[g] = seen[g]
    BY <1>1, <1>2, WithoutList DEF Held
  <2> QED
    BY <2>1 DEF Cutting
<1>3. CASE pc[g] = "cuthead"
  <2>1. CASE seen[g] = << >>
    <3>1. Nodes(seen[g]) = {}
      BY <2>1 DEF Nodes
    <3>2. seen'[g] = seen[g]
      BY <1>1, <3>1, WithoutList
    <3> QED
      BY <2>1, <3>2 DEF Cutting
  <2>2. CASE seen[g] # << >>
    BY <1>1, <1>3, <2>2, WithoutList DEF Cutting
  <2> QED
    BY <2>1, <2>2
<1> QED
  BY <1>2, <1>3 DEF Cutting

(* A node of h's uuid is taken out of h's list and freed.                  *)
LEMMA MissingFree ==
  ASSUME TypeOK, MissingInv, NEW h \in Handler, req[h].from \in Uuid,
         NEW list \in Seq(Node), NEW p, NEW x, x.uuid = req[h].from,
         NEW dropped, Free(h, list, p, x, dropped),
         \A y \in Nodes(List(h)) \ {x} :
           y \in Nodes(list) \/ Known \subseteq dropped \union {req[h].from},
         pc'[h] = "search", req' = req, heard' = heard,
         \A g \in Handler \ {h} : pc'[g] = pc[g]
  PROVE  MissingInv'
<1>1. CASE Astray
  <2>1. MissingWhileReplaced'
    BY <1>1, MissingIsThen DEF Astray
  <2>2. \A g \in Handler : Cutting(g)'
    BY <1>1 DEF Astray, NothingSeen, Cutting
  <2> QED
    BY <2>1, <2>2 DEF MissingInv
<1>2. CASE ~Astray
  <2>1. /\ table' = [table EXCEPT ![Bucket[req[h].from]] = list]
        /\ seen' = [g \in Handler |-> IF g = h THEN << >> ELSE Without(seen[g], p, x)]
        /\ lost' = (lost \union dropped) \ Known'
        /\ astray' = astray
        /\ \A g \in Handler \ {h} : ~Held(g, p, x)
    BY <1>2 DEF Free, Relist, Drop
  <2>2. Known \subseteq Known' \union dropped \union {req[h].from}
    <3> SUFFICES ASSUME NEW b \in Lists, NEW y \in Nodes(table[b])
                 PROVE  y.uuid \in Known' \union dropped \union {req[h].from}
      BY DEF Known
    <3>1. y.uuid \in Known
      BY DEF Known
    <3>2. CASE b # Bucket[req[h].from]
      <4>1. table'[b] = table[b]
        BY <2>1, <3>2 DEF TypeOK
      <4> QED
        BY <4>1 DEF Known
    <3>3. CASE b = Bucket[req[h].from]
      <4>1. table'[b] = list /\ y \in Nodes(List(h))
        BY <2>1, <3>3 DEF TypeOK, List
      <4>2. CASE y = x
        BY <4>2
      <4>3. CASE y \in Nodes(list)
        BY <4>1, <4>3 DEF Known
      <4> QED
        BY <3>1, <4>1, <4>2, <4>3
    <3> QED
      BY <3>2, <3>3
  <2>3. Known \union lost \subseteq Known' \union lost' \union {req[h].from}
    BY <2>1, <2>2
  <2>4. \E g \in Handler : pc'[g] \in Putting /\ req'[g].from = req[h].from
    BY DEF Putting
  <2>5. MissingWhileReplaced'
    BY <2>1, <2>3, <2>4, MissingMap
  <2>6. ASSUME NEW g \in Handler PROVE Cutting(g)'
    <3>1. CASE g = h
      BY <3>1 DEF Cutting
    <3>2. CASE g # h
      BY <2>1, <3>2, CuttingStays DEF MissingInv
    <3> QED
      BY <3>1, <3>2
  <2> QED
    BY <2>5, <2>6 DEF MissingInv
<1> QED
  BY <1>1, <1>2

(* The steps at network_map.                                               *)
LEMMA MissingAtMap ==
  ASSUME TypeOK, Working, MissingInv, NEW h \in Handler, MapStep(h)
  PROVE  MissingInv'
<1>1. /\ pc[h] \in MapPlaces
      /\ \A g \in Handler \ {h} : pc'[g] = pc[g] /\ req'[g] = req[g]
  BY MapFrame
<1>2. req[h].from \in Uuid
  BY <1>1 DEF Working, Works, Replaces
<1>3. \A place : Goto(h, place) => pc'[h] = place
  BY DEF Goto, TypeOK
<1>4. CASE MapLook(h)
  <2>1. /\ pc[h] = "look" /\ pc'[h] \in {"find", "search"}
        /\ UNCHANGED <<table, seen, heard, lost, astray>>
    BY <1>3, <1>4 DEF MapLook, mapVars
  <2> QED
    BY <1>1, <2>1, MissingFrame DEF Putting
<1>5. CASE MapFind(h)
  <2>1. /\ pc[h] = "find" /\ req' = req /\ UNCHANGED <<table, heard, lost, astray>>
    BY <1>5 DEF MapFind
  <2>2. Known' = Known
    BY <2>1 DEF Known
  <2>3. MissingWhileReplaced'
    BY <1>1, <2>1, <2>2, MissingMap DEF Putting
  <2>4. \A g \in Handler \ {h} : seen'[g] = seen[g]
    BY <1>2, <1>5, FoundNode DEF TypeOK
  <2>5. Cutting(h)'
    <3>1. CASE pc'[h] = "search"
      BY <3>1 DEF Cutting
    <3>2. CASE pc'[h] # "search"
      <4>1. \A list : seen' = [seen EXCEPT ![h] = list] => seen'[h] = list
        BY DEF TypeOK
      <4>2. CASE /\ pc'[h] = "cuthead" /\ seen' = [seen EXCEPT ![h] = List(h)]
                 /\ List(h)[1].uuid = req[h].from
        <5>1. seen'[h] = List(h)
          BY <4>1, <4>2
        <5> QED
          BY <2>1, <4>2, <5>1 DEF Cutting
      <4>3. ASSUME NEW p \in Node, NEW x \in Node, pc'[h] = "cut",
                   seen' = [seen EXCEPT ![h] = <<p, x>>], x.uuid = req[h].from
            PROVE  Cutting(h)'
        <5>1. seen'[h] = <<p, x>>
          BY <4>1, <4>3
        <5> QED
          BY <2>1, <4>3, <5>1 DEF Cutting
      <4> QED
        BY <1>2, <1>5, <3>2, <4>2, <4>3, FoundNode
    <3> QED
      BY <3>1, <3>2
  <2>6. \A g \in Handler : Cutting(g)'
    BY <1>1, <2>4, <2>5 DEF MissingInv, Cutting
  <2> QED
    BY <2>3, <2>6 DEF MissingInv
<1>6. CASE (MapCutHead(h) \/ MapCut(h)) /\ UNCHANGED <<table, seen, lost, astray>>
  <2>1. pc'[h] = "search" /\ heard' = heard /\ req' = req
    BY <1>3, <1>6 DEF MapCutHead, MapCut
  <2>2. Known' = Known
    BY <1>6 DEF Known
  <2>3. \E g \in Handler : pc'[g] \in Putting /\ req'[g].from = req[h].from
    BY <2>1 DEF Putting
  <2>4. MissingWhileReplaced'
    BY <1>1, <1>6, <2>1, <2>2, <2>3, MissingMap
  <2>5. \A g \in Handler : Cutting(g)'
    BY <1>1, <1>6, <2>1 DEF MissingInv, Cutting
  <2> QED
    BY <2>4, <2>5 DEF MissingInv
<1>7. CASE MapCutHead(h) /\ ~ UNCHANGED <<table, seen, lost, astray>>
  <2>1. /\ pc[h] = "cuthead" /\ pc'[h] = "search" /\ req' = req /\ heard' = heard
        /\ seen[h] # << >> /\ seen[h] \in Seq(Node)
    BY <1>3, <1>7 DEF MapCutHead, TypeOK
  <2>2. PICK x : x = Head(seen[h])
    OBVIOUS
  <2>3. PICK dropped : dropped = IF Overtaken(h) THEN Known \ {req[h].from} ELSE {}
    OBVIOUS
  <2>4. Free(h, Tail(seen[h]), x, x, dropped)
    BY <1>7, <2>1, <2>2, <2>3 DEF MapCutHead
  <2>5. x.uuid = req[h].from
    BY <2>1, <2>2 DEF MissingInv, Cutting
  <2>6. Nodes(seen[h]) \subseteq Nodes(Tail(seen[h])) \union {x}
    <3>1. Tail(seen[h]) \in Seq(Node) /\ Len(Tail(seen[h])) = Len(seen[h]) - 1
      BY <2>1
    <3>2. ASSUME NEW i \in DOMAIN seen[h], i # 1 PROVE seen[h][i] \in Nodes(Tail(seen[h]))
      <4>1. i - 1 \in DOMAIN Tail(seen[h]) /\ Tail(seen[h])[i - 1] = seen[h][i]
        BY <2>1, <3>1, <3>2
      <4> QED
        BY <4>1 DEF Nodes
    <3>3. x = seen[h][1]
      BY <2>1, <2>2
    <3> QED
      BY <3>2, <3>3 DEF Nodes
  <2>7. \A y \in Nodes(List(h)) \ {x} :
          y \in Nodes(Tail(seen[h])) \/ Known \subseteq dropped \union {req[h].from}
    BY <2>3, <2>6 DEF Overtaken
  <2>8. Tail(seen[h]) \in Seq(Node)
    BY <2>1
  <2> QED
    BY <1>1, <1>2, <2>1, <2>4, <2>5, <2>7, <2>8, MissingFree
<1>8. CASE MapCut(h) /\ ~ UNCHANGED <<table, seen, lost, astray>>
  <2>1. /\ pc[h] = "cut" /\ pc'[h] = "search" /\ req' = req /\ heard' = heard
        /\ seen[h] # << >>
    BY <1>3, <1>8 DEF MapCut
  <2>2. PICK p, x : p = seen[h][1] /\ x = seen[h][2]
    OBVIOUS
  <2>3. Free(h, Without(List(h), p, x), p, x, {})
    BY <1>8, <2>1, <2>2 DEF MapCut
  <2>4. x.uuid = req[h].from
    BY <2>1, <2>2 DEF MissingInv, Cutting
  <2>5. /\ Without(List(h), p, x) \in Seq(Node)
        /\ \A y \in Nodes(List(h)) \ {x} : y \in Nodes(Without(List(h), p, x))
    BY <1>2, ListTypes, WithoutList
  <2> QED
    BY <1>1, <1>2, <2>1, <2>3, <2>4, <2>5, MissingFree
<1>9. CASE MapReadHead(h)
  <2>1. /\ pc'[h] = "link" /\ req' = req /\ UNCHANGED <<table, heard, lost, astray>>
        /\ \A g \in Handler \ {h} : seen'[g] = seen[g]
    BY <1>3, <1>9 DEF MapReadHead, TypeOK
  <2>2. Known' = Known
    BY <2>1 DEF Known
  <2>3. \E g \in Handler : pc'[g] \in Putting /\ req'[g].from = req[h].from
    BY <2>1 DEF Putting
  <2>4. MissingWhileReplaced'
    BY <1>1, <2>1, <2>2, <2>3, MissingMap
  <2>5. \A g \in Handler : Cutting(g)'
    BY <1>1, <2>1 DEF MissingInv, Cutting
  <2> QED
    BY <2>4, <2>5 DEF MissingInv
<1>10. CASE MapSearch(h)
  <2>1. UNCHANGED <<table, seen, lost, astray>>
    BY <1>10 DEF MapSearch
  <2>2. Known' = Known
    BY <2>1 DEF Known
  <2>3. /\ pc'[h] \notin {"cut", "cuthead"}
        /\ \/ astray \/ req[h].from \in Known
           \/ pc'[h] = "head" /\ req' = req /\ heard' = heard
        /\ heard' \subseteq heard \union {req[h].from}
    BY <1>3, <1>10 DEF MapSearch, Finds, Mapped
  <2>4. \/ astray' \/ req[h].from \in Known'
        \/ \E g \in Handler : pc'[g] \in Putting /\ req'[g].from = req[h].from
    BY <2>1, <2>2, <2>3 DEF Putting
  <2>5. MissingWhileReplaced'
    BY <1>1, <2>1, <2>2, <2>3, <2>4, MissingMap
  <2>6. \A g \in Handler : Cutting(g)'
    BY <1>1, <2>1, <2>3 DEF MissingInv, Cutting
  <2> QED
    BY <2>5, <2>6 DEF MissingInv
<1>11. CASE MapLink(h)
  <2>1. pc'[h] \in {"given", "idle"} /\ heard' = heard \union {req[h].from} /\ astray' = astray
    BY <1>3, <1>11 DEF MapLink, Mapped
  <2>2. CASE astray
    <3>1. seen' = seen
      BY <1>11, <2>2 DEF MapLink
    <3>2. \A g \in Handler : Cutting(g)'
      BY <1>1, <2>1, <3>1 DEF MissingInv, Cutting
    <3> QED
      BY <2>1, <2>2, <3>2, MissingIsThen DEF MissingInv
  <2>3. CASE ~astray
    <3>1. PICK new, b0 : new = NewNode(h) /\ b0 = Bucket[req[h].from]
      OBVIOUS
    <3>2. /\ table' = [table EXCEPT ![b0] = <<new>> \o seen[h]]
          /\ seen' = [seen EXCEPT ![h] = << >>]
          /\ lost' = (lost \union IF Overtaken(h) THEN Known ELSE {}) \ Known'
      BY <1>11, <2>3, <3>1 DEF MapLink, Relist, Drop
    <3>3. /\ new.uuid = req[h].from /\ b0 \in Lists
          /\ Nodes(<<new>> \o seen[h]) = {new} \union Nodes(seen[h])
      BY <1>2, <1>11, <3>1, LinkTypes, ListTypes
    <3>4. \A b \in Lists : table'[b] = IF b = b0 THEN <<new>> \o seen[h] ELSE table[b]
      BY <3>2 DEF TypeOK
    <3>5. req[h].from \in Known'
      <4>1. new \in Nodes(table'[b0])
        BY <3>3, <3>4
      <4> QED
        BY <3>3, <4>1 DEF Known
    <3>6. ASSUME ~Overtaken(h) PROVE Known \subseteq Known'
      <4>1. \A b \in Lists : Nodes(table[b]) \subseteq Nodes(table'[b])
        BY <3>1, <3>3, <3>4, <3>6 DEF Overtaken, List
      <4> QED
        BY <4>1 DEF Known
    <3>7. Known \union lost \subseteq Known' \union lost'
      BY <3>2, <3>6
    <3>8. MissingWhileReplaced'
      BY <1>1, <2>1, <3>5, <3>7, MissingMap
    <3>9. \A g \in Handler \ {h} : seen'[g] = seen[g]
      BY <3>2 DEF TypeOK
    <3>10. \A g \in Handler : Cutting(g)'
      BY <1>1, <2>1, <3>9 DEF MissingInv, Cutting
    <3> QED
      BY <3>8, <3>10 DEF MissingInv
  <2> QED
    BY <2>2, <2>3
<1> QED
  BY <1>4, <1>5, <1>6, <1>7, <1>8, <1>9, <1>10, <1>11 DEF MapStep

(* An entry that has been put in network_map is missing only while a       *)
(* thread that took it out, or found it out, is on the way to put it in,   *)
(* or since it was dropped with an outdated head.                          *)
LEMMA MissingStep ==
  ASSUME TypeOK, Working, MissingInv, [Next]_vars
  PROVE  MissingInv'
<1> USE DEF tableVars, mapVars, threadVars, Putting
<1>1. ASSUME NEW h \in Handler, NEW r \in RequestType, NEW place \in {"look", "addbump"},
             Begin(h, r, place), UNCHANGED mapVars
      PROVE  MissingInv'
  BY <1>1, BeginTypes, MissingFrame
<1>2. ASSUME NEW h \in Handler, PostLinkState(h) \/ GetMap(h) \/ AddNeighbor(h)
      PROVE  MissingInv'
  <2>1. \E r \in RequestType, place \in {"look", "addbump"} : Begin(h, r, place)
    <3>1. PostLinkState(h) => \E r \in RequestType : Begin(h, r, "look")
      BY AdvertTypes DEF PostLinkState
    <3>2. GetMap(h) => \E r \in RequestType : Begin(h, r, "look")
      BY PlainTypes DEF GetMap, Uuid
    <3>3. ASSUME AddNeighbor(h) PROVE \E r \in RequestType : Begin(h, r, "addbump")
      <4>1. PICK e \in Addable :
              Begin(h, [kind |-> "add", from |-> e.uuid, offer |-> << >>], "addbump")
        BY <3>3 DEF AddNeighbor
      <4>2. e.uuid \in Uuid
        BY TableAssumption DEF Uuid
      <4> QED
        BY <4>1, <4>2, PlainTypes
    <3> QED
      BY <1>2, <3>1, <3>2, <3>3
  <2> QED
    BY <1>1, <1>2, <2>1 DEF PostLinkState, GetMap, AddNeighbor
<1>3. ASSUME NEW h \in Handler, AddCount(h) \/ ReadGiven(h) \/ FindNew(h) \/ FindFull(h)
               \/ TakeSlot(h) \/ BumpCount(h) \/ FillUuid(h) \/ FillWeight(h) \/ LowerWeight(h)
      PROVE  MissingInv'
  <2>1. /\ UNCHANGED mapVars /\ pc[h] \notin Putting /\ pc'[h] \notin {"cut", "cuthead"}
        /\ \A g \in Handler \ {h} : pc'[g] = pc[g] /\ req'[g] = req[g]
    BY <1>3 DEF AddCount, ReadGiven, FindNew, FindFull, TakeSlot, BumpCount, FillUuid,
                FillWeight, LowerWeight, Goto, TypeOK
  <2> QED
    BY <2>1, MissingFrame
<1>4. ASSUME NEW h \in Handler, FindKnown(h) \/ Finish(h) PROVE MissingInv'
  <2>1. /\ UNCHANGED mapVars /\ pc[h] \notin Putting /\ pc'[h] \notin {"cut", "cuthead"}
        /\ \A g \in Handler \ {h} : pc'[g] = pc[g] /\ req'[g] = req[g]
    BY <1>4 DEF FindKnown, Finish, Goto, TypeOK
  <2> QED
    BY <2>1, MissingFrame
<1>5. CASE UNCHANGED vars
  <2>1. MissingWhileReplaced'
    BY <1>5 DEF vars, MissingInv, MissingWhileReplaced, Known
  <2> QED
    BY <1>5, <2>1 DEF vars, MissingInv, Cutting
<1> QED
  BY <1>2, <1>3, <1>4, <1>5, MissingAtMap DEF Next, MapStep

(* A node that was entered in network_map is missing only while its entry  *)
(* is being replaced or since another node of the bucket was put in with a *)
(* head read before, whatever the threads do to each other, until one of   *)
(* them is left at a node that has been freed.                             *)
THEOREM MissingIsReplaced == Spec => []MissingWhileReplaced
<1>1. Init => TypeOK /\ Working /\ MissingInv
  BY InitTypes DEF Init, MissingInv, MissingWhileReplaced, Cutting, NothingSeen
<1>2. TypeOK /\ Working /\ MissingInv /\ [Next]_vars => (TypeOK /\ Working /\ MissingInv)'
  BY TypeStep, MissingStep
<1>3. MissingInv => MissingWhileReplaced
  BY DEF MissingInv
<1> QED
  BY <1>1, <1>2, <1>3, PTL DEF Spec

-----------------------------------------------------------------------------
(* A thread that has passed the test against MAX_PEERS and not yet added,  *)
(* and the count to which it will add one.                                 *)
Pending(h) == pc[h] \in {"take", "bump", "addbump"}
AddsTo(h) == IF pc[h] = "bump" THEN at[h] ELSE count

(* With two threads: who is to push the count behind the array is the only *)
(* one to add, and as long as it has not, nobody else passes the test.     *)
Last == MaxPeers + Cardinality(Handler) - 1
Alone(h) == \A g \in Handler \ {h} : ~Pending(g)
Pushing(h) ==
  Pending(h) => /\ AddsTo(h) < Last
                /\ AddsTo(h) >= MaxPeers => count >= MaxPeers /\ Alone(h)
Overrun == count <= Last /\ \A h \in Handler : Pushing(h)

(* Two threads: no third, and with a second one the array may overrun.     *)
LEMMA TwoThreads ==
  ASSUME Cardinality(Handler) \in 1 .. 2
  PROVE  /\ Last \in Nat /\ Last >= MaxPeers
         /\ \A g, h \in Handler : g # h => Last = MaxPeers + 1
         /\ \A f, g, h \in Handler : f = g \/ f = h \/ g = h
<1>1. Cardinality(Handler) = 1 \/ Cardinality(Handler) = 2
  OBVIOUS
<1>2. ASSUME NEW g \in Handler, NEW h \in Handler, g # h
      PROVE  Cardinality(Handler) # 1
  <2>1. ~ \E x : Handler = {x}
    BY <1>2
  <2> QED
    BY <2>1, FS_Singleton, TableAssumption
<1>3. ASSUME NEW f \in Handler, NEW g \in Handler, NEW h \in Handler,
             f # g, f # h, g # h
      PROVE  FALSE
  <2>1. IsFiniteSet({f}) /\ Cardinality({f}) = 1
    BY FS_Singleton
  <2>2. IsFiniteSet({f} \cup {g}) /\ Cardinality({f} \cup {g}) = 2
    BY <1>3, <2>1, FS_AddElement
  <2>3. Cardinality(({f} \cup {g}) \cup {h}) = 3
    <3>1. h \notin {f} \cup {g}
      BY <1>3
    <3> QED
      BY <2>2, <3>1, FS_AddElement
  <2>4. ({f} \cup {g}) \cup {h} \in SUBSET Handler
    OBVIOUS
  <2>5. Cardinality(({f} \cup {g}) \cup {h}) <= Cardinality(Handler)
    BY <2>4, FS_Subset, TableAssumption
  <2> QED
    BY <1>1, <2>3, <2>5
<1> QED
  BY <1>1, <1>2, <1>3, TableAssumption DEF Last

(* A thread that passes the test.                                          *)
LEMMA PassStep ==
  ASSUME TypeOK, Overrun, Cardinality(Handler) \in 1 .. 2, NEW h \in Handler,
         count < MaxPeers, ~Pending(h), pc'[h] \in {"take", "addbump"},
         count' = count, at' = at, \A g \in Handler \ {h} : pc'[g] = pc[g]
  PROVE  Overrun'
<1>1. Last \in Nat /\ Last >= MaxPeers /\ count \in Nat /\ MaxPeers \in Nat
  BY TwoThreads, TableAssumption DEF TypeOK
<1>2. ASSUME NEW g \in Handler, g # h PROVE Pushing(g)'
  <2>1. pc'[g] = pc[g] /\ AddsTo(g)' = AddsTo(g) /\ Pushing(g)
    BY <1>2 DEF AddsTo, Overrun
  <2>2. AddsTo(g) \in Nat
    BY TableAssumption DEF AddsTo, TypeOK, Slot
  <2> QED
    BY <1>1, <2>1, <2>2 DEF Pushing, Pending, Last
<1>3. Pushing(h)'
  <2>1. AddsTo(h)' = count
    BY DEF AddsTo
  <2> QED
    BY <1>1, <2>1 DEF Pushing, Last
<1> QED
  BY <1>2, <1>3 DEF Overrun, Last

(* A thread that adds.                                                     *)
LEMMA AddStep ==
  ASSUME TypeOK, Overrun, Cardinality(Handler) \in 1 .. 2, NEW h \in Handler,
         Pending(h), count' = AddsTo(h) + 1, at' = at, pc'[h] \in {"uuid", "look"},
         \A g \in Handler \ {h} : pc'[g] = pc[g]
  PROVE  Overrun'
<1>1. Last \in Nat /\ Last >= MaxPeers /\ count \in Nat /\ MaxPeers \in Nat
  BY TwoThreads, TableAssumption DEF TypeOK
<1>2. AddsTo(h) \in Nat /\ AddsTo(h) < Last
  BY TableAssumption DEF AddsTo, TypeOK, Slot, Overrun, Pushing
<1>3. count' <= Last
  BY <1>1, <1>2
<1>4. ~Pending(h)'
  BY DEF Pending
<1>5. ASSUME NEW g \in Handler, Pending(g)' PROVE Pushing(g)'
  <2>1. g # h /\ pc'[g] = pc[g] /\ Pending(g)
    BY <1>4, <1>5 DEF Pending
  <2>2. AddsTo(h) < MaxPeers
    BY <1>1, <1>2, <2>1 DEF Overrun, Pushing, Alone
  <2>3. Last = MaxPeers + 1
    BY <2>1, TwoThreads
  <2>4. Alone(g)'
    <3>1. \A f \in Handler \ {g} : f = h
      BY <2>1, TwoThreads
    <3> QED
      BY <1>4, <3>1 DEF Alone
  <2>5. CASE pc[g] = "bump"
    <3>1. AddsTo(g)' = AddsTo(g) /\ AddsTo(g) \in Nat
      BY <2>1, <2>5, TableAssumption DEF AddsTo, TypeOK, Slot
    <3>2. AddsTo(g) < MaxPeers
      BY <1>1, <2>1, <3>1 DEF Overrun, Pushing, Alone
    <3> QED
      BY <1>1, <2>3, <3>1, <3>2 DEF Pushing, Last
  <2>6. CASE pc[g] # "bump"
    <3>1. AddsTo(g)' = count' /\ count' \in Nat
      BY <1>2, <2>1, <2>6 DEF AddsTo
    <3> QED
      BY <1>1, <1>2, <2>2, <2>3, <2>4, <3>1 DEF Pushing, Last
  <2> QED
    BY <2>5, <2>6
<1> QED
  BY <1>3, <1>5 DEF Overrun, Pushing, Last

(* A step that neither passes the test nor adds.                           *)
LEMMA OtherStep ==
  ASSUME Overrun, NEW h \in Handler, count' = count,
         \A g \in Handler \ {h} : pc'[g] = pc[g] /\ at'[g] = at[g],
         \/ ~Pending(h)'
         \/ Pending(h) /\ Pending(h)' /\ AddsTo(h)' = AddsTo(h)
  PROVE  Overrun'
<1>1. \A g \in Handler : Pending(g)' => Pending(g)
  BY DEF Pending
<1>2. \A g \in Handler : Alone(g) => Alone(g)'
  BY <1>1 DEF Alone
<1>3. ASSUME NEW g \in Handler, Pending(g)' PROVE Pushing(g)'
  <2>1. Pending(g) /\ AddsTo(g)' = AddsTo(g)
    BY <1>1, <1>3 DEF AddsTo
  <2> QED
    BY <1>2, <2>1 DEF Overrun, Pushing, Last
<1> QED
  BY <1>3 DEF Overrun, Pushing, Last

(* The count stays within what the threads that are to add will make of it.*)
LEMMA OverrunStep ==
  ASSUME TypeOK, Working, Overrun, Cardinality(Handler) \in 1 .. 2, [Next]_vars
  PROVE  Overrun'
<1> USE DEF tableVars, mapVars, threadVars
<1>1. ASSUME NEW h \in Handler, PostLinkState(h) \/ GetMap(h) PROVE Overrun'
  <2>1. /\ pc'[h] = "look" /\ \A g \in Handler \ {h} : pc'[g] = pc[g]
        /\ count' = count /\ at' = at
    <3>1. PostLinkState(h) => \E r \in RequestType : Begin(h, r, "look")
      BY AdvertTypes DEF PostLinkState
    <3>2. GetMap(h) => \E r \in RequestType : Begin(h, r, "look")
      BY PlainTypes DEF GetMap, Uuid
    <3> QED
      BY <1>1, <3>1, <3>2, BeginTypes DEF PostLinkState, GetMap
  <2> QED
    BY <2>1, OtherStep DEF Pending
<1>2. ASSUME NEW h \in Handler, AddNeighbor(h) PROVE Overrun'
  <2>1. PICK e \in Addable :
          Begin(h, [kind |-> "add", from |-> e.uuid, offer |-> << >>], "addbump")
    BY <1>2 DEF AddNeighbor
  <2>2. [kind |-> "add", from |-> e.uuid, offer |-> << >>] \in RequestType
    BY TableAssumption, PlainTypes DEF Uuid
  <2>3. /\ pc[h] = "idle" /\ pc'[h] = "addbump"
        /\ \A g \in Handler \ {h} : pc'[g] = pc[g]
    BY <2>1, <2>2, BeginTypes
  <2> QED
    BY <1>2, <2>3, PassStep DEF AddNeighbor, Pending
<1>3. ASSUME NEW h \in Handler, FindNew(h) PROVE Overrun'
  <2>1. /\ pc[h] = "loop" /\ pc'[h] = "take"
        /\ \A g \in Handler \ {h} : pc'[g] = pc[g]
    BY <1>3 DEF FindNew, Goto, TypeOK
  <2> QED
    BY <1>3, <2>1, PassStep DEF FindNew, Pending
<1>4. ASSUME NEW h \in Handler, AddCount(h) \/ BumpCount(h) PROVE Overrun'
  <2>1. /\ Pending(h) /\ pc'[h] \in {"uuid", "look"}
        /\ \A g \in Handler \ {h} : pc'[g] = pc[g]
    BY <1>4 DEF AddCount, BumpCount, Goto, Pending, TypeOK
  <2>2. count' = AddsTo(h) + 1 /\ at' = at
    BY <1>4 DEF AddCount, BumpCount, AddsTo
  <2> QED
    BY <2>1, <2>2, AddStep
<1>5. ASSUME NEW h \in Handler, TakeSlot(h) PROVE Overrun'
  <2>1. /\ pc[h] = "take" /\ pc'[h] = "bump" /\ at'[h] = count
        /\ \A g \in Handler \ {h} : pc'[g] = pc[g] /\ at'[g] = at[g]
    BY <1>5 DEF TakeSlot, Goto, TypeOK
  <2>2. count' = count
    BY <1>5 DEF TakeSlot
  <2> QED
    BY <2>1, <2>2, OtherStep DEF Pending, AddsTo
<1>6. ASSUME NEW h \in Handler,
             ReadGiven(h) \/ FillUuid(h) \/ FillWeight(h) \/ LowerWeight(h) \/ Finish(h)
      PROVE  Overrun'
  <2>1. /\ pc'[h] \in {"loop", "weight", "idle"}
        /\ \A g \in Handler \ {h} : pc'[g] = pc[g]
        /\ count' = count /\ at' = at
    BY <1>6 DEF ReadGiven, FillUuid, FillWeight, LowerWeight, Finish, Goto, TypeOK
  <2> QED
    BY <2>1, OtherStep DEF Pending
<1>7. ASSUME NEW h \in Handler, MapStep(h) PROVE Overrun'
  <2>1. /\ pc'[h] \in (MapPlaces \ {"look"}) \union {"given", "idle"}
        /\ \A g \in Handler \ {h} : pc'[g] = pc[g]
        /\ count' = count /\ at' = at
    BY <1>7, MapFrame
  <2> QED
    BY <2>1, OtherStep DEF Pending, MapPlaces
<1>8. ASSUME NEW h \in Handler, FindFull(h) \/ FindKnown(h) PROVE Overrun'
  <2>1. /\ pc[h] = "loop" /\ pc'[h] \in {"loop", "lower"}
        /\ \A g \in Handler \ {h} : pc'[g] = pc[g] /\ at'[g] = at[g]
        /\ count' = count
    BY <1>8 DEF FindFull, FindKnown, Goto, TypeOK
  <2> QED
    BY <2>1, OtherStep DEF Pending
<1>9. CASE UNCHANGED vars
  BY <1>9 DEF vars, Overrun, Pushing, Pending, AddsTo, Alone, Last
<1> QED
  BY <1>1, <1>2, <1>3, <1>4, <1>5, <1>6, <1>7, <1>8, <1>9 DEF Next, MapStep

(* Everything has its type; two threads push the count one entry behind the*)
(* array and no further, one thread never does.                            *)
THEOREM OverrunIsBounded == Spec => []OverrunBounded
<1> DEFINE Bounded == Cardinality(Handler) \in 1 .. 2 => Overrun
<1>1. Init => TypeOK /\ Working /\ Bounded
  <2>1. ASSUME Init, Cardinality(Handler) \in 1 .. 2 PROVE Overrun
    <3>1. count <= Last
      BY <2>1, TwoThreads, TableAssumption, ConfTypes DEF Init
    <3> QED
      BY <2>1, <3>1 DEF Init, Overrun, Pushing, Pending
  <2> QED
    BY <2>1, InitTypes
<1>2. TypeOK /\ Working /\ Bounded /\ [Next]_vars => (TypeOK /\ Working /\ Bounded)'
  BY TypeStep, OverrunStep
<1>3. TypeOK /\ Bounded => OverrunBounded
  BY DEF Overrun, Last, OverrunBounded
<1> QED
  BY <1>1, <1>2, <1>3, PTL DEF Spec

-----------------------------------------------------------------------------
(* The table while no two requests have been handled at the same time: the *)
(* entries of different peers, none cheaper than a path; the entry that is *)
(* being filled in, and nothing behind the last one but the one that is    *)
(* being added.                                                            *)
Peers == \A i \in Slot : slots[i].uuid \in Peer \union {Blank}
Distinct ==
  \A i, j \in Slot :
    i < count /\ j < count /\ slots[i].uuid = slots[j].uuid /\ slots[i].uuid # Blank => i = j
At(h, place, i) == pc[h] = place /\ at[h] = i
Entries ==
  \A i \in Slot :
    IF i < count
    THEN /\ slots[i].uuid = Blank => \E h \in Handler : At(h, "uuid", i)
         /\ slots[i].uuid # Blank =>
              \/ slots[i].weight >= Least[slots[i].uuid]
              \/ \E h \in Handler : At(h, "weight", i)
    ELSE slots[i].uuid # Blank => i = count /\ \E h \in Handler : pc[h] = "addbump"

(* What the one thread is at.                                              *)
Doing(h) ==
  /\ pc[h] \in {"take", "bump"} => count < MaxPeers /\ Places(cur[h]) = {}
  /\ pc[h] = "bump" => at[h] = count
  /\ pc[h] = "uuid" => /\ at[h] + 1 = count /\ slots[at[h]].uuid = Blank
                       /\ Places(cur[h]) = {}
  /\ pc[h] = "weight" => at[h] + 1 = count /\ slots[at[h]].uuid = cur[h]
  /\ pc[h] = "addbump" =>
       /\ count < MaxPeers
       /\ slots[count].uuid \in Peer /\ Places(slots[count].uuid) = {}
       /\ slots[count].weight >= Least[slots[count].uuid]
  /\ pc[h] = "lower" => /\ at[h] < count /\ slots[at[h]].uuid = cur[h]
                        /\ Via(h, cur[h]) < slots[at[h]].weight
  /\ pc[h] \in Merging \ {"given"} => given[h] >= Least[req[h].from]

OneThread == \A g, h \in Handler : pc[g] # "idle" /\ pc[h] # "idle" => g = h
Tidy ==
  /\ OneThread
  /\ count <= MaxPeers
  /\ Peers /\ Distinct /\ Entries
  /\ \A h \in Handler : Doing(h)
Solo == ~overlap => Tidy

(* A cost that is computed is one of a path.                               *)
LEMMA ViaLeast ==
  ASSUME TypeOK, Working, NEW h \in Handler,
         pc[h] \in Merging \ {"given", "loop"}, given[h] >= Least[req[h].from]
  PROVE  /\ cur[h] \in Peer /\ Via(h, cur[h]) \in Weight
         /\ Via(h, cur[h]) >= Least[cur[h]]
<1>1. req[h] \in Advert /\ cur[h] \in DOMAIN req[h].offer \ {Self}
  BY DEF Working, Works, Merging
<1>2. /\ cur[h] \in Peer /\ req[h].from \in Uuid
      /\ req[h].offer[cur[h]] \in 0 .. MaxCost
  BY <1>1, AdvertTypes DEF Uuid, Weight
<1>3. /\ Least[req[h].from] \in 0 .. MaxCost /\ Least[cur[h]] \in 0 .. MaxCost
      /\ Least[req[h].from] + req[h].offer[cur[h]] >= Least[cur[h]]
  BY <1>1, <1>2, LeastAssumption DEF Weight, Uuid
<1>4. given[h] \in 0 .. MaxCost
  BY DEF TypeOK, Weight
<1>5. Via(h, cur[h]) \in Weight
  BY <1>1, <1>2, WeightTypes DEF Uuid
<1>6. Via(h, cur[h]) >= Least[cur[h]]
  BY <1>2, <1>3, <1>4, TableAssumption DEF Via
<1> QED
  BY <1>2, <1>5, <1>6

(* The sender's cost, as the node reads it, is one of a path.              *)
LEMMA GivenLeast ==
  ASSUME TypeOK, Tidy, NEW h \in Handler, req[h] \in Advert, pc[h] = "given"
  PROVE  Given(req[h]) >= Least[req[h].from]
<1> DEFINE u == req[h].from
<1>1. u \in Peer /\ req[h].offer[Self] >= Least[u]
  BY AdvertTypes, LeastAssumption
<1>2. CASE OwnWeight(u) = 0
  BY <1>1, <1>2 DEF Given
<1>3. CASE OwnWeight(u) # 0
  <2>1. Places(u) # {} /\ OwnWeight(u) = slots[First(u)].weight
    BY <1>3 DEF OwnWeight
  <2>2. First(u) \in Slot /\ First(u) < count /\ slots[First(u)].uuid = u
    BY <2>1, FirstPlace
  <2>3. u # Blank
    BY <1>1, TableAssumption DEF Uuid
  <2>4. ~ \E g \in Handler : At(g, "weight", First(u))
    BY DEF Tidy, OneThread, At
  <2>5. slots[First(u)].weight >= Least[u]
    BY <2>2, <2>3, <2>4 DEF Tidy, Entries
  <2> QED
    BY <1>3, <2>1, <2>5 DEF Given
<1> QED
  BY <1>2, <1>3

(* The other threads are idle and stay so.                                 *)
Lone(h) == \A g \in Handler \ {h} : pc[g] = "idle" /\ pc'[g] = "idle"

(* A step that leaves the table as it is, and is not at an entry.          *)
LEMMA TableSame ==
  ASSUME TypeOK, Tidy, NEW h \in Handler, Lone(h), Doing(h)',
         slots' = slots, count' = count,
         pc[h] \notin {"uuid", "weight", "addbump"},
         pc'[h] \notin {"uuid", "weight", "addbump"}
  PROVE  Tidy'
<1>1. OneThread'
  BY DEF Lone, OneThread
<1>2. \A g \in Handler : Doing(g)'
  BY DEF Lone, Doing, Merging
<1>3. /\ \A g \in Handler, i \in Slot : ~At(g, "uuid", i) /\ ~At(g, "weight", i)
      /\ \A g \in Handler : pc[g] # "addbump"
  BY DEF Lone, At
<1>4. Entries'
  BY <1>3 DEF Tidy, Entries
<1> QED
  BY <1>1, <1>2, <1>4 DEF Tidy, Peers, Distinct

(* The entry behind the last one is counted, and is to be filled in.       *)
LEMMA TidyBump ==
  ASSUME TypeOK, Working, Tidy, NEW h \in Handler, Lone(h), BumpCount(h)
  PROVE  Tidy'
<1>1. /\ pc[h] = "bump" /\ pc'[h] = "uuid" /\ at[h] = count /\ count < MaxPeers
      /\ count' = count + 1 /\ slots' = slots /\ at' = at /\ cur' = cur
      /\ given' = given /\ req' = req /\ Places(cur[h]) = {}
      /\ count \in Nat /\ count \in Slot
  BY TableAssumption DEF BumpCount, Goto, Tidy, Doing, TypeOK, Slot
<1>2. OneThread'
  BY DEF Lone, OneThread
<1>3. /\ \A g \in Handler, i \in Slot : ~At(g, "uuid", i) /\ ~At(g, "weight", i)
      /\ \A g \in Handler : pc[g] # "addbump"
  BY <1>1 DEF Lone, At
<1>4. /\ \A i \in Slot : i < count => slots[i].uuid # Blank /\ slots[i].weight >= Least[slots[i].uuid]
      /\ \A i \in Slot : ~(i < count) => slots[i].uuid = Blank
  BY <1>3 DEF Tidy, Entries
<1>5. \A i \in Slot : i = count => At(h, "uuid", i)'
  BY <1>1 DEF At
<1>6. \A i \in Slot : i < count + 1 <=> i < count \/ i = count
  BY <1>1, TableAssumption DEF Slot
<1>7. Entries'
  BY <1>1, <1>4, <1>5, <1>6 DEF Entries
<1>8. Distinct'
  BY <1>1, <1>4, <1>6 DEF Distinct, Tidy
<1>9. Doing(h)'
  <2>1. cur[h] # Blank
    BY <1>1, AdvertTypes, TableAssumption DEF Working, Works, Merging
  <2>2. Places(cur[h])' = {}
    BY <1>1, <1>4, <1>6, <2>1 DEF Places
  <2> QED
    BY <1>1, <1>4, <2>2 DEF Doing, Tidy, Merging
<1>10. \A g \in Handler : Doing(g)'
  BY <1>9 DEF Lone, Doing, Merging
<1> QED
  BY <1>1, <1>2, <1>7, <1>8, <1>10, TableAssumption DEF Tidy, Peers

(* The entry gets its uuid.                                                *)
LEMMA TidyUuid ==
  ASSUME TypeOK, Working, Tidy, NEW h \in Handler, Lone(h), FillUuid(h)
  PROVE  Tidy'
<1>1. /\ pc[h] = "uuid" /\ pc'[h] = "weight" /\ at[h] + 1 = count
      /\ count' = count /\ at' = at /\ cur' = cur
      /\ given' = given /\ req' = req /\ Places(cur[h]) = {}
      /\ given[h] >= Least[req[h].from] /\ at[h] \in Slot
  BY DEF FillUuid, Goto, Tidy, Doing, TypeOK, Merging
<1>2. cur[h] \in Peer /\ cur[h] # Blank
  BY <1>1, ViaLeast, TableAssumption DEF Merging, Uuid
<1>3. /\ slots'[at[h]].uuid = cur[h]
      /\ \A i \in Slot : i # at[h] => slots'[i] = slots[i]
  BY <1>1 DEF FillUuid, TypeOK, EntryType
<1>4. OneThread'
  BY DEF Lone, OneThread
<1>5. at[h] < count /\ at[h] \in Nat /\ count \in Nat
  BY <1>1, TableAssumption DEF TypeOK, Slot
<1>6. Peers'
  BY <1>2, <1>3 DEF Peers, Tidy
<1>7. Distinct'
  BY <1>1, <1>2, <1>3 DEF Distinct, Tidy, Places
<1>8. /\ \A g \in Handler, i \in Slot : ~At(g, "weight", i) /\ (At(g, "uuid", i) => i = at[h])
      /\ \A g \in Handler : pc[g] # "addbump"
  BY <1>1 DEF Lone, At
<1>9. At(h, "weight", at[h])'
  BY <1>1 DEF At
<1>10. Entries'
  BY <1>1, <1>2, <1>3, <1>5, <1>8, <1>9 DEF Entries, Tidy
<1>11. \A g \in Handler : Doing(g)'
  BY <1>1, <1>3 DEF Lone, Doing, Merging
<1> QED
  BY <1>1, <1>4, <1>6, <1>7, <1>10, <1>11 DEF Tidy

(* The entry gets its weight, or a lower one.                              *)
LEMMA TidyWeight ==
  ASSUME TypeOK, Working, Tidy, NEW h \in Handler, Lone(h), FillWeight(h) \/ LowerWeight(h)
  PROVE  Tidy'
<1>1. /\ pc[h] \in {"weight", "lower"} /\ pc'[h] = "loop"
      /\ count' = count /\ at' = at /\ given' = given /\ req' = req
      /\ slots' = [slots EXCEPT ![at[h]].weight = Via(h, cur[h])]
      /\ given[h] >= Least[req[h].from] /\ at[h] \in Slot
      /\ slots[at[h]].uuid = cur[h]
  BY DEF FillWeight, LowerWeight, Goto, Tidy, Doing, TypeOK, Merging
<1>2. Via(h, cur[h]) >= Least[cur[h]] /\ cur[h] \in Peer
  BY <1>1, ViaLeast DEF Merging
<1>3. /\ slots'[at[h]].uuid = cur[h] /\ slots'[at[h]].weight = Via(h, cur[h])
      /\ \A i \in Slot : i # at[h] => slots'[i] = slots[i]
      /\ \A i \in Slot : slots'[i].uuid = slots[i].uuid
  BY <1>1 DEF TypeOK, EntryType
<1>4. OneThread'
  BY DEF Lone, OneThread
<1>5. /\ \A g \in Handler, i \in Slot : ~At(g, "uuid", i) /\ (At(g, "weight", i) => i = at[h])
      /\ \A g \in Handler : pc[g] # "addbump"
  BY <1>1 DEF Lone, At
<1>6. \A i \in Slot : i < count /\ i # at[h] => /\ slots[i].uuid # Blank
                                              /\ slots[i].weight >= Least[slots[i].uuid]
  BY <1>5 DEF Tidy, Entries
<1>7. \A i \in Slot : ~(i < count) => slots[i].uuid = Blank
  BY <1>5 DEF Tidy, Entries
<1>8. cur[h] # Blank
  BY <1>2, TableAssumption DEF Uuid
<1>9. Entries'
  BY <1>1, <1>2, <1>3, <1>6, <1>7, <1>8 DEF Entries
<1>10. Peers' /\ Distinct'
  BY <1>1, <1>3 DEF Peers, Distinct, Tidy
<1>11. \A g \in Handler : Doing(g)'
  BY <1>1 DEF Lone, Doing, Merging
<1> QED
  BY <1>1, <1>4, <1>9, <1>10, <1>11 DEF Tidy

(* /peer/addneighbor fills in the entry behind the last one.               *)
LEMMA TidyAdd ==
  ASSUME TypeOK, Tidy, NEW h \in Handler, Lone(h), pc[h] = "idle", AddNeighbor(h)
  PROVE  Tidy'
<1>1. PICK e \in Addable :
        /\ count < MaxPeers /\ Places(e.uuid) = {}
        /\ Begin(h, [kind |-> "add", from |-> e.uuid, offer |-> << >>], "addbump")
        /\ slots' = [slots EXCEPT ![count] = e]
  BY DEF AddNeighbor
<1>2. e \in [uuid : Peer, weight : Weight] /\ e.weight >= Least[e.uuid]
  BY TableAssumption, LeastAssumption
<1>3. /\ pc'[h] = "addbump" /\ count' = count /\ count \in Nat /\ count \in Slot
  BY <1>1, TableAssumption DEF Begin, Goto, AddNeighbor, TypeOK, Slot
<1>4. /\ slots'[count] = e
      /\ \A i \in Slot : i # count => slots'[i] = slots[i]
  BY <1>1, <1>3 DEF TypeOK
<1>5. e.uuid \in Peer /\ e.uuid # Blank
  BY <1>2, TableAssumption DEF Uuid
<1>6. OneThread'
  BY DEF Lone, OneThread
<1>7. /\ \A g \in Handler, i \in Slot : ~At(g, "uuid", i) /\ ~At(g, "weight", i)
      /\ \A g \in Handler : pc[g] # "addbump"
  BY DEF Lone, At
<1>8. \A i \in Slot : i < count => i # count
  BY <1>3
<1>9. Entries'
  BY <1>3, <1>4, <1>7, <1>8 DEF Entries, Tidy
<1>10. Peers' /\ Distinct'
  BY <1>3, <1>4, <1>5, <1>8 DEF Peers, Distinct, Tidy
<1>11. Places(slots[count].uuid)' = {}
  <2>1. slots'[count'].uuid = e.uuid
    BY <1>3, <1>4
  <2>2. \A i \in Slot : i < count => slots'[i].uuid # e.uuid
    BY <1>1, <1>4, <1>8 DEF Places
  <2> QED
    BY <1>3, <2>1, <2>2 DEF Places
<1>12. Doing(h)'
  BY <1>1, <1>2, <1>3, <1>4, <1>5, <1>11 DEF Doing, Merging
<1>13. \A g \in Handler : Doing(g)'
  BY <1>12 DEF Lone, Doing, Merging
<1> QED
  BY <1>3, <1>6, <1>9, <1>10, <1>13 DEF Tidy

(* The entry of /peer/addneighbor is counted.                              *)
LEMMA TidyCount ==
  ASSUME TypeOK, Tidy, NEW h \in Handler, Lone(h), AddCount(h)
  PROVE  Tidy'
<1>1. /\ pc[h] = "addbump" /\ pc'[h] = "look" /\ count < MaxPeers
      /\ count' = count + 1 /\ slots' = slots
      /\ slots[count].uuid \in Peer /\ Places(slots[count].uuid) = {}
      /\ slots[count].weight >= Least[slots[count].uuid]
      /\ count \in Nat /\ count \in Slot
  BY TableAssumption DEF AddCount, Goto, Tidy, Doing, TypeOK, Slot
<1>2. OneThread'
  BY DEF Lone, OneThread
<1>3. /\ \A g \in Handler, i \in Slot : ~At(g, "uuid", i) /\ ~At(g, "weight", i)
  BY <1>1 DEF Lone, At
<1>4. \A i \in Slot : i < count => slots[i].uuid # Blank /\ slots[i].weight >= Least[slots[i].uuid]
  BY <1>3 DEF Tidy, Entries
<1>5. \A i \in Slot : i < count + 1 <=> i < count \/ i = count
  BY <1>1, TableAssumption DEF Slot
<1>6. slots[count].uuid # Blank
  BY <1>1, TableAssumption DEF Uuid
<1>7. \A i \in Slot : ~(i < count + 1) => slots[i].uuid = Blank
  BY <1>5 DEF Tidy, Entries
<1>8. Entries'
  BY <1>1, <1>4, <1>5, <1>6, <1>7 DEF Entries
<1>9. Distinct'
  BY <1>1, <1>5 DEF Distinct, Tidy, Places
<1>10. \A g \in Handler : Doing(g)'
  BY <1>1 DEF Lone, Doing, Merging
<1> QED
  BY <1>1, <1>2, <1>8, <1>9, <1>10, TableAssumption DEF Tidy, Peers

(* While requests come one after the other the table stays tidy.           *)
LEMMA SoloStep ==
  ASSUME TypeOK, Working, Solo, [Next]_vars
  PROVE  Solo'
<1> USE DEF tableVars, mapVars, threadVars
<1> SUFFICES ASSUME ~overlap' PROVE Tidy'
  BY DEF Solo
<1>1. CASE UNCHANGED vars
  <2>1. Tidy
    BY <1>1 DEF vars, Solo
  <2> QED
    BY <1>1, <2>1 DEF vars, Tidy, OneThread, Peers, Distinct, Entries, At, Doing, Places, Via
<1>2. ASSUME NEW h \in Handler, NEW r, NEW place, Begin(h, r, place)
      PROVE  Tidy /\ Lone(h) /\ pc[h] = "idle" /\ pc'[h] = place
  <2>1. overlap' = (overlap \/ \E g \in Handler \ {h} : pc[g] # "idle")
    BY <1>2 DEF Begin
  <2>2. ~overlap /\ \A g \in Handler \ {h} : pc[g] = "idle"
    BY <2>1
  <2>3. pc'[h] = place /\ \A g \in Handler \ {h} : pc'[g] = pc[g]
    BY <1>2 DEF Begin, Goto, TypeOK
  <2> QED
    BY <1>2, <2>2, <2>3 DEF Solo, Lone, Begin
<1>3. ASSUME NEW h \in Handler, overlap' = overlap, pc[h] # "idle",
             \A g \in Handler \ {h} : pc'[g] = pc[g]
      PROVE  Tidy /\ Lone(h)
  <2>1. Tidy
    BY <1>3 DEF Solo
  <2> QED
    BY <1>3, <2>1 DEF Tidy, OneThread, Lone
<1>4. ASSUME NEW h \in Handler, PostLinkState(h) \/ GetMap(h) PROVE Tidy'
  <2>1. /\ Tidy /\ Lone(h) /\ pc[h] = "idle" /\ pc'[h] = "look"
        /\ slots' = slots /\ count' = count
    BY <1>2, <1>4 DEF PostLinkState, GetMap
  <2>2. Doing(h)'
    BY <2>1 DEF Doing, Merging
  <2> QED
    BY <2>1, <2>2, TableSame
<1>5. ASSUME NEW h \in Handler, AddNeighbor(h) PROVE Tidy'
  <2>1. Tidy /\ Lone(h) /\ pc[h] = "idle"
    BY <1>2, <1>5 DEF AddNeighbor
  <2> QED
    BY <1>5, <2>1, TidyAdd
<1>6. ASSUME NEW h \in Handler, AddCount(h) PROVE Tidy'
  <2>1. /\ overlap' = overlap /\ pc[h] # "idle"
        /\ \A g \in Handler \ {h} : pc'[g] = pc[g]
    BY <1>6 DEF AddCount, Goto, TypeOK
  <2> QED
    BY <1>3, <1>6, <2>1, TidyCount
<1>7. ASSUME NEW h \in Handler, MapStep(h) \/ Finish(h) PROVE Tidy'
  <2>1. /\ overlap' = overlap /\ slots' = slots /\ count' = count
        /\ pc[h] \in MapPlaces \union {"loop"}
        /\ pc'[h] \in (MapPlaces \ {"look"}) \union {"given", "idle"}
        /\ \A g \in Handler \ {h} : pc'[g] = pc[g]
    <3>1. CASE MapStep(h)
      BY <3>1, MapFrame
    <3>2. CASE Finish(h)
      BY <3>2 DEF Finish, Goto, TypeOK
    <3> QED
      BY <1>7, <3>1, <3>2
  <2>2. Tidy /\ Lone(h)
    <3>1. pc[h] # "idle"
      BY <2>1 DEF MapPlaces
    <3> QED
      BY <1>3, <2>1, <3>1
  <2>3. Doing(h)'
    BY <2>1 DEF Doing, Merging, MapPlaces
  <2> QED
    BY <2>1, <2>2, <2>3, TableSame DEF MapPlaces
<1>8. ASSUME NEW h \in Handler, ReadGiven(h) PROVE Tidy'
  <2>1. /\ overlap' = overlap /\ slots' = slots /\ count' = count /\ req' = req
        /\ pc[h] = "given" /\ pc'[h] = "loop" /\ given'[h] = Given(req[h])
        /\ \A g \in Handler \ {h} : pc'[g] = pc[g]
    BY <1>8 DEF ReadGiven, Goto, TypeOK
  <2>2. Tidy /\ Lone(h)
    BY <1>3, <2>1
  <2>3. req[h] \in Advert
    BY <2>1 DEF Working, Works, Merging
  <2>4. Doing(h)'
    BY <2>1, <2>2, <2>3, GivenLeast DEF Doing, Merging
  <2> QED
    BY <2>1, <2>2, <2>4, TableSame
<1>9. ASSUME NEW h \in Handler, FindNew(h) PROVE Tidy'
  <2>1. /\ overlap' = overlap /\ slots' = slots /\ count' = count /\ req' = req
        /\ pc[h] = "loop" /\ pc'[h] = "take" /\ given' = given /\ count < MaxPeers
        /\ \A g \in Handler \ {h} : pc'[g] = pc[g]
        /\ \E u \in todo[h] : Places(u) = {} /\ cur'[h] = u
    BY <1>9 DEF FindNew, Goto, TypeOK
  <2>2. Tidy /\ Lone(h)
    BY <1>3, <2>1
  <2>3. Places(cur[h])' = {}
    BY <2>1 DEF Places
  <2>4. Doing(h)'
    BY <2>1, <2>2, <2>3 DEF Doing, Tidy, Merging
  <2> QED
    BY <2>1, <2>2, <2>4, TableSame
<1>10. ASSUME NEW h \in Handler, FindFull(h) PROVE Tidy'
  <2>1. /\ overlap' = overlap /\ slots' = slots /\ count' = count /\ req' = req
        /\ pc[h] = "loop" /\ pc' = pc /\ given' = given
    BY <1>10 DEF FindFull
  <2>2. Tidy /\ Lone(h)
    BY <1>3, <2>1
  <2>3. Doing(h)'
    BY <2>1, <2>2 DEF Doing, Tidy, Merging
  <2> QED
    BY <2>1, <2>2, <2>3, TableSame
<1>11. ASSUME NEW h \in Handler, FindKnown(h) PROVE Tidy'
  <2>1. /\ overlap' = overlap /\ slots' = slots /\ count' = count /\ req' = req
        /\ pc[h] = "loop" /\ given' = given
        /\ pc'[h] \in {"loop", "lower"}
        /\ \A g \in Handler \ {h} : pc'[g] = pc[g]
    BY <1>11 DEF FindKnown, Goto, TypeOK
  <2>2. Tidy /\ Lone(h)
    BY <1>3, <2>1
  <2>3. ASSUME pc'[h] = "lower"
        PROVE  at'[h] < count /\ slots[at'[h]].uuid = cur'[h] /\ Via(h, cur'[h]) < slots[at'[h]].weight
    <3>1. PICK u \in todo[h] :
            /\ Places(u) # {} /\ Via(h, u) < slots[First(u)].weight
            /\ cur'[h] = u /\ at'[h] = First(u)
      BY <1>11, <2>1, <2>3 DEF FindKnown, TypeOK
    <3> QED
      BY <3>1, FirstPlace
  <2>4. Doing(h)'
    BY <2>1, <2>2, <2>3 DEF Doing, Tidy, Merging, Via
  <2> QED
    BY <2>1, <2>2, <2>4, TableSame
<1>12. ASSUME NEW h \in Handler, TakeSlot(h) PROVE Tidy'
  <2>1. /\ overlap' = overlap /\ slots' = slots /\ count' = count /\ req' = req
        /\ pc[h] = "take" /\ pc'[h] = "bump" /\ given' = given /\ cur' = cur
        /\ at'[h] = count
        /\ \A g \in Handler \ {h} : pc'[g] = pc[g]
    BY <1>12 DEF TakeSlot, Goto, TypeOK
  <2>2. Tidy /\ Lone(h)
    BY <1>3, <2>1
  <2>3. Places(cur[h])' = {}
    BY <2>1, <2>2 DEF Places, Tidy, Doing
  <2>4. Doing(h)'
    BY <2>1, <2>2, <2>3 DEF Doing, Tidy, Merging
  <2> QED
    BY <2>1, <2>2, <2>4, TableSame
<1>13. ASSUME NEW h \in Handler, BumpCount(h) \/ FillUuid(h) \/ FillWeight(h) \/ LowerWeight(h)
       PROVE  Tidy'
  <2>1. /\ overlap' = overlap /\ pc[h] # "idle"
        /\ \A g \in Handler \ {h} : pc'[g] = pc[g]
    BY <1>13 DEF BumpCount, FillUuid, FillWeight, LowerWeight, Goto, TypeOK
  <2> QED
    BY <1>3, <1>13, <2>1, TidyBump, TidyUuid, TidyWeight
<1> QED
  BY <1>1, <1>4, <1>5, <1>6, <1>7, <1>8, <1>9, <1>10, <1>11, <1>12, <1>13 DEF Next, MapStep

(* The peers of node.conf are different ones.                              *)
LEMMA InitSolo == Init => Solo
<1> SUFFICES ASSUME Init PROVE Tidy
  BY DEF Solo
<1>1. /\ \A i \in Slot : i < count => slots[i] = Conf[i + 1] /\ i + 1 \in DOMAIN Conf
      /\ \A i \in Slot : ~(i < count) => slots[i].uuid = Blank
  BY ConfTypes DEF Init, Slot
<1>2. \A i \in Slot : i < count => /\ slots[i].uuid \in Peer
                                  /\ slots[i].weight >= Least[slots[i].uuid]
  BY <1>1, ConfTypes, LeastAssumption
<1>3. Blank \notin Peer
  BY TableAssumption DEF Uuid
<1>4. Peers /\ Entries
  BY <1>1, <1>2, <1>3 DEF Peers, Entries
<1>5. Distinct
  <2>1. \A i, j \in Slot : i + 1 = j + 1 => i = j
    BY DEF Slot
  <2> QED
    BY <1>1, <2>1, ConfAssumption DEF Distinct
<1>6. count <= MaxPeers
  BY TableAssumption DEF Init
<1>7. OneThread /\ \A h \in Handler : Doing(h)
  BY DEF Init, OneThread, Doing, Merging
<1> QED
  BY <1>4, <1>5, <1>6, <1>7 DEF Tidy

(* A uuid is in the table once, as long as no two requests are handled at  *)
(* the same time.                                                          *)
THEOREM UniqueIfAlone == Spec => []UniqueAlone
<1>1. Init => TypeOK /\ Working /\ Solo
  BY InitTypes, InitSolo
<1>2. TypeOK /\ Working /\ Solo /\ [Next]_vars => (TypeOK /\ Working /\ Solo)'
  BY TypeStep, SoloStep
<1>3. Solo => UniqueAlone
  <2>1. ASSUME Tidy, NEW u \in Peer PROVE Cardinality(Places(u)) <= 1
    <3>1. \A i, j \in Places(u) : i = j
      BY <2>1, TableAssumption DEF Places, Tidy, Distinct, Uuid
    <3>2. CASE Places(u) = {}
      BY <3>2, FS_EmptySet
    <3>3. CASE Places(u) # {}
      <4>1. \E i : Places(u) = {i}
        BY <3>1, <3>3
      <4> QED
        BY <4>1, FS_Singleton
    <3> QED
      BY <3>2, <3>3
  <2> QED
    BY <2>1 DEF Solo, UniqueAlone
<1> QED
  BY <1>1, <1>2, <1>3, PTL DEF Spec

-----------------------------------------------------------------------------
(* What the table says of a peer, by the one entry it has.                 *)
Has(u, i) == i \in Slot /\ i < count /\ slots[i].uuid = u /\ Filled(i)
Says(u) ==
  /\ \A i \in Slot : Has(u, i) => mapped[u] = slots[i].weight
  /\ (~ \E i \in Slot : Has(u, i)) => mapped[u] = MaxCost + 1

(* The weight that a reader is shown is that of this entry.                *)
LEMMA MappedIs == Tidy => \A u \in Peer : Says(u)
<1> SUFFICES ASSUME Tidy, NEW u \in Peer PROVE Says(u)
  OBVIOUS
<1> DEFINE own == {i \in Places(u) : Filled(i)}
<1>1. \A i : i \in own <=> Has(u, i)
  BY DEF Has, Places
<1>2. mapped[u] = IF own = {} THEN MaxCost + 1
                  ELSE slots[CHOOSE i \in own : \A j \in own : i <= j].weight
  BY DEF mapped
<1>3. \A i, j \in own : i = j
  BY TableAssumption DEF Places, Tidy, Distinct, Uuid
<1>4. \A i \in own : i \in Nat
  BY TableAssumption DEF Places, Slot
<1> HIDE DEF own
<1>5. ASSUME NEW i \in own PROVE mapped[u] = slots[i].weight
  <2>1. \A j \in own : i <= j
    BY <1>3, <1>4
  <2>2. (CHOOSE k \in own : \A j \in own : k <= j) = i
    BY <1>3, <2>1
  <2> QED
    BY <1>2, <2>2
<1>6. ASSUME ~ \E i \in Slot : Has(u, i) PROVE mapped[u] = MaxCost + 1
  <2>1. own = {}
    BY <1>1, <1>6 DEF Has
  <2> QED
    BY <1>2, <2>1
<1> QED
  BY <1>1, <1>5, <1>6 DEF Says

(* The same after a step.                                                  *)
LEMMA MappedIsThen == (Tidy => \A u \in Peer : Says(u))'
BY MappedIs, PTL

(* A step that leaves the entries that count as they are.                  *)
LEMMA MappedSame ==
  ASSUME \A i \in Slot : i < count /\ Filled(i) <=> i < count' /\ Filled(i)',
         \A i \in Slot : i < count /\ Filled(i) => slots'[i] = slots[i]
  PROVE  mapped' = mapped
<1> DEFINE Own(u) == {i \in Places(u) : Filled(i)}
           Cost(S, t) == IF S = {} THEN MaxCost + 1
                         ELSE t[CHOOSE i \in S : \A j \in S : i <= j].weight
<1>1. mapped = [u \in Peer |-> Cost(Own(u), slots)]
  BY DEF mapped
<1>2. mapped' = [u \in Peer |-> Cost(Own(u)', slots')]
  BY DEF mapped
<1>3. ASSUME NEW u \in Peer PROVE Cost(Own(u), slots) = Cost(Own(u)', slots')
  <2>1. Own(u)' = Own(u)
    BY DEF Places
  <2>2. \A i \in Own(u) : slots'[i] = slots[i] /\ i \in Nat
    BY TableAssumption DEF Places, Slot
  <2> HIDE DEF Own
  <2>3. CASE Own(u) = {}
    BY <2>1, <2>3
  <2>4. CASE Own(u) # {}
    <3>1. \E i \in Own(u) : \A j \in Own(u) : i <= j
      BY <2>2, <2>4, LeastNumber
    <3>2. (CHOOSE i \in Own(u) : \A j \in Own(u) : i <= j) \in Own(u)
      BY <3>1
    <3> QED
      BY <2>1, <2>2, <2>4, <3>2
  <2> QED
    BY <2>3, <2>4
<1> HIDE DEF Own, Cost
<1> QED
  BY <1>1, <1>2, <1>3

(* A step that changes what one entry says, and no other.                  *)
LEMMA OneRoute ==
  ASSUME Tidy, Tidy', NEW v \in Peer, NEW k \in Slot, Has(v, k)',
         \A u \in Peer \ {v}, i \in Slot :
           /\ Has(u, i)' <=> Has(u, i)
           /\ Has(u, i) => slots'[i].weight = slots[i].weight
  PROVE  mapped' = [mapped EXCEPT ![v] = slots'[k].weight]
<1>1. \A u \in Peer : Says(u)
  BY MappedIs
<1>2. \A u \in Peer : Says(u)'
  BY MappedIsThen
<1>3. mapped'[v] = slots'[k].weight
  BY <1>2 DEF Says
<1>4. ASSUME NEW u \in Peer \ {v} PROVE mapped'[u] = mapped[u]
  <2>1. CASE \E i \in Slot : Has(u, i)
    <3>1. PICK i \in Slot : Has(u, i)
      BY <2>1
    <3>2. mapped[u] = slots[i].weight
      BY <1>1, <3>1 DEF Says
    <3>3. mapped'[u] = slots'[i].weight
      BY <1>2, <3>1 DEF Says
    <3> QED
      BY <3>1, <3>2, <3>3
  <2>2. CASE ~ \E i \in Slot : Has(u, i)
    <3>1. mapped[u] = MaxCost + 1
      BY <1>1, <2>2 DEF Says
    <3>2. mapped'[u] = MaxCost + 1
      BY <1>2, <2>2 DEF Says
    <3> QED
      BY <3>1, <3>2
  <2> QED
    BY <2>1, <2>2
<1>5. mapped = [u \in Peer |-> mapped[u]] /\ mapped' = [u \in Peer |-> mapped'[u]]
  BY DEF mapped
<1> HIDE DEF mapped
<1> QED
  BY <1>3, <1>4, <1>5

(* A peer is entered with the cost of a path.                              *)
LEMMA EnterStep ==
  ASSUME TypeOK, Tidy, Tidy', NEW v \in Peer, NEW k \in Slot, Has(v, k)',
         ~ \E i \in Slot : Has(v, i),
         slots'[k].weight \in Weight, slots'[k].weight >= Least[v],
         \A u \in Peer \ {v}, i \in Slot :
           /\ Has(u, i)' <=> Has(u, i)
           /\ Has(u, i) => slots'[i].weight = slots[i].weight
  PROVE  Routes!RouteNext
<1>1. mapped' = [mapped EXCEPT ![v] = slots'[k].weight]
  BY OneRoute
<1>2. mapped[v] = MaxCost + 1
  BY MappedIs DEF Says
<1>3. Routes!Enter(v, slots'[k].weight)
  BY <1>1, <1>2 DEF Routes!Enter
<1> QED
  BY <1>3 DEF Routes!RouteNext

(* The cost of a peer falls, to the cost of a path.                        *)
LEMMA ImproveStep ==
  ASSUME TypeOK, Tidy, Tidy', NEW v \in Peer, NEW k \in Slot, Has(v, k)', Has(v, k),
         slots'[k].weight \in Weight, slots'[k].weight >= Least[v],
         slots'[k].weight < slots[k].weight,
         \A u \in Peer \ {v}, i \in Slot :
           /\ Has(u, i)' <=> Has(u, i)
           /\ Has(u, i) => slots'[i].weight = slots[i].weight
  PROVE  Routes!RouteNext
<1>1. mapped' = [mapped EXCEPT ![v] = slots'[k].weight]
  BY OneRoute
<1>2. mapped[v] = slots[k].weight
  BY MappedIs DEF Says
<1>3. slots[k].weight \in 0 .. MaxCost
  BY DEF TypeOK, EntryType, Weight
<1>4. mapped[v] # MaxCost + 1
  BY <1>2, <1>3, TableAssumption
<1>5. Routes!Improve(v, slots'[k].weight)
  BY <1>1, <1>2, <1>4 DEF Routes!Improve
<1> QED
  BY <1>5 DEF Routes!RouteNext

(* Every step on the table, alone, is a step of the route table.           *)
LEMMA RouteStep ==
  ASSUME TypeOK, Working, Solo, Solo', ~overlap', [Next]_vars
  PROVE  Routes!RouteNext \/ mapped' = mapped
<1> USE DEF tableVars, mapVars, threadVars
<1>0. Tidy'
  BY DEF Solo
<1>1. CASE UNCHANGED vars
  BY <1>1, MappedSame DEF vars, Filled
<1>2. ASSUME NEW h \in Handler, slots' = slots, count' = count,
             pc[h] \notin {"uuid", "weight"}, pc'[h] \notin {"uuid", "weight"},
             \A g \in Handler \ {h} : pc'[g] = pc[g] /\ at'[g] = at[g]
      PROVE  mapped' = mapped
  <2>1. \A i \in Slot : Filled(i)' <=> Filled(i)
    BY <1>2 DEF Filled
  <2> QED
    BY <1>2, <2>1, MappedSame
<1>3. ASSUME NEW h \in Handler, overlap' = overlap, pc[h] # "idle"
      PROVE  Tidy /\ Doing(h) /\ \A g \in Handler \ {h} : pc[g] = "idle"
  <2>1. Tidy
    BY <1>3 DEF Solo
  <2> QED
    BY <1>3, <2>1 DEF Tidy, OneThread
<1>4. ASSUME NEW h \in Handler, PostLinkState(h) \/ GetMap(h) PROVE mapped' = mapped
  <2>1. /\ pc[h] = "idle" /\ pc'[h] = "look" /\ at' = at /\ slots' = slots /\ count' = count
        /\ \A g \in Handler \ {h} : pc'[g] = pc[g]
    BY <1>4 DEF PostLinkState, GetMap, Begin, Goto, TypeOK
  <2> QED
    BY <1>2, <2>1
<1>5. ASSUME NEW h \in Handler, AddNeighbor(h) PROVE mapped' = mapped
  <2>1. /\ pc[h] = "idle" /\ pc'[h] = "addbump" /\ at' = at /\ count' = count
        /\ \A g \in Handler \ {h} : pc'[g] = pc[g]
    BY <1>5 DEF AddNeighbor, Begin, Goto, TypeOK
  <2>2. \A i \in Slot : i < count => slots'[i] = slots[i]
    BY <1>5, TableAssumption DEF AddNeighbor, TypeOK, Slot
  <2>3. \A i \in Slot : Filled(i)' <=> Filled(i)
    BY <2>1 DEF Filled
  <2> QED
    BY <2>1, <2>2, <2>3, MappedSame
<1>6. ASSUME NEW h \in Handler,
             \/ MapStep(h) \/ ReadGiven(h) \/ FindNew(h) \/ FindFull(h) \/ TakeSlot(h)
             \/ Finish(h)
      PROVE  mapped' = mapped
  <2>1. /\ pc[h] \notin {"uuid", "weight"} /\ pc'[h] \notin {"uuid", "weight"}
        /\ slots' = slots /\ count' = count
        /\ \A g \in Handler \ {h} : pc'[g] = pc[g] /\ at'[g] = at[g]
    <3>1. CASE MapStep(h)
      BY <3>1, MapFrame DEF MapPlaces
    <3>2. CASE ~MapStep(h)
      BY <1>6, <3>2 DEF ReadGiven, FindNew, FindFull, TakeSlot, Finish, Goto, TypeOK
    <3> QED
      BY <3>1, <3>2
  <2> QED
    BY <1>2, <2>1
<1>7. ASSUME NEW h \in Handler, FindKnown(h) PROVE mapped' = mapped
  <2>1. /\ pc[h] = "loop" /\ pc'[h] \in {"loop", "lower"}
        /\ slots' = slots /\ count' = count
        /\ \A g \in Handler \ {h} : pc'[g] = pc[g] /\ at'[g] = at[g]
    BY <1>7 DEF FindKnown, Goto, TypeOK
  <2> QED
    BY <1>2, <2>1
<1>8. ASSUME NEW h \in Handler, BumpCount(h) PROVE mapped' = mapped
  <2>1. /\ pc[h] = "bump" /\ pc'[h] = "uuid" /\ overlap' = overlap
        /\ slots' = slots /\ at' = at /\ count' = at[h] + 1
        /\ \A g \in Handler \ {h} : pc'[g] = pc[g]
    BY <1>8 DEF BumpCount, Goto, TypeOK
  <2>2. at[h] = count /\ \A g \in Handler \ {h} : pc[g] = "idle"
    BY <1>3, <2>1 DEF Doing
  <2>3. \A i \in Slot : i < count + 1 <=> i < count \/ i = count
    BY TableAssumption DEF Slot, TypeOK
  <2>4. \A i \in Slot : i < count => i # count
    BY TableAssumption DEF Slot, TypeOK
  <2>5. \A i \in Slot : i < count /\ Filled(i) <=> i < count' /\ Filled(i)'
    BY <2>1, <2>2, <2>3, <2>4 DEF Filled
  <2> QED
    BY <2>1, <2>5, MappedSame
<1>9. ASSUME NEW h \in Handler, FillUuid(h) PROVE mapped' = mapped
  <2>1. /\ pc[h] = "uuid" /\ pc'[h] = "weight" /\ at' = at /\ count' = count
        /\ \A g \in Handler \ {h} : pc'[g] = pc[g]
        /\ \A i \in Slot : i # at[h] => slots'[i] = slots[i]
    BY <1>9 DEF FillUuid, Goto, TypeOK
  <2>2. \A i \in Slot : Filled(i)' <=> Filled(i)
    BY <2>1 DEF Filled
  <2>3. \A i \in Slot : Filled(i) => i # at[h]
    BY <2>1 DEF Filled
  <2> QED
    BY <2>1, <2>2, <2>3, MappedSame
<1>10. ASSUME NEW h \in Handler, FillWeight(h) PROVE Routes!RouteNext
  <2>1. /\ pc[h] = "weight" /\ pc'[h] = "loop" /\ at' = at /\ count' = count
        /\ overlap' = overlap
        /\ slots' = [slots EXCEPT ![at[h]].weight = Via(h, cur[h])] /\ at[h] \in Slot
        /\ \A g \in Handler \ {h} : pc'[g] = pc[g]
    BY <1>10 DEF FillWeight, Goto, TypeOK
  <2>2. /\ Tidy /\ Doing(h) /\ \A g \in Handler \ {h} : pc[g] = "idle"
    BY <1>3, <2>1
  <2>3. /\ at[h] + 1 = count /\ slots[at[h]].uuid = cur[h]
        /\ given[h] >= Least[req[h].from]
    BY <2>1, <2>2 DEF Doing, Merging
  <2>4. /\ cur[h] \in Peer /\ Via(h, cur[h]) \in Weight /\ Via(h, cur[h]) >= Least[cur[h]]
    BY <2>1, <2>3, ViaLeast DEF Merging
  <2>5. /\ slots'[at[h]].uuid = cur[h] /\ slots'[at[h]].weight = Via(h, cur[h])
        /\ \A i \in Slot : i # at[h] => slots'[i] = slots[i]
    BY <2>1, <2>3 DEF TypeOK, EntryType
  <2>6. at[h] < count
    BY <2>1, <2>3, TableAssumption DEF Slot
  <2>7. /\ \A i \in Slot : Filled(i) => i # at[h]
        /\ \A i \in Slot : i # at[h] => (Filled(i)' <=> Filled(i))
        /\ \A i \in Slot : i = at[h] => Filled(i)'
    BY <2>1, <2>2, <2>6 DEF Filled
  <2>8. ~ \E i \in Slot : Has(cur[h], i)
    <3>1. \A i \in Slot : i < count /\ slots[i].uuid = cur[h] => i = at[h]
      BY <2>1, <2>2, <2>3, <2>4, <2>6, TableAssumption DEF Tidy, Distinct, Uuid
    <3> QED
      BY <2>7, <3>1 DEF Has
  <2>9. \A u : u = cur[h] => Has(u, at[h])'
    BY <2>1, <2>5, <2>6, <2>7 DEF Has
  <2>10. \A u \in Peer \ {cur[h]}, i \in Slot :
           /\ Has(u, i)' <=> Has(u, i)
           /\ Has(u, i) => slots'[i].weight = slots[i].weight
    BY <2>1, <2>3, <2>5, <2>7 DEF Has
  <2> QED
    BY <1>0, <2>1, <2>2, <2>4, <2>5, <2>8, <2>9, <2>10, EnterStep
<1>11. ASSUME NEW h \in Handler, LowerWeight(h) PROVE Routes!RouteNext
  <2>1. /\ pc[h] = "lower" /\ pc'[h] = "loop" /\ at' = at /\ count' = count
        /\ overlap' = overlap
        /\ slots' = [slots EXCEPT ![at[h]].weight = Via(h, cur[h])] /\ at[h] \in Slot
        /\ \A g \in Handler \ {h} : pc'[g] = pc[g]
    BY <1>11 DEF LowerWeight, Goto, TypeOK
  <2>2. /\ Tidy /\ Doing(h) /\ \A g \in Handler \ {h} : pc[g] = "idle"
    BY <1>3, <2>1
  <2>3. /\ at[h] < count /\ slots[at[h]].uuid = cur[h]
        /\ given[h] >= Least[req[h].from] /\ Via(h, cur[h]) < slots[at[h]].weight
    BY <2>1, <2>2 DEF Doing, Merging
  <2>4. /\ cur[h] \in Peer /\ Via(h, cur[h]) \in Weight /\ Via(h, cur[h]) >= Least[cur[h]]
    BY <2>1, <2>3, ViaLeast DEF Merging
  <2>5. /\ slots'[at[h]].weight = Via(h, cur[h])
        /\ \A i \in Slot : i # at[h] => slots'[i] = slots[i]
        /\ \A i \in Slot : slots'[i].uuid = slots[i].uuid
    BY <2>1, <2>3 DEF TypeOK, EntryType
  <2>6. \A i \in Slot : (Filled(i)' <=> Filled(i)) /\ (i < count => Filled(i))
    BY <2>1, <2>2 DEF Filled
  <2>7. Has(cur[h], at[h])
    BY <2>1, <2>3, <2>6 DEF Has
  <2>8. \A u : u = cur[h] => Has(u, at[h])'
    BY <2>1, <2>3, <2>5, <2>6 DEF Has
  <2>9. \A u \in Peer \ {cur[h]}, i \in Slot :
          /\ Has(u, i)' <=> Has(u, i)
          /\ Has(u, i) => slots'[i].weight = slots[i].weight
    BY <2>1, <2>3, <2>5, <2>6 DEF Has
  <2> QED
    BY <1>0, <2>1, <2>2, <2>3, <2>4, <2>5, <2>7, <2>8, <2>9, ImproveStep
<1>12. ASSUME NEW h \in Handler, AddCount(h) PROVE Routes!RouteNext
  <2>1. /\ pc[h] = "addbump" /\ pc'[h] = "look" /\ at' = at /\ count' = count + 1
        /\ overlap' = overlap /\ slots' = slots
        /\ \A g \in Handler \ {h} : pc'[g] = pc[g]
    BY <1>12 DEF AddCount, Goto, TypeOK
  <2>2. Tidy /\ Doing(h) /\ \A g \in Handler \ {h} : pc[g] = "idle"
    BY <1>3, <2>1
  <2>3. /\ count < MaxPeers /\ slots[count].uuid \in Peer /\ Places(slots[count].uuid) = {}
        /\ slots[count].weight >= Least[slots[count].uuid] /\ count \in Slot
    BY <2>1, <2>2, TableAssumption DEF Doing, TypeOK, Slot
  <2>4. slots[count].weight \in Weight
    BY <2>3 DEF TypeOK, EntryType
  <2>5. \A i \in Slot : i < count + 1 <=> i < count \/ i = count
    BY TableAssumption DEF Slot, TypeOK
  <2>6. \A i \in Slot : /\ Filled(i) <=> i < count
                        /\ Filled(i)' <=> i < count \/ i = count
    BY <2>1, <2>2, <2>5 DEF Filled
  <2>7. ~ \E i \in Slot : Has(slots[count].uuid, i)
    BY <2>3 DEF Has, Places
  <2>8. \A u, i : u = slots[count].uuid /\ i = count => Has(u, i)'
    BY <2>1, <2>3, <2>5, <2>6 DEF Has
  <2>9. \A u \in Peer \ {slots[count].uuid}, i \in Slot :
          /\ Has(u, i)' <=> Has(u, i)
          /\ Has(u, i) => slots'[i].weight = slots[i].weight
    BY <2>1, <2>5, <2>6 DEF Has
  <2> QED
    BY <1>0, <2>1, <2>2, <2>3, <2>4, <2>7, <2>8, <2>9, EnterStep
<1> QED
  BY <1>1, <1>4, <1>5, <1>6, <1>7, <1>8, <1>9, <1>10, <1>11, <1>12 DEF Next, MapStep

(* The table is a route table to whoever reads it, as long as no two       *)
(* requests are handled at the same time.                                  *)
THEOREM AloneIsRouteTable == Spec => AloneImplements
<1>1. Init => TypeOK /\ Working /\ Solo /\ Routes!RouteInit
  <2>1. ASSUME Init PROVE mapped \in [Peer -> Weight \union {MaxCost + 1}]
    <3>1. Tidy /\ TypeOK
      BY <2>1, InitSolo, InitTypes DEF Solo, Init
    <3>2. ASSUME NEW u \in Peer PROVE mapped[u] \in Weight \union {MaxCost + 1}
      <4>1. Says(u)
        BY <3>1, MappedIs
      <4>2. \A i \in Slot : slots[i].weight \in Weight
        BY <3>1 DEF TypeOK, EntryType
      <4> QED
        BY <4>1, <4>2 DEF Says
    <3>3. mapped = [u \in Peer |-> mapped[u]]
      BY DEF mapped
    <3> HIDE DEF mapped
    <3> QED
      BY <3>2, <3>3
  <2> QED
    BY <2>1, InitSolo, InitTypes DEF Routes!RouteInit
<1>2. TypeOK /\ Working /\ Solo /\ [Next]_vars => (TypeOK /\ Working /\ Solo)'
  BY TypeStep, SoloStep
<1>3. TypeOK /\ Working /\ Solo /\ (TypeOK /\ Working /\ Solo)' /\ [Next]_vars
        => [~overlap' => Routes!RouteNext]_mapped
  BY RouteStep
<1> QED
  BY <1>1, <1>2, <1>3, PTL DEF Spec, AloneImplements
=============================================================================
