------------------------- MODULE AddressBookProofs -------------------------
(***************************************************************************)
(* Machine-checked facts about AddressBook, for any nodes, hosts, ports,   *)
(* node.conf files, buckets and operators.                                 *)
(***************************************************************************)
EXTENDS AddressBook, NaturalsInduction, WellFoundedInduction, TLAPS

(* The list nodes that a node's network_map, or a writer in it, leads to.  *)
Around(n) ==
  UNION ({Nodes(map[n][b]) : b \in Lists} \union {Nodes(at[n][w].seen) : w \in Writer})

(* A writer that is about to take a list node of u out has read that one,  *)
(* and the ones from it on or the one before it.                           *)
Reads(n, w, u) ==
  /\ ~astray[n] /\ at[n][w].step = "cuthead" =>
       at[n][w].seen # << >> /\ at[n][w].seen[1].uuid = u
  /\ ~astray[n] /\ at[n][w].step = "cut" =>
       Len(at[n][w].seen) = 2 /\ at[n][w].seen[2].uuid = u

(* A writer is in network_map for the uuid that its thread works for.      *)
Works(n, w) ==
  /\ at[n][w].step # "idle" =>
       /\ w = "handler" => work[n].step \in {"map", "remap"}
       /\ w = "operator" => adding[n].step = "map"
  /\ Reads(n, w, Uuid(n, w))
Working == \A n \in Node, w \in Writer : Works(n, w)

(* What a handler is about to write down is true of the sender.            *)
Heard ==
  \A t \in Node : work[t] # NoWork => Resolved(t, work[t].name) \in had[work[t].from]

(* What a node has written down is true of the peer, and what a writer has *)
(* read of it.                                                             *)
IsTrue(n, x) == x.name.host # Unset => Resolved(n, x.name) \in had[x.uuid]
Written == \A n \in Node : \A x \in Around(n) : IsTrue(n, x)

-----------------------------------------------------------------------------
(* An address that a node has for another leads where it says.             *)
LEMMA Resolving ==
  ASSUME TypeOK, NEW n \in Node, NEW t \in Node
  PROVE  /\ Seen(n, t) \in Name /\ Seen(n, t).host # Unset
         /\ Resolved(t, Seen(n, t)) = addr[n]
<1>1. addr[n] \in Address /\ addr[t] \in Address
  BY DEF TypeOK
<1>2. addr[n].host \in Host /\ addr[n].port \in Port /\ addr[t].host \in Host
  BY <1>1 DEF Address
<1>3. Seen(n, t) \in Name /\ Seen(n, t).host # Unset
  BY <1>2, BookAssumption DEF Seen, Name
<1>4. /\ Resolved(t, Seen(n, t)).host = addr[n].host
      /\ Resolved(t, Seen(n, t)).port = addr[n].port
  BY <1>2, BookAssumption DEF Seen, Resolved
<1>5. Resolved(t, Seen(n, t)) = [host |-> addr[n].host, port |-> addr[n].port]
  BY <1>4 DEF Resolved
<1>6. addr[n] = [host |-> addr[n].host, port |-> addr[n].port]
  BY <1>1 DEF Address
<1> QED
  BY <1>3, <1>5, <1>6

(* What a handler that is at work has.                                     *)
LEMMA AtWork ==
  ASSUME TypeOK, NEW t \in Node, work[t].step # "idle"
  PROVE  /\ work[t] \in Work /\ work[t] # NoWork
         /\ work[t].from \in Node /\ work[t].name \in Name
         /\ work[t].peers \in [Node -> Entry]
BY DEF TypeOK, Work, NoWork

(* What an addneighbor that is at work has.                                *)
LEMMA AtAdding ==
  ASSUME TypeOK, NEW n \in Node, adding[n].step # "idle"
  PROVE  /\ adding[n] \in Adding /\ adding[n] # NoAdding
         /\ adding[n].uuid \in Node /\ adding[n].port \in Port
BY DEF TypeOK, Adding, NoAdding

(* A set of numbers has a least one.                                        *)
LEMMA LeastNumber ==
  ASSUME NEW S \in SUBSET Nat, S # {}
  PROVE  \E m \in S : \A n \in S : m <= n
<1> DEFINE Below == {p \in Nat \X Nat : p[1] < p[2]}
<1>1. IsWellFoundedOn(Below, Nat)
  BY NatLessThanWellFounded DEF OpToRel
<1>2. \E m \in S : \A n \in S : ~(<<n, m>> \in Below)
  BY <1>1, WFMin
<1>3. \A m, n \in Nat : n < m => <<n, m>> \in Below
  OBVIOUS
<1> HIDE DEF Below
<1>4. ASSUME NEW m \in S, \A n \in S : ~(<<n, m>> \in Below)
      PROVE  \A n \in S : m <= n
  <2>1. \A n \in S : ~(n < m)
    BY <1>3, <1>4
  <2> QED
    BY <2>1
<1> QED
  BY <1>2, <1>4

(* A writer in network_map has a uuid, with a list, and an address for it. *)
LEMMA AtMap ==
  ASSUME TypeOK, NEW n \in Node, NEW w \in Writer, Works(n, w), at[n][w].step # "idle"
  PROVE  /\ Uuid(n, w) \in Node /\ Bucket[Uuid(n, w)] \in Lists /\ Filed(n, w) \in Name
         /\ w = "handler" => work[n].step \in {"map", "remap"} /\ work[n] \in Work
         /\ w = "operator" => adding[n].step = "map" /\ adding[n] \in Adding
<1>1. CASE w = "handler"
  <2>1. work[n].step \in {"map", "remap"}
    BY <1>1 DEF Works
  <2> QED
    BY <1>1, <2>1, AtWork DEF Uuid, Filed, Lists
<1>2. CASE w = "operator"
  <2>1. adding[n].step = "map"
    BY <1>2 DEF Works
  <2>2. adding[n] \in Adding /\ adding[n].uuid \in Node /\ adding[n].port \in Port
    BY <2>1, AtAdding
  <2>3. [host |-> Unset, port |-> adding[n].port] \in Name
    BY <2>2 DEF Name
  <2> QED
    BY <1>2, <2>1, <2>2, <2>3 DEF Uuid, Filed, Lists
<1> QED
  BY <1>1, <1>2 DEF Writer

(* The lists of network_map.                                               *)
LEMMA ListTypes ==
  ASSUME TypeOK, NEW n \in Node
  PROVE  /\ \A b \in Lists : map[n][b] \in Seq(ListNode) /\ Nodes(map[n][b]) \subseteq Around(n)
         /\ \A w \in Writer : /\ at[n][w] \in Place /\ at[n][w].seen \in Seq(ListNode)
                              /\ Nodes(at[n][w].seen) \subseteq Around(n)
         /\ Around(n) \subseteq ListNode
<1>1. \A b \in Lists : map[n][b] \in Seq(ListNode)
  BY DEF TypeOK
<1>2. \A w \in Writer : at[n][w] \in Place /\ at[n][w].seen \in Seq(ListNode)
  BY DEF TypeOK, Place
<1>3. \A list \in Seq(ListNode) : Nodes(list) \subseteq ListNode
  BY DEF Nodes
<1> QED
  BY <1>1, <1>2, <1>3 DEF Around

(* The node that a walk finds, and the one before it.                      *)
LEMMA FirstNode ==
  ASSUME TypeOK, NEW n \in Node, NEW u \in Node, Matches(n, u) # {}
  PROVE  /\ List(n, u) \in Seq(ListNode) /\ List(n, u) # << >>
         /\ First(n, u) \in DOMAIN List(n, u)
         /\ List(n, u)[First(n, u)] \in ListNode \intersect Around(n)
         /\ List(n, u)[First(n, u)].uuid = u
         /\ First(n, u) # 1 => List(n, u)[First(n, u) - 1] \in ListNode \intersect Around(n)
<1>1. List(n, u) \in Seq(ListNode) /\ Nodes(List(n, u)) \subseteq ListNode \intersect Around(n)
  BY ListTypes DEF List, Lists
<1>2. Matches(n, u) \subseteq Nat
  BY <1>1 DEF Matches
<1>3. \E m \in Matches(n, u) : \A j \in Matches(n, u) : m <= j
  BY <1>2, LeastNumber
<1>4. First(n, u) \in Matches(n, u)
  BY <1>3 DEF First
<1>5. /\ First(n, u) \in DOMAIN List(n, u) /\ List(n, u)[First(n, u)].uuid = u
      /\ List(n, u)[First(n, u)] \in Nodes(List(n, u))
  BY <1>4 DEF Matches, Nodes
<1>6. ASSUME First(n, u) # 1 PROVE List(n, u)[First(n, u) - 1] \in Nodes(List(n, u))
  <2>1. First(n, u) - 1 \in DOMAIN List(n, u)
    BY <1>1, <1>5, <1>6
  <2> QED
    BY <2>1 DEF Nodes
<1>7. List(n, u) # << >>
  BY <1>1, <1>5
<1> QED
  BY <1>1, <1>5, <1>6, <1>7

(* A list without a node that follows another one: nothing else is gone,   *)
(* and the first node stays the first.                                     *)
LEMMA WithoutList ==
  ASSUME NEW list \in Seq(ListNode), NEW p, NEW x
  PROVE  /\ Without(list, p, x) \in Seq(ListNode)
         /\ Nodes(list) \subseteq Nodes(Without(list, p, x)) \union {x}
         /\ Nodes(Without(list, p, x)) \subseteq Nodes(list)
         /\ list # << >> => Without(list, p, x) # << >> /\ Without(list, p, x)[1] = list[1]
         /\ x \notin Nodes(list) => Without(list, p, x) = list
<1> DEFINE after == {i \in DOMAIN list : i > 1 /\ list[i] = x /\ list[i - 1] = p}
<1>1. CASE after = {}
  <2>1. Without(list, p, x) = list
    BY <1>1 DEF Without
  <2> QED
    BY <2>1
<1>2. CASE after # {}
  <2>1. PICK i \in after : i = CHOOSE k \in after : TRUE
    BY <1>2
  <2>2. /\ i \in DOMAIN list /\ i \in Nat /\ i > 1 /\ i <= Len(list)
        /\ Len(list) \in Nat /\ list[i] = x
    OBVIOUS
  <2> DEFINE rest == [j \in 1 .. Len(list) - 1 |-> IF j < i THEN list[j] ELSE list[j + 1]]
  <2>3. Without(list, p, x) = rest
    BY <1>2, <2>1 DEF Without
  <2>4. Len(list) - 1 \in Nat /\ Len(list) - 1 >= 1
    BY <2>2
  <2>5. \A j \in 1 .. Len(list) - 1 : j \in DOMAIN list /\ j + 1 \in DOMAIN list
    BY <2>2
  <2>6. rest \in Seq(ListNode) /\ Len(rest) = Len(list) - 1 /\ DOMAIN rest = 1 .. Len(list) - 1
    BY <2>4, <2>5
  <2>7. rest # << >> /\ rest[1] = list[1]
    BY <2>2, <2>4, <2>6
  <2>8. ASSUME NEW k \in DOMAIN list, k # i PROVE \E j \in DOMAIN rest : rest[j] = list[k]
    <3>1. CASE k < i
      <4>1. k \in 1 .. Len(list) - 1 /\ rest[k] = list[k]
        BY <2>2, <3>1
      <4> QED
        BY <2>6, <4>1
    <3>2. CASE k > i
      <4>1. k - 1 \in 1 .. Len(list) - 1 /\ ~(k - 1 < i) /\ (k - 1) + 1 = k
        BY <2>2, <3>2
      <4>2. rest[k - 1] = list[k]
        BY <4>1
      <4> QED
        BY <2>6, <4>1, <4>2
    <3> QED
      BY <2>2, <2>8, <3>1, <3>2
  <2>10. \A j \in DOMAIN rest : rest[j] \in Nodes(list)
    BY <2>5, <2>6 DEF Nodes
  <2> HIDE DEF rest
  <2>9. Nodes(list) \subseteq Nodes(rest) \union {x}
    BY <2>2, <2>8 DEF Nodes
  <2> QED
    BY <2>2, <2>3, <2>6, <2>7, <2>9, <2>10 DEF Nodes
<1> QED
  BY <1>1, <1>2

(* A list in which one node has got another value.                         *)
LEMMA RenamedList ==
  ASSUME NEW list \in Seq(ListNode), NEW x \in ListNode, NEW name \in Name
  PROVE  /\ Renamed(list, x, name) \in Seq(ListNode)
         /\ Len(Renamed(list, x, name)) = Len(list)
         /\ DOMAIN Renamed(list, x, name) = DOMAIN list
         /\ \A i \in DOMAIN list : Renamed(list, x, name)[i].uuid = list[i].uuid
         /\ Nodes(Renamed(list, x, name)) \subseteq Nodes(list) \union {[x EXCEPT !.name = name]}
<1> DEFINE renamed == Renamed(list, x, name)
           new == [x EXCEPT !.name = name]
<1>1. new \in ListNode /\ new.uuid = x.uuid
  BY DEF ListNode
<1>2. /\ DOMAIN renamed = DOMAIN list
      /\ \A i \in DOMAIN list : renamed[i] = IF list[i] = x THEN new ELSE list[i]
  BY DEF Renamed
<1>4. renamed = [i \in 1 .. Len(list) |-> IF list[i] = x THEN new ELSE list[i]]
  BY DEF Renamed
<1> HIDE DEF renamed, new
<1>3. \A i \in DOMAIN list : renamed[i] \in ListNode /\ renamed[i].uuid = list[i].uuid
  BY <1>1, <1>2
<1>5. renamed \in Seq(ListNode) /\ Len(renamed) = Len(list)
  <2>1. Len(list) \in Nat /\ \A i \in 1 .. Len(list) : list[i] \in ListNode
    OBVIOUS
  <2> QED
    BY <1>1, <1>4, <2>1
<1>6. Nodes(renamed) \subseteq Nodes(list) \union {new}
  BY <1>2 DEF Nodes
<1> QED
  BY <1>2, <1>3, <1>5, <1>6 DEF renamed, new

(* A list with a new node in front of the others.                          *)
LEMMA NewList ==
  ASSUME NEW list \in Seq(ListNode), NEW new \in ListNode
  PROVE  /\ <<new>> \o list \in Seq(ListNode)
         /\ Nodes(<<new>> \o list) = {new} \union Nodes(list)
<1>1. <<new>> \o list \in Seq(ListNode) /\ Len(<<new>> \o list) = Len(list) + 1
  OBVIOUS
<1>2. (<<new>> \o list)[1] = new /\ 1 \in DOMAIN (<<new>> \o list)
  OBVIOUS
<1>3. \A i \in DOMAIN list : /\ i + 1 \in DOMAIN (<<new>> \o list)
                             /\ (<<new>> \o list)[i + 1] = list[i]
  OBVIOUS
<1>4. \A i \in DOMAIN (<<new>> \o list) :
        i = 1 \/ (i - 1 \in DOMAIN list /\ (<<new>> \o list)[i] = list[i - 1])
  OBVIOUS
<1>5. Nodes(list) \subseteq Nodes(<<new>> \o list) /\ new \in Nodes(<<new>> \o list)
  BY <1>2, <1>3 DEF Nodes
<1>6. Nodes(<<new>> \o list) \subseteq {new} \union Nodes(list)
  BY <1>2, <1>4 DEF Nodes
<1> QED
  BY <1>1, <1>5, <1>6

(* The list behind its first node.                                         *)
LEMMA TailList ==
  ASSUME NEW list \in Seq(ListNode), list # << >>
  PROVE  /\ Tail(list) \in Seq(ListNode) /\ Head(list) = list[1]
         /\ Nodes(Tail(list)) \subseteq Nodes(list)
         /\ Nodes(list) \subseteq Nodes(Tail(list)) \union {list[1]}
<1>1. /\ Tail(list) \in Seq(ListNode) /\ Len(Tail(list)) = Len(list) - 1
      /\ Head(list) = list[1]
  OBVIOUS
<1>2. ASSUME NEW i \in DOMAIN list, i # 1 PROVE list[i] \in Nodes(Tail(list))
  <2>1. i - 1 \in DOMAIN Tail(list) /\ Tail(list)[i - 1] = list[i]
    BY <1>1, <1>2
  <2> QED
    BY <2>1 DEF Nodes
<1>3. \A i \in DOMAIN Tail(list) : i + 1 \in DOMAIN list /\ Tail(list)[i] = list[i + 1]
  BY <1>1
<1>4. Nodes(Tail(list)) \subseteq Nodes(list)
  BY <1>3 DEF Nodes
<1> QED
  BY <1>1, <1>2, <1>4 DEF Nodes

-----------------------------------------------------------------------------
(* What an update of network_map is, for everything below: it keeps types; *)
(* what it brings is the writer's address for its uuid; that uuid alone is *)
(* missing and not dropped afterwards; and it ends with the uuid put.      *)
MapTyped ==
  /\ map \in [Node -> [Lists -> Seq(ListNode)]]
  /\ at \in [Node -> [Writer -> Place]]
  /\ lost \in [Node -> SUBSET Node] /\ astray \in [Node -> BOOLEAN]
Updated(n, w) ==
  /\ MapTyped'
  /\ \A m \in Node \ {n} : /\ map'[m] = map[m] /\ at'[m] = at[m]
                           /\ lost'[m] = lost[m] /\ astray'[m] = astray[m]
  /\ \A v \in Writer \ {w} : at'[n][v].step = at[n][v].step
  /\ \A v \in Writer, u \in Node : u = Uuid(n, v) => Reads(n, v, u)'
  /\ \A y \in Around(n)' : y \in Around(n) \/ (y.uuid = Uuid(n, w) /\ y.name = Filed(n, w))
  /\ astray[n] => astray'[n]
  /\ ~astray'[n] => Known(n) \union lost[n] \subseteq Known(n)' \union lost'[n] \union {Uuid(n, w)}
  /\ \/ work' = work /\ adding' = adding
     \/ /\ Done(n, w) /\ at'[n][w].step = Follows(n, w)
        /\ astray'[n] \/ Uuid(n, w) \in Known(n)'

Steps == {"idle", "find", "cut", "cuthead", "search", "head", "link"}

(* A writer goes on, with what it has read.                                *)
LEMMA GotoTypes ==
  ASSUME TypeOK, NEW n \in Node, NEW w \in Writer, NEW step \in Steps,
         NEW list \in Seq(ListNode), Goto(n, w, step, list)
  PROVE  /\ at' \in [Node -> [Writer -> Place]]
         /\ at'[n][w].step = step /\ at'[n][w].seen = list
         /\ \A v \in Writer \ {w} : at'[n][v] = at[n][v]
         /\ \A m \in Node \ {n} : at'[m] = at[m]
<1>1. [step |-> step, seen |-> list] \in Place
  BY DEF Place, Steps
<1> QED
  BY <1>1 DEF Goto, TypeOK

(* A uuid is known when a node of its list has it; the same after a step.  *)
LEMMA KnownIs ==
  ASSUME NEW n, NEW u \in Node
  PROVE  u \in Known(n) <=> \E y \in Nodes(map[n][Bucket[u]]) : y.uuid = u
BY DEF Known, Matches, List, Nodes

LEMMA KnownIsThen ==
  ASSUME NEW n, NEW u \in Node
  PROVE  u \in Known(n)' <=> \E y \in Nodes(map'[n][Bucket[u]]) : y.uuid = u
BY DEF Known, Matches, List, Nodes

(* A writer looks at network_map and goes on.                              *)
LEMMA LookStep ==
  ASSUME TypeOK, NEW n \in Node, NEW w \in Writer, \A v \in Writer : Works(n, v),
         UNCHANGED <<map, lost, astray, work, adding>>,
         NEW step \in Steps, NEW list \in Seq(ListNode), Goto(n, w, step, list),
         Nodes(list) \subseteq Around(n),
         step = "cuthead" => list # << >> /\ list[1].uuid = Uuid(n, w),
         step = "cut" => Len(list) = 2 /\ list[2].uuid = Uuid(n, w)
  PROVE  Updated(n, w)
<1>1. /\ at' \in [Node -> [Writer -> Place]]
      /\ at'[n][w].step = step /\ at'[n][w].seen = list
      /\ \A v \in Writer \ {w} : at'[n][v] = at[n][v]
      /\ \A m \in Node \ {n} : at'[m] = at[m]
  BY GotoTypes
<1>2. MapTyped'
  BY <1>1 DEF MapTyped, TypeOK
<1>3. \A v \in Writer, u \in Node : u = Uuid(n, v) => Reads(n, v, u)'
  BY <1>1 DEF Works, Reads
<1>4. \A v \in Writer : Nodes(at'[n][v].seen) \subseteq Around(n)
  BY <1>1, ListTypes
<1>5. Around(n)' = UNION ({Nodes(map'[n][b]) : b \in Lists}
                          \union {Nodes(at'[n][v].seen) : v \in Writer})
  BY DEF Around
<1>6. \A b \in Lists : Nodes(map'[n][b]) \subseteq Around(n)
  BY DEF Around
<1>7. Around(n)' \subseteq Around(n)
  BY <1>4, <1>5, <1>6
<1>8. Known(n)' = Known(n)
  BY DEF Known, Matches, List
<1> QED
  BY <1>1, <1>2, <1>3, <1>7, <1>8 DEF Updated

(* hash_table_delete's walk, and hash_table_put's look at the head.        *)
LEMMA FindStep ==
  ASSUME TypeOK, NEW n \in Node, NEW w \in Writer, \A v \in Writer : Works(n, v),
         Find(n, w) \/ ReadHead(n, w)
  PROVE  Updated(n, w)
<1>1. Uuid(n, w) \in Node
  BY AtMap DEF Find, ReadHead, Is
<1>2. UNCHANGED <<map, lost, astray, work, adding>>
  BY DEF Find, ReadHead
<1>3. /\ List(n, Uuid(n, w)) \in Seq(ListNode)
      /\ Nodes(List(n, Uuid(n, w))) \subseteq Around(n)
  BY <1>1, ListTypes DEF List, Lists
<1>4. << >> \in Seq(ListNode) /\ Nodes(<< >>) = {}
  BY DEF Nodes
<1>5. CASE ReadHead(n, w)
  BY <1>2, <1>3, <1>5, LookStep DEF ReadHead, Steps
<1>6. CASE Find(n, w)
  <2> DEFINE u == Uuid(n, w)
             i == First(n, u)
             p == List(n, u)[i - 1]
             x == List(n, u)[i]
  <2>1. CASE Matches(n, u) = {}
    <3>1. Goto(n, w, "search", << >>)
      BY <1>6, <2>1 DEF Find
    <3> QED
      BY <1>2, <1>4, <3>1, LookStep DEF Steps
  <2>2. CASE Matches(n, u) # {}
    <3>1. /\ List(n, u) # << >> /\ x \in ListNode \intersect Around(n) /\ x.uuid = u
          /\ i # 1 => p \in ListNode \intersect Around(n)
      BY <1>1, <2>2, FirstNode
    <3>2. CASE i = 1
      <4>1. Goto(n, w, "cuthead", List(n, u))
        BY <1>6, <2>2, <3>2 DEF Find
      <4> QED
        BY <1>2, <1>3, <3>1, <3>2, <4>1, LookStep DEF Steps
    <3>3. CASE i # 1
      <4>1. Goto(n, w, "cut", <<p, x>>)
        BY <1>6, <2>2, <3>3 DEF Find
      <4> HIDE DEF i, p, x, u
      <4>2. <<p, x>> \in Seq(ListNode) /\ Len(<<p, x>>) = 2 /\ <<p, x>>[2] = x
        BY <3>1, <3>3
      <4>3. Nodes(<<p, x>>) \subseteq {p, x}
        BY DEF Nodes
      <4>4. Nodes(<<p, x>>) \subseteq Around(n)
        BY <3>1, <3>3, <4>3
      <4>5. <<p, x>>[2].uuid = Uuid(n, w)
        BY <3>1, <4>2 DEF u
      <4> QED
        BY <1>2, <4>1, <4>2, <4>4, <4>5, LookStep DEF Steps
    <3> QED
      BY <3>2, <3>3
  <2> QED
    BY <2>1, <2>2
<1> QED
  BY <1>5, <1>6

(* A writer that has read a node and is at it is still at it when another  *)
(* one has freed a node: it was not that one.                              *)
LEMMA ReadsStays ==
  ASSUME TypeOK, NEW n \in Node, NEW v \in Writer, NEW u, Reads(n, v, u),
         NEW p, NEW x, ~Held(n, v, p, x), astray'[n] = astray[n],
         at'[n][v].step = at[n][v].step, at'[n][v].seen = Without(at[n][v].seen, p, x)
  PROVE  Reads(n, v, u)'
<1>1. at[n][v].seen \in Seq(ListNode)
  BY ListTypes
<1>2. CASE at[n][v].step = "cut"
  <2>1. at'[n][v].seen = at[n][v].seen
    BY <1>1, <1>2, WithoutList DEF Held
  <2> QED
    BY <2>1 DEF Reads
<1>3. CASE at[n][v].step = "cuthead" /\ ~astray[n]
  <2>1. at[n][v].seen # << >> /\ at[n][v].seen[1].uuid = u
    BY <1>3 DEF Reads
  <2>2. at'[n][v].seen # << >> /\ at'[n][v].seen[1] = at[n][v].seen[1]
    BY <1>1, <2>1, WithoutList
  <2> QED
    BY <1>3, <2>1, <2>2 DEF Reads
<1> QED
  BY <1>2, <1>3 DEF Reads

(* A node of the writer's uuid is taken out of its list and freed.         *)
LEMMA FreeStep ==
  ASSUME TypeOK, NEW n \in Node, NEW w \in Writer, \A v \in Writer : Works(n, v),
         at[n][w].step \in {"cut", "cuthead"},
         NEW list \in Seq(ListNode), Nodes(list) \subseteq Around(n),
         NEW p, NEW x, x.uuid = Uuid(n, w),
         NEW dropped \in SUBSET Node, Free(n, w, list, p, x, dropped),
         \A y \in Nodes(List(n, Uuid(n, w))) \ {x} :
           y \in Nodes(list) \/ Known(n) \subseteq dropped \union {Uuid(n, w)},
         UNCHANGED <<work, adding>>
  PROVE  Updated(n, w)
<1>1. Uuid(n, w) \in Node /\ Bucket[Uuid(n, w)] \in Lists
  BY AtMap
<1>2. << >> \in Seq(ListNode) /\ Nodes(<< >>) = {}
  BY DEF Nodes
<1>3. Around(n)' = UNION ({Nodes(map'[n][b]) : b \in Lists}
                          \union {Nodes(at'[n][v].seen) : v \in Writer})
  BY DEF Around
<1>4. CASE Lose(n)
  <2>1. /\ map' = [map EXCEPT ![n] = EmptyMap] /\ astray' = [astray EXCEPT ![n] = TRUE]
        /\ lost' = [lost EXCEPT ![n] = {}]
        /\ at' = [at EXCEPT ![n] = [v \in Writer |-> [step |-> at[n][v].step, seen |-> << >>]]]
    BY <1>4 DEF Lose
  <2>2. \A v \in Writer : [step |-> at[n][v].step, seen |-> << >>] \in Place
    BY <1>2 DEF TypeOK, Place
  <2>3. EmptyMap \in [Lists -> Seq(ListNode)]
    BY <1>2 DEF EmptyMap
  <2>4. MapTyped'
    BY <2>1, <2>2, <2>3 DEF MapTyped, TypeOK
  <2>5. /\ map'[n] = EmptyMap /\ astray'[n] = TRUE
        /\ \A v \in Writer : at'[n][v].step = at[n][v].step /\ at'[n][v].seen = << >>
        /\ \A m \in Node \ {n} : /\ map'[m] = map[m] /\ at'[m] = at[m]
                                 /\ lost'[m] = lost[m] /\ astray'[m] = astray[m]
    BY <2>1 DEF TypeOK
  <2>6. Around(n)' = {}
    BY <1>2, <1>3, <2>5 DEF EmptyMap
  <2>7. \A v \in Writer, u \in Node : u = Uuid(n, v) => Reads(n, v, u)'
    BY <2>5 DEF Reads
  <2> QED
    BY <2>4, <2>5, <2>6, <2>7 DEF Updated
<1>5. CASE ~Lose(n)
  <2>1. /\ map' = [map EXCEPT ![n][Bucket[Uuid(n, w)]] = list]
        /\ at' = [at EXCEPT ![n] = [v \in Writer |->
             IF v = w THEN [step |-> "search", seen |-> << >>]
             ELSE [step |-> at[n][v].step, seen |-> Without(at[n][v].seen, p, x)]]]
        /\ lost' = [lost EXCEPT ![n] = (@ \union dropped) \ Known(n)']
        /\ astray' = astray
        /\ \A v \in Writer \ {w} : ~Held(n, v, p, x)
    BY <1>5 DEF Free, Relist, Drop
  <2>2. \A v \in Writer :
          /\ Without(at[n][v].seen, p, x) \in Seq(ListNode)
          /\ Nodes(Without(at[n][v].seen, p, x)) \subseteq Around(n)
    BY ListTypes, WithoutList
  <2>3. \A v \in Writer : (IF v = w THEN [step |-> "search", seen |-> << >>]
             ELSE [step |-> at[n][v].step, seen |-> Without(at[n][v].seen, p, x)]) \in Place
    BY <1>2, <2>2 DEF TypeOK, Place
  <2>4. at' \in [Node -> [Writer -> Place]]
    BY <2>1, <2>3 DEF TypeOK
  <2>5. map' \in [Node -> [Lists -> Seq(ListNode)]]
    BY <2>1 DEF TypeOK
  <2>6. MapTyped'
    BY <2>1, <2>4, <2>5 DEF MapTyped, TypeOK
  <2>7. /\ \A b \in Lists : map'[n][b] = IF b = Bucket[Uuid(n, w)] THEN list ELSE map[n][b]
        /\ \A m \in Node \ {n} : /\ map'[m] = map[m] /\ at'[m] = at[m]
                                 /\ lost'[m] = lost[m] /\ astray'[m] = astray[m]
        /\ lost'[n] = (lost[n] \union dropped) \ Known(n)'
    BY <1>1, <2>1 DEF TypeOK
  <2>8. /\ at'[n][w].step = "search" /\ at'[n][w].seen = << >>
        /\ \A v \in Writer \ {w} : /\ at'[n][v].step = at[n][v].step
                                   /\ at'[n][v].seen = Without(at[n][v].seen, p, x)
    BY <2>1 DEF TypeOK
  <2>9. Around(n)' \subseteq Around(n)
    <3>1. \A b \in Lists : Nodes(map'[n][b]) \subseteq Around(n)
      BY <2>7, ListTypes
    <3>2. \A v \in Writer : Nodes(at'[n][v].seen) \subseteq Around(n)
      BY <1>2, <2>2, <2>8
    <3> QED
      BY <1>3, <3>1, <3>2
  <2>10. \A v \in Writer, u \in Node : u = Uuid(n, v) => Reads(n, v, u)'
    <3> SUFFICES ASSUME NEW v \in Writer, NEW u \in Node, u = Uuid(n, v)
                 PROVE  Reads(n, v, u)'
      OBVIOUS
    <3>1. CASE v = w
      BY <2>8, <3>1 DEF Reads
    <3>2. CASE v # w
      <4>1. Reads(n, v, u) /\ astray'[n] = astray[n]
        BY <2>1 DEF Works
      <4> QED
        BY <2>1, <2>8, <3>2, <4>1, ReadsStays
    <3> QED
      BY <3>1, <3>2
  <2>11. Known(n) \subseteq Known(n)' \union dropped \union {Uuid(n, w)}
    <3> SUFFICES ASSUME NEW u \in Known(n)
                 PROVE  u \in Known(n)' \union dropped \union {Uuid(n, w)}
      OBVIOUS
    <3>1. u \in Node
      BY DEF Known
    <3>2. PICK y \in Nodes(map[n][Bucket[u]]) : y.uuid = u
      BY <3>1, KnownIs
    <3>3. Bucket[u] \in Lists
      BY <3>1 DEF Lists
    <3>4. CASE Bucket[u] # Bucket[Uuid(n, w)]
      <4>1. map'[n][Bucket[u]] = map[n][Bucket[u]]
        BY <2>7, <3>3, <3>4
      <4> QED
        BY <3>1, <3>2, <4>1, KnownIsThen
    <3>5. CASE Bucket[u] = Bucket[Uuid(n, w)]
      <4>1. map'[n][Bucket[u]] = list /\ y \in Nodes(List(n, Uuid(n, w)))
        BY <2>7, <3>2, <3>3, <3>5 DEF List
      <4>2. CASE y = x
        BY <3>2, <4>2
      <4>3. CASE y \in Nodes(list)
        BY <3>1, <3>2, <4>1, <4>3, KnownIsThen
      <4>4. CASE Known(n) \subseteq dropped \union {Uuid(n, w)}
        BY <4>4
      <4> QED
        BY <4>1, <4>2, <4>3, <4>4
    <3> QED
      BY <3>4, <3>5
  <2>12. Known(n) \union lost[n] \subseteq Known(n)' \union lost'[n] \union {Uuid(n, w)}
    BY <2>7, <2>11
  <2> QED
    BY <2>1, <2>6, <2>7, <2>8, <2>9, <2>10, <2>12 DEF Updated
<1> QED
  BY <1>4, <1>5

(* hash_table_delete's second part.                                        *)
LEMMA CutStep ==
  ASSUME TypeOK, NEW n \in Node, NEW w \in Writer, \A v \in Writer : Works(n, v),
         CutHead(n, w) \/ Cut(n, w)
  PROVE  Updated(n, w)
<1>1. Uuid(n, w) \in Node
  BY AtMap DEF CutHead, Cut, Is
<1>2. at[n][w].seen \in Seq(ListNode) /\ Nodes(at[n][w].seen) \subseteq Around(n)
  BY ListTypes
<1>3. Known(n) \subseteq Node
  BY DEF Known
<1>4. UNCHANGED <<work, adding>>
  BY DEF CutHead, Cut
<1>5. CASE CutHead(n, w)
  <2>1. at[n][w].step = "cuthead" /\ at[n][w].seen # << >> /\ at[n][w].seen[1].uuid = Uuid(n, w)
    BY <1>5 DEF CutHead, Is, Works, Reads
  <2>2. PICK x : x = at[n][w].seen[1]
    OBVIOUS
  <2>3. PICK dropped : dropped = IF Overtaken(n, w) THEN Known(n) \ {Uuid(n, w)} ELSE {}
    OBVIOUS
  <2>4. /\ Tail(at[n][w].seen) \in Seq(ListNode) /\ Head(at[n][w].seen) = x
        /\ Nodes(Tail(at[n][w].seen)) \subseteq Around(n)
        /\ Nodes(at[n][w].seen) \subseteq Nodes(Tail(at[n][w].seen)) \union {x}
    BY <1>2, <2>1, <2>2, TailList
  <2>5. Free(n, w, Tail(at[n][w].seen), x, x, dropped)
    BY <1>5, <2>3, <2>4 DEF CutHead
  <2>6. \A y \in Nodes(List(n, Uuid(n, w))) \ {x} :
          \/ y \in Nodes(Tail(at[n][w].seen))
          \/ Known(n) \subseteq dropped \union {Uuid(n, w)}
    BY <2>3, <2>4 DEF Overtaken
  <2>7. dropped \in SUBSET Node
    BY <1>3, <2>3
  <2> QED
    BY <1>4, <2>1, <2>2, <2>4, <2>5, <2>6, <2>7, FreeStep
<1>6. CASE Cut(n, w)
  <2>1. at[n][w].step = "cut" /\ at[n][w].seen[2].uuid = Uuid(n, w)
    BY <1>6 DEF Cut, Is, Works, Reads
  <2>2. PICK p, x : p = at[n][w].seen[1] /\ x = at[n][w].seen[2]
    OBVIOUS
  <2>3. Free(n, w, Without(List(n, Uuid(n, w)), p, x), p, x, {})
    BY <1>6, <2>2 DEF Cut
  <2>4. List(n, Uuid(n, w)) \in Seq(ListNode) /\ Nodes(List(n, Uuid(n, w))) \subseteq Around(n)
    BY <1>1, ListTypes DEF List, Lists
  <2>5. /\ Without(List(n, Uuid(n, w)), p, x) \in Seq(ListNode)
        /\ Nodes(Without(List(n, Uuid(n, w)), p, x)) \subseteq Around(n)
        /\ \A y \in Nodes(List(n, Uuid(n, w))) \ {x} :
             y \in Nodes(Without(List(n, Uuid(n, w)), p, x))
    BY <2>4, WithoutList
  <2>6. {} \in SUBSET Node
    OBVIOUS
  <2> QED
    BY <1>4, <2>1, <2>2, <2>3, <2>5, <2>6, FreeStep
<1> QED
  BY <1>5, <1>6

(* hash_table_put's walk: a node that it finds gets the new value.         *)
LEMMA SearchStep ==
  ASSUME TypeOK, NEW n \in Node, NEW w \in Writer, \A v \in Writer : Works(n, v),
         Search(n, w)
  PROVE  Updated(n, w)
<1>1. Uuid(n, w) \in Node /\ Filed(n, w) \in Name
  BY AtMap DEF Search, Is
<1>2. << >> \in Seq(ListNode) /\ Nodes(<< >>) = {}
  BY DEF Nodes
<1>3. CASE Matches(n, Uuid(n, w)) = {}
  <2>1. Goto(n, w, "head", << >>) /\ UNCHANGED <<map, lost, astray, work, adding>>
    BY <1>3 DEF Search
  <2> QED
    BY <1>2, <2>1, LookStep DEF Steps
<1>4. CASE Matches(n, Uuid(n, w)) # {}
  <2>1. PICK x : x = List(n, Uuid(n, w))[First(n, Uuid(n, w))]
    OBVIOUS
  <2>2. PICK name : name = Filed(n, w)
    OBVIOUS
  <2>3. x \in ListNode \intersect Around(n) /\ x.uuid = Uuid(n, w) /\ name \in Name
    BY <1>1, <1>4, <2>1, <2>2, FirstNode
  <2>4. /\ map' = [map EXCEPT ![n] = [b \in Lists |-> Renamed(@[b], x, name)]]
        /\ at' = [at EXCEPT ![n] = [v \in Writer |->
                  IF v = w THEN [step |-> Follows(n, w), seen |-> << >>]
                  ELSE [step |-> at[n][v].step, seen |-> Renamed(at[n][v].seen, x, name)]]]
        /\ Done(n, w) /\ lost' = lost /\ astray' = astray
    BY <1>4, <2>1, <2>2 DEF Search
  <2>5. \A list \in Seq(ListNode) :
          /\ Renamed(list, x, name) \in Seq(ListNode)
          /\ Len(Renamed(list, x, name)) = Len(list)
          /\ DOMAIN Renamed(list, x, name) = DOMAIN list
          /\ \A i \in DOMAIN list : Renamed(list, x, name)[i].uuid = list[i].uuid
          /\ Nodes(Renamed(list, x, name)) \subseteq Nodes(list) \union {[x EXCEPT !.name = name]}
    BY <2>3, RenamedList
  <2>6. /\ [x EXCEPT !.name = name].uuid = Uuid(n, w)
        /\ [x EXCEPT !.name = name].name = Filed(n, w)
    BY <2>2, <2>3 DEF ListNode
  <2>7. Follows(n, w) \in {"find", "idle"}
    BY DEF Follows
  <2>8. /\ \A b \in Lists : map'[n][b] = Renamed(map[n][b], x, name)
        /\ \A m \in Node \ {n} : map'[m] = map[m] /\ at'[m] = at[m]
        /\ at'[n][w].step = Follows(n, w) /\ at'[n][w].seen = << >>
        /\ \A v \in Writer \ {w} : /\ at'[n][v].step = at[n][v].step
                                   /\ at'[n][v].seen = Renamed(at[n][v].seen, x, name)
    BY <2>4 DEF TypeOK
  <2>9. [b \in Lists |-> Renamed(map[n][b], x, name)] \in [Lists -> Seq(ListNode)]
    BY <2>5, ListTypes
  <2>10. \A v \in Writer :
           (IF v = w THEN [step |-> Follows(n, w), seen |-> << >>]
            ELSE [step |-> at[n][v].step, seen |-> Renamed(at[n][v].seen, x, name)]) \in Place
    BY <1>2, <2>5, <2>7, ListTypes DEF Place
  <2>11. MapTyped'
    BY <2>4, <2>9, <2>10 DEF MapTyped, TypeOK
  <2>12. \A y \in Around(n)' : y \in Around(n) \/ (y.uuid = Uuid(n, w) /\ y.name = Filed(n, w))
    <3>1. Around(n)' = UNION ({Nodes(map'[n][b]) : b \in Lists}
                              \union {Nodes(at'[n][v].seen) : v \in Writer})
      BY DEF Around
    <3>2. \A b \in Lists : Nodes(map'[n][b]) \subseteq Around(n) \union {[x EXCEPT !.name = name]}
      BY <2>5, <2>8, ListTypes
    <3>3. \A v \in Writer :
            Nodes(at'[n][v].seen) \subseteq Around(n) \union {[x EXCEPT !.name = name]}
      BY <1>2, <2>5, <2>8, ListTypes
    <3>4. Around(n)' \subseteq Around(n) \union {[x EXCEPT !.name = name]}
      BY <3>1, <3>2, <3>3
    <3> QED
      BY <2>6, <3>4
  <2>13. \A v \in Writer, u \in Node : u = Uuid(n, v) => Reads(n, v, u)'
    <3> SUFFICES ASSUME NEW v \in Writer, NEW u \in Node, u = Uuid(n, v)
                 PROVE  Reads(n, v, u)'
      OBVIOUS
    <3>1. CASE v = w
      BY <2>7, <2>8, <3>1 DEF Reads
    <3>2. CASE v # w
      <4>1. /\ Len(at'[n][v].seen) = Len(at[n][v].seen)
            /\ \A i \in DOMAIN at[n][v].seen : at'[n][v].seen[i].uuid = at[n][v].seen[i].uuid
            /\ at'[n][v].seen \in Seq(ListNode) /\ at[n][v].seen \in Seq(ListNode)
        BY <2>5, <2>8, <3>2, ListTypes
      <4>2. Reads(n, v, u) /\ astray'[n] = astray[n] /\ at'[n][v].step = at[n][v].step
        BY <2>4, <2>8, <3>2 DEF Works
      <4>3. at[n][v].seen # << >> => /\ at'[n][v].seen # << >>
                                     /\ at'[n][v].seen[1].uuid = at[n][v].seen[1].uuid
        BY <4>1
      <4>4. Len(at[n][v].seen) = 2 => at'[n][v].seen[2].uuid = at[n][v].seen[2].uuid
        BY <4>1
      <4> QED
        BY <4>1, <4>2, <4>3, <4>4 DEF Reads
    <3> QED
      BY <3>1, <3>2
  <2>14. Known(n) \subseteq Known(n)'
    <3> SUFFICES ASSUME NEW u \in Known(n) PROVE u \in Known(n)'
      OBVIOUS
    <3>1. u \in Node /\ Bucket[u] \in Lists
      BY DEF Known, Lists
    <3>2. PICK i \in DOMAIN map[n][Bucket[u]] : map[n][Bucket[u]][i].uuid = u
      BY DEF Known, Matches, List
    <3>3. i \in DOMAIN map'[n][Bucket[u]] /\ map'[n][Bucket[u]][i].uuid = u
      BY <2>5, <2>8, <3>1, <3>2, ListTypes
    <3> QED
      BY <3>1, <3>3, KnownIsThen DEF Nodes
  <2>15. Uuid(n, w) \in Known(n)
    BY <1>1, <1>4 DEF Known
  <2> QED
    BY <2>4, <2>8, <2>11, <2>12, <2>13, <2>14, <2>15 DEF Updated
<1> QED
  BY <1>3, <1>4

(* hash_table_put stores the new node as the head.                         *)
LEMMA LinkStep ==
  ASSUME TypeOK, NEW n \in Node, NEW w \in Writer, \A v \in Writer : Works(n, v),
         Link(n, w)
  PROVE  Updated(n, w)
<1>1. Uuid(n, w) \in Node /\ Bucket[Uuid(n, w)] \in Lists /\ Filed(n, w) \in Name
  BY AtMap DEF Link, Is
<1>2. << >> \in Seq(ListNode) /\ Nodes(<< >>) = {}
  BY DEF Nodes
<1>3. PICK new : new = NewNode(n, w)
  OBVIOUS
<1>4. new \in ListNode /\ new.uuid = Uuid(n, w) /\ new.name = Filed(n, w)
  <2>1. \E i \in Id : i \notin InUse(n, Uuid(n, w))
    BY DEF Link
  <2>2. (CHOOSE i \in Id : i \notin InUse(n, Uuid(n, w))) \in Id
    BY <2>1
  <2> QED
    BY <1>1, <1>3, <2>2 DEF NewNode, ListNode
<1>5. PICK b0 : b0 = Bucket[Uuid(n, w)]
  OBVIOUS
<1>6. PICK list : list = <<new>> \o at[n][w].seen
  OBVIOUS
<1>7. list \in Seq(ListNode) /\ Nodes(list) = {new} \union Nodes(at[n][w].seen)
  BY <1>4, <1>6, ListTypes, NewList
<1>8. /\ map' = [map EXCEPT ![n][b0] = list]
      /\ lost' = [lost EXCEPT ![n] =
                    (@ \union IF Overtaken(n, w) THEN Known(n) ELSE {}) \ Known(n)']
      /\ Goto(n, w, Follows(n, w), << >>) /\ Done(n, w) /\ astray' = astray
  BY <1>3, <1>5, <1>6 DEF Link, Relist, Drop
<1>9. Follows(n, w) \in {"find", "idle"}
  BY DEF Follows
<1>10. /\ at' \in [Node -> [Writer -> Place]]
       /\ at'[n][w].step = Follows(n, w) /\ at'[n][w].seen = << >>
       /\ \A v \in Writer \ {w} : at'[n][v] = at[n][v]
       /\ \A m \in Node \ {n} : at'[m] = at[m]
  <2>1. Follows(n, w) \in Steps
    BY <1>9 DEF Steps
  <2> QED
    BY <1>2, <1>8, <2>1, GotoTypes
<1>11. MapTyped'
  <2>1. Known(n) \subseteq Node
    BY DEF Known
  <2>2. map' \in [Node -> [Lists -> Seq(ListNode)]]
    BY <1>7, <1>8 DEF TypeOK
  <2>3. lost' \in [Node -> SUBSET Node]
    BY <1>8, <2>1 DEF TypeOK
  <2> QED
    BY <1>8, <1>10, <2>2, <2>3 DEF MapTyped, TypeOK
<1>12. /\ \A b \in Lists : map'[n][b] = IF b = b0 THEN list ELSE map[n][b]
       /\ \A m \in Node \ {n} : map'[m] = map[m] /\ lost'[m] = lost[m]
       /\ lost'[n] = (lost[n] \union IF Overtaken(n, w) THEN Known(n) ELSE {}) \ Known(n)'
  BY <1>8 DEF TypeOK
<1>13. \A y \in Around(n)' : y \in Around(n) \/ (y.uuid = Uuid(n, w) /\ y.name = Filed(n, w))
  <2>1. Around(n)' = UNION ({Nodes(map'[n][b]) : b \in Lists}
                            \union {Nodes(at'[n][v].seen) : v \in Writer})
    BY DEF Around
  <2>2. \A b \in Lists : Nodes(map'[n][b]) \subseteq Around(n) \union {new}
    BY <1>7, <1>12, ListTypes
  <2>3. \A v \in Writer : Nodes(at'[n][v].seen) \subseteq Around(n)
    BY <1>2, <1>10, ListTypes
  <2>4. Around(n)' \subseteq Around(n) \union {new}
    BY <2>1, <2>2, <2>3
  <2> QED
    BY <1>4, <2>4
<1>14. \A v \in Writer, u \in Node : u = Uuid(n, v) => Reads(n, v, u)'
  BY <1>8, <1>9, <1>10 DEF Works, Reads
<1>15. Uuid(n, w) \in Known(n)'
  BY <1>1, <1>4, <1>5, <1>7, <1>12, KnownIsThen
<1>16. ASSUME ~Overtaken(n, w) PROVE Known(n) \subseteq Known(n)'
  <2> SUFFICES ASSUME NEW u \in Known(n) PROVE u \in Known(n)'
    OBVIOUS
  <2>1. u \in Node /\ Bucket[u] \in Lists
    BY DEF Known, Lists
  <2>2. PICK y \in Nodes(map[n][Bucket[u]]) : y.uuid = u
    BY <2>1, KnownIs
  <2>3. y \in Nodes(map'[n][Bucket[u]])
    BY <1>5, <1>7, <1>12, <1>16, <2>1, <2>2 DEF Overtaken, List
  <2> QED
    BY <2>1, <2>2, <2>3, KnownIsThen
<1>17. Known(n) \union lost[n] \subseteq Known(n)' \union lost'[n]
  BY <1>12, <1>16
<1> QED
  BY <1>8, <1>10, <1>11, <1>12, <1>13, <1>14, <1>15, <1>17 DEF Updated

(* An update in memory that was freed leaves what there is.                *)
LEMMA WanderStep ==
  ASSUME TypeOK, NEW n \in Node, NEW w \in Writer, \A v \in Writer : Works(n, v),
         Wander(n, w)
  PROVE  Updated(n, w)
<1>1. << >> \in Seq(ListNode) /\ Nodes(<< >>) = {}
  BY DEF Nodes
<1>2. Follows(n, w) \in Steps
  BY DEF Follows, Steps
<1>3. /\ at' \in [Node -> [Writer -> Place]]
      /\ at'[n][w].step = Follows(n, w) /\ at'[n][w].seen = << >>
      /\ \A v \in Writer \ {w} : at'[n][v] = at[n][v]
      /\ \A m \in Node \ {n} : at'[m] = at[m]
  BY <1>1, <1>2, GotoTypes DEF Wander
<1>4. astray[n] /\ Done(n, w) /\ UNCHANGED <<map, lost, astray>>
  BY DEF Wander
<1>5. MapTyped'
  BY <1>3, <1>4 DEF MapTyped, TypeOK
<1>6. Around(n)' \subseteq Around(n)
  <2>1. Around(n)' = UNION ({Nodes(map'[n][b]) : b \in Lists}
                            \union {Nodes(at'[n][v].seen) : v \in Writer})
    BY DEF Around
  <2>2. \A v \in Writer : Nodes(at'[n][v].seen) \subseteq Around(n)
    BY <1>1, <1>3, ListTypes
  <2>3. \A b \in Lists : Nodes(map'[n][b]) \subseteq Around(n)
    BY <1>4 DEF Around
  <2> QED
    BY <2>1, <2>2, <2>3
<1>7. \A v \in Writer, u \in Node : u = Uuid(n, v) => Reads(n, v, u)'
  BY <1>4 DEF Reads
<1> QED
  BY <1>3, <1>4, <1>5, <1>6, <1>7 DEF Updated

(* Every step of an update.                                                *)
LEMMA UpdateStep ==
  ASSUME TypeOK, NEW n \in Node, NEW w \in Writer, \A v \in Writer : Works(n, v),
         Update(n, w)
  PROVE  /\ Updated(n, w) /\ UNCHANGED <<netVars, peers, holders>>
         /\ at[n][w].step # "idle" /\ Uuid(n, w) \in Node /\ Filed(n, w) \in Name
<1>1. UNCHANGED <<netVars, peers, holders>> /\ at[n][w].step # "idle"
  BY DEF Update, Find, CutHead, Cut, Search, ReadHead, Link, Wander, Is
<1> QED
  BY <1>1, AtMap, FindStep, CutStep, SearchStep, LinkStep, WanderStep DEF Update

-----------------------------------------------------------------------------
(* The end of an update: the handler goes on with its second one or the    *)
(* merge, addneighbor is done.                                             *)
LEMMA DoneTypes ==
  ASSUME TypeOK, NEW n \in Node, NEW w \in Writer, Works(n, w), at[n][w].step # "idle",
         Done(n, w)
  PROVE  /\ work' \in [Node -> Work \union {NoWork}]
         /\ adding' \in [Node -> Adding \union {NoAdding}]
         /\ \A m \in Node \ {n} : work'[m] = work[m] /\ adding'[m] = adding[m]
         /\ w = "handler" => /\ adding' = adding
                             /\ work'[n].from = work[n].from /\ work'[n].name = work[n].name
                             /\ work[n] # NoWork /\ work'[n] # NoWork
                             /\ work'[n].step = IF work[n].step = "map" THEN "remap" ELSE "merge"
         /\ w = "operator" => work' = work /\ adding'[n] = NoAdding
<1>1. CASE w = "handler"
  <2>1. work[n] \in Work /\ work[n] # NoWork
    BY <1>1, AtMap, AtWork
  <2> DEFINE step == IF work[n].step = "map" THEN "remap" ELSE "merge"
             r == [work[n] EXCEPT !.step = step]
  <2>2. work' = [work EXCEPT ![n] = r] /\ adding' = adding
    BY <1>1 DEF Done
  <2>3. /\ r \in Work /\ r.step = step /\ r.from = work[n].from /\ r.name = work[n].name
    BY <2>1 DEF Work
  <2>4. r # NoWork
    BY <2>3 DEF NoWork
  <2> HIDE DEF r
  <2>5. /\ work' \in [Node -> Work \union {NoWork}] /\ work'[n] = r
        /\ \A m \in Node \ {n} : work'[m] = work[m]
    BY <2>2, <2>3 DEF TypeOK
  <2> QED
    BY <1>1, <2>1, <2>2, <2>3, <2>4, <2>5 DEF TypeOK
<1>2. CASE w = "operator"
  BY <1>2 DEF Done, TypeOK
<1> QED
  BY <1>1, <1>2 DEF Writer

(* What an update leaves of the threads' work.                             *)
LEMMA UpdateWork ==
  ASSUME TypeOK, Working, NEW n \in Node, NEW w \in Writer, Update(n, w)
  PROVE  /\ work' \in [Node -> Work \union {NoWork}]
         /\ adding' \in [Node -> Adding \union {NoAdding}]
         /\ \A m \in Node \ {n} : work'[m] = work[m] /\ adding'[m] = adding[m]
         /\ \A v \in Writer : Works(n, v)'
         /\ \/ work' = work /\ adding' = adding
            \/ /\ w = "handler" /\ adding' = adding /\ work[n] # NoWork /\ work'[n] # NoWork
               /\ work'[n].from = work[n].from /\ work'[n].name = work[n].name
               /\ astray'[n] \/ work[n].from \in Known(n)'
            \/ /\ w = "operator" /\ work' = work
               /\ astray'[n] \/ adding[n].uuid \in Known(n)'
<1>1. \A v \in Writer : Works(n, v)
  BY DEF Working
<1>2. Updated(n, w) /\ at[n][w].step # "idle"
  BY <1>1, UpdateStep
<1>3. CASE work' = work /\ adding' = adding
  <2>1. \A v \in Writer : Uuid(n, v)' = Uuid(n, v)
    BY <1>3 DEF Uuid
  <2>2. ASSUME NEW v \in Writer PROVE Works(n, v)'
    <3>1. CASE at[n][v].step = "idle"
      <4>1. at'[n][v].step = "idle"
        BY <1>2, <3>1 DEF Updated
      <4> QED
        BY <4>1 DEF Works, Reads
    <3>2. CASE at[n][v].step # "idle"
      <4>1. Uuid(n, v) \in Node
        BY <1>1, <3>2, AtMap
      <4>2. Reads(n, v, Uuid(n, v))'
        <5>1. PICK u \in Node : u = Uuid(n, v)
          BY <4>1
        <5>2. Reads(n, v, u)'
          BY <1>2, <5>1 DEF Updated
        <5>3. u = Uuid(n, v)'
          BY <2>1, <5>1
        <5> QED
          BY <5>2, <5>3
      <4>3. /\ v = "handler" => work'[n].step \in {"map", "remap"}
            /\ v = "operator" => adding'[n].step = "map"
        BY <1>1, <1>3, <3>2 DEF Works
      <4> QED
        BY <4>2, <4>3 DEF Works
    <3> QED
      BY <3>1, <3>2
  <2> QED
    BY <1>3, <2>2 DEF TypeOK
<1>4. CASE ~(work' = work /\ adding' = adding)
  <2>1. /\ Done(n, w) /\ at'[n][w].step = Follows(n, w)
        /\ astray'[n] \/ Uuid(n, w) \in Known(n)'
        /\ \A v \in Writer \ {w} : at'[n][v].step = at[n][v].step
    BY <1>2, <1>4 DEF Updated
  <2>2. /\ work' \in [Node -> Work \union {NoWork}]
        /\ adding' \in [Node -> Adding \union {NoAdding}]
        /\ \A m \in Node \ {n} : work'[m] = work[m] /\ adding'[m] = adding[m]
        /\ w = "handler" => /\ adding' = adding
                            /\ work'[n].from = work[n].from /\ work'[n].name = work[n].name
                            /\ work[n] # NoWork /\ work'[n] # NoWork
                            /\ work'[n].step = IF work[n].step = "map" THEN "remap" ELSE "merge"
        /\ w = "operator" => work' = work /\ adding'[n] = NoAdding
    BY <1>1, <1>2, <2>1, DoneTypes
  <2>3. ASSUME NEW v \in Writer PROVE Works(n, v)'
    <3>1. CASE v = w
      <4>1. at'[n][w].step = "find" => w = "handler" /\ work[n].step = "map"
        BY <2>1 DEF Follows
      <4>2. at'[n][w].step \in {"idle", "find"}
        BY <2>1 DEF Follows
      <4> QED
        BY <2>2, <3>1, <4>1, <4>2 DEF Works, Reads, Writer
    <3>2. CASE v # w
      <4>1. CASE at[n][v].step = "idle"
        BY <2>1, <3>2, <4>1 DEF Works, Reads
      <4>2. CASE at[n][v].step # "idle"
        <5>1. /\ v = "handler" => work'[n] = work[n]
              /\ v = "operator" => adding'[n] = adding[n]
          BY <2>2, <3>2 DEF Writer
        <5>2. Uuid(n, v)' = Uuid(n, v)
          BY <5>1 DEF Uuid, Writer
        <5>3. PICK u \in Node : u = Uuid(n, v)
          BY <1>1, <4>2, AtMap
        <5>4. Reads(n, v, u)'
          BY <1>2, <5>3 DEF Updated
        <5>5. u = Uuid(n, v)'
          BY <5>2, <5>3
        <5>6. Reads(n, v, Uuid(n, v))'
          BY <5>4, <5>5
        <5>7. /\ v = "handler" => work'[n].step \in {"map", "remap"}
              /\ v = "operator" => adding'[n].step = "map"
          BY <1>1, <4>2, <5>1 DEF Works
        <5> QED
          BY <5>6, <5>7 DEF Works
      <4> QED
        BY <4>1, <4>2
    <3> QED
      BY <3>1, <3>2
  <2> QED
    BY <2>1, <2>2, <2>3 DEF Uuid, Writer
<1> QED
  BY <1>3, <1>4

(* A node's list for itself.                                               *)
LEMMA OwnMapTypes ==
  ASSUME NEW n \in Node, NEW a \in Address
  PROVE  /\ OwnMap(n, a) \in [Lists -> Seq(ListNode)]
         /\ OwnNode(n, a) \in ListNode
         /\ \A b \in Lists : Nodes(OwnMap(n, a)[b]) \subseteq {OwnNode(n, a)}
<1>1. (CHOOSE i \in Id : TRUE) \in Id
  BY BookAssumption
<1>2. OwnNode(n, a) \in ListNode
  BY <1>1 DEF OwnNode, ListNode, Name, Address
<1>3. << >> \in Seq(ListNode) /\ Nodes(<< >>) = {} /\ Bucket[n] \in Lists
  BY DEF Nodes, Lists
<1>4. <<OwnNode(n, a)>> \in Seq(ListNode) /\ Nodes(<<OwnNode(n, a)>>) = {OwnNode(n, a)}
  BY <1>2 DEF Nodes
<1>5. OwnMap(n, a) \in [Lists -> Seq(ListNode)]
  BY <1>3, <1>4 DEF OwnMap, EmptyMap
<1>6. \A b \in Lists : OwnMap(n, a)[b] = << >> \/ OwnMap(n, a)[b] = <<OwnNode(n, a)>>
  BY <1>3 DEF OwnMap, EmptyMap
<1> QED
  BY <1>2, <1>3, <1>4, <1>5, <1>6

(* Where the writers are when a node starts.                               *)
LEMMA OutTypes == Out \in [Writer -> Place]
<1>1. << >> \in Seq(ListNode)
  OBVIOUS
<1> QED
  BY <1>1 DEF Out, Place

(* Addresses, tables and threads keep their types, and no two nodes have   *)
(* the same address.                                                       *)
LEMMA TypeStep ==
  ASSUME TypeOK, Working, [Next]_vars
  PROVE  TypeOK'
<1>1. ASSUME NEW n \in Node, NEW u \in Node, Advertise(n, u) PROVE TypeOK'
  <2>1. PICK t \in Node :
          work' = [work EXCEPT ![t] = [step |-> "files", from |-> n, name |-> Seen(n, t),
                                       peers |-> peers[n]]]
    BY <1>1 DEF Advertise
  <2>2. [step |-> "files", from |-> n, name |-> Seen(n, t), peers |-> peers[n]] \in Work
    BY Resolving DEF Work, TypeOK
  <2>3. work' \in [Node -> Work \union {NoWork}]
    BY <2>1, <2>2 DEF TypeOK
  <2> QED
    BY <1>1, <2>3 DEF Advertise, netVars, mapVars, TypeOK
<1>2. ASSUME NEW t \in Node, FileHolder(t) PROVE TypeOK'
  <2>1. work[t] \in Work /\ work[t].from \in Node
    BY <1>2, AtWork DEF FileHolder
  <2>2. [work[t] EXCEPT !.step = "map"] \in Work
    BY <2>1 DEF Work
  <2>3. work' = [work EXCEPT ![t] = [work[t] EXCEPT !.step = "map"]]
    BY <1>2 DEF FileHolder
  <2>4. work' \in [Node -> Work \union {NoWork}]
    BY <2>2, <2>3 DEF TypeOK
  <2>5. [at[t]["handler"] EXCEPT !.step = "find"] \in Place
    BY ListTypes DEF Place, Writer
  <2>6. at' = [at EXCEPT ![t]["handler"] = [at[t]["handler"] EXCEPT !.step = "find"]]
    BY <1>2 DEF FileHolder
  <2>7. at' \in [Node -> [Writer -> Place]]
    BY <2>5, <2>6 DEF TypeOK
  <2>8. holders' \in [Node -> SUBSET Node]
    BY <1>2, <2>1 DEF FileHolder, TypeOK
  <2> QED
    BY <1>2, <2>4, <2>7, <2>8 DEF FileHolder, netVars, TypeOK
<1>3. ASSUME NEW t \in Node, Merge(t) PROVE TypeOK'
  <2>1. /\ work[t].from \in Node /\ work[t].name \in Entry
        /\ work[t].peers \in [Node -> Entry]
    BY <1>3, AtWork DEF Merge, Entry
  <2>2. \A u \in Node : Offered(work[t], u) \in Entry /\ peers[t][u] \in Entry
    BY <2>1 DEF Offered, TypeOK
  <2>3. [u \in Node |-> IF u = t \/ peers[t][u] # None THEN peers[t][u]
                        ELSE Offered(work[t], u)] \in [Node -> Entry]
    BY <2>2
  <2>4. peers' \in [Node -> [Node -> Entry]]
    BY <1>3, <2>3 DEF Merge, TypeOK
  <2>5. work' \in [Node -> Work \union {NoWork}]
    BY <1>3 DEF Merge, TypeOK
  <2> QED
    BY <1>3, <2>4, <2>5 DEF Merge, netVars, mapVars, TypeOK
<1>4. ASSUME NEW n \in Node, AddPeer(n) PROVE TypeOK'
  <2>1. PICK e \in Addable[n] :
          /\ peers' = [peers EXCEPT ![n][e.uuid] = e.name]
          /\ adding' = [adding EXCEPT ![n] = [step |-> "map", uuid |-> e.uuid,
                                              port |-> e.name.port]]
    BY <1>4 DEF AddPeer
  <2>2. e \in [uuid : Node, name : Name]
    BY BookAssumption
  <2>3. e.uuid \in Node /\ e.name \in Entry /\ e.name.port \in Port
    BY <2>2 DEF Entry, Name
  <2>4. [step |-> "map", uuid |-> e.uuid, port |-> e.name.port] \in Adding
    BY <2>3 DEF Adding
  <2>5. /\ peers' \in [Node -> [Node -> Entry]]
        /\ adding' \in [Node -> Adding \union {NoAdding}]
    BY <2>1, <2>3, <2>4 DEF TypeOK
  <2>6. adds' \in 0 .. MaxAdds
    BY <1>4, BookAssumption DEF AddPeer, TypeOK
  <2>7. [at[n]["operator"] EXCEPT !.step = "find"] \in Place
    BY ListTypes DEF Place, Writer
  <2>8. at' = [at EXCEPT ![n]["operator"] = [at[n]["operator"] EXCEPT !.step = "find"]]
    BY <1>4 DEF AddPeer
  <2>9. at' \in [Node -> [Writer -> Place]]
    BY <2>7, <2>8 DEF TypeOK
  <2> QED
    BY <1>4, <2>5, <2>6, <2>9 DEF AddPeer, TypeOK
<1>5. ASSUME NEW n \in Node, NEW w \in Writer, Update(n, w) PROVE TypeOK'
  <2>1. Updated(n, w) /\ UNCHANGED <<netVars, peers, holders>>
    BY <1>5, UpdateStep DEF Working
  <2>2. /\ work' \in [Node -> Work \union {NoWork}]
        /\ adding' \in [Node -> Adding \union {NoAdding}]
    BY <1>5, UpdateWork
  <2>3. MapTyped'
    BY <2>1 DEF Updated
  <2> QED
    BY <2>1, <2>2, <2>3 DEF netVars, MapTyped, TypeOK
<1>6. ASSUME NEW n \in Node, Move(n) PROVE TypeOK'
  <2>1. PICK a \in Address :
          /\ \A u \in Node : addr[u] # a
          /\ addr' = [addr EXCEPT ![n] = a]
          /\ had' = [had EXCEPT ![n] = @ \union {a}]
          /\ map' = [map EXCEPT ![n] = OwnMap(n, a)]
    BY <1>6 DEF Move
  <2>2. map' \in [Node -> [Lists -> Seq(ListNode)]]
    BY <2>1, OwnMapTypes DEF TypeOK
  <2>3. /\ addr' \in [Node -> Address] /\ had' \in [Node -> SUBSET Address]
        /\ \A u \in Node : addr'[u] \in had'[u]
        /\ \A u, v \in Node : u # v => addr'[u] # addr'[v]
    BY <2>1 DEF TypeOK
  <2>4. moves' \in 0 .. MaxMoves /\ adds' \in 0 .. MaxAdds
    BY <1>6, BookAssumption DEF Move, TypeOK
  <2>5. peers' \in [Node -> [Node -> Entry]]
    BY <1>6, BookAssumption DEF Move, TypeOK
  <2>6. /\ holders' \in [Node -> SUBSET Node]
        /\ work' \in [Node -> Work \union {NoWork}]
        /\ adding' \in [Node -> Adding \union {NoAdding}]
    BY <1>6 DEF Move, TypeOK
  <2>7. /\ at' \in [Node -> [Writer -> Place]]
        /\ lost' \in [Node -> SUBSET Node] /\ astray' \in [Node -> BOOLEAN]
    BY <1>6, OutTypes DEF Move, TypeOK
  <2> QED
    BY <2>2, <2>3, <2>4, <2>5, <2>6, <2>7 DEF TypeOK
<1>7. CASE UNCHANGED vars
  BY <1>7 DEF vars, netVars, mapVars, TypeOK
<1> QED
  BY <1>1, <1>2, <1>3, <1>4, <1>5, <1>6, <1>7 DEF Next, Update

(* The first tables are of the right types, and nothing is going on.       *)
LEMMA InitTypes == Init => TypeOK /\ Working
<1> SUFFICES ASSUME Init PROVE TypeOK /\ Working
  OBVIOUS
<1>1. /\ addr \in [Node -> Address] /\ had \in [Node -> SUBSET Address]
      /\ \A n \in Node : addr[n] \in had[n]
      /\ \A n, u \in Node : n # u => addr[n] # addr[u]
  BY BookAssumption DEF Init
<1>2. map \in [Node -> [Lists -> Seq(ListNode)]]
  BY <1>1, OwnMapTypes DEF Init
<1>3. /\ peers \in [Node -> [Node -> Entry]] /\ holders \in [Node -> SUBSET Node]
      /\ work \in [Node -> Work \union {NoWork}]
      /\ adding \in [Node -> Adding \union {NoAdding}]
      /\ moves \in 0 .. MaxMoves /\ adds \in 0 .. MaxAdds
  BY BookAssumption DEF Init
<1>4. /\ at \in [Node -> [Writer -> Place]]
      /\ lost \in [Node -> SUBSET Node] /\ astray \in [Node -> BOOLEAN]
  BY OutTypes DEF Init
<1>5. Working
  BY DEF Init, Working, Works, Reads, Out
<1> QED
  BY <1>1, <1>2, <1>3, <1>4, <1>5 DEF TypeOK

(* A writer stays in network_map for what its thread works for.            *)
LEMMA WorkingStep ==
  ASSUME TypeOK, Working, [Next]_vars
  PROVE  Working'
<1>1. ASSUME NEW m \in Node, NEW v \in Writer, at'[m][v] = at[m][v], astray'[m] = astray[m],
             v = "handler" => work'[m] = work[m], v = "operator" => adding'[m] = adding[m]
      PROVE  Works(m, v)'
  <2>1. Uuid(m, v)' = Uuid(m, v)
    BY <1>1 DEF Uuid, Writer
  <2>2. Works(m, v)
    BY DEF Working
  <2> QED
    BY <1>1, <2>1, <2>2 DEF Works, Reads
<1>2. ASSUME NEW m \in Node, NEW v \in Writer, at'[m][v].step = "idle" PROVE Works(m, v)'
  BY <1>2 DEF Works, Reads
<1>3. \A m \in Node : work[m] = NoWork \/ work[m].step \in {"files", "merge"}
        => at[m]["handler"].step = "idle"
  BY DEF Working, Works, Writer, NoWork
<1>4. \A m \in Node : adding[m] = NoAdding => at[m]["operator"].step = "idle"
  BY DEF Working, Works, Writer, NoAdding
<1>5. ASSUME NEW n \in Node, NEW u \in Node, Advertise(n, u) PROVE Working'
  <2>1. PICK t \in Node : work[t] = NoWork /\ \A m \in Node \ {t} : work'[m] = work[m]
    BY <1>5 DEF Advertise, TypeOK
  <2>2. adding' = adding /\ at' = at /\ astray' = astray
    BY <1>5 DEF Advertise, mapVars
  <2>3. ASSUME NEW m \in Node, NEW v \in Writer PROVE Works(m, v)'
    <3>1. CASE m = t /\ v = "handler"
      BY <1>2, <1>3, <2>1, <2>2, <3>1
    <3>2. CASE ~(m = t /\ v = "handler")
      BY <1>1, <2>1, <2>2, <3>2
    <3> QED
      BY <3>1, <3>2
  <2> QED
    BY <2>3 DEF Working
<1>6. ASSUME NEW t \in Node, FileHolder(t) PROVE Working'
  <2>1. /\ work[t] \in Work /\ at[t]["handler"].step = "idle"
    BY <1>3, <1>6, AtWork DEF FileHolder
  <2>2. work'[t].step = "map" /\ \A m \in Node \ {t} : work'[m] = work[m]
    BY <1>6, <2>1 DEF FileHolder, TypeOK, Work
  <2>3. at'[t]["handler"].step = "find"
    BY <1>6 DEF FileHolder, TypeOK, Writer, Place
  <2>4. \A m \in Node, v \in Writer : (m = t /\ v = "handler") \/ at'[m][v] = at[m][v]
    BY <1>6 DEF FileHolder, TypeOK
  <2>5. adding' = adding /\ astray' = astray
    BY <1>6 DEF FileHolder
  <2>6. ASSUME NEW m \in Node, NEW v \in Writer PROVE Works(m, v)'
    <3>1. CASE m = t /\ v = "handler"
      BY <2>2, <2>3, <3>1 DEF Works, Reads
    <3>2. CASE ~(m = t /\ v = "handler")
      BY <1>1, <2>2, <2>4, <2>5, <3>2
    <3> QED
      BY <3>1, <3>2
  <2> QED
    BY <2>6 DEF Working
<1>7. ASSUME NEW t \in Node, Merge(t) PROVE Working'
  <2>1. /\ at[t]["handler"].step = "idle" /\ \A m \in Node \ {t} : work'[m] = work[m]
        /\ adding' = adding /\ at' = at /\ astray' = astray
    BY <1>3, <1>7 DEF Merge, mapVars, TypeOK
  <2>2. ASSUME NEW m \in Node, NEW v \in Writer PROVE Works(m, v)'
    <3>1. CASE m = t /\ v = "handler"
      BY <1>2, <2>1, <3>1
    <3>2. CASE ~(m = t /\ v = "handler")
      BY <1>1, <2>1, <3>2
    <3> QED
      BY <3>1, <3>2
  <2> QED
    BY <2>2 DEF Working
<1>8. ASSUME NEW n \in Node, AddPeer(n) PROVE Working'
  <2>1. adding'[n].step = "map" /\ \A m \in Node \ {n} : adding'[m] = adding[m]
    BY <1>8 DEF AddPeer, TypeOK
  <2>2. at'[n]["operator"].step = "find"
    BY <1>8 DEF AddPeer, TypeOK, Writer, Place
  <2>3. \A m \in Node, v \in Writer : (m = n /\ v = "operator") \/ at'[m][v] = at[m][v]
    BY <1>8 DEF AddPeer, TypeOK
  <2>4. work' = work /\ astray' = astray
    BY <1>8 DEF AddPeer
  <2>5. ASSUME NEW m \in Node, NEW v \in Writer PROVE Works(m, v)'
    <3>1. CASE m = n /\ v = "operator"
      BY <2>1, <2>2, <3>1 DEF Works, Reads
    <3>2. CASE ~(m = n /\ v = "operator")
      BY <1>1, <2>1, <2>3, <2>4, <3>2
    <3> QED
      BY <3>1, <3>2
  <2> QED
    BY <2>5 DEF Working
<1>9. ASSUME NEW n \in Node, NEW w \in Writer, Update(n, w) PROVE Working'
  <2>1. /\ \A v \in Writer : Works(n, v)'
        /\ \A m \in Node \ {n} : work'[m] = work[m] /\ adding'[m] = adding[m]
    BY <1>9, UpdateWork
  <2>2. Updated(n, w)
    BY <1>9, UpdateStep DEF Working
  <2>3. \A m \in Node \ {n} : at'[m] = at[m] /\ astray'[m] = astray[m]
    BY <2>2 DEF Updated
  <2>4. ASSUME NEW m \in Node, NEW v \in Writer, m # n PROVE Works(m, v)'
    BY <1>1, <2>1, <2>3, <2>4
  <2> QED
    BY <2>1, <2>4 DEF Working
<1>10. ASSUME NEW n \in Node, Move(n) PROVE Working'
  <2>1. \A v \in Writer : at'[n][v].step = "idle"
    BY <1>10 DEF Move, Out, TypeOK
  <2>2. \A m \in Node \ {n} : /\ at'[m] = at[m] /\ astray'[m] = astray[m]
                              /\ work'[m] = work[m] /\ adding'[m] = adding[m]
    BY <1>10 DEF Move, TypeOK
  <2>3. ASSUME NEW m \in Node, NEW v \in Writer PROVE Works(m, v)'
    BY <1>1, <1>2, <2>1, <2>2
  <2> QED
    BY <2>3 DEF Working
<1>11. CASE UNCHANGED vars
  <2>1. ASSUME NEW m \in Node, NEW v \in Writer PROVE Works(m, v)'
    BY <1>1, <1>11 DEF vars, mapVars
  <2> QED
    BY <2>1 DEF Working
<1> QED
  BY <1>5, <1>6, <1>7, <1>8, <1>9, <1>10, <1>11 DEF Next, Update

-----------------------------------------------------------------------------
(* Every address that is heard or written down is one that its peer has    *)
(* had; an address that a peer has had remains one.                        *)
LEMMA WrittenStep ==
  ASSUME TypeOK, Working, Heard, Written, [Next]_vars
  PROVE  Heard' /\ Written'
<1>1. \A m \in Node : Around(m) \subseteq ListNode
  BY ListTypes
<1>2. ASSUME map' = map, lost' = lost, astray' = astray, addr' = addr, had' = had,
             \A m \in Node, v \in Writer : at'[m][v].seen = at[m][v].seen
      PROVE  Written'
  <2>1. \A m \in Node : Around(m)' = Around(m)
    BY <1>2 DEF Around
  <2> QED
    BY <1>2, <2>1 DEF Written, IsTrue, Resolved
<1>3. ASSUME NEW n \in Node, NEW u \in Node, Advertise(n, u)
      PROVE  Heard' /\ Written'
  <2>1. PICK t \in Node :
          work' = [work EXCEPT ![t] = [step |-> "files", from |-> n, name |-> Seen(n, t),
                                       peers |-> peers[n]]]
    BY <1>3 DEF Advertise
  <2>2. addr' = addr /\ had' = had /\ UNCHANGED mapVars
    BY <1>3 DEF Advertise, netVars
  <2>3. /\ work'[t].name = Seen(n, t) /\ work'[t].from = n
        /\ \A m \in Node \ {t} : work'[m] = work[m]
    BY <2>1 DEF TypeOK
  <2>4. Resolved(t, Seen(n, t)) \in had[n]
    BY Resolving DEF TypeOK
  <2>5. Heard'
    BY <2>2, <2>3, <2>4 DEF Heard, Resolved
  <2> QED
    BY <1>2, <2>2, <2>5 DEF mapVars
<1>4. ASSUME NEW t \in Node, FileHolder(t) PROVE Heard' /\ Written'
  <2>1. work[t] \in Work /\ work[t] # NoWork
    BY <1>4, AtWork DEF FileHolder
  <2>2. /\ addr' = addr /\ had' = had
        /\ work' = [work EXCEPT ![t] = [work[t] EXCEPT !.step = "map"]]
    BY <1>4 DEF FileHolder, netVars
  <2>3. /\ work'[t].from = work[t].from /\ work'[t].name = work[t].name
        /\ \A m \in Node \ {t} : work'[m] = work[m]
    BY <2>1, <2>2 DEF TypeOK, Work
  <2>4. Heard'
    BY <2>1, <2>2, <2>3 DEF Heard, Resolved
  <2>5. \A m \in Node, v \in Writer : at'[m][v].seen = at[m][v].seen
    BY <1>4 DEF FileHolder, TypeOK, Writer, Place
  <2> QED
    BY <1>2, <1>4, <2>2, <2>4, <2>5 DEF FileHolder
<1>5. ASSUME NEW t \in Node, Merge(t) PROVE Heard' /\ Written'
  <2>1. /\ addr' = addr /\ had' = had /\ UNCHANGED mapVars
        /\ work'[t] = NoWork /\ \A n \in Node \ {t} : work'[n] = work[n]
    BY <1>5 DEF Merge, netVars, TypeOK
  <2>2. Heard'
    BY <2>1 DEF Heard, Resolved
  <2> QED
    BY <1>2, <2>1, <2>2 DEF mapVars
<1>6. ASSUME NEW n \in Node, AddPeer(n) PROVE Heard' /\ Written'
  <2>1. Heard'
    BY <1>6 DEF AddPeer, Heard, Resolved
  <2>2. \A m \in Node, v \in Writer : at'[m][v].seen = at[m][v].seen
    BY <1>6 DEF AddPeer, TypeOK, Writer, Place
  <2> QED
    BY <1>2, <1>6, <2>1, <2>2 DEF AddPeer
<1>7. ASSUME NEW n \in Node, NEW w \in Writer, Update(n, w) PROVE Heard' /\ Written'
  <2>1. /\ Updated(n, w) /\ addr' = addr /\ had' = had
    BY <1>7, UpdateStep DEF Working, netVars
  <2>2. /\ \A m \in Node \ {n} : work'[m] = work[m]
        /\ work' = work \/ (/\ work[n] # NoWork /\ work'[n].from = work[n].from
                            /\ work'[n].name = work[n].name)
    BY <1>7, UpdateWork
  <2>3. Heard'
    BY <2>1, <2>2 DEF Heard, Resolved
  <2>4. \A y : y.uuid = Uuid(n, w) /\ y.name = Filed(n, w) => IsTrue(n, y)
    <3>1. at[n][w].step # "idle" /\ Works(n, w)
      BY <1>7, UpdateStep DEF Working
    <3>2. CASE w = "handler"
      <4>1. work[n] # NoWork
        BY <3>1, <3>2 DEF Works, NoWork
      <4> QED
        BY <3>2, <4>1 DEF Heard, Uuid, Filed, IsTrue
    <3>3. CASE w # "handler"
      <4>1. Filed(n, w).host = Unset
        BY <3>3 DEF Filed
      <4> QED
        BY <4>1 DEF IsTrue
    <3> QED
      BY <3>2, <3>3
  <2>5. \A y \in Around(n)' : IsTrue(n, y)
    BY <2>1, <2>4 DEF Updated, Written
  <2>6. \A m \in Node \ {n} : Around(m)' = Around(m)
    BY <2>1 DEF Updated, Around
  <2> QED
    BY <2>1, <2>3, <2>5, <2>6 DEF Written, IsTrue, Resolved
<1>8. ASSUME NEW n \in Node, Move(n) PROVE Heard' /\ Written'
  <2>1. PICK a \in Address :
          /\ addr' = [addr EXCEPT ![n] = a]
          /\ had' = [had EXCEPT ![n] = @ \union {a}]
          /\ map' = [map EXCEPT ![n] = OwnMap(n, a)]
    BY <1>8 DEF Move
  <2>2. /\ addr'[n] = a /\ had'[n] = had[n] \union {a} /\ map'[n] = OwnMap(n, a)
        /\ \A m \in Node \ {n} : addr'[m] = addr[m] /\ map'[m] = map[m]
        /\ \A m \in Node : had[m] \subseteq had'[m]
    BY <2>1 DEF TypeOK
  <2>3. work'[n] = NoWork /\ \A m \in Node \ {n} : work'[m] = work[m]
    BY <1>8 DEF Move, TypeOK
  <2>4. at'[n] = Out /\ \A m \in Node \ {n} : at'[m] = at[m]
    BY <1>8 DEF Move, TypeOK
  <2>5. ASSUME NEW t \in Node, (work[t] # NoWork)'
        PROVE  (Resolved(t, work[t].name) \in had[work[t].from])'
    <3>1. t # n /\ work[t] # NoWork /\ work'[t] = work[t] /\ addr'[t] = addr[t]
      BY <2>2, <2>3, <2>5
    <3>2. work[t].from \in Node /\ Resolved(t, work[t].name) \in had[work[t].from]
      BY <3>1 DEF Heard, TypeOK, Work
    <3> QED
      BY <2>2, <3>1, <3>2 DEF Resolved
  <2>6. ASSUME NEW m \in Node, m # n, NEW x \in Around(m)' PROVE IsTrue(m, x)'
    <3>1. Around(m)' = Around(m) /\ addr'[m] = addr[m]
      BY <2>2, <2>4, <2>6 DEF Around
    <3>2. IsTrue(m, x) /\ x.uuid \in Node
      BY <1>1, <2>6, <3>1 DEF Written, ListNode
    <3> QED
      BY <2>2, <3>1, <3>2 DEF IsTrue, Resolved
  <2>7. ASSUME NEW x \in Around(n)' PROVE IsTrue(n, x)'
    <3>1. Nodes(<< >>) = {}
      BY DEF Nodes
    <3>2. \A v \in Writer : Nodes(at'[n][v].seen) = {}
      BY <2>4, <3>1 DEF Out
    <3>3. \A b \in Lists : Nodes(map'[n][b]) \subseteq {OwnNode(n, a)}
      BY <2>2, OwnMapTypes
    <3>4. x = OwnNode(n, a)
      BY <3>2, <3>3 DEF Around
    <3>5. /\ x.uuid = n /\ Resolved(n, x.name)' = [host |-> a.host, port |-> a.port]
      BY <2>2, <3>4 DEF OwnNode, Resolved
    <3>6. a = [host |-> a.host, port |-> a.port]
      BY DEF Address
    <3> QED
      BY <2>2, <3>5, <3>6 DEF IsTrue
  <2> QED
    BY <2>5, <2>6, <2>7 DEF Heard, Written
<1>9. CASE UNCHANGED vars
  BY <1>2, <1>9 DEF vars, netVars, mapVars, Heard, Resolved
<1> QED
  BY <1>3, <1>4, <1>5, <1>6, <1>7, <1>8, <1>9 DEF Next, Update

(* At first nothing is heard, and a node has written down itself.          *)
LEMMA InitWritten == Init => Heard /\ Written
<1> SUFFICES ASSUME Init PROVE Heard /\ Written
  OBVIOUS
<1>1. Heard
  BY DEF Init, Heard
<1>2. ASSUME NEW n \in Node, NEW x \in Around(n) PROVE IsTrue(n, x)
  <2>1. Home[n] \in Address /\ map[n] = OwnMap(n, Home[n]) /\ at[n] = Out
    BY BookAssumption DEF Init
  <2>2. Nodes(<< >>) = {}
    BY DEF Nodes
  <2>3. \A v \in Writer : Nodes(at[n][v].seen) = {}
    BY <2>1, <2>2 DEF Out
  <2>4. \A b \in Lists : Nodes(map[n][b]) \subseteq {OwnNode(n, Home[n])}
    BY <2>1, OwnMapTypes
  <2>5. x = OwnNode(n, Home[n])
    BY <2>3, <2>4 DEF Around
  <2>6. x.uuid = n /\ Resolved(n, x.name) = [host |-> Home[n].host, port |-> Home[n].port]
    BY <2>5 DEF OwnNode, Resolved, Init
  <2>7. Home[n] = [host |-> Home[n].host, port |-> Home[n].port]
    BY <2>1 DEF Address
  <2> QED
    BY <2>6, <2>7 DEF IsTrue, Init
<1> QED
  BY <1>1, <1>2 DEF Written

(* view asks for a file only where the holder has been, or at the entry    *)
(* whose host addneighbor did not write, although a handler and an         *)
(* addneighbor change the lists of network_map under each other.           *)
THEOREM MapIsTrue == Spec => []MapTrue
<1>1. Init => TypeOK /\ Working /\ Heard /\ Written
  BY InitTypes, InitWritten
<1>2. TypeOK /\ Working /\ Heard /\ Written /\ [Next]_vars
        => (TypeOK /\ Working /\ Heard /\ Written)'
  BY TypeStep, WorkingStep, WrittenStep
<1>3. TypeOK /\ Written => MapTrue
  <2> SUFFICES ASSUME TypeOK, Written, NEW n \in Node, NEW u \in Node,
                      Mapped(n, u) # None, Mapped(n, u).host # Unset
               PROVE  Asked(n, u) \in had[u]
    BY DEF MapTrue
  <2>1. u \in Known(n)
    BY DEF Mapped
  <2>2. PICK x : x = List(n, u)[First(n, u)]
    OBVIOUS
  <2>3. Mapped(n, u) = x.name
    BY <2>1, <2>2 DEF Mapped
  <2>4. x \in Around(n) /\ x.uuid = u
    BY <2>1, <2>2, FirstNode DEF Known
  <2> QED
    BY <2>3, <2>4 DEF Written, IsTrue, Asked
<1> QED
  BY <1>1, <1>2, <1>3, PTL DEF Spec

-----------------------------------------------------------------------------
(* A holder is in network_map, or it is known why it is not: a node that   *)
(* was freed is in use, it was dropped, or an addneighbor puts it.         *)
Covered(n, u) ==
  astray[n] \/ u \in Known(n) \/ u \in lost[n] \/ (adding[n] # NoAdding /\ adding[n].uuid = u)

(* A handler that is done with network_map leaves the sender there.        *)
Put == \A n \in Node : work[n].step = "merge" => Covered(n, work[n].from)

(* The property in these words.                                            *)
LEMMA GapIs ==
  GapOnlyWhileHandled <=>
    \A n \in Node : \A u \in holders[n] :
      Covered(n, u) \/ (work[n] # NoWork /\ work[n].from = u)
BY DEF GapOnlyWhileHandled, Covered

(* The same after a step.                                                  *)
LEMMA GapIsThen ==
  (GapOnlyWhileHandled <=>
    \A n \in Node : \A u \in holders[n] :
      Covered(n, u) \/ (work[n] # NoWork /\ work[n].from = u))'
BY GapIs, PTL

(* Taking an entry away is in hand until it is put back, or dropped.       *)
LEMMA GapStep ==
  ASSUME TypeOK, Working, Put, GapOnlyWhileHandled, [Next]_vars
  PROVE  Put' /\ GapOnlyWhileHandled'
<1>1. ASSUME NEW m \in Node, map'[m] = map[m], lost'[m] = lost[m], astray'[m] = astray[m],
             adding[m] # NoAdding => adding'[m] = adding[m]
      PROVE  \A u : Covered(m, u) => Covered(m, u)'
  <2>1. Known(m)' = Known(m)
    BY <1>1 DEF Known, Matches, List
  <2> QED
    BY <1>1, <2>1 DEF Covered
<1>2. \A n \in Node : \A u \in holders[n] :
        Covered(n, u) \/ (work[n] # NoWork /\ work[n].from = u)
  BY GapIs
<1>3. ASSUME NEW n \in Node, NEW u \in Node, Advertise(n, u)
      PROVE  Put' /\ GapOnlyWhileHandled'
  <2>1. PICK t \in Node :
          /\ work[t] = NoWork
          /\ work' = [work EXCEPT ![t] = [step |-> "files", from |-> n, name |-> Seen(n, t),
                                          peers |-> peers[n]]]
    BY <1>3 DEF Advertise
  <2>2. UNCHANGED mapVars /\ holders' = holders /\ adding' = adding
    BY <1>3 DEF Advertise
  <2>3. work'[t].step = "files" /\ \A m \in Node \ {t} : work'[m] = work[m]
    BY <2>1 DEF TypeOK
  <2>4. \A m \in Node : \A v : Covered(m, v) => Covered(m, v)'
    BY <1>1, <2>2 DEF mapVars
  <2>5. Put'
    BY <2>3, <2>4 DEF Put
  <2>6. GapOnlyWhileHandled'
    BY <1>2, <2>1, <2>2, <2>3, <2>4, GapIsThen
  <2> QED
    BY <2>5, <2>6
<1>4. ASSUME NEW t \in Node, FileHolder(t) PROVE Put' /\ GapOnlyWhileHandled'
  <2>1. work[t] \in Work /\ work[t] # NoWork
    BY <1>4, AtWork DEF FileHolder
  <2>2. work' = [work EXCEPT ![t] = [work[t] EXCEPT !.step = "map"]]
    BY <1>4 DEF FileHolder
  <2>3. /\ work'[t].from = work[t].from /\ work'[t].step = "map"
        /\ \A m \in Node \ {t} : work'[m] = work[m]
    BY <2>1, <2>2 DEF TypeOK, Work
  <2>4. work'[t] # NoWork
    BY <2>3 DEF NoWork
  <2>5. \A m \in Node : \A v : Covered(m, v) => Covered(m, v)'
    BY <1>1, <1>4 DEF FileHolder
  <2>6. /\ holders'[t] = holders[t] \union {work[t].from}
        /\ \A m \in Node \ {t} : holders'[m] = holders[m]
    BY <1>4 DEF FileHolder, TypeOK
  <2>7. Put'
    BY <2>3, <2>5 DEF Put
  <2>8. GapOnlyWhileHandled'
    BY <1>2, <2>3, <2>4, <2>5, <2>6, GapIsThen
  <2> QED
    BY <2>7, <2>8
<1>5. ASSUME NEW t \in Node, Merge(t) PROVE Put' /\ GapOnlyWhileHandled'
  <2>1. /\ work[t].step = "merge" /\ work'[t] = NoWork
        /\ \A m \in Node \ {t} : work'[m] = work[m]
        /\ UNCHANGED mapVars /\ holders' = holders /\ adding' = adding
    BY <1>5 DEF Merge, TypeOK
  <2>2. \A m \in Node : \A v : Covered(m, v) => Covered(m, v)'
    BY <1>1, <2>1 DEF mapVars
  <2>3. Covered(t, work[t].from)
    BY <2>1 DEF Put
  <2>4. Put'
    BY <2>1, <2>2 DEF Put, NoWork
  <2>5. GapOnlyWhileHandled'
    BY <1>2, <2>1, <2>2, <2>3, GapIsThen
  <2> QED
    BY <2>4, <2>5
<1>6. ASSUME NEW n \in Node, AddPeer(n) PROVE Put' /\ GapOnlyWhileHandled'
  <2>1. /\ UNCHANGED <<map, lost, astray, holders, work>>
        /\ adding[n] = NoAdding /\ \A m \in Node \ {n} : adding'[m] = adding[m]
    BY <1>6 DEF AddPeer, TypeOK
  <2>2. \A m \in Node : \A v : Covered(m, v) => Covered(m, v)'
    BY <1>1, <2>1
  <2>3. Put'
    BY <2>1, <2>2 DEF Put
  <2>4. GapOnlyWhileHandled'
    BY <1>2, <2>1, <2>2, GapIsThen
  <2> QED
    BY <2>3, <2>4
<1>7. ASSUME NEW n \in Node, NEW w \in Writer, Update(n, w)
      PROVE  Put' /\ GapOnlyWhileHandled'
  <2>1. /\ Updated(n, w) /\ holders' = holders
        /\ at[n][w].step # "idle" /\ Works(n, w)
    BY <1>7, UpdateStep DEF Working
  <2>2. /\ \A m \in Node \ {n} : work'[m] = work[m] /\ adding'[m] = adding[m]
        /\ \/ work' = work /\ adding' = adding
           \/ /\ w = "handler" /\ adding' = adding /\ work[n] # NoWork /\ work'[n] # NoWork
              /\ work'[n].from = work[n].from /\ work'[n].name = work[n].name
              /\ astray'[n] \/ work[n].from \in Known(n)'
           \/ /\ w = "operator" /\ work' = work
              /\ astray'[n] \/ adding[n].uuid \in Known(n)'
    BY <1>7, UpdateWork
  <2>3. \A m \in Node \ {n} : \A v : Covered(m, v) => Covered(m, v)'
    BY <1>1, <2>1, <2>2 DEF Updated
  <2>4. ASSUME NEW v, Covered(n, v), v # Uuid(n, w) \/ w = "operator"
        PROVE  Covered(n, v)'
    <3>1. CASE v # Uuid(n, w)
      <4>1. v \in Known(n) \union lost[n] => astray'[n] \/ v \in Known(n)' \union lost'[n]
        BY <2>1, <3>1 DEF Updated
      <4>2. astray[n] => astray'[n]
        BY <2>1 DEF Updated
      <4>3. adding[n] # NoAdding /\ adding[n].uuid = v => adding'[n] = adding[n]
        BY <2>2, <3>1 DEF Uuid
      <4> QED
        BY <2>4, <4>1, <4>2, <4>3 DEF Covered
    <3>2. CASE v = Uuid(n, w) /\ w = "operator"
      <4>1. adding[n] # NoAdding /\ adding[n].uuid = v
        BY <2>1, <3>2 DEF Works, Uuid, NoAdding
      <4> QED
        BY <2>2, <3>2, <4>1 DEF Covered
    <3> QED
      BY <2>4, <3>1, <3>2
  <2>5. w = "handler" => /\ work[n].step \in {"map", "remap"} /\ Uuid(n, w) = work[n].from
                         /\ work[n] # NoWork
    BY <2>1 DEF Works, Uuid, NoWork
  <2>6. ASSUME work'[n].step = "merge" PROVE Covered(n, work[n].from)' /\ work'[n].from = work[n].from
    <3>1. CASE w = "handler"
      BY <2>2, <2>5, <2>6, <3>1 DEF Covered
    <3>2. CASE w = "operator"
      <4>1. work'[n] = work[n]
        BY <2>2, <3>2
      <4>2. Covered(n, work[n].from)
        BY <2>6, <4>1 DEF Put
      <4> QED
        BY <2>4, <3>2, <4>1, <4>2
    <3> QED
      BY <3>1, <3>2 DEF Writer
  <2>7. Put'
    BY <2>2, <2>3, <2>6 DEF Put
  <2>8. ASSUME NEW v \in holders[n]
        PROVE  Covered(n, v)' \/ (work'[n] # NoWork /\ work'[n].from = v)
    <3>1. work[n] # NoWork /\ work[n].from = v => work'[n] # NoWork /\ work'[n].from = v
      BY <2>2
    <3>2. v = Uuid(n, w) /\ w = "handler" => work[n] # NoWork /\ work[n].from = v
      BY <2>5
    <3> QED
      BY <1>2, <2>4, <3>1, <3>2 DEF Writer
  <2>9. GapOnlyWhileHandled'
    BY <1>2, <2>1, <2>2, <2>3, <2>8, GapIsThen
  <2> QED
    BY <2>7, <2>9
<1>8. ASSUME NEW n \in Node, Move(n) PROVE Put' /\ GapOnlyWhileHandled'
  <2>1. PICK a \in Address : map' = [map EXCEPT ![n] = OwnMap(n, a)]
    BY <1>8 DEF Move
  <2>2. /\ holders'[n] = {} /\ work'[n] = NoWork
        /\ \A m \in Node \ {n} :
             /\ map'[m] = map[m] /\ lost'[m] = lost[m] /\ astray'[m] = astray[m]
             /\ holders'[m] = holders[m] /\ work'[m] = work[m] /\ adding'[m] = adding[m]
    BY <1>8, <2>1 DEF Move, TypeOK
  <2>3. \A m \in Node \ {n} : \A v : Covered(m, v) => Covered(m, v)'
    BY <1>1, <2>2
  <2>4. Put'
    BY <2>2, <2>3 DEF Put, NoWork
  <2>5. GapOnlyWhileHandled'
    BY <1>2, <2>2, <2>3, GapIsThen
  <2> QED
    BY <2>4, <2>5
<1>9. CASE UNCHANGED vars
  <2>1. \A m \in Node : \A v : Covered(m, v) => Covered(m, v)'
    BY <1>1, <1>9 DEF vars, mapVars
  <2>2. Put'
    BY <1>9, <2>1 DEF vars, Put
  <2>3. GapOnlyWhileHandled'
    BY <1>2, <1>9, <2>1, GapIsThen DEF vars
  <2> QED
    BY <2>2, <2>3
<1> QED
  BY <1>3, <1>4, <1>5, <1>6, <1>7, <1>8, <1>9 DEF Next, Update

(* A holder that view picks is missing from network_map only while the     *)
(* handler of its advertisement, or an addneighbor, has its entry in hand, *)
(* or since one of them put another node of its bucket in with a head read *)
(* before, until one is left at a list node that the other has freed.      *)
THEOREM GapsAreHandled == Spec => []GapOnlyWhileHandled
<1>1. Init => TypeOK /\ Working /\ Put /\ GapOnlyWhileHandled
  <2>1. Init => Put /\ GapOnlyWhileHandled
    BY DEF Init, Put, GapOnlyWhileHandled, NoWork
  <2> QED
    BY <2>1, InitTypes
<1>2. TypeOK /\ Working /\ Put /\ GapOnlyWhileHandled /\ [Next]_vars
        => (TypeOK /\ Working /\ Put /\ GapOnlyWhileHandled)'
  BY TypeStep, WorkingStep, GapStep
<1> QED
  BY <1>1, <1>2, PTL DEF Spec
=============================================================================
