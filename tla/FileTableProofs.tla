--------------------------- MODULE FileTableProofs ---------------------------
(***************************************************************************)
(* Machine-checked facts about FileTable, for any paths, nodes, directories*)
(* and hash functions, and any memory.                                     *)
(***************************************************************************)
EXTENDS FileTable, WellFoundedInduction, TLAPS

Walks == {"walk", "head", "link"}
Joins == {"holders", "holder"}

(* The list nodes in a list that thread t has read.                        *)
Chained(t) == {at[t].seen[i] : i \in DOMAIN at[t].seen}

(* u has a file whose path is k, or a beginning of k.                      *)
Has(u, k) == \E l \in ToldBy(u) : Same(k, l)

(* What a node in use says is right: a path, a file_info that no other node*)
(* has, and holders, each of which has the path.                           *)
Solid ==
  \A i \in UsedNodes :
    /\ node[i].key \in Key /\ node[i].info \in Id
    /\ HoldersOf(node[i].info) # {}
    /\ \A u \in HoldersOf(node[i].info) : Has(u, node[i].key)
Unshared == \A i, j \in UsedNodes : node[i].info = node[j].info => i = j

(* No list, read or in the table, has a node twice, and each has the nodes *)
(* of one bucket.                                                          *)
OneTo(list) == \A i, j \in DOMAIN list : i # j => list[i] # list[j]
InBucket(list, b) == \A i \in DOMAIN list : Bucket[node[list[i]].key] = b
Listed == \A b \in Lists : OneTo(table[b]) /\ InBucket(table[b], b)

(* A thread enters what its advertisement, or the content directory, told. *)
Local_(t) ==
  /\ at[t].todo \subseteq ToldBy(t)
  /\ at[t].pc \in Walks =>
       /\ at[t].key \in ToldBy(t) /\ at[t].info \in Id
       /\ HoldersOf(at[t].info) = {t}
  /\ at[t].pc \in Joins => at[t].info \in Id
  /\ at[t].pc \notin Walks \union Joins => at[t].info = None
  /\ at[t].pc # "holder" => at[t].had = {}
  /\ at[t].pc # "link" => at[t].seen = << >>
  /\ at[t].pc = "link" => OneTo(at[t].seen) /\ InBucket(at[t].seen, Bucket[at[t].key])

(* The file_info it has made is nobody else's until it is put in a node.   *)
Sole(t) ==
  at[t].pc \in Walks =>
    /\ \A i \in UsedNodes : node[i].info # at[t].info
    /\ \A s \in Uuid \ {t} : at[s].info # at[t].info

(* The file_info it has found is of a path that it has, and so are the     *)
(* holders that it has read and will write again.                          *)
Joining(t) ==
  at[t].pc \in Joins =>
    \A i \in UsedNodes : node[i].info = at[t].info =>
      Has(t, node[i].key) /\ \A u \in at[t].had : Has(u, node[i].key)

(* The holders of every file_info but the one thread t has made: those of  *)
(* a node have its path, and another thread's is its own.                  *)
RightHolders(t) ==
  /\ \A i \in UsedNodes : /\ HoldersOf(node[i].info) # {}
                         /\ \A u \in HoldersOf(node[i].info) : Has(u, node[i].key)
  /\ \A s \in Uuid \ {t} : at[s].pc \in Walks => HoldersOf(at[s].info) = {s}

Thread(t) == Local_(t) /\ Sole(t) /\ Joining(t)
FileInv == Solid /\ Unshared /\ Listed /\ \A t \in Uuid : Thread(t)

-----------------------------------------------------------------------------
(* A set of numbers has a least one.                                       *)
LEMMA LeastNumber ==
  ASSUME NEW S \in SUBSET Nat, S # {}
  PROVE  \E m \in S : \A n \in S : m <= n
<1> DEFINE Below == {p \in Nat \X Nat : p[1] < p[2]}
<1>1. IsWellFoundedOn(Below, Nat)
  BY NatLessThanWellFounded DEF OpToRel
<1>2. \E m \in S : \A n \in S : ~(<<n, m>> \in Below)
  BY <1>1, WFMin
<1>3. \A m, n \in Nat : n < m => <<n, m>> \in Below
  OBVIOUS
<1> HIDE DEF Below
<1>4. ASSUME NEW m \in S, \A n \in S : ~(<<n, m>> \in Below)
      PROVE  \A n \in S : m <= n
  <2>1. \A n \in S : ~(n < m)
    BY <1>3, <1>4
  <2> QED
    BY <2>1
<1> QED
  BY <1>2, <1>4

(* What a lookup finds is a node of the table whose path is the one looked *)
(* up or begins with it.                                                   *)
LEMMA FoundNode ==
  ASSUME TypeOK, NEW k \in Key, Matches(k) # {}
  PROVE  Found(k) \in Linked /\ Found(k) \in UsedNodes /\ Same(node[Found(k)].key, k)
<1> DEFINE list == table[Bucket[k]]
<1>1. Bucket[k] \in Lists /\ list \in Seq(Id)
  BY DEF Lists, TypeOK
<1>2. DOMAIN list \subseteq Nat
  BY <1>1
<1>3. Matches(k) \in SUBSET Nat
  BY <1>2 DEF Matches
<1>4. \E m \in Matches(k) : \A n \in Matches(k) : m <= n
  BY <1>3, LeastNumber
<1>5. PICK m \in Matches(k) : Found(k) = list[m]
  BY <1>4 DEF Found
<1>6. m \in DOMAIN list /\ Same(node[list[m]].key, k)
  BY DEF Matches
<1>7. list[m] \in Linked
  BY <1>1, <1>6 DEF Linked
<1> QED
  BY <1>5, <1>6, <1>7 DEF UsedNodes

(* The nodes of a list, in the table or read, are in use; so are the       *)
(* file_infos of nodes and of threads.                                     *)
LEMMA InUse ==
  /\ \A b \in Lists : \A i \in DOMAIN table[b] : table[b][i] \in UsedNodes /\ table[b][i] \in Linked
  /\ \A t \in Uuid : \A i \in DOMAIN at[t].seen : at[t].seen[i] \in UsedNodes
  /\ \A i \in UsedNodes : node[i].info \in UsedInfos
  /\ \A t \in Uuid : at[t].info \in UsedInfos
<1>1. \A b \in Lists : \A i \in DOMAIN table[b] : table[b][i] \in Linked
  BY DEF Linked
<1>2. \A t \in Uuid : \A i \in DOMAIN at[t].seen : at[t].seen[i] \in UsedNodes
  BY DEF UsedNodes
<1>3. Linked \subseteq UsedNodes
  BY DEF UsedNodes
<1>4. /\ \A i \in UsedNodes : node[i].info \in UsedInfos
      /\ \A t \in Uuid : at[t].info \in UsedInfos
  BY DEF UsedInfos
<1> QED
  BY <1>1, <1>2, <1>3, <1>4

(* Nodes in use are in memory.                                             *)
LEMMA NodesInMemory == TypeOK => UsedNodes \subseteq Id
<1> SUFFICES ASSUME TypeOK PROVE UsedNodes \subseteq Id
  OBVIOUS
<1>1. Linked \subseteq Id
  BY DEF TypeOK, Linked
<1>2. \A s \in Uuid : at[s].seen \in Seq(Id)
  BY DEF TypeOK, Locals
<1> QED
  BY <1>1, <1>2 DEF UsedNodes

(* The same after a step.                                                  *)
LEMMA InUseThen ==
  (/\ \A b \in Lists : \A i \in DOMAIN table[b] : table[b][i] \in UsedNodes /\ table[b][i] \in Linked
   /\ \A t \in Uuid : \A i \in DOMAIN at[t].seen : at[t].seen[i] \in UsedNodes
   /\ \A i \in UsedNodes : node[i].info \in UsedInfos
   /\ \A t \in Uuid : at[t].info \in UsedInfos)'
BY InUse, PTL

(* A step of t that changes, of what is in use, only t's own locals and    *)
(* holders, and takes no file_info, one of a node, or one that nothing     *)
(* refers to.                                                              *)
LEMMA OwnStep ==
  ASSUME TypeOK, FileInv, NEW t \in Uuid,
         table' = table, UsedNodes' = UsedNodes,
         \A i \in UsedNodes : node'[i] = node[i],
         RightHolders(t)',
         \A s \in Uuid \ {t} : at'[s] = at[s],
         \/ at'[t].info \in {None, at[t].info}
         \/ \E i \in UsedNodes : at'[t].info = node[i].info
         \/ at'[t].info \notin UsedInfos,
         Thread(t)'
  PROVE  FileInv'
<1>2. Solid' /\ Unshared'
  BY DEF FileInv, Solid, Unshared, RightHolders
<1>3. Listed'
  BY InUse DEF FileInv, Listed, OneTo, InBucket
<1>4. ASSUME NEW s \in Uuid \ {t} PROVE Thread(s)'
  <2>1. Thread(s) /\ at'[s] = at[s]
    BY DEF FileInv
  <2>2. Local_(s)'
    <3>1. InBucket(at[s].seen, Bucket[at[s].key]) => InBucket(at[s].seen, Bucket[at[s].key])'
      BY <2>1, InUse DEF InBucket
    <3>2. OneTo(at[s].seen) => OneTo(at[s].seen)'
      BY <2>1 DEF OneTo
    <3> QED
      BY <2>1, <3>1, <3>2 DEF Thread, Local_, ToldBy, Local, RightHolders
  <2>3. Sole(s)'
    <3>1. ASSUME at[s].pc \in Walks PROVE at'[t].info # at[s].info
      <4>1. /\ at[s].info \in Id /\ at[t].info # at[s].info
            /\ \A i \in UsedNodes : node[i].info # at[s].info
            /\ at[s].info \in UsedInfos
        BY <2>1, <3>1, InUse DEF Thread, Local_, Sole
      <4> QED
        BY <4>1, TableAssumption
    <3> QED
      BY <2>1, <3>1 DEF Thread, Sole
  <2>4. Joining(s)'
    BY <2>1 DEF Thread, Joining, Has, ToldBy, Local
  <2> QED
    BY <2>2, <2>3, <2>4 DEF Thread
<1> QED
  BY <1>2, <1>3, <1>4 DEF FileInv

(* File_infos that no step writes keep their holders.                      *)
LEMMA HoldersKept ==
  ASSUME FileInv, UsedNodes' = UsedNodes,
         \A i \in UsedNodes : node'[i] = node[i],
         NEW t \in Uuid, \A s \in Uuid \ {t} : at'[s] = at[s],
         \A f \in Id : f \in UsedInfos /\ f \in UsedInfos' => peers'[f] = peers[f]
  PROVE  RightHolders(t)'
<1>1. \A f \in Id : f \in UsedInfos /\ f \in UsedInfos' =>
        UNION {peers'[f][b] : b \in PeerLists} = HoldersOf(f)
  BY DEF HoldersOf
<1>2. ASSUME NEW i \in UsedNodes
      PROVE  /\ HoldersOf(node[i].info)' # {}
             /\ \A u \in HoldersOf(node[i].info)' : Has(u, node[i].key)
  <2>1. /\ node'[i].info = node[i].info /\ node[i].info \in Id
        /\ node[i].info \in UsedInfos /\ node'[i].info \in UsedInfos'
    BY InUse, InUseThen DEF FileInv, Solid
  <2>2. UNION {peers'[node[i].info][b] : b \in PeerLists} = HoldersOf(node[i].info)
    BY <1>1, <2>1
  <2>3. HoldersOf(node[i].info)' = HoldersOf(node[i].info)
    BY <2>1, <2>2 DEF HoldersOf
  <2> QED
    BY <2>3 DEF FileInv, Solid
<1>3. ASSUME NEW s \in Uuid \ {t}, at[s].pc \in Walks
      PROVE  HoldersOf(at[s].info)' = {s}
  <2>1. at[s].info \in Id /\ HoldersOf(at[s].info) = {s} /\ at'[s] = at[s]
    BY <1>3 DEF FileInv, Thread, Local_
  <2>2. at[s].info \in UsedInfos /\ at'[s].info \in UsedInfos'
    BY InUse, InUseThen
  <2>3. UNION {peers'[at[s].info][b] : b \in PeerLists} = HoldersOf(at[s].info)
    BY <1>1, <2>1, <2>2
  <2> QED
    BY <2>1, <2>3 DEF HoldersOf
<1>4. \A i \in UsedNodes : node'[i].key = node[i].key
  OBVIOUS
<1> QED
  BY <1>2, <1>3, <1>4 DEF RightHolders, Has, ToldBy, Local

-----------------------------------------------------------------------------
(* With nothing in the table and no thread at work there is nothing that   *)
(* could be wrong.                                                         *)
LEMMA Empty == table = EmptyTable /\ at = AllIdle => FileInv
<1> SUFFICES ASSUME table = EmptyTable, at = AllIdle PROVE FileInv
  OBVIOUS
<1>1. UsedNodes = {}
  BY DEF EmptyTable, AllIdle, UsedNodes, Linked
<1>2. Solid /\ Unshared /\ Listed
  BY <1>1 DEF Solid, Unshared, Listed, OneTo, InBucket, EmptyTable
<1>3. ASSUME NEW t \in Uuid PROVE Thread(t)
  BY DEF AllIdle, Thread, Local_, Sole, Joining, Walks, Joins
<1> QED
  BY <1>2, <1>3 DEF FileInv

(* The same after a step, when the process is gone.                        *)
LEMMA EmptyThen == (table = EmptyTable /\ at = AllIdle => FileInv)'
BY Empty, PTL

(* The nodes in use, list by list, before a step and after it.             *)
LEMMA NodesAre == UsedNodes = Linked \union UNION {Chained(t) : t \in Uuid}
BY DEF UsedNodes, Chained

(* The same after a step.                                                  *)
LEMMA NodesAreThen ==
  UsedNodes' = Linked' \union UNION {Chained(t)' : t \in Uuid}
BY DEF UsedNodes, Chained

(* What is in use stays so when a thread changes no list.                  *)
LEMMA SameNodes ==
  ASSUME TypeOK, NEW t \in Uuid, table' = table,
         \A s \in Uuid \ {t} : at'[s] = at[s],
         \/ at'[t].seen = at[t].seen
         \/ at[t].seen = << >> /\ at'[t].seen = << >>
         \/ at[t].seen = << >> /\ \E b \in Lists : at'[t].seen = table[b]
  PROVE  UsedNodes' = UsedNodes
<1>3. Linked' = Linked
  BY DEF Linked
<1>4. \A s \in Uuid \ {t} : Chained(s)' = Chained(s)
  BY DEF Chained
<1>5. CASE at'[t].seen = at[t].seen
  <2>1. Chained(t)' = Chained(t)
    BY <1>5 DEF Chained
  <2> QED
    BY NodesAre, NodesAreThen, <1>3, <1>4, <2>1
<1>6. CASE at[t].seen = << >> /\ at'[t].seen = << >>
  <2>1. Chained(t)' = Chained(t)
    BY <1>6 DEF Chained
  <2> QED
    BY NodesAre, NodesAreThen, <1>3, <1>4, <2>1
<1>7. CASE at[t].seen = << >> /\ \E b \in Lists : at'[t].seen = table[b]
  <2>1. Chained(t) = {}
    BY <1>7 DEF Chained
  <2>2. Chained(t)' \subseteq Linked
    BY <1>7 DEF Chained, Linked
  <2> QED
    BY NodesAre, NodesAreThen, <1>3, <1>4, <2>1, <2>2
<1> QED
  BY <1>5, <1>6, <1>7

(* What Done leaves of a thread's locals.                                  *)
LEMMA DoneLocals ==
  ASSUME TypeOK, NEW t \in Uuid, Done(t)
  PROVE  /\ \A s \in Uuid \ {t} : at'[s] = at[s]
         /\ at'[t].pc = "next" /\ at'[t].todo = at[t].todo /\ at'[t].info = None
         /\ at'[t].seen = << >> /\ at'[t].had = {}
BY DEF TypeOK, Locals, Done, AllIdle

-----------------------------------------------------------------------------
(* The steps that leave nodes and holders as they are.                     *)

(* A handler starts, a round starts or goes into a directory: the paths to *)
(* enter are those that were told.                                         *)
LEMMA StartStep ==
  ASSUME TypeOK, FileInv, NEW t \in Uuid, NEW todo, todo \subseteq ToldBy(t),
         at[t].pc \in {"idle", "next"},
         \A s \in Uuid \ {t} : at'[s] = at[s],
         at'[t] = [at[t] EXCEPT !.pc = "next", !.todo = todo],
         UNCHANGED <<table, node, peers>>
  PROVE  FileInv'
<1>1. /\ at[t].pc \notin Walks \union Joins /\ at[t].pc # "link" /\ at[t].pc # "holder"
      /\ Thread(t)
  BY DEF Walks, Joins, FileInv
<1>2. /\ \A s \in Uuid \ {t} : at'[s] = at[s]
      /\ at'[t].pc = "next" /\ at'[t].todo = todo /\ at'[t].info = None
      /\ at'[t].seen = << >> /\ at'[t].had = {} /\ at[t].seen = << >> /\ at[t].info = None
  BY <1>1 DEF TypeOK, Locals, Thread, Local_
<1>3. UsedNodes' = UsedNodes
  BY <1>2, SameNodes
<1>4. Thread(t)'
  BY <1>2 DEF Thread, Local_, Sole, Joining, Walks, Joins, ToldBy, Local
<1>5. RightHolders(t)'
  BY <1>2, <1>3, HoldersKept
<1> QED
  BY <1>2, <1>3, <1>4, <1>5, OwnStep

(* A thread is done with a path, or with all of them.                      *)
LEMMA RestStep ==
  ASSUME TypeOK, FileInv, NEW t \in Uuid,
         \A s \in Uuid \ {t} : at'[s] = at[s],
         at'[t].pc \in {"idle", "next"}, at'[t].todo \subseteq at[t].todo,
         at'[t].info = None, at'[t].seen = << >>, at'[t].had = {},
         at[t].pc # "link", table' = table,
         \A i \in UsedNodes : node'[i] = node[i],
         \A f \in Id : f \in UsedInfos /\ f \in UsedInfos' => peers'[f] = peers[f]
  PROVE  FileInv'
<1>1. Thread(t) /\ at[t].seen = << >>
  BY DEF FileInv, Thread, Local_
<1>2. UsedNodes' = UsedNodes
  BY <1>1, SameNodes
<1>3. Thread(t)'
  BY <1>1 DEF Thread, Local_, Sole, Joining, Walks, Joins, ToldBy, Local
<1>4. RightHolders(t)'
  BY <1>2, HoldersKept
<1> QED
  BY <1>2, <1>3, <1>4, OwnStep

(* A lookup that finds: a handler goes on with what it has found, a node's *)
(* file_info whose path it has.                                            *)
LEMMA LookFindsStep ==
  ASSUME TypeOK, FileInv, NEW t \in Uuid, LookFinds(t)
  PROVE  FileInv'
<1>1. PICK k \in at[t].todo :
        /\ Matches(k) # {}
        /\ at' = [at EXCEPT ![t].todo = @ \ {k},
                           ![t].pc = IF t = Self THEN "next" ELSE "holders",
                           ![t].info = IF t = Self THEN None ELSE node[Found(k)].info]
  BY DEF LookFinds
<1>2. /\ at[t].pc = "next" /\ Thread(t) /\ at[t].info = None /\ at[t].seen = << >>
      /\ at[t].had = {}
  BY DEF LookFinds, Is, FileInv, Thread, Local_, Walks, Joins
<1>3. k \in Key /\ k \in ToldBy(t)
  BY <1>2 DEF TypeOK, Locals, Thread, Local_
<1>4. Found(k) \in UsedNodes /\ Same(node[Found(k)].key, k)
  BY <1>1, <1>3, FoundNode
<1>5. /\ \A s \in Uuid \ {t} : at'[s] = at[s]
      /\ at'[t].todo \subseteq at[t].todo
      /\ at'[t].seen = << >> /\ at'[t].had = {}
      /\ \/ at'[t].pc = "next" /\ at'[t].info = None
         \/ at'[t].pc = "holders" /\ at'[t].info = node[Found(k)].info
  BY <1>1, <1>2 DEF TypeOK, Locals
<1>6. UsedNodes' = UsedNodes
  BY <1>2, <1>5, SameNodes DEF LookFinds
<1>7. at'[t].pc \in {"next", "holders"}
  BY <1>5
<1>8. Local_(t)'
  <2>1. node[Found(k)].info \in Id
    BY <1>4 DEF FileInv, Solid
  <2> QED
    BY <1>2, <1>5, <1>7, <2>1 DEF Thread, Local_, Walks, Joins, ToldBy, Local
<1>9. Joining(t)'
  <2>1. \A i \in UsedNodes : node[i].info = node[Found(k)].info => Has(t, node[i].key)
    BY <1>3, <1>4 DEF FileInv, Unshared, Has
  <2>2. node' = node
    BY DEF LookFinds
  <2> QED
    BY <1>5, <1>6, <2>1, <2>2 DEF Joining, Has, Joins, ToldBy, Local
<1>10. Sole(t)'
  BY <1>7 DEF Sole, Walks
<1>11. Thread(t)'
  BY <1>8, <1>9, <1>10 DEF Thread
<1>12. \/ at'[t].info \in {None, at[t].info}
       \/ \E i \in UsedNodes : at'[t].info = node[i].info
  BY <1>4, <1>5
<1>13. RightHolders(t)'
  BY <1>5, <1>6, HoldersKept DEF LookFinds
<1> QED
  BY <1>5, <1>6, <1>11, <1>12, <1>13, OwnStep DEF LookFinds

(* A lookup that finds nothing: the file_info is one that nothing refers   *)
(* to, with the thread for its holder.                                     *)
LEMMA LookMissesStep ==
  ASSUME TypeOK, FileInv, NEW t \in Uuid, LookMisses(t)
  PROVE  FileInv'
<1>1. PICK k \in at[t].todo, fresh \in Id \ UsedInfos :
        /\ peers' = [peers EXCEPT ![fresh] = [NoHolders EXCEPT ![PeerBucket[t]] = {t}]]
        /\ at' = [at EXCEPT ![t].pc = "walk", ![t].todo = @ \ {k}, ![t].key = k,
                           ![t].info = fresh]
  BY DEF LookMisses
<1>2. fresh \in Id /\ fresh \notin UsedInfos
  OBVIOUS
<1>3. /\ at[t].pc = "next" /\ Thread(t) /\ at[t].seen = << >> /\ at[t].had = {}
      /\ table' = table /\ node' = node
  BY DEF LookMisses, Is, FileInv, Thread, Local_
<1>4. /\ \A s \in Uuid \ {t} : at'[s] = at[s]
      /\ at'[t].pc = "walk" /\ at'[t].todo \subseteq at[t].todo /\ at'[t].key = k
      /\ at'[t].info = fresh /\ at'[t].seen = << >> /\ at'[t].had = {}
  BY <1>1, <1>3 DEF TypeOK, Locals
<1>5. UsedNodes' = UsedNodes
  BY <1>3, <1>4, SameNodes
<1>6. HoldersOf(fresh)' = {t}
  <2>1. peers'[fresh] = [NoHolders EXCEPT ![PeerBucket[t]] = {t}]
    BY <1>1, <1>2 DEF TypeOK
  <2>2. PeerBucket[t] \in PeerLists
    BY DEF PeerLists
  <2>3. \A b \in PeerLists : peers'[fresh][b] = IF b = PeerBucket[t] THEN {t} ELSE {}
    BY <2>1 DEF NoHolders
  <2>4. HoldersOf(fresh)' = UNION {peers'[fresh][b] : b \in PeerLists}
    BY DEF HoldersOf
  <2> QED
    BY <2>2, <2>3, <2>4
<1>7. Local_(t)'
  BY <1>2, <1>3, <1>4, <1>6 DEF Thread, Local_, Walks, Joins, ToldBy, Local
<1>8. Sole(t)'
  BY <1>2, <1>3, <1>4, <1>5, InUse DEF Sole
<1>9. Thread(t)'
  BY <1>4, <1>7, <1>8 DEF Thread, Joining, Joins
<1>10. \A f \in Id : f \in UsedInfos /\ f \in UsedInfos' => peers'[f] = peers[f]
  BY <1>1, <1>2 DEF TypeOK
<1>11. RightHolders(t)'
  BY <1>3, <1>4, <1>5, <1>10, HoldersKept
<1> QED
  BY <1>2, <1>3, <1>4, <1>5, <1>9, <1>11, OwnStep

(* A walk that misses, or the read of the head of the list: the thread has *)
(* the same path and file_info.                                            *)
LEMMA WalkOnStep ==
  ASSUME TypeOK, FileInv, NEW t \in Uuid, at[t].pc \in Walks \ {"link"},
         UNCHANGED <<table, node, peers>>,
         \/ at' = [at EXCEPT ![t].pc = "head"]
         \/ at' = [at EXCEPT ![t].pc = "link", ![t].seen = table[Bucket[at[t].key]]]
  PROVE  FileInv'
<1>1. Thread(t) /\ at[t].seen = << >> /\ at[t].had = {}
  BY DEF FileInv, Thread, Local_, Walks
<1>2. at[t].key \in Key
  <2>1. at[t].key \in ToldBy(t)
    BY <1>1 DEF Thread, Local_
  <2>2. ToldBy(t) \subseteq Key
    BY TableAssumption DEF ToldBy, Local, Uuid, Dir
  <2> QED
    BY <2>1, <2>2
<1> DEFINE list == table[Bucket[at[t].key]]
<1>3. Bucket[at[t].key] \in Lists
  BY <1>2 DEF Lists
<1>4. OneTo(list) /\ InBucket(list, Bucket[at[t].key])
  BY <1>3 DEF FileInv, Listed
<1>5. /\ \A s \in Uuid \ {t} : at'[s] = at[s]
      /\ at'[t].pc \in {"head", "link"} /\ at'[t].todo = at[t].todo /\ at'[t].key = at[t].key
      /\ at'[t].info = at[t].info /\ at'[t].had = {}
      /\ IF at'[t].pc = "link" THEN at'[t].seen = list ELSE at'[t].seen = << >>
  BY <1>1 DEF TypeOK, Locals
<1>6. UsedNodes' = UsedNodes
  BY <1>1, <1>3, <1>5, SameNodes
<1>7. HoldersOf(at[t].info)' = {t}
  BY <1>1, <1>5 DEF Thread, Local_, HoldersOf
<1>8. Local_(t)'
  <2>1. /\ at'[t].todo \subseteq ToldBy(t)' /\ at'[t].key \in ToldBy(t)'
        /\ at'[t].info \in Id /\ at'[t].pc \in Walks
    BY <1>1, <1>5 DEF Thread, Local_, Walks, ToldBy, Local
  <2>2. at'[t].pc = "link" => (OneTo(at[t].seen) /\ InBucket(at[t].seen, Bucket[at[t].key]))'
    <3>1. ASSUME at'[t].pc = "link"
          PROVE  at'[t].seen = list /\ at'[t].key = at[t].key /\ node' = node
      BY <1>5, <3>1
    <3> HIDE DEF list
    <3> QED
      BY <1>4, <3>1 DEF OneTo, InBucket
  <2>3. at'[t].pc # "link" => at'[t].seen = << >>
    BY <1>5
  <2> QED
    BY <1>5, <1>7, <2>1, <2>2, <2>3 DEF Local_, Walks, Joins
<1>9. Sole(t)' /\ Joining(t)'
  BY <1>1, <1>5, <1>6 DEF Thread, Sole, Joining, Walks, Joins
<1>10. RightHolders(t)'
  BY <1>5, <1>6, HoldersKept
<1> QED
  BY <1>5, <1>6, <1>8, <1>9, <1>10, OwnStep DEF Thread

-----------------------------------------------------------------------------
(* The steps that write.                                                   *)

(* The thread enters itself beside the holders that it has read, all of    *)
(* which have the path, whoever has come in since.                         *)
LEMMA StoreHolderStep ==
  ASSUME TypeOK, FileInv, NEW t \in Uuid, StoreHolder(t)
  PROVE  FileInv'
<1> DEFINE now == [peers EXCEPT ![at[t].info][PeerBucket[t]] = at[t].had \union {t}]
<1>1. PICK f0 : f0 = at[t].info
  OBVIOUS
<1>2. /\ at[t].pc = "holder" /\ Thread(t) /\ f0 \in Id /\ at[t].seen = << >>
      /\ table' = table
  BY <1>1 DEF StoreHolder, Is, FileInv, Thread, Local_, Joins
<1>3. /\ \A s \in Uuid \ {t} : at'[s] = at[s]
      /\ at'[t].pc = "next" /\ at'[t].todo = at[t].todo /\ at'[t].info = None
      /\ at'[t].seen = << >> /\ at'[t].had = {}
  BY DoneLocals DEF StoreHolder
<1>4. UsedNodes' = UsedNodes
  BY <1>2, <1>3, SameNodes
<1>5. UsedNodes \subseteq Id
  BY NodesInMemory
<1>6. \A i \in UsedNodes : node'[i] = node[i]
  BY <1>4, <1>5 DEF StoreHolder, Memory
<1>7. \A f \in Id : f \in UsedInfos' => peers'[f] = now[f]
  BY DEF StoreHolder, Memory
<1>8. ASSUME NEW f \in Id \ {f0}, f \in UsedInfos'
      PROVE  UNION {peers'[f][b] : b \in PeerLists} = HoldersOf(f)
  BY <1>1, <1>7, <1>8 DEF HoldersOf, TypeOK
<1>9. ASSUME f0 \in UsedInfos'
      PROVE  /\ UNION {peers'[f0][b] : b \in PeerLists} # {}
             /\ UNION {peers'[f0][b] : b \in PeerLists}
                  \subseteq HoldersOf(f0) \union at[t].had \union {t}
  <2>1. PeerBucket[t] \in PeerLists
    BY DEF PeerLists
  <2>2. peers[f0] \in [PeerLists -> SUBSET Uuid]
    BY <1>2 DEF TypeOK
  <2>3. \A b \in PeerLists : peers'[f0][b] =
          IF b = PeerBucket[t] THEN at[t].had \union {t} ELSE peers[f0][b]
    BY <1>1, <1>2, <1>7, <1>9, <2>2 DEF TypeOK
  <2> QED
    BY <2>1, <2>3 DEF HoldersOf
<1>10. ASSUME NEW i \in UsedNodes
       PROVE  /\ HoldersOf(node[i].info)' # {}
              /\ \A u \in HoldersOf(node[i].info)' : Has(u, node[i].key)
  <2>1. /\ node'[i].info = node[i].info /\ node[i].info \in Id
        /\ node'[i].info \in UsedInfos' /\ HoldersOf(node[i].info) # {}
        /\ \A u \in HoldersOf(node[i].info) : Has(u, node[i].key)
    BY <1>4, <1>6, InUseThen DEF FileInv, Solid
  <2>2. HoldersOf(node[i].info)' = UNION {peers'[node[i].info][b] : b \in PeerLists}
    BY <2>1 DEF HoldersOf
  <2>3. CASE node[i].info # f0
    BY <1>8, <2>1, <2>2, <2>3
  <2>4. CASE node[i].info = f0
    <3>1. Has(t, node[i].key) /\ \A u \in at[t].had : Has(u, node[i].key)
      BY <1>1, <1>2, <2>4 DEF Thread, Joining, Joins
    <3> QED
      BY <1>9, <2>1, <2>2, <2>4, <3>1
  <2> QED
    BY <2>3, <2>4
<1>11. ASSUME NEW s \in Uuid \ {t}, at[s].pc \in Walks
       PROVE  HoldersOf(at[s].info)' = {s}
  <2>1. /\ at[s].info \in Id /\ HoldersOf(at[s].info) = {s} /\ at'[s] = at[s]
        /\ at[s].info # f0 /\ at'[s].info \in UsedInfos'
    BY <1>1, <1>3, <1>11, InUseThen DEF FileInv, Thread, Local_, Sole
  <2> QED
    BY <1>8, <2>1 DEF HoldersOf
<1>12. \A i \in UsedNodes : node'[i].key = node[i].key
  BY <1>6
<1>13. RightHolders(t)'
  BY <1>3, <1>4, <1>10, <1>11, <1>12 DEF RightHolders, Has, ToldBy, Local
<1>14. Thread(t)'
  BY <1>2, <1>3 DEF Thread, Local_, Sole, Joining, Walks, Joins, ToldBy, Local
<1> QED
  BY <1>2, <1>3, <1>4, <1>6, <1>13, <1>14, OwnStep

(* The walk finds a node, whose value becomes the thread's file_info: its  *)
(* one holder has a path that the node's path is, or is a beginning of.    *)
LEMMA WalkFindsStep ==
  ASSUME TypeOK, FileInv, NEW t \in Uuid, WalkFinds(t)
  PROVE  FileInv'
<1>1. PICK f0, k, j : f0 = at[t].info /\ k = at[t].key /\ j = Found(k)
  OBVIOUS
<1>2. /\ at[t].pc = "walk" /\ Thread(t) /\ f0 \in Id /\ at[t].seen = << >>
      /\ k \in ToldBy(t) /\ HoldersOf(f0) = {t} /\ table' = table
  BY <1>1 DEF WalkFinds, Is, FileInv, Thread, Local_, Walks
<1>3. k \in Key
  BY <1>2, TableAssumption DEF ToldBy, Local, Uuid, Dir
<1>4. j \in UsedNodes /\ Same(node[j].key, k)
  BY <1>1, <1>3, FoundNode DEF WalkFinds
<1>5. /\ \A s \in Uuid \ {t} : at'[s] = at[s]
      /\ at'[t].pc = "next" /\ at'[t].todo = at[t].todo /\ at'[t].info = None
      /\ at'[t].seen = << >> /\ at'[t].had = {}
  BY DoneLocals DEF WalkFinds
<1>6. UsedNodes' = UsedNodes
  BY <1>2, <1>5, SameNodes
<1>7. UsedNodes \subseteq Id
  BY NodesInMemory
<1>8. \A i \in UsedNodes : /\ node'[i].key = node[i].key
                          /\ node'[i].info = IF i = j THEN f0 ELSE node[i].info
  <2>1. \A i \in UsedNodes : node'[i] = [node EXCEPT ![j].info = f0][i]
    BY <1>1, <1>6, <1>7 DEF WalkFinds, Memory
  <2> QED
    BY <1>4, <1>7, <2>1 DEF TypeOK
<1>9. \A f \in Id : f \in UsedInfos' => peers'[f] = peers[f]
  BY DEF WalkFinds, Memory
<1>10. \A f \in Id : f \in UsedInfos' =>
         UNION {peers'[f][b] : b \in PeerLists} = HoldersOf(f)
  BY <1>9 DEF HoldersOf
<1>11. /\ \A i \in UsedNodes : node[i].info # f0
       /\ \A s \in Uuid \ {t} : at[s].info # f0
  BY <1>1, <1>2 DEF Thread, Sole, Walks
<1>12. Solid'
  <2> SUFFICES ASSUME NEW i \in UsedNodes
               PROVE  /\ node'[i].key \in Key /\ node'[i].info \in Id
                      /\ HoldersOf(node[i].info)' # {}
                      /\ \A u \in HoldersOf(node[i].info)' : Has(u, node[i].key)'
    BY <1>6 DEF Solid
  <2>1. /\ node[i].key \in Key /\ node[i].info \in Id /\ HoldersOf(node[i].info) # {}
        /\ \A u \in HoldersOf(node[i].info) : Has(u, node[i].key)
    BY DEF FileInv, Solid
  <2>2. node'[i].info \in Id /\ node'[i].info \in UsedInfos'
    BY <1>2, <1>6, <1>8, <2>1, InUseThen
  <2>3. PICK f : f = node'[i].info /\ f = IF i = j THEN f0 ELSE node[i].info
    BY <1>8
  <2>4. UNION {peers'[f][b] : b \in PeerLists} = HoldersOf(f)
    BY <1>10, <2>2, <2>3
  <2>5. HoldersOf(node[i].info)' = HoldersOf(f)
    BY <2>3, <2>4 DEF HoldersOf
  <2>6. \A u : Has(u, node[i].key)' <=> Has(u, node[i].key)
    BY <1>8 DEF Has, ToldBy, Local
  <2>7. Has(t, node[j].key)
    BY <1>2, <1>4 DEF Has
  <2> QED
    BY <1>2, <1>8, <2>1, <2>2, <2>3, <2>5, <2>6, <2>7
<1>13. Unshared'
  BY <1>6, <1>8, <1>11 DEF FileInv, Unshared
<1>14. Listed'
  BY <1>2, <1>8, InUse DEF FileInv, Listed, OneTo, InBucket
<1>15. ASSUME NEW s \in Uuid \ {t} PROVE Thread(s)'
  <2>1. Thread(s) /\ at'[s] = at[s]
    BY <1>5 DEF FileInv
  <2>2. ASSUME at[s].pc \in Walks PROVE HoldersOf(at[s].info)' = {s}
    <3>1. /\ at[s].info \in Id /\ HoldersOf(at[s].info) = {s}
          /\ at'[s].info = at[s].info /\ at'[s].info \in UsedInfos'
      BY <2>1, <2>2, InUseThen DEF Thread, Local_
    <3>2. UNION {peers'[at[s].info][b] : b \in PeerLists} = {s}
      BY <1>10, <3>1
    <3> QED
      BY <3>1, <3>2 DEF HoldersOf
  <2>3. InBucket(at[s].seen, Bucket[at[s].key]) => InBucket(at[s].seen, Bucket[at[s].key])'
    BY <1>8, <2>1, InUse DEF InBucket
  <2>4. OneTo(at[s].seen) => OneTo(at[s].seen)'
    BY <2>1 DEF OneTo
  <2>5. Local_(s)'
    BY <2>1, <2>2, <2>3, <2>4 DEF Thread, Local_, ToldBy, Local
  <2>6. at[s].pc \in Walks => at[s].info # None
    BY <2>1, TableAssumption DEF Thread, Local_
  <2>7. Sole(s)'
    BY <1>5, <1>6, <1>8, <1>11, <2>1, <2>6 DEF Thread, Sole
  <2>8. Joining(s)'
    BY <1>6, <1>8, <1>11, <2>1 DEF Thread, Joining, Has, ToldBy, Local
  <2> QED
    BY <2>5, <2>7, <2>8 DEF Thread
<1>16. Thread(t)'
  BY <1>2, <1>5 DEF Thread, Local_, Sole, Joining, Walks, Joins, ToldBy, Local
<1> QED
  BY <1>12, <1>13, <1>14, <1>15, <1>16 DEF FileInv

(* What a store of the new head does to the lists: the nodes that the      *)
(* thread has read follow it, and every other list stays as it is.         *)
LEMMA LinkLists ==
  ASSUME TypeOK, FileInv, NEW t \in Uuid, Link(t)
  PROVE  \E new \in Id \ UsedNodes, b0 \in Lists :
           /\ b0 = Bucket[at[t].key]
           /\ \A b \in Lists : table'[b] = IF b = b0 THEN <<new>> \o at[t].seen ELSE table[b]
           /\ \A i \in Id : i \in UsedNodes' =>
                node'[i] = IF i = new THEN [key |-> at[t].key, info |-> at[t].info] ELSE node[i]
           /\ UsedNodes' \subseteq UsedNodes \union {new}
           /\ new \in Linked'
<1>1. PICK new \in Id \ UsedNodes : new = NewNode(t)
  BY DEF Link, NewNode
<1>2. PICK k, b0 : k = at[t].key /\ b0 = Bucket[k]
  OBVIOUS
<1>3. k \in ToldBy(t)
  BY <1>2 DEF Link, Is, FileInv, Thread, Local_, Walks
<1>4. b0 \in Lists
  <2>1. k \in Key
    BY <1>3, TableAssumption DEF ToldBy, Local, Uuid, Dir
  <2> QED
    BY <1>2, <2>1 DEF Lists
<1>5. at[t].seen \in Seq(Id)
  BY DEF TypeOK, Locals
<1>6. \A b \in Lists : table'[b] = IF b = b0 THEN <<new>> \o at[t].seen ELSE table[b]
  BY <1>1, <1>2 DEF Link, TypeOK
<1>7. \A i \in Id : i \in UsedNodes' => node'[i] = WithNode(t)[i]
  BY DEF Link, Memory
<1>8. \A i \in Id : WithNode(t)[i] =
        IF i = new THEN [key |-> at[t].key, info |-> at[t].info] ELSE node[i]
  BY <1>1 DEF WithNode, TypeOK
<1>9. /\ \A s \in Uuid \ {t} : at'[s] = at[s]
      /\ at'[t].seen = << >>
  BY DoneLocals DEF Link
<1>10. \A i \in DOMAIN (<<new>> \o at[t].seen) :
         (<<new>> \o at[t].seen)[i] \in Chained(t) \union {new}
  BY <1>5 DEF Chained
<1>11. Linked' \subseteq Linked \union Chained(t) \union {new}
  <2> SUFFICES ASSUME NEW b \in Lists, NEW i \in DOMAIN table'[b]
               PROVE  table'[b][i] \in Linked \union Chained(t) \union {new}
    BY DEF Linked
  <2>1. CASE b = b0
    BY <1>6, <1>10, <2>1
  <2>2. CASE b # b0
    BY <1>6, <2>2 DEF Linked
  <2> QED
    BY <2>1, <2>2
<1>12. \A s \in Uuid : Chained(s)' \subseteq Chained(s)
  BY <1>9 DEF Chained
<1>13. UsedNodes' \subseteq UsedNodes \union {new}
  BY <1>11, <1>12, NodesAre, NodesAreThen
<1>14. new \in Linked'
  <2>1. 1 \in DOMAIN (<<new>> \o at[t].seen) /\ (<<new>> \o at[t].seen)[1] = new
    BY <1>5
  <2>2. 1 \in DOMAIN table'[b0] /\ table'[b0][1] = new
    BY <1>4, <1>6, <2>1
  <2> QED
    BY <1>4, <2>2 DEF Linked
<1> QED
  BY <1>1, <1>2, <1>4, <1>6, <1>7, <1>8, <1>13, <1>14

(* The new node has the thread's file_info, which no other node has, and   *)
(* comes before nodes that are there already, all of its bucket.           *)
LEMMA LinkStep ==
  ASSUME TypeOK, FileInv, NEW t \in Uuid, Link(t)
  PROVE  FileInv'
<1>1. PICK new \in Id \ UsedNodes, b0 \in Lists :
        /\ b0 = Bucket[at[t].key]
        /\ \A b \in Lists : table'[b] = IF b = b0 THEN <<new>> \o at[t].seen ELSE table[b]
        /\ \A i \in Id : i \in UsedNodes' =>
             node'[i] = IF i = new THEN [key |-> at[t].key, info |-> at[t].info] ELSE node[i]
        /\ UsedNodes' \subseteq UsedNodes \union {new}
        /\ new \in Linked'
  BY LinkLists
<1>2. PICK f0, k : f0 = at[t].info /\ k = at[t].key
  OBVIOUS
<1>3. /\ Thread(t) /\ f0 \in Id /\ k \in ToldBy(t) /\ HoldersOf(f0) = {t}
      /\ OneTo(at[t].seen) /\ InBucket(at[t].seen, b0) /\ at[t].pc \in Walks
  BY <1>1, <1>2 DEF Link, Is, FileInv, Thread, Local_, Walks
<1>4. k \in Key
  BY <1>3, TableAssumption DEF ToldBy, Local, Uuid, Dir
<1>5. /\ \A s \in Uuid \ {t} : at'[s] = at[s]
      /\ at'[t].pc = "next" /\ at'[t].todo = at[t].todo /\ at'[t].info = None
      /\ at'[t].seen = << >> /\ at'[t].had = {}
  BY DoneLocals DEF Link
<1>6. /\ \A i \in UsedNodes : i \in UsedNodes' => node'[i] = node[i]
      /\ new \in UsedNodes' /\ node'[new].key = k /\ node'[new].info = f0
      /\ \A i \in UsedNodes' : i = new \/ i \in UsedNodes
  <2>1. new \in UsedNodes'
    BY <1>1, NodesAreThen
  <2>2. node'[new] = [key |-> at[t].key, info |-> at[t].info]
    BY <1>1, <2>1
  <2>3. node'[new].key = k /\ node'[new].info = f0
    BY <1>2, <2>2
  <2> QED
    BY <1>1, <2>1, <2>3, NodesInMemory
<1>7. \A f \in Id : f \in UsedInfos' =>
        UNION {peers'[f][b] : b \in PeerLists} = HoldersOf(f)
  BY DEF Link, Memory, HoldersOf
<1>8. /\ \A i \in UsedNodes : node[i].info # f0
      /\ \A s \in Uuid \ {t} : at[s].info # f0
  BY <1>2, <1>3 DEF Thread, Sole
<1>9. Solid'
  <2> SUFFICES ASSUME NEW i \in UsedNodes'
               PROVE  /\ node'[i].key \in Key /\ node'[i].info \in Id
                      /\ HoldersOf(node[i].info)' # {}
                      /\ \A u \in HoldersOf(node[i].info)' : Has(u, node[i].key)'
    BY DEF Solid
  <2>1. PICK f, l : f = node'[i].info /\ l = node'[i].key
    OBVIOUS
  <2>2. f \in Id /\ l \in Key /\ HoldersOf(f) # {} /\ \A u \in HoldersOf(f) : Has(u, l)
    <3>1. CASE i = new
      BY <1>3, <1>4, <1>6, <2>1, <3>1 DEF Has, Same
    <3>2. CASE i \in UsedNodes
      BY <1>6, <2>1, <3>2 DEF FileInv, Solid
    <3> QED
      BY <1>6, <3>1, <3>2
  <2>3. f \in UsedInfos'
    BY <2>1, InUseThen
  <2>4. HoldersOf(node[i].info)' = HoldersOf(f)
    BY <1>7, <2>1, <2>2, <2>3 DEF HoldersOf
  <2>5. \A u : Has(u, node[i].key)' <=> Has(u, l)
    BY <2>1 DEF Has, ToldBy, Local
  <2> QED
    BY <2>1, <2>2, <2>4, <2>5
<1>10. Unshared'
  BY <1>6, <1>8 DEF FileInv, Unshared
<1>11. Listed'
  <2> SUFFICES ASSUME NEW b \in Lists PROVE OneTo(table[b])' /\ InBucket(table[b], b)'
    BY DEF Listed
  <2>1. \A i \in DOMAIN table'[b] : table'[b][i] \in UsedNodes'
    BY InUseThen
  <2>2. CASE b # b0
    <3>1. table'[b] = table[b] /\ \A i \in DOMAIN table[b] : table[b][i] \in UsedNodes
      BY <1>1, <2>2, InUse
    <3> QED
      BY <1>6, <2>1, <3>1 DEF FileInv, Listed, OneTo, InBucket
  <2>3. CASE b = b0
    <3> DEFINE list == <<new>> \o at[t].seen
    <3>1. table'[b] = list
      BY <1>1, <2>3
    <3>2. at[t].seen \in Seq(Id) /\ \A i \in DOMAIN at[t].seen : at[t].seen[i] \in UsedNodes
      BY InUse DEF TypeOK, Locals
    <3>3. \A i \in DOMAIN list :
            \/ i = 1 /\ list[i] = new
            \/ i \in Nat \ {0} /\ i - 1 \in DOMAIN at[t].seen /\ list[i] = at[t].seen[i - 1]
      BY <3>2
    <3> HIDE DEF list
    <3>4. ASSUME NEW i \in DOMAIN list, NEW j \in DOMAIN list, i # j
          PROVE  list[i] # list[j]
      BY <1>3, <3>2, <3>3, <3>4 DEF OneTo
    <3>5. ASSUME NEW i \in DOMAIN list PROVE Bucket[node'[list[i]].key] = b0
      <4>1. list[i] \in UsedNodes'
        BY <2>1, <3>1
      <4>2. CASE list[i] = new
        BY <1>1, <1>2, <1>6, <4>2
      <4>3. CASE i - 1 \in DOMAIN at[t].seen /\ list[i] = at[t].seen[i - 1]
        BY <1>3, <1>6, <3>2, <4>1, <4>3 DEF InBucket
      <4> QED
        BY <3>3, <4>2, <4>3
    <3> QED
      BY <2>3, <3>1, <3>4, <3>5 DEF OneTo, InBucket
  <2> QED
    BY <2>2, <2>3
<1>12. ASSUME NEW s \in Uuid \ {t} PROVE Thread(s)'
  <2>1. Thread(s) /\ at'[s] = at[s]
    BY <1>5 DEF FileInv
  <2>2. ASSUME at[s].pc \in Walks PROVE HoldersOf(at[s].info)' = {s}
    <3>1. /\ at[s].info \in Id /\ HoldersOf(at[s].info) = {s}
          /\ at'[s].info = at[s].info /\ at'[s].info \in UsedInfos'
      BY <2>1, <2>2, InUseThen DEF Thread, Local_
    <3>2. UNION {peers'[at[s].info][b] : b \in PeerLists} = {s}
      BY <1>7, <3>1
    <3> QED
      BY <3>1, <3>2 DEF HoldersOf
  <2>3. \A i \in DOMAIN at[s].seen : at[s].seen[i] \in UsedNodes /\ at[s].seen[i] \in UsedNodes'
    BY <2>1, InUse, InUseThen
  <2>4. InBucket(at[s].seen, Bucket[at[s].key]) => InBucket(at[s].seen, Bucket[at[s].key])'
    BY <1>6, <2>1, <2>3 DEF InBucket
  <2>5. OneTo(at[s].seen) => OneTo(at[s].seen)'
    BY <2>1 DEF OneTo
  <2>6. Local_(s)'
    BY <2>1, <2>2, <2>4, <2>5 DEF Thread, Local_, ToldBy, Local
  <2>7. at[s].pc \in Walks => at[s].info # None
    BY <2>1, TableAssumption DEF Thread, Local_
  <2>8. Sole(s)'
    BY <1>5, <1>6, <1>8, <2>1, <2>7 DEF Thread, Sole
  <2>9. Joining(s)'
    BY <1>6, <1>8, <2>1 DEF Thread, Joining, Has, ToldBy, Local
  <2> QED
    BY <2>6, <2>8, <2>9 DEF Thread
<1>13. Thread(t)'
  BY <1>3, <1>5 DEF Thread, Local_, Sole, Joining, Walks, Joins, ToldBy, Local
<1> QED
  BY <1>9, <1>10, <1>11, <1>12, <1>13 DEF FileInv

-----------------------------------------------------------------------------
(* Every step keeps FileInv.                                               *)
LEMMA FileStep ==
  ASSUME TypeOK, FileInv, [Next]_vars
  PROVE  FileInv'
<1>1. ASSUME NEW u \in Peer, Begin(u) PROVE FileInv'
  <2>1. u \in Uuid /\ Tells[u] = ToldBy(u)
    BY TableAssumption DEF Uuid, ToldBy
  <2>2. /\ \A s \in Uuid \ {u} : at'[s] = at[s]
        /\ at'[u] = [at[u] EXCEPT !.pc = "next", !.todo = Tells[u]]
    BY <1>1, <2>1 DEF Begin, TypeOK, Locals
  <2> QED
    BY <1>1, <2>1, <2>2, StartStep DEF Begin, Is
<1>2. ASSUME BeginScan \/ OpenDirectory PROVE FileInv'
  <2>1. Self \in Uuid
    BY DEF Uuid
  <2>2. CASE BeginScan
    <3>1. /\ \A s \in Uuid \ {Self} : at'[s] = at[s]
          /\ at'[Self] = [at[Self] EXCEPT !.pc = "next", !.todo = at[Self].todo]
      BY <2>1, <2>2 DEF BeginScan, TypeOK, Locals
    <3>2. at[Self].todo \subseteq ToldBy(Self)
      BY <2>1 DEF FileInv, Thread, Local_
    <3> QED
      BY <2>1, <2>2, <3>1, <3>2, StartStep DEF BeginScan, Is
  <2>3. CASE OpenDirectory
    <3>1. PICK d \in Dir : at' = [at EXCEPT ![Self].todo = Files[d]]
      BY <2>3 DEF OpenDirectory, TypeOK
    <3>2. /\ \A s \in Uuid \ {Self} : at'[s] = at[s]
          /\ at'[Self] = [at[Self] EXCEPT !.pc = "next", !.todo = Files[d]]
      <4>1. at[Self] \in Locals /\ at[Self].pc = "next"
        BY <2>1, <2>3 DEF OpenDirectory, AtDirectory, Is, TypeOK
      <4>2. at'[Self] = [at[Self] EXCEPT !.todo = Files[d]]
        BY <2>1, <3>1 DEF TypeOK
      <4>3. [at[Self] EXCEPT !.todo = Files[d]] = [at[Self] EXCEPT !.pc = "next", !.todo = Files[d]]
        BY <4>1 DEF Locals
      <4>4. \A s \in Uuid \ {Self} : at'[s] = at[s]
        BY <3>1 DEF TypeOK
      <4> QED
        BY <4>2, <4>3, <4>4
    <3>3. Files[d] \subseteq ToldBy(Self)
      BY DEF ToldBy, Local
    <3> QED
      BY <2>1, <2>3, <3>2, <3>3, StartStep DEF OpenDirectory, AtDirectory, Is
  <2> QED
    BY <1>2, <2>2, <2>3
<1>3. ASSUME ScanFails PROVE FileInv'
  BY <1>3, EmptyThen DEF ScanFails, EmptyTable, AllIdle
<1>4. ASSUME NEW t \in Uuid, Finish(t) PROVE FileInv'
  <2>1. /\ at[t].pc = "next" /\ at' = [at EXCEPT ![t] = AllIdle[t]]
        /\ UNCHANGED <<table, node, peers>>
    BY <1>4 DEF Finish, Is
  <2>2. /\ \A s \in Uuid \ {t} : at'[s] = at[s]
        /\ at'[t].pc = "idle" /\ at'[t].todo = {} /\ at'[t].info = None
        /\ at'[t].seen = << >> /\ at'[t].had = {}
    BY <2>1 DEF TypeOK, AllIdle
  <2> QED
    BY <2>1, <2>2, RestStep
<1>5. ASSUME NEW t \in Uuid, ReadHolders(t) PROVE FileInv'
  <2>1. at[t].pc = "holders" /\ table' = table /\ Memory(node, peers)
    BY <1>5 DEF ReadHolders, Is
  <2>2. /\ \A i \in Id : i \in UsedNodes' => node'[i] = node[i]
        /\ \A f \in Id : f \in UsedInfos' => peers'[f] = peers[f]
    BY <2>1 DEF Memory
  <2>3. Thread(t) /\ at[t].seen = << >> /\ at[t].info \in Id
    BY <2>1 DEF FileInv, Thread, Local_, Joins
  <2>4. CASE Done(t)
    <3>1. UsedNodes' = UsedNodes
      BY <2>1, <2>3, <2>4, SameNodes, DoneLocals
    <3> QED
      BY <2>1, <2>2, <2>4, <3>1, NodesInMemory, DoneLocals, RestStep
  <2>5. CASE at' = [at EXCEPT ![t].pc = "holder", ![t].had = peers[at[t].info][PeerBucket[t]]]
    <3>1. /\ \A s \in Uuid \ {t} : at'[s] = at[s]
          /\ at'[t].pc = "holder" /\ at'[t].todo = at[t].todo /\ at'[t].info = at[t].info
          /\ at'[t].seen = << >> /\ at'[t].had = peers[at[t].info][PeerBucket[t]]
      BY <2>3, <2>5 DEF TypeOK, Locals
    <3>2. UsedNodes' = UsedNodes
      BY <2>1, <2>3, <3>1, SameNodes
    <3>3. \A i \in UsedNodes : node'[i] = node[i]
      BY <2>2, <3>2, NodesInMemory
    <3>4. RightHolders(t)'
      BY <2>2, <3>1, <3>2, <3>3, HoldersKept
    <3>5. peers[at[t].info][PeerBucket[t]] \subseteq HoldersOf(at[t].info)
      BY DEF HoldersOf, PeerLists
    <3>6. ASSUME NEW i \in UsedNodes, node[i].info = at[t].info
          PROVE  /\ Has(t, node[i].key)
                 /\ \A u \in peers[at[t].info][PeerBucket[t]] : Has(u, node[i].key)
      BY <2>1, <2>3, <3>5, <3>6 DEF FileInv, Solid, Thread, Joining, Joins
    <3>7. Joining(t)'
      BY <3>1, <3>2, <3>3, <3>6 DEF Joining, Has, ToldBy, Local
    <3>8. Local_(t)' /\ Sole(t)'
      BY <2>3, <3>1 DEF Thread, Local_, Sole, Walks, Joins, ToldBy, Local
    <3> QED
      BY <2>1, <3>1, <3>2, <3>3, <3>4, <3>7, <3>8, OwnStep DEF Thread
  <2> QED
    BY <1>5, <2>4, <2>5 DEF ReadHolders
<1>6. ASSUME NEW t \in Uuid, WalkMisses(t) \/ ReadHead(t) PROVE FileInv'
  BY <1>6, WalkOnStep DEF WalkMisses, ReadHead, Is, Walks
<1>7. CASE UNCHANGED vars
  <2>1. UsedNodes' = UsedNodes
    BY <1>7 DEF vars, UsedNodes, Linked
  <2>2. Solid' /\ Unshared' /\ Listed'
    BY <1>7, <2>1
    DEF vars, FileInv, Solid, Unshared, Listed, HoldersOf, Has, ToldBy, Local, OneTo, InBucket
  <2>3. ASSUME NEW t \in Uuid PROVE Thread(t)'
    <3>1. Thread(t)
      BY DEF FileInv
    <3>2. Local_(t)'
      BY <1>7, <3>1 DEF vars, Thread, Local_, HoldersOf, ToldBy, Local, OneTo, InBucket
    <3>3. Sole(t)' /\ Joining(t)'
      BY <1>7, <2>1, <3>1 DEF vars, Thread, Sole, Joining, Has, ToldBy, Local
    <3> QED
      BY <3>2, <3>3 DEF Thread
  <2> QED
    BY <2>2, <2>3 DEF FileInv
<1> QED
  BY <1>1, <1>2, <1>3, <1>4, <1>5, <1>6, <1>7, LookFindsStep, LookMissesStep, StoreHolderStep,
     WalkFindsStep, LinkStep DEF Next, Step

(* TypeOK but for the nodes being in their buckets.                        *)
Types ==
  /\ table \in [Lists -> Seq(Id)]
  /\ node \in [Id -> [key : Key \union {None}, info : Id \union {None}]]
  /\ peers \in [Id -> [PeerLists -> SUBSET Uuid]]
  /\ at \in [Uuid -> Locals]
  /\ dirs \subseteq Dir
  /\ exited \in BOOLEAN

Pcs == {"idle", "next", "holders", "holder", "walk", "head", "link"}

(* Locals with some of them written.                                       *)
LEMMA WritePc ==
  ASSUME NEW r \in Locals, NEW pc \in Pcs
  PROVE  [r EXCEPT !.pc = pc] \in Locals
BY DEF Locals, Pcs

(* The same for the paths left.                                            *)
LEMMA WriteTodo ==
  ASSUME NEW r \in Locals, NEW pc \in Pcs, NEW todo \in SUBSET Key
  PROVE  [r EXCEPT !.pc = pc, !.todo = todo] \in Locals
BY DEF Locals, Pcs

(* The same for the file_info found.                                       *)
LEMMA WriteFound ==
  ASSUME NEW r \in Locals, NEW pc \in Pcs, NEW todo \in SUBSET Key,
         NEW info \in Id \union {None}
  PROVE  [r EXCEPT !.todo = todo, !.pc = pc, !.info = info] \in Locals
BY DEF Locals, Pcs

(* The same for the holders read.                                          *)
LEMMA WriteHad ==
  ASSUME NEW r \in Locals, NEW pc \in Pcs, NEW had \in SUBSET Uuid
  PROVE  [r EXCEPT !.pc = pc, !.had = had] \in Locals
BY DEF Locals, Pcs

(* The same for the list read.                                             *)
LEMMA WriteSeen ==
  ASSUME NEW r \in Locals, NEW pc \in Pcs, NEW seen \in Seq(Id)
  PROVE  [r EXCEPT !.pc = pc, !.seen = seen] \in Locals
BY DEF Locals, Pcs

(* Every step keeps the types; the nodes are in their buckets by FileInv.  *)
LEMMA TypeStep ==
  ASSUME TypeOK, FileInv, [Next]_vars, Listed'
  PROVE  TypeOK'
<1>0. \A t \in Uuid : at[t] \in Locals
  BY DEF TypeOK
<1>1. Self \in Uuid /\ \A u \in Peer : u \in Uuid
  BY DEF Uuid
<1>2. ASSUME NEW nodes \in [Id -> [key : Key \union {None}, info : Id \union {None}]],
             NEW infos \in [Id -> [PeerLists -> SUBSET Uuid]], Memory(nodes, infos)
      PROVE  /\ node' \in [Id -> [key : Key \union {None}, info : Id \union {None}]]
             /\ peers' \in [Id -> [PeerLists -> SUBSET Uuid]]
  <2>1. Blank \in [key : Key \union {None}, info : Id \union {None}]
    BY DEF Blank
  <2>2. NoHolders \in [PeerLists -> SUBSET Uuid]
    BY DEF NoHolders
  <2> QED
    BY <1>2, <2>1, <2>2 DEF Memory
<1>3. AllIdle \in [Uuid -> Locals]
  BY DEF AllIdle, Locals
<1>4. ASSUME NEW t \in Uuid, Done(t) PROVE at' \in [Uuid -> Locals]
  <2>1. at[t].todo \in SUBSET Key
    BY DEF TypeOK, Locals
  <2>2. AllIdle[t] \in Locals
    BY <1>3
  <2>3. [AllIdle[t] EXCEPT !.pc = "next", !.todo = at[t].todo] \in Locals
    BY <2>1, <2>2 DEF Locals
  <2> QED
    BY <1>4, <2>3 DEF Done, TypeOK
<1>5. ASSUME NEW u \in Peer, Begin(u) PROVE Types'
  <2>1. u \in Uuid /\ Tells[u] \in SUBSET Key
    BY <1>1, TableAssumption
  <2>2. at' \in [Uuid -> Locals]
    <3>1. [at[u] EXCEPT !.pc = "next", !.todo = Tells[u]] \in Locals
      BY <2>1, <1>0, WriteTodo DEF Pcs
    <3>2. at' = [at EXCEPT ![u] = [at[u] EXCEPT !.pc = "next", !.todo = Tells[u]]]
      BY <1>5 DEF Begin
    <3> QED
      BY <3>1, <3>2 DEF TypeOK
  <2> QED
    BY <1>5, <2>2 DEF Begin, TypeOK, Types
<1>6. ASSUME BeginScan PROVE Types'
  <2>1. at' \in [Uuid -> Locals]
    <3>1. [at[Self] EXCEPT !.pc = "next"] \in Locals
      BY <1>1, <1>0, WritePc DEF Pcs
    <3>2. at' = [at EXCEPT ![Self] = [at[Self] EXCEPT !.pc = "next"]]
      BY <1>6 DEF BeginScan
    <3> QED
      BY <3>1, <3>2 DEF TypeOK
  <2>2. dirs' \subseteq Dir
    BY <1>6, TableAssumption DEF BeginScan
  <2> QED
    BY <1>6, <2>1, <2>2 DEF BeginScan, TypeOK, Types
<1>7. ASSUME ScanFails PROVE Types'
  BY <1>3, <1>7 DEF ScanFails, TypeOK, Types, EmptyTable, Blank, NoHolders
<1>8. ASSUME OpenDirectory PROVE Types'
  <2>1. PICK d \in dirs : /\ dirs' = (dirs \ {d}) \union Subdirs[d]
                         /\ at' = [at EXCEPT ![Self].todo = Files[d]]
    BY <1>8 DEF OpenDirectory
  <2>2. Files[d] \in SUBSET Key /\ Subdirs[d] \subseteq Dir /\ dirs \subseteq Dir
    BY TableAssumption DEF TypeOK
  <2>3. at' \in [Uuid -> Locals]
    BY <1>1, <2>1, <2>2, ZenonT(30) DEF TypeOK, Locals
  <2> QED
    BY <1>8, <2>1, <2>2, <2>3 DEF OpenDirectory, TypeOK, Types
<1>9. ASSUME NEW t \in Uuid, Finish(t) PROVE Types'
  BY <1>3, <1>9 DEF Finish, TypeOK, Types
<1>10. ASSUME NEW t \in Uuid, LookFinds(t) PROVE Types'
  <2>1. PICK k \in at[t].todo :
          /\ Matches(k) # {}
          /\ at' = [at EXCEPT ![t].todo = @ \ {k},
                             ![t].pc = IF t = Self THEN "next" ELSE "holders",
                             ![t].info = IF t = Self THEN None ELSE node[Found(k)].info]
    BY <1>10 DEF LookFinds
  <2>2. node[Found(k)].info \in Id \union {None}
    <3>1. k \in Key
      BY DEF TypeOK, Locals
    <3>2. Found(k) \in Id
      BY <2>1, <3>1, FoundNode, NodesInMemory
    <3> QED
      BY <3>2 DEF TypeOK
  <2>3. at' \in [Uuid -> Locals]
    <3> DEFINE pc == IF t = Self THEN "next" ELSE "holders"
               info == IF t = Self THEN None ELSE node[Found(k)].info
    <3>1. at[t].todo \ {k} \in SUBSET Key
      BY DEF TypeOK, Locals
    <3>2. at' = [at EXCEPT ![t] = [at[t] EXCEPT !.todo = @ \ {k}, !.pc = pc, !.info = info]]
      BY <2>1
    <3> HIDE DEF pc, info
    <3>3. pc \in {"next", "holders"} /\ info \in Id \union {None}
      BY <2>2 DEF pc, info
    <3>4. [at[t] EXCEPT !.todo = @ \ {k}, !.pc = pc, !.info = info] \in Locals
      BY <1>0, <3>1, <3>3, WriteFound DEF Pcs
    <3> QED
      BY <3>2, <3>4 DEF TypeOK
  <2> QED
    BY <1>10, <2>3 DEF LookFinds, TypeOK, Types
<1>11. ASSUME NEW t \in Uuid, LookMisses(t) PROVE Types'
  <2>1. PICK k \in at[t].todo, fresh \in Id :
          /\ peers' = [peers EXCEPT ![fresh] = [NoHolders EXCEPT ![PeerBucket[t]] = {t}]]
          /\ at' = [at EXCEPT ![t].pc = "walk", ![t].todo = @ \ {k}, ![t].key = k,
                             ![t].info = fresh]
    BY <1>11 DEF LookMisses
  <2>2. at' \in [Uuid -> Locals]
    BY <2>1 DEF TypeOK, Locals
  <2>3. peers' \in [Id -> [PeerLists -> SUBSET Uuid]]
    BY <2>1 DEF TypeOK, NoHolders
  <2> QED
    BY <1>11, <2>2, <2>3 DEF LookMisses, TypeOK, Types
<1>12. ASSUME NEW t \in Uuid, ReadHolders(t) PROVE Types'
  <2>1. at[t].info \in Id
    BY <1>12 DEF ReadHolders, Is, FileInv, Thread, Local_, Joins
  <2>2. peers[at[t].info][PeerBucket[t]] \in SUBSET Uuid
    <3>1. PeerBucket[t] \in PeerLists
      BY DEF PeerLists
    <3>2. peers[at[t].info] \in [PeerLists -> SUBSET Uuid]
      BY <2>1 DEF TypeOK
    <3> QED
      BY <3>1, <3>2
  <2>3. at' \in [Uuid -> Locals]
    <3> DEFINE list == peers[at[t].info][PeerBucket[t]]
    <3>1. [at[t] EXCEPT !.pc = "holder", !.had = list] \in Locals
      BY <1>0, <2>2, WriteHad DEF Pcs
    <3>2. Done(t) \/ at' = [at EXCEPT ![t] = [at[t] EXCEPT !.pc = "holder", !.had = list]]
      BY <1>12 DEF ReadHolders
    <3> QED
      BY <1>4, <3>1, <3>2 DEF TypeOK
  <2> QED
    BY <1>2, <1>12, <2>3 DEF ReadHolders, TypeOK, Types
<1>13. ASSUME NEW t \in Uuid, StoreHolder(t) PROVE Types'
  <2>1. at[t].had \union {t} \subseteq Uuid
    BY DEF TypeOK, Locals
  <2>2. [peers EXCEPT ![at[t].info][PeerBucket[t]] = at[t].had \union {t}]
          \in [Id -> [PeerLists -> SUBSET Uuid]]
    BY <2>1 DEF TypeOK
  <2> QED
    BY <1>2, <1>4, <1>13, <2>2 DEF StoreHolder, TypeOK, Types
<1>14. ASSUME NEW t \in Uuid, WalkFinds(t) PROVE Types'
  <2>1. [node EXCEPT ![Found(at[t].key)].info = at[t].info]
          \in [Id -> [key : Key \union {None}, info : Id \union {None}]]
    BY DEF TypeOK, Locals
  <2> QED
    BY <1>2, <1>4, <1>14, <2>1 DEF WalkFinds, TypeOK, Types
<1>15. ASSUME NEW t \in Uuid, WalkMisses(t) PROVE Types'
  BY <1>15 DEF WalkMisses, TypeOK, Types, Locals
<1>16. ASSUME NEW t \in Uuid, ReadHead(t) PROVE Types'
  <2>1. at[t].key \in Key
    <3>1. at[t].key \in ToldBy(t)
      BY <1>16 DEF ReadHead, Is, FileInv, Thread, Local_, Walks
    <3> QED
      BY <3>1, TableAssumption DEF ToldBy, Local, Uuid, Dir
  <2>2. table[Bucket[at[t].key]] \in Seq(Id)
    BY <2>1 DEF TypeOK, Lists
  <2>3. at' \in [Uuid -> Locals]
    <3> DEFINE list == table[Bucket[at[t].key]]
    <3>1. [at[t] EXCEPT !.pc = "link", !.seen = list] \in Locals
      BY <1>0, <2>2, WriteSeen DEF Pcs
    <3>2. at' = [at EXCEPT ![t] = [at[t] EXCEPT !.pc = "link", !.seen = list]]
      BY <1>16 DEF ReadHead
    <3> QED
      BY <3>1, <3>2 DEF TypeOK
  <2> QED
    BY <1>16, <2>3 DEF ReadHead, TypeOK, Types
<1>17. ASSUME NEW t \in Uuid, Link(t) PROVE Types'
  <2>1. NewNode(t) \in Id
    BY <1>17 DEF Link, NewNode
  <2>2. <<NewNode(t)>> \o at[t].seen \in Seq(Id)
    BY <2>1 DEF TypeOK, Locals
  <2>3. WithNode(t) \in [Id -> [key : Key \union {None}, info : Id \union {None}]]
    BY <2>1 DEF WithNode, TypeOK, Locals
  <2> QED
    BY <1>2, <1>4, <1>17, <2>2, <2>3 DEF Link, TypeOK, Types
<1>18. ASSUME UNCHANGED vars PROVE Types'
  BY <1>18 DEF vars, TypeOK, Types
<1>19. Types'
  <2>1. ASSUME NEW t \in Uuid, Step(t) PROVE Types'
    BY <1>9, <1>10, <1>11, <1>12, <1>13, <1>14, <1>15, <1>16, <1>17, <2>1 DEF Step
  <2> QED
    BY <1>5, <1>6, <1>7, <1>8, <1>18, <2>1 DEF Next
<1> QED
  BY <1>19 DEF Types, TypeOK, Listed, InBucket

-----------------------------------------------------------------------------
(* What every state of every run of the program has.                       *)
LEMMA Always == Spec => [](TypeOK /\ FileInv)
<1>1. Init => TypeOK /\ FileInv
  <2> SUFFICES ASSUME Init PROVE TypeOK /\ FileInv
    OBVIOUS
  <2>1. table \in [Lists -> Seq(Id)] /\ \A b \in Lists : DOMAIN table[b] = {}
    BY DEF Init, EmptyTable
  <2>2. node \in [Id -> [key : Key \union {None}, info : Id \union {None}]]
    BY DEF Init, Blank
  <2>3. peers \in [Id -> [PeerLists -> SUBSET Uuid]]
    BY DEF Init, NoHolders
  <2>4. at \in [Uuid -> Locals]
    BY DEF Init, AllIdle, Locals
  <2>5. TypeOK
    BY <2>1, <2>2, <2>3, <2>4 DEF Init, TypeOK
  <2> QED
    BY <2>5, Empty DEF Init
<1>2. TypeOK /\ FileInv /\ [Next]_vars => TypeOK' /\ FileInv'
  <2> SUFFICES ASSUME TypeOK, FileInv, [Next]_vars PROVE TypeOK' /\ FileInv'
    OBVIOUS
  <2>1. FileInv'
    BY FileStep
  <2>2. Listed'
    BY <2>1 DEF FileInv
  <2> QED
    BY <2>1, <2>2, TypeStep
<1> QED
  BY <1>1, <1>2, PTL DEF Spec

(* A lookup never gets a holder that has not told of the path, or of one   *)
(* that the path looked up is taken for, whatever the threads that store in*)
(* the table overwrite of each other's.                                    *)
THEOREM HoldersAreTold == Spec => []FiledIsTold
<1>1. TypeOK /\ FileInv => FiledIsTold
  <2> SUFFICES ASSUME FileInv, NEW i \in Linked, NEW u \in HoldersOf(node[i].info)
               PROVE  \E k \in ToldBy(u) : Same(node[i].key, k)
    BY DEF FiledIsTold, Filed
  <2>1. i \in UsedNodes
    BY DEF UsedNodes
  <2> QED
    BY <2>1 DEF FileInv, Solid, Has, Same
<1> QED
  BY <1>1, Always, PTL

(* Nobody who looks a path up comes to a node that is not complete, in a   *)
(* bucket that is not its own, or to a list that never ends.               *)
THEOREM NodesAreUsable == Spec => []NodesUsable
<1>1. TypeOK /\ FileInv => NodesUsable
  <2> SUFFICES ASSUME TypeOK, FileInv PROVE NodesUsable
    OBVIOUS
  <2>1. ASSUME NEW i \in Linked
        PROVE  node[i].key # None /\ node[i].info # None /\ HoldersOf(node[i].info) # {}
    <3>1. i \in UsedNodes
      BY DEF UsedNodes
    <3> QED
      BY <3>1, TableAssumption DEF FileInv, Solid
  <2> QED
    BY <2>1 DEF NodesUsable, FileInv, Listed, OneTo
<1> QED
  BY <1>1, Always, PTL

-----------------------------------------------------------------------------
(* A step that keeps every node in the table, and the holders of each.     *)
LEMMA FiledKept ==
  ASSUME TypeOK, FileInv,
         \A i \in Linked : /\ i \in Linked' /\ node'[i] = node[i]
                          /\ HoldersOf(node[i].info) \subseteq HoldersOf(node[i].info)'
  PROVE  Filed \subseteq Filed'
<1> SUFFICES ASSUME NEW i \in Linked, NEW u \in HoldersOf(node[i].info)
             PROVE  <<node[i].key, u>> \in Filed'
  BY DEF Filed
<1>1. /\ i \in Linked' /\ u \in HoldersOf(node[i].info)'
      /\ node'[i].key = node[i].key
  OBVIOUS
<1> QED
  BY <1>1 DEF Filed

(* The same, of a step that no holder is taken by from a file_info that is *)
(* in use before it and after it.                                          *)
LEMMA HeldKept ==
  ASSUME TypeOK, FileInv, Linked \subseteq Linked',
         \A i \in Linked : node'[i] = node[i],
         \A f \in Id : f \in UsedInfos /\ f \in UsedInfos' =>
           \A b \in PeerLists : peers[f][b] \subseteq peers'[f][b]
  PROVE  Filed \subseteq Filed'
<1> SUFFICES ASSUME NEW i \in Linked
             PROVE  HoldersOf(node[i].info) \subseteq HoldersOf(node[i].info)'
  BY FiledKept
<1>1. i \in UsedNodes /\ i \in UsedNodes'
  BY DEF UsedNodes
<1>2. PICK f : f = node[i].info /\ f = node'[i].info
  OBVIOUS
<1>3. f \in Id /\ f \in UsedInfos /\ f \in UsedInfos'
  BY <1>1, <1>2, InUse, InUseThen DEF FileInv, Solid
<1>4. \A b \in PeerLists : peers[f][b] \subseteq peers'[f][b]
  BY <1>3
<1> QED
  BY <1>2, <1>4 DEF HoldersOf

(* A holder that is filed is lost only to a thread that writes on the      *)
(* ground of what another thread has changed since it was read, or to the  *)
(* end of the process: one thread at a time loses nothing.                 *)
THEOREM OnlyOvertakenLose == Spec => LostOnlyByOvertaken
<1> DEFINE Lose == ~exited' /\ \E e \in Filed : e \notin Filed'
           Blame == \E t \in Uuid : Overtaken(t) /\ at'[t] # at[t]
<1>1. TypeOK /\ FileInv /\ [Next]_vars => [Lose => Blame]_vars
  <2> SUFFICES ASSUME TypeOK, FileInv, Next, ~exited', ~(Filed \subseteq Filed')
               PROVE  Blame
    OBVIOUS
  <2>1. Linked \subseteq Id /\ Linked \subseteq UsedNodes
    BY NodesInMemory DEF UsedNodes
  <2>2. ASSUME table' = table PROVE Linked' = Linked
    BY <2>2 DEF Linked
  <2>3. ASSUME UNCHANGED <<table, node, peers>> PROVE FALSE
    BY <2>2, <2>3, HeldKept
  <2>4. ASSUME NEW t \in Uuid, LookMisses(t) PROVE FALSE
    <3>1. PICK fresh \in Id \ UsedInfos :
            peers' = [peers EXCEPT ![fresh] = [NoHolders EXCEPT ![PeerBucket[t]] = {t}]]
      BY <2>4 DEF LookMisses
    <3>2. \A f \in Id : f \in UsedInfos => peers'[f] = peers[f]
      BY <3>1 DEF TypeOK
    <3> QED
      BY <2>2, <2>4, <3>2, HeldKept DEF LookMisses
  <2>5. ASSUME NEW nodes, NEW infos, table' = table, Memory(nodes, infos)
        PROVE  /\ \A i \in Linked : node'[i] = nodes[i]
               /\ \A f \in Id : f \in UsedInfos' => peers'[f] = infos[f]
    <3>1. \A i \in Linked : i \in Id /\ i \in UsedNodes'
      BY <2>1, <2>2, <2>5, NodesAreThen
    <3> QED
      BY <2>5, <3>1 DEF Memory
  <2>6. ASSUME NEW t \in Uuid, ReadHolders(t) PROVE FALSE
    <3>1. table' = table /\ Memory(node, peers)
      BY <2>6 DEF ReadHolders
    <3> QED
      BY <2>2, <2>5, <3>1, HeldKept
  <2>7. ASSUME NEW t \in Uuid, StoreHolder(t) PROVE Overtaken(t)
    <3> SUFFICES ASSUME at[t].had = peers[at[t].info][PeerBucket[t]] PROVE FALSE
      BY <2>7 DEF StoreHolder, Overtaken
    <3> DEFINE now == [peers EXCEPT ![at[t].info][PeerBucket[t]] = at[t].had \union {t}]
    <3>1. table' = table /\ Memory(node, now)
      BY <2>7 DEF StoreHolder
    <3>2. \A f \in Id : \A b \in PeerLists : peers[f][b] \subseteq now[f][b]
      BY DEF TypeOK
    <3> HIDE DEF now
    <3> QED
      BY <2>2, <2>5, <3>1, <3>2, HeldKept
  <2>8. ASSUME NEW t \in Uuid, WalkFinds(t) PROVE Overtaken(t)
    BY <2>8 DEF WalkFinds, Overtaken
  <2>9. ASSUME NEW t \in Uuid, Link(t) PROVE Overtaken(t)
    <3> SUFFICES ASSUME at[t].seen = table[Bucket[at[t].key]] PROVE FALSE
      BY <2>9 DEF Link, Overtaken
    <3>1. PICK new \in Id \ UsedNodes, b0 \in Lists :
            /\ b0 = Bucket[at[t].key]
            /\ \A b \in Lists : table'[b] = IF b = b0 THEN <<new>> \o at[t].seen ELSE table[b]
            /\ \A i \in Id : i \in UsedNodes' =>
                 node'[i] = IF i = new THEN [key |-> at[t].key, info |-> at[t].info] ELSE node[i]
            /\ UsedNodes' \subseteq UsedNodes \union {new}
            /\ new \in Linked'
      BY <2>9, LinkLists
    <3>2. table[b0] \in Seq(Id) /\ table'[b0] = <<new>> \o table[b0]
      BY <3>1 DEF TypeOK
    <3>3. ASSUME NEW i \in DOMAIN table[b0]
          PROVE  /\ i + 1 \in DOMAIN (<<new>> \o table[b0])
                 /\ (<<new>> \o table[b0])[i + 1] = table[b0][i]
      BY <3>2, <3>3
    <3>4. ASSUME NEW b \in Lists, NEW i \in DOMAIN table[b] PROVE table[b][i] \in Linked'
      <4>1. CASE b = b0
        <5>1. i + 1 \in DOMAIN table'[b] /\ table'[b][i + 1] = table[b][i]
          BY <3>2, <3>3, <4>1
        <5> QED
          BY <5>1 DEF Linked
      <4>2. CASE b # b0
        BY <3>1, <4>2 DEF Linked
      <4> QED
        BY <4>1, <4>2
    <3>5. Linked \subseteq Linked'
      BY <3>4 DEF Linked
    <3>6. \A i \in Linked : i \in UsedNodes' /\ i # new
      BY <2>1, <3>5, NodesAreThen
    <3>7. \A i \in Linked : node'[i] = node[i]
      BY <2>1, <3>1, <3>6
    <3>8. \A f \in Id : f \in UsedInfos' => peers'[f] = peers[f]
      BY <2>9 DEF Link, Memory
    <3> QED
      BY <3>5, <3>7, <3>8, HeldKept
  <2>10. ASSUME NEW t \in Uuid, StoreHolder(t) \/ WalkFinds(t) \/ Link(t)
         PROVE  at'[t] # at[t]
    <3>1. at'[t].pc = "next" /\ at[t].pc # "next"
      BY <2>10, DoneLocals DEF StoreHolder, WalkFinds, Link, Is
    <3> QED
      BY <3>1
  <2>11. ASSUME NEW t \in Uuid, Step(t) PROVE Blame
    BY <2>3, <2>4, <2>6, <2>7, <2>8, <2>9, <2>10, <2>11
    DEF Step, Finish, LookFinds, WalkMisses, ReadHead
  <2>12. ASSUME ScanFails PROVE FALSE
    BY <2>12 DEF ScanFails
  <2> QED
    BY <2>3, <2>11, <2>12 DEF Next, Begin, BeginScan, OpenDirectory
<1> QED
  BY <1>1, Always, PTL DEF Spec, LostOnlyByOvertaken
=============================================================================
