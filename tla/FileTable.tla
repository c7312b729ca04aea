----------------------------- MODULE FileTable ------------------------------
(***************************************************************************)
(* ht_filepaths of hw4 as the threads of one node share it: the folder     *)
(* monitor enters the files of the content directory, every handler of a   *)
(* /link-state request enters the sender as a holder of the files it       *)
(* lists.  The table is an array of lists; an insertion reads the head of a*)
(* list and later stores a new head, and no lock is held in between.       *)
(*                                                                         *)
(* LinkState has what the handlers do with the index when each one runs    *)
(* alone; here they, and the monitor, run together.  A thread goes by the  *)
(* uuid it enters: Self is the monitor, a peer the thread that handles one *)
(* of its advertisements.  That a peer has one at a time is a bound.       *)
(***************************************************************************)
EXTENDS Integers, Sequences, FiniteSets

CONSTANTS
  Key,         \* file paths
  Peer,        \* the uuids of the other nodes
  Self,        \* the uuid of this node
  Prefix,      \* pairs <<k, l>> where path k is a proper beginning of l
  Bucket,      \* Bucket[k]: hash_func of path k
  PeerBucket,  \* PeerBucket[u]: hash_func of uuid u
  Tells,       \* Tells[u]: the paths that u's advertisements list
  Root,        \* the content directory
  Subdirs,     \* Subdirs[d]: the directories in directory d
  Files,       \* Files[d]: the other entries of d
  Id,          \* bound: memory for list nodes, and for file_infos
  None         \* NULL

Uuid == Peer \union {Self}
Dir == DOMAIN Subdirs
Lists == {Bucket[k] : k \in Key}
PeerLists == {PeerBucket[u] : u \in Uuid}

ASSUME TableAssumption ==
  /\ Self \notin Peer
  /\ None \notin Id \union Key \union Uuid
  /\ Prefix \subseteq Key \X Key
  /\ DOMAIN Bucket = Key /\ DOMAIN PeerBucket = Uuid
  /\ Tells \in [Peer -> SUBSET Key]
  /\ Root \in Dir
  /\ Subdirs \in [Dir -> SUBSET Dir] /\ Files \in [Dir -> SUBSET Key]

VARIABLES
  table,   \* table[b]: the nodes of bucket b, head first
  node,    \* node[i]: the key and the value, a file_info, of node i
  peers,   \* peers[f]: the keys of file_info f's own hash table, by bucket
  at,      \* at[t]: where thread t is, with its local variables
  dirs,    \* the monitor's stack of directories, as a set
  exited   \* the process has ended

vars == <<table, node, peers, at, dirs, exited>>

(* The locals: what to do next, the paths the thread has still to enter,   *)
(* the path it is at and the file_info found or made for it, and the two   *)
(* lists it may have read the head of.                                     *)
Locals ==
  [pc : {"idle", "next", "holders", "holder", "walk", "head", "link"},
   todo : SUBSET Key, key : Key \union {None},
   info : Id \union {None}, seen : Seq(Id), had : SUBSET Uuid]

TypeOK ==
  /\ table \in [Lists -> Seq(Id)]
  /\ node \in [Id -> [key : Key \union {None}, info : Id \union {None}]]
  /\ peers \in [Id -> [PeerLists -> SUBSET Uuid]]
  /\ at \in [Uuid -> Locals]
  /\ dirs \subseteq Dir
  /\ exited \in BOOLEAN
  /\ \A b \in Lists : \A i \in DOMAIN table[b] : Bucket[node[table[b][i]].key] = b

EmptyTable == [b \in Lists |-> << >>]
NoHolders == [b \in PeerLists |-> {}]
Blank == [key |-> None, info |-> None]
AllIdle ==
  [t \in Uuid |->
     [pc |-> "idle", todo |-> {}, key |-> None, info |-> None, seen |-> << >>, had |-> {}]]

Init ==
  /\ table = EmptyTable
  /\ node = [i \in Id |-> Blank]
  /\ peers = [i \in Id |-> NoHolders]
  /\ at = AllIdle
  /\ dirs = {}
  /\ exited = FALSE

-----------------------------------------------------------------------------
(* hash_table_get: memcmp over the length of the path looked up.           *)
Same(stored, looked) == stored = looked \/ <<looked, stored>> \in Prefix

Matches(k) ==
  LET list == table[Bucket[k]] IN {i \in DOMAIN list : Same(node[list[i]].key, k)}

(* The first node of the bucket whose key matches.                         *)
Found(k) == LET m == Matches(k) IN table[Bucket[k]][CHOOSE i \in m : \A j \in m : i <= j]

HoldersOf(f) == UNION {peers[f][b] : b \in PeerLists}

(* Who a lookup of path k finds: what /peer/view chooses from.             *)
Held(k) == IF Matches(k) = {} THEN {} ELSE HoldersOf(node[Found(k)].info)

(* The nodes and file_infos that something refers to; other memory is free,*)
(* and blank, whether the program leaks it or not.                         *)
Linked == UNION {{table[b][i] : i \in DOMAIN table[b]} : b \in Lists}
UsedNodes == Linked \union UNION {{at[t].seen[i] : i \in DOMAIN at[t].seen} : t \in Uuid}
UsedInfos == {node[i].info : i \in UsedNodes} \union {at[t].info : t \in Uuid}

Memory(nodes, infos) ==
  /\ node' = [i \in Id |-> IF i \in UsedNodes' THEN nodes[i] ELSE Blank]
  /\ peers' = [f \in Id |-> IF f \in UsedInfos' THEN infos[f] ELSE NoHolders]

-----------------------------------------------------------------------------
(* What the threads work through.                                          *)

Is(t, step) == ~exited /\ at[t].pc = step

(* A handler starts on an advertisement of u.                              *)
Begin(u) ==
  /\ Is(u, "idle")
  /\ at' = [at EXCEPT ![u].pc = "next", ![u].todo = Tells[u]]
  /\ UNCHANGED <<table, node, peers, dirs, exited>>

(* folder_monitor: one round of list_files.                                *)
BeginScan ==
  /\ Is(Self, "idle")
  /\ dirs' = {Root}
  /\ at' = [at EXCEPT ![Self].pc = "next"]
  /\ UNCHANGED <<table, node, peers, exited>>

AtDirectory == Is(Self, "next") /\ at[Self].todo = {} /\ dirs # {}

(* opendir fails: folder_monitor opens the directory once more each round  *)
(* and never closes it, so that in the end there is no descriptor left.    *)
(* The process is gone with its memory.                                    *)
ScanFails ==
  /\ Is(Self, "idle") \/ AtDirectory
  /\ exited' = TRUE
  /\ table' = EmptyTable /\ node' = [i \in Id |-> Blank] /\ peers' = [i \in Id |-> NoHolders]
  /\ at' = AllIdle /\ dirs' = {}

(* Mutant of OpenDirectory: the subdirectories are not pushed.             *)
OpenDirectoryFlat ==
  /\ AtDirectory
  /\ \E d \in dirs :
       /\ dirs' = dirs \ {d}
       /\ at' = [at EXCEPT ![Self].todo = Files[d]]
  /\ UNCHANGED <<table, node, peers, exited>>

OpenDirectory ==
  /\ AtDirectory
  /\ \E d \in dirs :
       /\ dirs' = (dirs \ {d}) \union Subdirs[d]
       /\ at' = [at EXCEPT ![Self].todo = Files[d]]
  /\ UNCHANGED <<table, node, peers, exited>>

(* All entered: the handler returns, the monitor sleeps.                   *)
Finish(t) ==
  /\ Is(t, "next")
  /\ at[t].todo = {} /\ (t = Self => dirs = {})
  /\ at' = [at EXCEPT ![t] = AllIdle[t]]
  /\ UNCHANGED <<table, node, peers, dirs, exited>>

(* The path is dealt with.                                                 *)
Done(t) == at' = [at EXCEPT ![t] = [AllIdle[t] EXCEPT !.pc = "next", !.todo = at[t].todo]]

-----------------------------------------------------------------------------
(* Entering one path.                                                      *)

(* The next path, and the lookup of it.  When that finds a file_info, the  *)
(* monitor needs nothing more, whoever the holders are.                    *)
LookFinds(t) ==
  /\ Is(t, "next")
  /\ \E k \in at[t].todo :
       /\ Matches(k) # {}
       /\ at' = [at EXCEPT ![t].todo = @ \ {k},
                          ![t].pc = IF t = Self THEN "next" ELSE "holders",
                          ![t].info = IF t = Self THEN None ELSE node[Found(k)].info]
  /\ UNCHANGED <<table, node, peers, dirs, exited>>

(* Mutants of LookMisses: the holder is left to be entered by the next     *)
(* advertisement; the node enters itself instead of the sender.            *)
LookMissesBare(t) ==
  /\ Is(t, "next") /\ ~(Id \subseteq UsedInfos)
  /\ \E k \in at[t].todo :
       /\ Matches(k) = {}
       /\ LET fresh == CHOOSE i \in Id \ UsedInfos : TRUE
          IN /\ peers' = [peers EXCEPT ![fresh] = NoHolders]
             /\ at' = [at EXCEPT ![t].pc = "walk", ![t].todo = @ \ {k}, ![t].key = k,
                                ![t].info = fresh]
  /\ UNCHANGED <<table, node, dirs, exited>>
LookMissesSelf(t) ==
  /\ Is(t, "next") /\ ~(Id \subseteq UsedInfos)
  /\ \E k \in at[t].todo :
       /\ Matches(k) = {}
       /\ LET fresh == CHOOSE i \in Id \ UsedInfos : TRUE
          IN /\ peers' = [peers EXCEPT ![fresh] = [NoHolders EXCEPT ![PeerBucket[Self]] = {Self}]]
             /\ at' = [at EXCEPT ![t].pc = "walk", ![t].todo = @ \ {k}, ![t].key = k,
                                ![t].info = fresh]
  /\ UNCHANGED <<table, node, dirs, exited>>

(* It finds none: the path gets a file_info of its own, with one holder.   *)
LookMisses(t) ==
  /\ Is(t, "next") /\ ~(Id \subseteq UsedInfos)
  /\ \E k \in at[t].todo :
       /\ Matches(k) = {}
       /\ LET fresh == CHOOSE i \in Id \ UsedInfos : TRUE
          IN /\ peers' = [peers EXCEPT ![fresh] = [NoHolders EXCEPT ![PeerBucket[t]] = {t}]]
             /\ at' = [at EXCEPT ![t].pc = "walk", ![t].todo = @ \ {k}, ![t].key = k,
                                ![t].info = fresh]
  /\ UNCHANGED <<table, node, dirs, exited>>

(* hash_table_put of the sender in the file_info's own table: the walk and *)
(* the read of the head, then the store.                                   *)
ReadHolders(t) ==
  /\ Is(t, "holders")
  /\ LET list == peers[at[t].info][PeerBucket[t]]
     IN IF t \in list THEN Done(t)
        ELSE at' = [at EXCEPT ![t].pc = "holder", ![t].had = list]
  /\ UNCHANGED <<table, dirs, exited>>
  /\ Memory(node, peers)

StoreHolder(t) ==
  /\ Is(t, "holder")
  /\ Done(t)
  /\ UNCHANGED <<table, dirs, exited>>
  /\ Memory(node, [peers EXCEPT ![at[t].info][PeerBucket[t]] =
                                   at[t].had \union {t}])

(* hash_table_put_str: the walk looks once more; a node that has come in   *)
(* since the lookup gets the new file_info for its value.                  *)
WalkFinds(t) ==
  /\ Is(t, "walk")
  /\ Matches(at[t].key) # {}
  /\ Done(t)
  /\ UNCHANGED <<table, dirs, exited>>
  /\ Memory([node EXCEPT ![Found(at[t].key)].info = at[t].info], peers)

WalkMisses(t) ==
  /\ Is(t, "walk")
  /\ Matches(at[t].key) = {}
  /\ at' = [at EXCEPT ![t].pc = "head"]
  /\ UNCHANGED <<table, node, peers, dirs, exited>>

ReadHead(t) ==
  /\ Is(t, "head")
  /\ at' = [at EXCEPT ![t].pc = "link", ![t].seen = table[Bucket[at[t].key]]]
  /\ UNCHANGED <<table, node, peers, dirs, exited>>

NewNode(t) == CHOOSE i \in Id \ UsedNodes : TRUE
WithNode(t) == [node EXCEPT ![NewNode(t)] = [key |-> at[t].key, info |-> at[t].info]]

(* Mutant of Link: the new node has no successor.                          *)
LinkAlone(t) ==
  /\ Is(t, "link") /\ ~(Id \subseteq UsedNodes)
  /\ Done(t)
  /\ table' = [table EXCEPT ![Bucket[at[t].key]] = <<NewNode(t)>>]
  /\ UNCHANGED <<dirs, exited>>
  /\ Memory(WithNode(t), peers)
Link(t) ==
  /\ Is(t, "link") /\ ~(Id \subseteq UsedNodes)
  /\ Done(t)
  /\ table' = [table EXCEPT ![Bucket[at[t].key]] = <<NewNode(t)>> \o at[t].seen]
  /\ UNCHANGED <<dirs, exited>>
  /\ Memory(WithNode(t), peers)

-----------------------------------------------------------------------------
Step(t) ==
  \/ Finish(t)
  \/ LookFinds(t) \/ LookMisses(t) \/ ReadHolders(t) \/ StoreHolder(t)
  \/ WalkFinds(t) \/ WalkMisses(t) \/ ReadHead(t) \/ Link(t)

Next ==
  \/ \E u \in Peer : Begin(u)
  \/ BeginScan \/ ScanFails \/ OpenDirectory
  \/ \E t \in Uuid : Step(t)

Spec == Init /\ [][Next]_vars

(* Threads are scheduled; the monitor wakes again; every peer's checker    *)
(* sends again and again.                                                  *)
Fairness ==
  /\ \A t \in Uuid : WF_vars(Step(t))
  /\ WF_vars(BeginScan) /\ WF_vars(OpenDirectory)
  /\ \A u \in Peer : WF_vars(Begin(u))

FairSpec == Spec /\ Fairness

-----------------------------------------------------------------------------
(* The holders filed under each path, wherever in the bucket that is.      *)
Filed == UNION {{<<node[i].key, u>> : u \in HoldersOf(node[i].info)} : i \in Linked}

Local == UNION {Files[d] : d \in Dir}
ToldBy(u) == IF u = Self THEN Local ELSE Tells[u]

(* A uuid is filed under a path only when it has that file, or one whose   *)
(* path is a beginning of this one, which memcmp takes for the same.       *)
FiledIsTold ==
  \A e \in Filed : \E k \in ToldBy(e[2]) : Same(e[1], k)

(* Every node in the table can be used by whoever finds it: it has a key   *)
(* and a file_info with a holder, it is in the bucket its key hashes to,   *)
(* and no bucket runs in a circle.                                         *)
NodesUsable ==
  /\ TypeOK
  /\ \A i \in Linked : node[i].key # None /\ node[i].info # None
                         /\ HoldersOf(node[i].info) # {}
  /\ \A b \in Lists : \A i, j \in DOMAIN table[b] : i # j => table[b][i] # table[b][j]

(* A holder that is filed is lost only when a thread writes on the ground  *)
(* of what it read before another thread's write: never by a handler, or   *)
(* the monitor, that nobody came in between.                               *)
Overtaken(t) ==
  LET k == at[t].key
  IN \/ Is(t, "link") /\ at[t].seen # table[Bucket[k]]
     \/ Is(t, "holder") /\ at[t].had # peers[at[t].info][PeerBucket[t]]
     \/ Is(t, "walk") /\ Matches(k) # {}
LostOnlyByOvertaken ==
  [][(~exited' /\ \E e \in Filed : e \notin Filed') =>
       \E t \in Uuid : Overtaken(t) /\ at'[t] # at[t]]_vars

(* Whatever the threads lose between them, advertisements that are repeated*)
(* put it back: as long as the process lives, a lookup of a path finds each*)
(* of its holders again and again, and a local file is found.              *)
FoundAgain ==
  /\ \A u \in Peer : \A k \in Tells[u] : []<>(exited \/ u \in Held(k))
  /\ \A k \in Local : []<>(exited \/ Held(k) # {})
=============================================================================
