# Verification of the peer-to-peer video server

TLA+ models of the programs in `src/`, TLC configurations that check them on
small instances, and theorems that TLAPS checks for every instance. The four
stages of the program are four programs: `hw1` serves local files, `hw2` adds a
UDP transfer from added peers, `hw3` adds link-state routing, `hw4` a file
index. Code that a later stage keeps is modelled once.

## The system

A *node* is one process that serves a browser over HTTP/TCP and talks to the
other nodes over TCP (configurations) and UDP (file chunks). All of it is C
with POSIX threads (processes in `hw1`) and global variables.

| Part | State | Operations | Hard behaviour |
|---|---|---|---|
| link-state gossip (`main.c:check_peer_status`, `child_routine`; `conf_utils.c`) | `global_config.peers[]` (uuid, address, weight, last_seen), `network_map` | POST the own config to each peer for ever; merge a received config; `/peer/addneighbor`; restart from `node.conf` | one thread per received advertisement: snapshots are merged late and out of order, by threads that share the tables without a lock; nodes restart elsewhere; the table has a fixed length |
| file index (`json_to_files_map`, `update_peer_to_files_map`, `folder_monitor`, `stack.c`) | `ht_filepaths`: path -> holders | scan the content folder for ever; file the sender of a path map as a holder of all of it | paths are passed on by nodes that do not have the file; the scan and the merge race; keys are compared by prefix and copied without terminator |
| UDP transfer (`/peer/view`, `multiplex_udp`) | none but the datagram under way; the client's descriptor number is in it | ack -> read a chunk -> synack -> forward to the client -> next ack | lost and repeated datagrams; descriptor numbers reused between two datagrams or two closes; last-chunk test; range arithmetic; a send that blocks the one UDP thread |
| accept loop, workers (`main`, `child_routine`, `is_socket_in_array`, `remove_socket`) | `connections[]`, `num_connections`, `threads[]` | accept, list, start a worker; close and unlist | worker gets the address of the loop's variable; `strtok` is shared by all threads; the thread table fills up; both threads that change `connections[]` load and store its count without a lock; `recv` has no time limit |
| request dispatcher (`process_peer_path`) | none | add, config, uuid, addneighbor, neighbors, map, rank, search, view, status, kill | reads tables other threads change; some routes leave the descriptor open |
| local file answers (`http_utils.c`) | none | 200, 206 or 416 answers, chunk by chunk | range arithmetic at the ends of a file |
| hash tables (`hmap_utils.c`, `hashmap.c`) | buckets of lists | put, get, delete | keys compared by prefix; heads of lists read, and stored later; nodes freed under a reader |
| JSON (`conf_utils.c`, `json_utils.c`) | none | print and parse tables | none of its own |
| `hw3` node | peer table, UDP sender with a rate limit | as above, without files | count and slot of a new peer are separate steps |
| `hw2` node, `udp-server`, `udp-client` | `peers_list`, rates; one transfer | add, view, config; ack, data | one counter for all streams; anything can end the process |
| `hw1` server | none across connections | one process per connection | reaping of children, failed forks |

How they meet: the accept loop starts a worker per connection; a worker merges
an advertisement (tables shared with `check_peer_status`, `folder_monitor`, and
all other workers), or answers from the tables, or starts a transfer, which
the UDP thread then carries on with the descriptor number the worker leaves
behind. `/peer/view` picks a holder from `ht_filepaths` and looks its address
up in `network_map`, so the file index and the map have to agree.

### What makes the parts correct

* Gossip: a weight is never less than the cheapest configured path; in the end
  it is that path; what a node knows is not lost or made worse by an old
  snapshot; the table is never overrun; a node does not learn of itself; a node
  that moves is found again.
* File index: a holder can be resolved; a node that calls itself a holder has
  the file; in the end every owner is found; the lists stay usable.
* Transfer: a client receives its own file, in order, from the first byte asked
  for to the last, with padding only behind it, and is closed as served only
  then; it is closed in the end;
  clients never see each other's data; a closed connection stays closed.
* Accept loop: a worker answers the request of the connection it was started
  for; every client in the backlog is accepted, unless clients that neither send
  nor leave hold up what the loop waits for; no join of a thread that is not
  there; only requests that do so end the process.
* Hash tables: they are maps, also for two threads.
* `hw2`: rates are kept; the process stays up. `hw1`: connections are closed,
  children reaped, the selected bytes sent.

`PROJECT.json` lists every part with its status and every hazard with its line
and the properties that cover it.

## Modules

| Component | Abstract | Detailed | Instance | Proofs |
|---|---|---|---|---|
| gossip and file index of `hw4` | | `LinkState` | `MCLinkState` | `LinkStateProofs` |
| UDP transfer | `FileStream` | `ChunkTransfer` | `MCChunkTransfer` | `ChunkTransferProofs` |
| accept loop and workers | | `AcceptLoop` | `MCAcceptLoop` | `AcceptLoopProofs` |
| tables of `hw3`, thread by thread | `RouteTable` | `PeerTable` | `MCPeerTable` | `PeerTableProofs` |
| `hw2` node (streaming of `hw3`) | | `PeerStream`, which extends `ChunkTransfer` | `MCPeerStream` | `PeerStreamProofs`, which extends `ChunkTransferProofs` |
| `hw1` server | | `ForkServer`, which extends `RangeAnswer` | `MCForkServer` | `ForkServerProofs` |
| file index, thread by thread | | `FileTable` | `MCFileTable` | `FileTableProofs` |
| addresses | | `AddressBook` | `MCAddressBook` | `AddressBookProofs` |

The type invariant of a module is a property of its own in `LinkState` and
`ChunkTransfer` and elsewhere the first conjunct of an invariant of its run:
`JoinsValid`, `OverrunBounded`, `Paced`, `OneHolder`, `NodesUsable`, `MapTrue`.

The map in `PROJECT.json` names one place in the code for each definition.
Where a later stage copied code unchanged, some parts of a module are mapped to
one copy and some to another, so that both can be compared with the model: the
synack branch of `hw4`'s `multiplex_udp` is `udp_to_tcp_client` in `hw2` and
`hw3`.

### LinkState: gossip and file index

One value is a node, its uuid, host and ports. `known[n]` and `weight[n]` are
`global_config.peers` of n, `netmap[n]` the keys of `network_map`,
`holders[n][p]` the peers of `ht_filepaths[p]`, `conn` the advertisements that
have been sent and not yet handled, as snapshots taken when they were sent.

| Action | Code |
|---|---|
| `Advertise(n, m)` | one iteration of `check_peer_status` (`main.c:1052`): n's tables, as they are now, on their way to m |
| `HandleLinkState(c)` | the `POST /link-state` branch of `child_routine`: file map, `network_map`, peer table, in one step |
| `LoseConn(c)` | the early returns of that branch: nothing received, or something that does not parse |
| `AddNeighbor(n, u)` | `/peer/addneighbor`, refused for a known uuid or a full table |
| `ScanFile(n, p)` | one file found by `list_files` that is not listed yet |
| `Restart(n)` | kill or crash, and `main` again |

The merge (`update_peer_weights_last_seen`) is kept whole: `GivenWeight` is the
weight the receiver uses for the sender, with its fallback on the sender's own
view when the receiver has none (or has 0); newcomers are appended while there
is room (`Appended`); a full table abandons the rest of a hash bucket
(`Compared`); the sender itself is added but never compared
(`Comparable`). A node that is its own peer is not skipped by the sender
thread, since the `continue` is commented out. What the copy of a path can turn
into is the constant `KeyOutcome`.

Handlers are atomic here. That leaves the interleavings inside a merge to
`PeerTable`, those inside the file index to `FileTable` and those between the
file index and `network_map` to `AddressBook`, and keeps this module about
snapshots: which conclusions nodes draw from each other's outdated tables,
however these travel.

### FileStream and ChunkTransfer: the transfer

`FileStream` is the abstract specification, from the browser's side: `body[c]`
grows by the next item of the stream c asked for (a header, then chunks), its
connection ends as `done` only with a whole file, or is `cut`.

An item of a stream has its size and its `pad`: the node sends the whole buffer
of a packet, so that a short chunk is filled up with bytes nobody has written.
Only the last chunk may have any.

`ChunkTransfer` is the exchange that implements it, with `sock` (which client
an open descriptor leads to), `connections` and `num_connections`, and `net`
(datagrams). The clients are those of one node; the file is on another.

| Action | Code |
|---|---|
| `Accept` + `LoadCount`, `StoreCount`, `StoreEntry` | the accept loop: any free number, and `connections[num_connections++] = fd`, a load and two stores (`main.c:299`) |
| `View` | `/peer/view` with a remote holder: ack 0 with the range |
| `ServeChunk`, `ServeNothing` | the `ack` branch of `multiplex_udp` on the holder; the corrections of `end_byte` in `EndByte` |
| `HeaderFails`, `NotListed`, `ChunkFails` + `SecondClose`, `LastChunk`, `ForwardChunk` | the exits of the `synack` branch, in the order of the code |
| `Blocks` | its sends to a client that no longer reads: the UDP thread stays there |
| `RemoveSocket` + `DropLast`, `MoveLast` | `remove_socket`: the search, the close, and `connections[i] = connections[--num_connections]` (`main.c:1364`) |
| `Hangup`, `LoseDatagram`, second disjunct of `Receive` | the client and the network |

`ChunkFails` and `SecondClose` are two steps because `close(fd)` and
`remove_socket(fd)` close the same number one after the other, and the main
thread can accept a connection in between. The loads and stores are those of a
build without optimization, as the Makefiles make it. `MoveLast` reads the last
entry and stores it in one step; what the main thread can do in between is an
overlap all the same.

An append and a removal that overlap can lose an entry of `connections[]`: the
client keeps its connection, and its chunks are dropped as `NotListed`. No
property that ignores this would be true. `shaken` is the set of clients that
were connected when it happened. `OpenIsListed` says of all others that they are
found in the array, whatever was lost before they came, and `FileDoneCloses`
that their connections end, unless the UDP thread is in a send that blocks.

The invariants `OwnStream`, `DoneIsWhole`, `OneDatagram` are stated where the
code can keep them: without hang-ups and repeated datagrams, since the code has
nothing against a repeated datagram, and with hang-ups `OwnStream` is refuted
(run `double_close`).

### AcceptLoop: the accept loop and its threads

`slot` is the variable `tcp_connection_fd` whose address the workers are given;
`took[c]` is the client that the thread for c really got, `asks[c]` the route of
the request that c has sent, one of those it may send (`Asks`). `listed` counts the
entries of `connections[]` by descriptor, -1 included. `saved` is where the one
`strtok` of the process goes on, `line[c]` whose path thread c has cut off.

| Action | Code |
|---|---|
| `Accept`, `AcceptFails` | one round of the loop up to the thread table (`main.c:296`); a failed accept is listed too |
| `SpawnThread`, `JoinAndSpawn` | the thread table with room, and full: join the first, forget all, start without counting (`main.c:334`) |
| `ReadArgument` | `fd = *(int *)arg` in the new thread |
| `Receive`, `TakePath`, `TakeVersion`, `NoPath` | `recv` and `process_startline`, one step for each `strtok` (the first with `recv`); a missing path is read through NULL |
| `ReceiveFails`, `CloseFailed` | `recv` returns 0 or -1, and the close after it |
| `AnswerAndClose`, `LeaveOpen`, `HandOver` | what the route does with the descriptor |
| `PeerUnknown`, `EndProcess` | the routes that end the process: an advertisement whose sender has no address, `/peer/kill`, and paths without what their command takes for granted, for which `strcmp` and its like are given NULL |
| `PassChunk`, `TransferEnds`, `TransferFails`, `RemoveSocket` | the UDP thread's calls of `strtok`, its close, and its double close |

Two things go wrong in this code by themselves: a worker reads its argument too
late and serves another connection, and a thread calls `strtok` between another
one's two calls. Properties that hold regardless would be false, so the
invariants say that nothing else goes wrong: with `OwnConnection`, `~crossed`
and `~hit` an answer reaches who asked (`PromptSafe`); without a crossing a
worker acts on its own path, and with all three nothing ends the process but a
request that does so by itself (`LinesOwn`, `Fatal`).

`AllAccepted` assumes nothing of clients. Main can be kept from `accept` for ever
in the ways that `Stuck` lists: the process has ended; the table is full and the
thread it joins, the first one, is in `recv` or in a send for a client that stays
(whether the others have long ended or not); or every descriptor belongs to a
connection that its thread has left open or is held up by. That there is no
other way is the property.

### RouteTable and PeerTable: the tables of hw3, thread by thread

`slots` and `count` are `peers[]` and `peer_count`; `table` is `network_map`, a list
of nodes for each bucket; `pc`, `at`, `todo` and `seen` are the locals of a request
thread, `seen` being what it has read of a list.

| Action | Code |
|---|---|
| `PostLinkState`, `AddNeighbor`, `GetMap` | the start of the three requests that write (`hw3/src/main.c:431`, `conf_utils.c:322`, `uri_parse.c:598`) |
| `MapLook`; `MapFind`, `MapCutHead`, `MapCut`; `MapSearch`, `MapReadHead`, `MapLink` | get, delete and put of `update_network_map`: a deletion walks to a node and later changes the head or the node before it, an insertion reads the head and later stores a new one (`hmap_utils.c:69`) |
| `ReadGiven`, `FindNew`, `FindFull`, `FindKnown` | the search loops of `update_peer_weights_last_seen` |
| `TakeSlot`, `BumpCount`, `FillUuid`, `FillWeight` | `peers[peer_count++]` as load and store, then the fields |
| `LowerWeight` | the weight found lower when it was compared is stored |

`RouteTable` is what readers may expect: a peer that has entered stays, its
cost falls and is never below the cheapest path. `AloneImplements` is the
refinement (`INSTANCE RouteTable WITH cost <- mapped`), as long as no two
requests have overlapped; the other properties bound what overlaps can break.

A head that is stored after another thread has changed the list drops what that
one has done, entries of other uuids included; `lost` is the set of uuids that
are missing for this reason. `MissingWhileReplaced` says that there is no other
one for an entry to be missing but that a thread has it in hand. A node that is
freed while another thread is at it, or in a list again, leads anywhere: from
then on (`astray`) the model does not follow `network_map`. It still follows the
peer table.

`OverrunBounded` is about one or two threads. Two overrun the array by one entry:
who is to push the count behind it is the only one to add. With three this is
no longer so, which came out of an attempt to prove the obvious bound, an entry
per further thread: a thread that has loaded the count stores it, plus one,
much later, over what the others have counted since, and each such step back
lets them pass the test against `MAX_PEERS` again. TLC finds counts of
2·`MAX_PEERS` + 1 with three threads, and more with four. No formula is claimed
for them; `Memory` bounds the entries there are, and `TakeSlot` stops there.

### PeerStream: the hw2 node

Extends `ChunkTransfer` with `peers_list`, rates, `texts` (the "File not found"
that the peer server sends instead of a packet) and `node`, since every error
exit is the exit of the whole process. A request thread takes its descriptor
from main's variable (`TakeDescriptor`), receives and begins to cut the first
line (`BeginLine`; `BeginOperatorsLine` for a request that adds an entry or sets a
limit), and handles it (`ViewListed`, `ViewUnlisted`, `AddPeer`, `SetLimit`). `Pace` and
`PassOn` are the two halves of `udp_to_tcp_client`: count and sleep, then forward.

`NoRate`, `UnknownType`, `ReceiveText`, `LeaveSilently` and `Malformed` are the ways in
which the process ends by what one thread does. Threads that get in each other's
way are `GoAstray`: an argument read after the next accept, a descriptor that has
become another client's, and two threads that cut their texts with `strtok` at
once, the UDP thread being one of them. What follows can be the end of the
process or an answer to the wrong client. `AcceptLoop` has these cases in full;
here the node goes "astray" and is not followed further, and the properties say
what holds up to there. `Exits = FALSE` is the hw3 code, where a `recv` of 0 ends
only the request.

### RangeAnswer and ForkServer: the hw1 server

`RangeAnswer` is the arithmetic of `transfer_file_chunk` as operators, with
`Selected`, the bytes RFC 7233 gives for the range, as the reference: all of the
file for an invalid range (one that ends before it starts), which is to be
ignored, and the last bytes for a suffix. The code does neither, so that
`GotSelected` is about whole files and the ranges in `Understood`.
`ForkServer` has the parent's loop (`AcceptConnection`, `Fork`, `ForkFails`,
`ParentCloses`), its signal handler, which interrupts the loop anywhere
(`EnterHandler`, `Reap`, `LeaveHandler`), and a child per connection
(`Receive`, `SendSome`, `SendBreaks`, `SendEnds`, `ChildExits`). `sigchld` is one
bit: signals that arrive while the handler runs are merged.

### FileTable: the file index, thread by thread

The threads of one node on one hash table: `Begin(u)` starts a handler for an
advertisement of u, `BeginScan`, `OpenDirectory`, `ScanFails` are the monitor
with its stack of directories, and the steps of an insertion are `LookFinds` /
`LookMisses` (the search of `update_peer_to_files_map` or `list_files`),
`ReadHolders`, `StoreHolder`, `WalkFinds` / `WalkMisses` (the second search, in
`hash_table_put_str`), `ReadHead` and `Link`. `Same` is the comparison with
`memcmp` over the length of the key looked up. The order of a bucket is kept,
since the first match counts.

### AddressBook: addresses

`peers[n][u]` is the address of u in n's peer table, `map[n]` its `network_map`,
lists of nodes by bucket. A handler files the sender (`FileHolder`), updates
`network_map` twice (`update_network_map`, `hash_table_update_node_config`) and merges
(`Merge`); addneighbor adds a peer (`AddPeer`) and updates `network_map` once. An update
is `Find`, `CutHead` or `Cut`, `Search`, `ReadHead`, `Link`, as in `PeerTable`, with `lost` and
`astray` for what two of them can do to each other; after `astray` it is `Wander`.
A handler stores the address the connection came from, addneighbor an entry
whose host was never written (`Filed`). `Move` is a restart at another address.
"localhost" means another host to each reader (`Resolved`).

The `MC` modules hold the small networks, files and requests of the
configurations.

## Runs

| Run | Instance | What it shows |
|---|---|---|
| `routing` | 4 nodes round a centre, tables of 2 entries, one link of metric 5 added at run time, 2 snapshots in flight, 1 restart or loss | weights are sound and only improve, no self entry, no overrun, types |
| `gossip` | a line of 3 configured at both ends and a costly link added at one end, two owners of a file; 1 in flight, 1 fault | holders can be resolved, who lists itself has the file; weights become the cheapest paths and every owner is found |
| `streams` | 4 clients, one of which may stop reading, 2 descriptors, whole files, a range inside a file, a missing file; 1 lost datagram | each client's stream is its own and in order; `ChunkTransfer` implements `FileStream` |
| `transfer_faults` | 3 clients, one of which may stop reading, 2 descriptors, 1 hang-up, 1 repetition, no loss | who is connected is listed, but for overlaps of an append and a removal; closed stays closed; a request whose last chunk is not full ends with a closed connection |
| `accept` | 3 clients (an advertisement or a line without a path; a local file or a kill; a transfer), 2 descriptors, a thread table of 1, 1 failed accept | joins are valid; what late arguments and a shared `strtok` cannot break, and what ends the process; the backlog is served unless main is stuck for good |
| `merge_threads` | 2 request threads, 4 requests, a table of 3, 2 buckets | two threads overrun the table by one entry at most; duplicates only with overlap; entries of `network_map` are missing only while in hand or overtaken; one thread at a time implements `RouteTable` |
| `peer_stream` | 4 clients, 2 descriptors, 2 orders of operators, a list of 2 of which 1 is searched, a missing file, an unknown type, a silent client | rates are kept, in chunks; only the named cases end the process; streams stay apart |
| `fork_server` | 2 clients with 11 kinds of request, 1 failed fork, hang-up and truncation | no zombie is forgotten; descriptors are closed, and no client holds up another's; the selected bytes arrive |
| `file_table` | 2 handlers and the monitor, 4 paths of which one begins another, one bucket | only told files are filed; nodes are usable; insertions are lost only to overtaking, and found again |
| `address_book` | 3 nodes, 2 of them in one bucket, 2 hosts, 2 ports, 1 move, 1 addneighbor, 1 handler at a time | view asks only where the holder was; gaps only while an entry is in hand or overtaken; a moved node is found again |
| `whole_chunks` (violation) | a file of exactly two chunks | the connection is never closed |
| `double_close` (violation) | 3 clients, 1 descriptor, 1 hang-up | a second close hits the next client, and a chunk reaches the client after it |

### Bounds, and why they are enough

* Nodes: three make a detour, a second-hand sender and a node not configured by
  the receiver; four with tables of two make a table that cannot hold all.
* Snapshots in flight (`Conn`): two are needed for one to overtake the other.
  The slots are a bound of the model, the code starts a thread per connection.
* `MaxFaults` = 1: a restart during and after every stage of convergence. The
  theorems have no such bound.
* Chunks are 2 bytes, files 4, 5 or missing: a whole number of chunks, a rest,
  a range that begins and ends inside a chunk, an open range. Chunk size and
  file size enter the code only through comparisons and sums.
* Clients exceed descriptors in all passing runs of the transfers and the accept
  loop, so that numbers are reused, and workers exceed the thread table.
* Two threads that write (three with the monitor) give every race of two; what
  a third can add to an overrun is said under `PeerTable`.
* `Memory` of `PeerTable` (5) is above the overrun of two threads, `Id` of
  `FileTable` gives as many list nodes and file infos as the run can need; no
  action is disabled in the runs for want of either. So does `Id` of `PeerTable` and
  `AddressBook`, three list nodes at a time for one uuid: in the table, read by a
  thread, and to be put. The theorems hold with any memory, where a thread that
  finds none is a thread that stops.
* `MaxRequests` 4 in `PeerTable`: enough for an entry to be dropped with an
  overtaken head, put back, and replaced again. b and c share a bucket, d has its
  own.
* `MaxConnections` is the number of clients, so that the array never overflows
  (ten thousand accepts do that in the code; the overrun is not modelled). Every
  overlap of an append and a removal occurs in `transfer_faults`.
* `MaxOrders` 2: an order before and one between the requests of clients.
* `MaxPeers` 3 with one entry of `node.conf` and two newcomers: the table fills
  up, and is overrun by the second thread.
* `PeerStream`: one of two entries is searched, so that an entry lies behind the
  search. That a full `peers_list` drops an entry is in the model and not
  reached with these bounds.
* `ForkServer`: a buffer of 2 for a file of 4 takes two reads; each of the
  faults can happen at any step.
* `AddressBook`: two hosts make "localhost" ambiguous; one move is every move. One
  handler at a time in all nodes together (`MaxBusy`): what handlers of two nodes
  do is independent but for what they send, and each node's addneighbor runs
  beside its handler. The theorems have no such bound.
* Slots of `LinkState` and descriptors of `PeerStream` are interchangeable (`SYMMETRY`
  in `routing` and `peer_stream`), and no liveness is checked with it.

### Fairness

`LinkState`: the sender thread loops over its table for ever
(`main.c:1052`), a handler runs to its end, the folder monitor scans for ever;
there is no condition on which any of them stops. `Advertise` is given strong
fairness because a free slot, which only the model needs, is free again and
again rather than always. Operators, losses and restarts are not fair.

`ChunkTransfer`: the main thread goes on appending, and each node's UDP thread
handles what it receives, be it by a send that blocks for ever. Accepting,
asking, hanging up and losing are not fair; `FileDoneCloses` is checked without
lost datagrams because the code has no timer. Deadlock is not checked for the
transfers and servers: when all clients are closed, nothing is left to do.

`AcceptLoop` and `ForkServer` assume nothing of clients: no `recv` and no `send` of
the code has a time limit, and a client may keep a thread or a child in one for
ever. A worker, or a child, is fair except where it waits for its client
(`Listening`, `SendingFile`; `HeldUp`), and the properties name what follows from
that. `AcceptLoop`: the main thread and the workers run. `ForkServer`: every process
runs; the parent's loop is given strong fairness because its handler interrupts
it, each time for a child that has ended.

`FileTable`: the threads run, the monitor wakes again, and every peer advertises
again (`check_peer_status`). `AddressBook`: handlers run, and a node that knows
another by its host advertises to it again and again (strong, because the
receiver must have a thread for it).

## Proofs

Every invariant and every action property that a passing run checks is also
proved in eight modules, two refinements among them. The runs check the formulas
on an instance, and the inductive invariants below were checked by TLC before
they were proved. Assumptions on the constants are the `ASSUME`s of the modules,
which TLC evaluates for the runs' values; what a theorem needs beyond them is
said with it.

`LinkStateProofs` holds for every finite network, table size, metric and number
of faults that the assumptions of `LinkState` allow.

* `TypeCorrect`: by cases over `Next`. The interesting case is the merge: sums
  of naturals are naturals because the -1 for "not found" never gets into a
  sum (`ViaNat`).
* `RoutingSound` (`RoutingInv`): no weight, in a table or in flight, is less
  than `Dist`, any lower bound of the configured paths that is symmetric and
  obeys the triangle inequality. The weights alone are not inductive, since the
  merge adds what a snapshot says: `SnapshotSound` says the same of snapshots,
  and that a snapshot always names the node it is for. From that `GivenWeight`
  is at least the distance to the sender in each of its three cases (own
  weight; own weight 0, hence distance 0, or the sender's weight), and `Via` is
  at least the distance by the triangle inequality (`ViaSound`).
  `WeightsSound` is the part about tables.
* `HoldersMapped`: a sender is put in `network_map` by the step that makes it a
  holder; the inductive form adds that a node is in its own map, for its own
  files.
* `TablesBounded`: `Appended` adds at most `Room` entries, by the cardinality of
  a disjoint union (`AppendedFits`).
* `SelfEntryConfigured`, `SelfHoldersTrue`: gossip filters a node's own uuid, so
  only operators can make a node its own peer; where none does
  (`NoSelfAdvertised`), a node is its own holder by `ScanFile` only.
* `TablesImprove`: the action property, from types alone.

`ChunkTransferProofs` holds for any clients, files, ranges and chunk size, and
any set of descriptors.

* Under every fault: `TypeCorrect`; `ClosedFinal` from `SockInv` (an open
  descriptor leads to a client that has arrived and is not ended, and no two
  lead to the same one). One lemma, `CloseKeeps`, covers all ways in which the code
  closes a descriptor, the double close included.
* `OpenListed`, under every fault too, from `ListInv`: as long as some client is
  connected that was not when an append and a removal overlapped, none is under
  way that does (`Undisturbed`), what each thread has loaded is still so, and the
  entry is among those that count, or will count when the step is done
  (`Counted`). The invariant is about each descriptor by itself because an overlap
  spoils the array for those connected at that time and for no one later.
* With no hang-ups and no repeated datagrams (`NoHangupOrRepeat`; losses and
  reused numbers remain): `StreamsSound`, `DoneWhole`, `OneInFlight`, and
  `ImplementsStreams`, the refinement of `FileStream`, padding included. The
  assumption is needed: run `double_close` refutes `OwnStream` with a single
  hang-up. The inductive invariant is `TransferInv`. Since the transfer has no record but its datagram,
  the invariant says what the datagram knows (`Carries`): its chunk number is
  the number of chunks the client has had, its first byte is that many chunks
  from the start of the range, and once the holder has seen it its last byte is
  the last byte of the answer. `ChunkedCarries` is the arithmetic of `EndByte`
  and `fread`, `SentContinues` that a header and a chunk are the next items of
  the stream and that a chunk that is not full is the last, `NextCarries` the
  step to the next ack.

`AcceptLoopProofs` holds for any clients, requests, descriptors and length of
`threads[]`.

* `JoinsAreValid` from `Started`: who is in `threads[]` before `thread_index` was
  started and has not been joined, since a full table is forgotten as a whole
  and a thread that finds it full is started without being entered.
* `LinesAreOwn` and `SafeWhenPrompt` from `LoopInv`. `Lines` says whose request
  the one `strtok` of the process is at: while nobody has crossed, it is the
  thread that has called once and not twice, and nobody's if its request has no
  path. `Own` is the state as long as
  nothing of what the properties exclude has happened (`Undisturbed`): the
  descriptor of a thread or a transfer leads to its client, and an accepted
  client is connected until it has its answer. `Undisturbed` is never true
  again once false, so that `Undisturbed => Own` is inductive. The stale entries
  of `connections[]` need no clause: they only decide whether a chunk is tried
  and whether `remove_socket` closes again, which is either harmless or `hit`.

`AddressBookProofs` holds for any hosts, ports, `node.conf` files and operators.

* `Working` says where a writer is in the lists: what it has read begins with the
  node it is to cut, or ends with it, and belongs to its uuid's bucket.
* `MapIsTrue` needs what a handler carries between its steps (`Heard`: it leads to
  an address the sender has had) and what is written (`Written`), in the table
  and in the lists that threads have read and may store again (`Around`).
  "localhost" is an address of the reader's host, and a sender says it only when
  it is on that host (`Resolving`).
* `GapsAreHandled` needs `Put`: a handler past its updates misses its entry only
  when an addneighbor has it in hand or a head was overtaken (`Covered`). The lemmas
  about lists say what a cut or a link leaves of the keys of a list; that a
  lookup finds a first match needs a least index, by well-foundedness.

`ForkServerProofs` holds for any clients, requests, file size, buffer and number
of faults.

* `TypeCorrect`, `OneHolderHolds` from `Holding`: what the parent has open is
  known from where it is in its loop. `ZombiesSeen` needs only that.
* `GotWhatWasSelected` from `Transfer`: offset and bytes left add up to the end
  of the range in the file as it was, and the client has the bytes up to the
  offset. Two lemmas tie this to `RangeAnswer`: `SelectedIsInterval`, for every
  range in `Understood` the bytes of RFC 7233 are those from `FirstByte` to `LastByte`; `ReadTypes`, a read returns at most what is there and is asked for.

`PeerTableProofs` holds for any peers, tables, requests and, but for the
overrun, any number of threads.

* `MissingIsReplaced` from types, `Works` (what a thread at each place has in its
  locals) and `Cutting`: a thread that is to cut has in hand what it has seen in
  the list, so that a cut that was not overtaken removes one entry, its own. An
  overtaken cut or link removes what `lost` then has.
* `OverrunIsBounded` from `Overrun`, for up to two threads: a thread between test
  and store adds to a count below the bound (`Pushing`), and when it is to add
  behind the array no other thread is at that place.
* `UniqueIfAlone` and `AloneIsRouteTable` from `Solo`: until two requests overlap,
  at most one thread is not idle, entries are distinct and above the cheapest
  path, and the thread is where its locals say (`Doing`). A step of the one
  thread then changes what a reader sees of one peer (`MappedIs`), as an action
  of `RouteTable` does, or nothing. `ConfAssumption` (`node.conf` names a peer once;
  `read_config_file` does not look) and `LeastAssumption` (`Least` is a bound of
  what is configured, added and offered, as `LinkStateProofs` proves of `Dist`)
  are used here.

`FileTableProofs` holds for any paths, prefix relation, hash function, nodes,
directories and memory. `HoldersAreTold`, `NodesAreUsable` and the action property
`OnlyOvertakenLose` follow from one invariant, `FileInv`. It speaks of list nodes
in use (`UsedNodes`), those in the table and those in a list that some thread has
read and may write back, since an overtaken `Link` puts back what it has read.
Nodes in use are complete and share no file_info (`Solid`, `Unshared`), lists
have no node twice (`Listed`), and each thread's locals are accounted for: the
file_info it has made is nobody else's before it is in a node (`Sole`), the one
it joins is of a path that it has, as are the holders it has read (`Joining`).
`FoundNode`, that a lookup with a match finds a node of the table, needs a least
index, which the well-foundedness of the naturals gives. `OnlyOvertakenLose`
compares an action with what the thread read: the lists and holders that it
writes are those read and one more.

`PeerStreamProofs` builds on `ChunkTransferProofs`: a step of the node is a step
of `ChunkTransfer`, a client that leaves, or the end of the process (`NodeSteps`).

* `StaysUp` from `Care`: every datagram is for a listed path that a client asked
  for, and a "File not found" has been caused by such a client. The request
  threads and the UDP thread are at their own steps in it, so that this is about
  any order of them in which no two get in each other's way.
* `RatesAreKept` from `Rate`: no path is ahead of the shared counter by more than
  one chunk, and while the UDP thread holds a datagram back by none, so that
  the chunk to be passed has room; and an entry that is added lies behind those
  found, so that it changes no rate in use (`EntryAdded`).
* `StreamsAreOwn` assumes `MaxTwice = 0` (no repeated datagrams); hang-ups, silent
  clients, limits and the end of the node are arbitrary, and the property is
  about the time before the first hang-up. `Streams` keeps `TransferInv` while
  the node is up, and that a line is cut for the client the descriptor leads to.

Left to TLC: the seven liveness properties (`Converged`, `OwnersFound`,
`FileDoneCloses`, `AllAccepted`, `ClosedAndReaped`, `FoundAgain`, `MovedIsFound`),
since liveness under fairness is out of the prover's reach; the two refuted
properties; and more than two threads in `OverrunBounded`, which has no bound to
prove. No module has a RECURSIVE operator, and nothing is proved by induction
over data.

## Disagreements between code and documentation

Each is a run that TLC refutes; `PROJECT.json` quotes the lines.

* `whole_chunks`: a file or range of a whole number of chunks is delivered and
  the connection is then never closed.
* `double_close`: after a failed send the same number is closed twice; the
  second close can hit a client accepted in between, and a chunk addressed to
  the number reaches the client after it.

These the models contain, and no run is spent on them:

* The rate is documented as bytes per second (`hw2/src/main.c:497`, `hw3/src/main.c:840`;
  `hw2/README.md:11` adds a path with `rate=1600000`). The code compares it with the
  number of packets since the last sleep, so that a client gets up to 1024
  times as much. `Paced` says what the code keeps to: the bytes between
  two sleeps, for a rate that counts chunks.
* RFC 7233 has a range that ends before it starts ignored, and a suffix range
  mean the last bytes. `transfer_file_chunk` answers the first with a 206 and
  no byte, and reads the second as a range from byte 0. `Selected` of
  `RangeAnswer` is the standard's; `Understood` are the ranges both agree on.
* The last chunk of a file is sent with the whole packet buffer
  (`hw4/src/main.c:990`, `hw2/src/main.c:572`), filled up behind the file's bytes with what the
  buffer held. A client is told the length by its header and can ignore them;
  the node closes the connection right after. It is the `pad` of `FileStream`.
* The weight for the sender of an advertisement is never lowered
  (`conf_utils.c:797`, `Comparable`): when only one end configures a cheap link,
  the other keeps a detour, while `/peer/rank` is documented to show the fastest
  path. The link of `gossip` is therefore configured at both ends.
* Every path in a peer's map is filed under that peer (`conf_utils.c:614`,
  `Refiled`), so that `/peer/search` lists holders that do not have the file.
* A copied path is not terminated (`conf_utils.c:589`, `hmap_utils.c:90`): what it
  can turn into is the constant `KeyOutcome` of `LinkState`, exact in the runs.

Behaviour that the properties take as given, since they say what holds besides:

* `ChunkTransfer`: entries of `connections[]` lost when an append and a removal
  overlap, and a send to a client that no longer reads, which stops the UDP
  thread and with it all transfers.
* `AcceptLoop`: late arguments, crossed `strtok` calls, `/peer/kill` and requests that
  lack what their route takes for granted; clients that never send or read, each
  of which keeps its thread.
* `PeerStream`: the ways in which one thread ends the process, and threads that
  get in each other's way (`GoAstray`).
* `ForkServer`: a child that loops for ever when a file shrinks under a range, or
  waits for ever for its client.
* `PeerTable`, `AddressBook`: a table overrun by one and doubled uuids; entries of
  `network_map` dropped with a bucket head that another thread has overtaken; an
  address lost to addneighbor (`Filed`).
* `FileTable`: insertions lost to overtaking, and descriptors used up by the folder
  monitor (`ScanFails`).

## What the models leave out

* `LinkState`: the steps inside a handler thread; see `PeerTable`, `FileTable` and
  `AddressBook`. The theorems of `LinkState` are about atomic handlers.
* `last_seen`, and with it which peers are shown as active: only displayed.
* Overflow of weights and byte counts, and metrics that are not naturals.
* The fixed request buffer: an advertisement that does not fit is a lost one.
* Transfers: what a browser makes of the padding, and that the Content-Length
  of a 206 answer is the size of the file, not of the range. Two
  equal datagrams under way at once count as one (`net` is a set); a repetition
  may arrive at any time after the first delivery. A holder that is restarted
  looks like lost datagrams.
* `AcceptLoop`: one request per client; transfers without ranges; appending to
  and removing from `connections[]` as single steps (`ChunkTransfer` has them
  load by load and store by store), and a call of `strtok`; a UDP thread that
  stays in a send; `parse_http_uri` disturbed by other threads; what the stack of
  an ended thread holds (`Stale` allows any word or none); `connections[]` behind
  its end.
* `PeerStream`: the node after it has gone astray; what operators' connections
  get; paths of 100 characters and more. `/peer/kill`, which `hw3` has, is counted
  as one of the requests of `Malformed`.
* Hash nodes used after they were freed: `PeerTable` and `AddressBook` have the
  step at which it happens (`astray`), and do not follow `network_map` beyond it.
* `FileTable`: a peer has one advertisement handled at a time; only uuids and
  paths whose prefix relation is given.
* Formatting of JSON and pages (`node_config_to_json`, `get_all_configs_json`,
  `http_utils.c` headers), and `/peer/search`, whose answer all threads write to
  one file, `html/file_list.html`.
* `sockets_map` (`hashmap.c`): it only grows and only feeds a log.
* `udp-client`: its packet has a `connection_id` of 27 bytes where the server has
  256, so that no transfer takes place. The echo tools in `udp/` keep no state.
* `udp_to_tcp_client` of `hw4`: nothing calls it.
* Vendored code: cJSON, uuid4.

The map covers a good fifth of the lines of code under `src/`. Two fifths of them
are cJSON, vendored twice; of the rest, much is formatting, commented-out
code, and copies of the same functions in `hw2`, `hw3` and `hw4`, which one model
stands for and of which the map names one.

## Plan

The system's parts are modelled as far as their state goes, and the safety
properties of the runs are theorems. What could be added:

1. The refinement of `LinkState`'s atomic handler by the steps of `PeerTable`,
   `FileTable` and `AddressBook` for handlers that do not overlap, of which
   `AloneIsRouteTable` is the part about weights.
2. A reference answer for `FileTable` as for `PeerTable`: an abstract index from
   which holders are never lost, implemented as long as no thread is overtaken;
   `OnlyOvertakenLose` is the action property it would rest on.
3. The suffix ranges of `RangeAnswer`, which the code reads as prefixes, in a
   lemma that says which bytes are sent instead.
