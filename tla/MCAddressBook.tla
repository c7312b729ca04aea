---------------------------- MODULE MCAddressBook ----------------------------
EXTENDS AddressBook, TLC

CONSTANTS a, b, c, X, Y

At1(h) == [host |-> h, port |-> 1]
At2(h) == [host |-> h, port |-> 2]

(* Two nodes on host X, one on host Y; b is configured by its host's name, *)
(* not as localhost.                                                       *)
MCHome == (a :> At1(X)) @@ (b :> At2(X)) @@ (c :> At1(Y))
MCNoPeers == [u \in Node |-> None]
MCConf == (a :> [MCNoPeers EXCEPT ![b] = At2(X)]) @@ (b :> MCNoPeers) @@ (c :> MCNoPeers)
MCAddable == (a :> {}) @@ (b :> {[uuid |-> c, name |-> At1(Y)]})
  @@ (c :> {[uuid |-> b, name |-> At2(X)]})

(* a and b share a bucket of network_map.                                  *)
MCBucket == (a :> 1) @@ (b :> 1) @@ (c :> 2)
=============================================================================
