----------------------------- MODULE RouteTable -----------------------------
(***************************************************************************)
(* What a peer table promises to whoever reads it: a peer that has entered *)
(* it stays, with a cost no lower than its cheapest path, and the cost only*)
(* falls; one entry changes at a time.                                     *)
(***************************************************************************)
EXTENDS Naturals, FiniteSets

CONSTANTS
  Peer,     \* the peers the table can hold
  Cost,     \* costs
  Unknown,  \* the cost of a peer that is not in the table
  Least     \* Least[u]: the cost of the cheapest path to u

VARIABLE cost

RouteInit == cost \in [Peer -> Cost \union {Unknown}]

Enter(u, w) ==
  /\ cost[u] = Unknown
  /\ w >= Least[u]
  /\ cost' = [cost EXCEPT ![u] = w]

Improve(u, w) ==
  /\ cost[u] # Unknown
  /\ w >= Least[u] /\ w < cost[u]
  /\ cost' = [cost EXCEPT ![u] = w]

RouteNext == \E u \in Peer, w \in Cost : Enter(u, w) \/ Improve(u, w)

RouteSpec == RouteInit /\ [][RouteNext]_cost
=============================================================================
