---------------------------- MODULE MCLinkState ----------------------------
(***************************************************************************)
(* Small networks for LinkState.  a, b, c, d are nodes, f is a file.       *)
(***************************************************************************)
EXTENDS LinkState, TLC

CONSTANTS a, b, c, d, f

MCSymmetry == Permutations(Conn)

(* A function on Node from a set of pairs <<node, set>>.                   *)
SetFor(pairs) ==
  [n \in Node |-> UNION {e[2] : e \in {q \in pairs : q[1] = n}}]

MCNone == [n \in Node |-> {}]

(* Metrics: a-b is expensive, everything else costs 1.                     *)
MCMetric ==
  [n \in Node |-> [u \in Node |-> IF {n, u} = {a, b} THEN 5 ELSE 1]]

(* The cheapest paths of the networks below: c is a neighbor of every      *)
(* other node, b only of c.                                                *)
MCDist ==
  [n \in Node |-> [u \in Node |->
     IF n = u THEN 0 ELSE IF {n, u} \in {{a, b}, {b, d}} THEN 2 ELSE 1]]

(* The line a - c - b with both ends of each link configured.              *)
MCLineBoth == SetFor({<<a, {c}>>, <<c, {a, b}>>, <<b, {c}>>})

(* c is at the centre of the four.                                         *)
MCStar == SetFor({<<a, {c}>>, <<b, {c}>>, <<c, {b}>>, <<d, {c}>>})

(* The operator of a may enter b, over the expensive link.                 *)
MCExpensiveAdd == SetFor({<<a, {b}>>})

(* f is on the disks of both a and b.                                      *)
MCContentAB == SetFor({<<a, {f}>>, <<b, {f}>>})

MCExactKey == [p \in Path |-> {p}]
=============================================================================
