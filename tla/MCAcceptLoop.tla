---------------------------- MODULE MCAcceptLoop ----------------------------
(* Small instances of AcceptLoop: two entries instead of 10000.            *)
EXTENDS AcceptLoop, TLC

CONSTANTS c1, c2, c3

(* An advertisement or a line without a path, a file of the node's own or  *)
(* an order to end, a transfer.                                            *)
MCAsks == [c \in Client |->
  CASE c = c1 -> {"link-state", "no path"}
    [] c = c2 -> {"own file", "kill"}
    [] OTHER  -> {"peer file"}]
=============================================================================
