---------------------------- MODULE MCPeerStream ----------------------------
EXTENDS PeerStream, TLC

CONSTANTS c1, c2, c3, c4, d1, d2, f, no_file, no_type, idle

MCSize == (f :> 5) @@ (no_file :> -1) @@ (no_type :> 1)
Whole(path) == [path |-> path, range |-> FALSE, start |-> 0, end |-> -1]
MCWant ==
  (c1 :> Whole(f)) @@ (c2 :> [Whole(f) EXCEPT !.range = TRUE, !.start = 1, !.end = 3])
  @@ (c3 :> Whole(no_file)) @@ (c4 :> Whole(no_type))
MCEntry ==
  {[path |-> f, rate |-> 1], [path |-> no_file, rate |-> 0], [path |-> no_type, rate |-> 0]}
MCSymmetry == Permutations(Fd)
=============================================================================
