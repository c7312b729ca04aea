---------------------------- MODULE MCPeerTable ----------------------------
EXTENDS PeerTable, TLC

CONSTANTS h1, h2, s, b, c, d, x

\* The node has b at 2 and reaches c through b at 3; d is behind c.
MCConf == <<[uuid |-> b, weight |-> 2]>>
MCLeast == (s :> 0) @@ (b :> 2) @@ (c :> 3) @@ (d :> 5)
\* b is heard before and after it has found the short way to c.
MCAdvert ==
  {[kind |-> "merge", from |-> b, offer |-> (b :> 0) @@ (s :> 2) @@ (c :> 2)],
   [kind |-> "merge", from |-> b, offer |-> (b :> 0) @@ (s :> 2) @@ (c :> 1)],
   [kind |-> "merge", from |-> c, offer |-> (c :> 0) @@ (s :> 4) @@ (d :> 2)]}
\* d, of which nothing but its name is heard, is in a bucket of its own.
MCBucket == [u \in Uuid |-> IF u = d THEN 2 ELSE 1]
MCAddable == {[uuid |-> c, weight |-> 4]}
=============================================================================
