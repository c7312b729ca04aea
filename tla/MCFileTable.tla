---------------------------- MODULE MCFileTable -----------------------------
EXTENDS FileTable, TLC

CONSTANTS f, g, e, x, p, q, self, content, sub

(* Path f is a beginning of g; all but x, which nobody has, are in one     *)
(* bucket, and so are the uuids.                                           *)
MCPrefix == {<<f, g>>}
MCBucket == [k \in Key |-> IF k = x THEN 2 ELSE 1]
MCPeerBucket == [u \in Uuid |-> 1]
MCTells == (p :> {f}) @@ (q :> {g})
MCSubdirs == (content :> {sub}) @@ (sub :> {})
MCFiles == (content :> {}) @@ (sub :> {e})
=============================================================================
