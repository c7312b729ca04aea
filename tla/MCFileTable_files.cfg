SPECIFICATION FairSpec
CONSTANTS
  f = f
  g = g
  e = e
  x = x
  p = p
  q = q
  self = self
  content = content
  sub = sub
  Key = {f, g, e, x}
  Peer = {p, q}
  Self = self
  Prefix <- MCPrefix
  Bucket <- MCBucket
  PeerBucket <- MCPeerBucket
  Tells <- MCTells
  Root = content
  Subdirs <- MCSubdirs
  Files <- MCFiles
  Id = {1, 2, 3, 4, 5, 6, 7, 8}
  None = None
INVARIANTS FiledIsTold NodesUsable
PROPERTIES LostOnlyByOvertaken FoundAgain
CHECK_DEADLOCK FALSE
