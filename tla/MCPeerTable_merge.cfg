SPECIFICATION Spec
CONSTANTS
  s = s
  b = b
  c = c
  d = d
  x = x
  h1 = h1
  h2 = h2
  Peer = {b, c, d}
  Self = s
  Blank = x
  Handler = {h1, h2}
  MaxPeers = 3
  Memory = 5
  MaxRequests = 4
  MaxCost = 6
  Conf <- MCConf
  Advert <- MCAdvert
  Addable <- MCAddable
  Bucket <- MCBucket
  Id = {1, 2, 3}
  Least <- MCLeast
INVARIANTS OverrunBounded UniqueAlone MissingWhileReplaced
PROPERTIES AloneImplements
CHECK_DEADLOCK FALSE
