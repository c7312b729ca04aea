SPECIFICATION FairSpec
CONSTANTS
  c1 = c1
  c2 = c2
  c3 = c3
  c4 = c4
  odd = odd
  even = even
  gone = gone
  Nobody = Nobody
  Free = Free
  Client = {c1, c2, c3}
  Path = {odd, even, gone}
  Fd = {5, 6}
  Chunk = 2
  Slow = {c2}
  MaxConnections = 3
  MaxHangups = 1
  MaxLost = 0
  MaxTwice = 1
  Size <- MCSizeShort
  Want <- MCWantShort
CHECK_DEADLOCK FALSE
INVARIANTS TypeOK OpenIsListed
PROPERTIES ClosedIsFinal FileDoneCloses
