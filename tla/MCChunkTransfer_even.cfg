SPECIFICATION FairSpec
CONSTANTS
  c1 = c1
  c2 = c2
  c3 = c3
  c4 = c4
  odd = odd
  even = even
  gone = gone
  Nobody = Nobody
  Free = Free
  Client = {c1}
  Path = {odd, even, gone}
  Fd = {5}
  Chunk = 2
  Slow = {}
  MaxConnections = 1
  MaxHangups = 0
  MaxLost = 0
  MaxTwice = 0
  Size <- MCSize
  Want <- MCWantEven
CHECK_DEADLOCK FALSE
PROPERTIES FileDoneCloses
