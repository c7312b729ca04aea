SPECIFICATION Spec
CONSTANTS
  c1 = c1
  c2 = c2
  c3 = c3
  c4 = c4
  odd = odd
  even = even
  gone = gone
  Nobody = Nobody
  Free = Free
  Client = {c1, c2, c3}
  Path = {odd, even, gone}
  Fd = {5}
  Chunk = 2
  Slow = {}
  MaxConnections = 3
  MaxHangups = 1
  MaxLost = 0
  MaxTwice = 0
  Size <- MCSize
  Want <- MCWantRest
CHECK_DEADLOCK FALSE
INVARIANTS OwnStream
