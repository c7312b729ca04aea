SPECIFICATION Spec
CONSTANTS
  c1 = c1
  c2 = c2
  c3 = c3
  c4 = c4
  odd = odd
  even = even
  gone = gone
  Nobody = Nobody
  Free = Free
  Client = {c1, c2, c3, c4}
  Path = {odd, even, gone}
  Fd = {5, 6}
  Chunk = 2
  Slow = {c2}
  MaxConnections = 4
  MaxHangups = 0
  MaxLost = 1
  MaxTwice = 0
  Size <- MCSize
  Want <- MCWantMixed
CHECK_DEADLOCK FALSE
INVARIANTS OwnStream DoneIsWhole OneDatagram
PROPERTIES StreamsRefined
