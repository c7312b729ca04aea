SPECIFICATION NodeSpec
CONSTANTS
  c1 = c1
  c2 = c2
  c3 = c3
  c4 = c4
  f = f
  no_file = no_file
  no_type = no_type
  idle = idle
  d1 = d1
  d2 = d2
  Client = {c1, c2, c3, c4}
  Path = {f, no_file, no_type}
  Chunk = 2
  Fd = {d1, d2}
  Nobody = nobody
  Free = free
  Operator = operator
  Slow = {}
  MaxConnections = 2
  MaxHangups = 1
  MaxLost = 0
  MaxTwice = 0
  Size <- MCSize
  Want <- MCWant
  Entry <- MCEntry
  Limit = {1}
  MaxListed = 2
  Searched = 1
  Typed = {f}
  Exits = TRUE
  Idle = idle
  MaxOrders = 2
SYMMETRY MCSymmetry
INVARIANTS Paced UpWhileCareful OwnStreamHere
CHECK_DEADLOCK FALSE
