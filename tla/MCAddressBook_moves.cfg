SPECIFICATION FairSpec
CONSTANTS
  a = a
  b = b
  c = c
  X = X
  Y = Y
  Node = {a, b, c}
  Host = {X, Y}
  Port = {1, 2}
  Home <- MCHome
  Conf <- MCConf
  Addable <- MCAddable
  Bucket <- MCBucket
  Id = {1, 2, 3}
  Localhost = localhost
  Unset = unset
  None = none
  MaxBusy = 1
  MaxMoves = 1
  MaxAdds = 1
INVARIANTS MapTrue GapOnlyWhileHandled
PROPERTIES MovedIsFound
CHECK_DEADLOCK FALSE
