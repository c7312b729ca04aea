SPECIFICATION FairSpec
CONSTANTS
  a = a
  b = b
  parent = parent
  none = none
  Client = {a, b}
  Buffer = 2
  FileSize = 4
  Asks <- MCAsks
  Parent = parent
  None = none
  MaxForkFails = 1
  MaxHangups = 1
  MaxTruncations = 1
INVARIANTS ZombiesAreSeen OneHolder GotSelected
PROPERTIES ClosedAndReaped
CHECK_DEADLOCK FALSE
