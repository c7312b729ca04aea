SPECIFICATION FairSpec
CONSTANTS
  a = a
  b = b
  c = c
  d = d
  f = f
  Idle = Idle
  Node = {a, b, c}
  Path = {f}
  Conn = {c1}
  MaxPeers = 3
  MaxFaults = 1
  Neighbor <- MCLineBoth
  Addable <- MCExpensiveAdd
  Metric <- MCMetric
  Dist <- MCDist
  Content <- MCContentAB
  KeyOutcome <- MCExactKey
INVARIANTS HolderIsMapped SelfHolderTrue
PROPERTIES Converged OwnersFound
