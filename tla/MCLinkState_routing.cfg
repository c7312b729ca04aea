SPECIFICATION Spec
CONSTANTS
  a = a
  b = b
  c = c
  d = d
  f = f
  Idle = Idle
  Node = {a, b, c, d}
  Path = {}
  Conn = {c1, c2}
  MaxPeers = 2
  MaxFaults = 1
  Neighbor <- MCStar
  Addable <- MCExpensiveAdd
  Metric <- MCMetric
  Dist <- MCDist
  Content <- MCNone
  KeyOutcome <- MCExactKey
SYMMETRY MCSymmetry
INVARIANTS TypeOK RoutingInv NoSelfEntry TableBounded
PROPERTIES OnlyImproves
