SPECIFICATION FairSpec
CONSTANTS
  Node <- MCNode
  Nil = 0
  NoValue = NoValue
  Key = {k1, k2}
  Value = {v1}
  Cap = 2
  Getter = {g1, g2}
  Setter = {s1}
  NoOne = NoOne
PROPERTIES GetReturns SetReturns
