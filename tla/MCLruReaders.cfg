SPECIFICATION Spec
CONSTANTS
  Node <- MCNode
  Nil = 0
  NoValue = NoValue
  Key = {k1, k2, k3, k4}
  Value = {v1}
  Cap = 3
  Getter = {g1, g2}
  Setter = {s1}
  NoOne = NoOne
SYMMETRY Symmetric
INVARIANTS TypeOK ListSurvivesReaders
