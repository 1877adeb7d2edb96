SPECIFICATION Spec
CONSTANTS
  Node <- MCNode
  Nil = 0
  NoValue = NoValue
  Key = {k1, k2, k3}
  Value = {v1, v2}
  Cap = 2
  Getter = {g1}
  Setter = {s1, s2}
  NoOne = NoOne
INVARIANT StoredKeyIsFound
PROPERTY ImplementsLru
