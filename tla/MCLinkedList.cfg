SPECIFICATION Spec
CONSTANTS
  Node <- MCNode
  Nil = 0
  NoValue = NoValue
  Value = {a, b}
  MaxLen = 4
INVARIANTS TypeOK WellFormed
PROPERTY ImplementsSeqList
