SPECIFICATION HSpec
CONSTANTS
  Key = {k1, k2, k3, k4}
  Value = {v1, v2}
  NoValue = NoValue
  Cap = 3
  MaxUses = 8
SYMMETRY KeySymmetry
INVARIANTS CacheConsistent LeastRecentlyUsed
