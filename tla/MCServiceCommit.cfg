SPECIFICATION Spec
CONSTANTS
  Order = {o1}
  Saver = {s1}
  Getter = {g1}
  Cap = 1
  WarmLimit = 1
  None = None
INVARIANT OnlySavedIsCached
