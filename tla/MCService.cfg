SPECIFICATION FairSpec
CONSTANTS
  Order = {o1, o2}
  Saver = {s1, s2}
  Getter = {g1}
  Cap = 1
  WarmLimit = 2
  None = None
INVARIANTS TypeOK CachedIsStored KnownIsFound
PROPERTIES SaveEnds GetAnswers
