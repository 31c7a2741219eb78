SPECIFICATION FairSpec
CONSTANTS
  None = None
  Job = {j1}
  Generated = {g1}
  Supplied = {k1, k2}
  Request = {r1}
INVARIANT TypeOK
INVARIANT NothingIsLeft
INVARIANT ReadPipesAreFreed
INVARIANT HangsOnlyOnMixedPair
PROPERTY StartupEnds
CHECK_DEADLOCK FALSE
