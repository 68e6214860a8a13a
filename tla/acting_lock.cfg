SPECIFICATION FairSpec
CONSTANTS
  NoOne = NoOne
  Empty = Empty
  Garbled = Garbled
  Proc = {b1, i1, i2}
  Interactive = {i1, i2}
CHECK_DEADLOCK FALSE
INVARIANTS
  MutualExclusion
  SidecarIsTrue
PROPERTIES
  ImplementsIdentityLock
  EveryCallReturns
