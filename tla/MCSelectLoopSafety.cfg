\* Fewer threads than connections: the handler can die holding the mutex.
SPECIFICATION Spec
CONSTANTS
  Socks = {s1, s2, s3}
  PoolSize = 2
  MaxInner = 2
  MaxWakers = 2
SYMMETRY Symmetry
INVARIANTS
  TypeOK
  OneOwner
  NoMissedWakeup
PROPERTIES
  Implements
CHECK_DEADLOCK FALSE
