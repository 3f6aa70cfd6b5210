\* The registration side, with a thread for every task there can be.
SPECIFICATION FairSpec
CONSTANTS
  Socks = {s1, s2}
  PoolSize = 4
  MaxInner = 2
  MaxWakers = 2
PROPERTIES
  ImplementsFairly
