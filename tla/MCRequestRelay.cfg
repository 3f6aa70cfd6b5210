\* Three requests, each with an id of its own, and threads that run.
SPECIFICATION FairSpec
CONSTANTS
  Reqs = {r1, r2, r3}
  Ids = {i1, i2, i3}
  Null = Null
  DistinctIds = TRUE
INVARIANTS
  TypeOK
  NoDanglingRequest
  SignalledOnce
  OwnAnswer
  OnlyLateAnswersDropped
PROPERTIES
  ImplementsOneReplyFairly
\* Every request may have come to an end.
CHECK_DEADLOCK FALSE
