\* Two requests may draw the same microsecond.
SPECIFICATION FairSpec
CONSTANTS
  Reqs = {r1, r2}
  Ids = {i1}
  Null = Null
  DistinctIds = FALSE
PROPERTIES
  EveryRequestEnds
\* Every request may have come to an end.
CHECK_DEADLOCK FALSE
