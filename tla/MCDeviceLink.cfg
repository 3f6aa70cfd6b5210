\* Two requests, run side by side: both may start an update, one may announce a
\* mobile instead.  A keep-alive that fails again a poll later gives the connection
\* up.  A send takes no time that counts.
SPECIFICATION FairSpec
CONSTANTS
  Addrs = {a1, a2}
  Ports = {a1, a2}
  CheckPeriod = 1
  KeepAliveTimeout = 1
  PollTime = 1
  IoTime = 0
  Requests = {q1, q2}
  MaxThreads = 2
  Timers = {t1, t2}
  Updates = {q1, q2}
  Mobiles = {q2}
INVARIANTS
  LampTruth
  SilentLinkDropped
  UpdateFlag
PROPERTIES
  Reconnects
  Reboots
  RequestsEnd
\* An exception may end the loop; then nothing is left to do but to answer.
CHECK_DEADLOCK FALSE
