\* One device that comes back twice, on either of two addresses, while the
\* scan's thread runs.
SPECIFICATION FairSpec
CONSTANTS
  Uuids = {u1}
  Socks = {s1, s2}
  Phones = {p1}
  NoPhone = NoPhone
  Garbage = Garbage
  Expire = 0
  MaxTokens = 3
INVARIANTS
  OwnerNotMisled
PROPERTIES
  SilentDeviceDropped
