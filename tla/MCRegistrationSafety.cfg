\* Addresses are reused at once, also those the device manager still has.
SPECIFICATION Spec
CONSTANTS
  Uuids = {u1, u2}
  Socks = {s1, s2}
  Phones = {}
  NoPhone = NoPhone
  Garbage = Garbage
  Expire = 0
  MaxTokens = 2
SYMMETRY Symmetry
INVARIANTS
  IdMapAgrees
  IndexComplete
  OnlineIsConnected
PROPERTIES
  UnusedTokenKept
  DMSpec
