\* Three requests at a time: it takes that many to part the relay and the flag.
SPECIFICATION Spec
CONSTANTS
  Requests = {r1, r2, r3}
  Users = {u1, a1}
  Admins = {a1}
  Schedule = Schedule
  Modes = {0, 1}
  Factory = 0
  DayLength = 2
  KeepDays = 0
  Zone = 1
  MaxTime = 2
SYMMETRY Symmetry
INVARIANTS
  DoorTypeOK
  SwitchAgrees
  AdminModeHolds
  ModeKept
  WrittenOnce
  AnswerComplete
\* Every request may have been handled.
CHECK_DEADLOCK FALSE
