\* Three requests change the tasks, or reset the device, while the timer
\* runs: days of three minutes, one of which belongs to the day before in
\* Greenwich.
SPECIFICATION Spec
CONSTANTS
  Requests = {r1, r2, r3}
  Ids = {1, 2, 3}
  Addrs = {a1, a2, a3}
  Infos <- MCInfos
  Factory <- MCFactory
  InitTasks <- MCInitTasks
  MaxTasks = 2
  DayLength = 3
  WeekLength = 2
  Zone = 1
SYMMETRY Symmetry
INVARIANTS
  TaskTypeOK
  ConfigAgrees
  AddChecksHold
  ActiveScheduled
PROPERTIES
  RunsAsConfigured
