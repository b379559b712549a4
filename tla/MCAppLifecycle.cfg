\* Deadlock is not checked: a process that ended does nothing.
SPECIFICATION FairSpec
CONSTANTS
  s1 = s1
  s2 = s2
  r1 = r1
  r2 = r2
  Schedules <- MCSchedules
  Requests <- MCRequests
  Callbacks <- MCCallbacks
INVARIANTS TypeOK ServesOnlyReady NoDatabaseOnlyWhileStopping StopReleases
PROPERTIES FailureExits RunSettles
CHECK_DEADLOCK FALSE
