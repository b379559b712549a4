\* Deadlock is not checked: a process that ended does nothing.
SPECIFICATION Spec
CONSTANTS
  s1 = s1
  s2 = s2
  r1 = r1
  r2 = r2
  Schedules <- MCSchedules
  Requests <- MCRequests
  Callbacks <- MCCallbacks
INVARIANT StopDisconnects
CHECK_DEADLOCK FALSE
