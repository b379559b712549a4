SPECIFICATION Spec
CONSTANTS
  a = a
  b = b
  q1 = q1
  q2 = q2
  q3 = q3
  i1 = i1
  i2 = i2
  daily = daily
  NoJob = NoJob
  NoLoop = NoLoop
  FirstJob = a
  JobNames <- MCJobNames
  Queues <- MCQueues
  Ids <- MCIds
  Configured <- MCConfigured
  Overrides <- MCOverrides
  Schedules <- MCSchedules
INVARIANTS RetriesGranted
