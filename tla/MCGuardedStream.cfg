\* Deadlock is not checked: an unguarded stream without listeners crashes the
\* process, and nothing happens after that.
SPECIFICATION FairSpec
CONSTANTS
  e1 = e1
  e2 = e2
  e3 = e3
  persistent = persistent
  oneShot = oneShot
  Guard = guardingErrorListener
  Errors <- MCErrors
  Listeners <- MCListeners
  Once <- MCOnce
INVARIANTS TypeOK NothingLost HeldOnce TimerCoversStored
PROPERTIES GuardedNeverCrashes DeliverySpec CapturedSettles
CHECK_DEADLOCK FALSE
