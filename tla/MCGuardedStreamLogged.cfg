\* The comment on guardStream: an error without listeners gets logged.
\* Deadlock is not checked: nobody has to use a stream.
SPECIFICATION Spec
CONSTANTS
  e1 = e1
  e2 = e2
  e3 = e3
  persistent = persistent
  oneShot = oneShot
  Guard = guardingErrorListener
  Errors <- MCErrors
  Listeners <- MCListeners
  Once <- MCOnce
INVARIANT UnheardErrorsAreLogged
CHECK_DEADLOCK FALSE
