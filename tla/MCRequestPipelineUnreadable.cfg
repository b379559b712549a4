\* Deadlock is not checked: the served request is over, nothing happens.
SPECIFICATION Spec
CONSTANTS
  Methods <- MCMethods
  ReplyStatuses <- MCReplyStatuses
  ErrorStatuses <- MCErrorStatuses
  Redirects <- MCRedirects
  PreflightContinue = FALSE
PROPERTY AssetSuccessWasReadable
CHECK_DEADLOCK FALSE
