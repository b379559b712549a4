\* Deadlock is not checked: the served request is over, nothing happens.
SPECIFICATION Spec
CONSTANTS
  Methods <- MCMethods
  ReplyStatuses <- MCReplyStatuses
  ErrorStatuses <- MCErrorStatuses
  Redirects <- MCRedirects
  PreflightContinue = FALSE
INVARIANT MissingAssetIs404
CHECK_DEADLOCK FALSE
