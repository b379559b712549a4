\* Deadlock is not checked: the served request is over, nothing happens.
SPECIFICATION FairSpec
CONSTANTS
  Methods <- MCMethods
  ReplyStatuses <- MCReplyStatuses
  ErrorStatuses <- MCErrorStatuses
  Redirects <- MCRedirects
  PreflightContinue = FALSE
INVARIANTS TypeOK NeverCrashes HeadersFirst ErrorStatusSent BodyNotTruncated
PROPERTIES ExchangeSpec Answered SourceReleased
CHECK_DEADLOCK FALSE
