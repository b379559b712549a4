------------------------------ MODULE MCJobQueue ------------------------------
(* Two jobs that share a queue, one with two attempts; callers that delay a    *)
(* job and keep it once it completed, send it to the other queue, or name one  *)
(* that is not configured; one schedule.  Two jobs in storage are enough for   *)
(* two on a queue and for a repetition with its next job.                     *)
EXTENDS JobQueue, TLC

CONSTANTS a, b, q1, q2, q3, i1, i2, daily

MCJobNames == {a, b}
MCQueues == {q1, q2}
MCIds == {i1, i2}
MCConfigured == a :> [queue |-> q1] @@ b :> [queue |-> q1, retryAttempts |-> 2]
MCOverrides ==
  {[at |-> "future", disableRemoveOnComplete |-> TRUE], [queue |-> q2, removeOnFailCount |-> 1],
   [queue |-> q3, in |-> "later"]}
MCSchedules == {[jobName |-> b, cron |-> daily]}
=============================================================================
