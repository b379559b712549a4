------------------------------- MODULE JobQueue -------------------------------
(* Background jobs: the BullQueueAdapter and its processor in a worker process *)
(* that may crash and start again, the jobs Redis keeps meanwhile, and calls   *)
(* of the adapter from anywhere: handlers, jobs, other processes, commands.   *)
(* A call that names an unknown job or queue is rejected and changes nothing. *)
EXTENDS Naturals

CONSTANTS
  JobNames,    \* the names of the configured jobs
  FirstJob,    \* the job that is first in their list
  Queues,      \* the configured queues
  Configured,  \* [JobNames -> options]: the options of each Job
  Overrides,   \* options callers pass to performLater
  Schedules,   \* schedules of the JobSchedulesInitializer: [jobName, cron]
  Ids,         \* bound: jobs in storage at a time
  NoJob, NoLoop

(* Options are functions from the names of the options that are set.  at is    *)
(* "past" or "future", in is "later" or "now".                                *)
Has(options, option) == option \in DOMAIN options
Merge(options, over) ==
  [o \in DOMAIN options \cup DOMAIN over |-> IF Has(over, o) THEN over[o] ELSE options[o]]
Every(s) == [o \in {"every"} |-> s.cron]
Options ==
  {Merge(Configured[j], over) : j \in JobNames, over \in Overrides \cup {Every(s) : s \in Schedules}}

VARIABLES
  process,      \* the worker: "up", "closing", "closed", "rejected" (by finalize), "down"
  open,         \* its queues that are not closed
  initialized,  \* schedules its JobSchedulesInitializer has added
  store,        \* the jobs in Redis
  worker,       \* the processing loop that performs a job
  removing,     \* jobs removeJob or removeCompletedInQueue found and has yet to remove
  cut           \* history: schedules whose next job a caller removed

lifecycle == <<process, open, initialized>>
vars == <<process, open, initialized, store, worker, removing, cut>>

-----------------------------------------------------------------------------
(* processJobsOnQueues: process(name, concurrency) adds that many loops to the *)
(* queue, each of which takes jobs of any name.                               *)
\* Mutant: each job of a queue brings a loop of its own.
OneEach(j) == 1
Concurrency(j) == IF j = FirstJob THEN 1 ELSE 0
Loops(q) == {<<q, j>> : j \in {k \in JobNames : Concurrency(k) > 0}}
AllLoops == UNION {Loops(q) : q \in Queues}

States == {"waiting", "delayed", "active", "completed", "failed"}
JobRecords ==
  [name : JobNames, options : Options, state : States, made : Nat, due : BOOLEAN, stalled : BOOLEAN]

ASSUME JobsAssumption ==
  /\ FirstJob \in JobNames
  /\ \A o \in Options : Has(o, "queue") /\ (Has(o, "retryAttempts") => o.retryAttempts \in Nat)
  /\ \A s \in Schedules : s.jobName \in JobNames
  /\ NoJob \notin JobRecords /\ NoLoop \notin AllLoops

TypeOK ==
  /\ process \in {"up", "closing", "closed", "rejected", "down"}
  /\ open \subseteq Queues /\ initialized \subseteq Schedules /\ cut \subseteq Schedules
  /\ store \in [Ids -> JobRecords \cup {NoJob}]
  /\ \A i \in Ids : store[i] # NoJob => store[i].options.queue \in Queues
  /\ worker \in [Ids -> AllLoops \cup {NoLoop}]
  /\ removing \subseteq Ids

Init ==
  /\ process = "up" /\ open = Queues /\ initialized = {}
  /\ store = [i \in Ids |-> NoJob] /\ worker = [i \in Ids |-> NoLoop]
  /\ removing = {} /\ cut = {}

(* jobOptionsToBullOptions.  A repetition ignores at and in: for a number they *)
(* are not read, for a cron the startDate is a number of milliseconds since    *)
(* 1970.  attempts, in Bull, counts the first try too.                        *)
\* Mutants: in is read before at is; every job has a retry; a cron is not seen.
InDelays(options) == ~Has(options, "every") /\ Has(options, "in") /\ options.in = "later"
TwoAttempts(options) == IF Has(options, "retryAttempts") THEN options.retryAttempts ELSE 2
NeverRepeats(options) == FALSE

Later(options) ==
  IF Has(options, "at") THEN options.at = "future" ELSE Has(options, "in") /\ options.in = "later"
Repeat(options) == Has(options, "every")
Delay(options) == ~Has(options, "every") /\ Later(options)
Attempts(options) == IF Has(options, "retryAttempts") THEN options.retryAttempts ELSE 1
RemoveOnComplete(options) == ~Has(options, "disableRemoveOnComplete")
RemoveOnFail(options) ==
  IF Has(options, "removeOnFailAge") THEN options.removeOnFailAge # 0
  ELSE Has(options, "removeOnFailCount") /\ options.removeOnFailCount # 0

Kept(i, states) == store[i] # NoJob /\ store[i].state \in states

(* What tells repetitions apart, and the job that waits for the next time of   *)
(* one: for Bull both have ids made from the name, the expression and the time. *)
Repeats(job, name, options) ==
  /\ job.name = name /\ Has(job.options, "every")
  /\ job.options.queue = options.queue /\ job.options.every = options.every
IsNext(job, name, options) ==
  job # NoJob /\ Repeats(job, name, options) /\ job.state = "delayed" /\ job.made = 0

NewJob(name, options) ==
  [ name |-> name, options |-> options, made |-> 0, stalled |-> FALSE, due |-> ~Later(options),
    state |-> IF Repeat(options) \/ Delay(options)
                THEN "delayed" ELSE "waiting" ]

(* The stores that queue.add may make of s.                                   *)
Added(s, name, options) ==
  IF Repeat(options) /\ \E i \in Ids : IsNext(s[i], name, options)
    THEN {s}
    ELSE {[s EXCEPT ![i] = NewJob(name, options)] :
            i \in {k \in Ids : s[k] = NoJob /\ worker[k] = NoLoop}}

ScheduleOptions(s) == Merge(Configured[s.jobName], Every(s))
SchedulesOf(job) ==
  {s \in Schedules : job # NoJob /\ Repeats(job, s.jobName, ScheduleOptions(s))}

-----------------------------------------------------------------------------
(* Calls of the adapter.                                                      *)
\* Mutant: the queue is not looked up.
AnyQueue(options) == TRUE
QueueExists(options) == options.queue \in Queues

PerformLater(name, over) ==
  LET options == Merge(Configured[name], over)
  IN  /\ QueueExists(options)
      /\ store' \in Added(store, name, options)
      /\ cut' = cut \ SchedulesOf(NewJob(name, options))
      /\ UNCHANGED <<lifecycle, worker, removing>>

(* JobSchedulesInitializer: the worker adds its schedules when it starts.      *)
InitializeSchedule(s) ==
  /\ process = "up" /\ s \notin initialized
  /\ QueueExists(ScheduleOptions(s))
  /\ store' \in Added(store, s.jobName, ScheduleOptions(s))
  /\ initialized' = initialized \cup {s} /\ cut' = cut \ {s}
  /\ UNCHANGED <<process, open, worker, removing>>

(* Jobs leave Redis.  A caller that takes the next job of a schedule cuts it.  *)
Clear(gone) ==
  /\ store' = [i \in Ids |-> IF i \in gone THEN NoJob ELSE store[i]]
  /\ removing' = removing \ gone
Cut(gone) ==
  cut' = cut \cup UNION {SchedulesOf(store[i]) : i \in {k \in gone : Kept(k, {"waiting", "delayed"})}}

(* removeJob and removeCompletedInQueue read first and remove then, each job   *)
(* on its own.  Bull refuses to remove a job that is performed.               *)
FindJob(i) ==
  /\ store[i] # NoJob /\ removing' = removing \cup {i}
  /\ UNCHANGED <<lifecycle, store, worker, cut>>

FindCompleted(q) ==
  /\ removing' = removing \cup {i \in Ids : Kept(i, {"completed"}) /\ store[i].options.queue = q}
  /\ UNCHANGED <<lifecycle, store, worker, cut>>

RemoveFound(i) ==
  /\ i \in removing
  /\ \/ /\ worker[i] = NoLoop
        /\ Clear({i}) /\ Cut({i})
     \/ /\ worker[i] # NoLoop /\ removing' = removing \ {i}
        /\ UNCHANGED <<store, cut>>
  /\ UNCHANGED <<lifecycle, worker>>

(* deleteQueue, and deleteAllQueues for each queue on its own: all its jobs go, *)
(* those that are performed as well.  A deletion that fails is not reported by *)
(* deleteAllQueues and does not keep it from deleting the others.             *)
DeleteQueue(q) ==
  LET gone == {i \in Ids : store[i] # NoJob /\ store[i].options.queue = q}
  IN  Clear(gone) /\ Cut(gone) /\ UNCHANGED <<lifecycle, worker>>

-----------------------------------------------------------------------------
(* Time passes.                                                               *)
DueComes(i) ==
  /\ store[i] # NoJob /\ ~store[i].due
  /\ store' = [store EXCEPT ![i].due = TRUE]
  /\ UNCHANGED <<lifecycle, worker, removing, cut>>

(* A delay, a backoff or the wait for the next time of a repetition is over.   *)
Promote(i) ==
  /\ Kept(i, {"delayed"}) /\ (Delay(store[i].options) => store[i].due)
  /\ store' = [store EXCEPT ![i].state = "waiting"]
  /\ UNCHANGED <<lifecycle, worker, removing, cut>>

\* Mutant: a queue that is closing still takes jobs.
AcceptingWhileClosing == process \in {"up", "closing"}
Accepting == process = "up"

(* A loop of the worker takes a job; Bull then adds the next of a repetition.  *)
Start(i, l) ==
  /\ Accepting /\ Kept(i, {"waiting"})
  /\ l \in Loops(store[i].options.queue) /\ \A k \in Ids : worker[k] # l
  /\ LET taken == [store EXCEPT ![i].state = "active"]
     IN  store' \in IF Repeat(store[i].options) THEN Added(taken, store[i].name, store[i].options) ELSE {taken}
  /\ cut' = cut \ SchedulesOf(store[i])
  /\ worker' = [worker EXCEPT ![i] = l]
  /\ UNCHANGED <<lifecycle, removing>>

(* perform() settles.  The result of a job that was obliterated is lost.       *)
Complete(i) ==
  /\ worker[i] # NoLoop /\ worker' = [worker EXCEPT ![i] = NoLoop]
  /\ IF store[i] # NoJob /\ ~RemoveOnComplete(store[i].options)
       THEN store' = [store EXCEPT ![i].state = "completed"] /\ UNCHANGED removing
       ELSE Clear({i})
  /\ UNCHANGED <<lifecycle, cut>>

Fail(i) ==
  /\ worker[i] # NoLoop /\ worker' = [worker EXCEPT ![i] = NoLoop]
  /\ LET made == store[i].made + 1
         ended(s) == [store EXCEPT ![i].state = s, ![i].made = made]
         failed == {k \in Ids : Kept(k, {"failed"}) /\ store[k].options.queue = store[i].options.queue}
     IN  \/ store[i] = NoJob /\ UNCHANGED <<store, removing>>
         \/ /\ store[i] # NoJob /\ made < Attempts(store[i].options)
            /\ store' = ended("delayed") /\ UNCHANGED removing
         \/ /\ store[i] # NoJob /\ made >= Attempts(store[i].options)
            /\ \E gone \in IF RemoveOnFail(store[i].options) THEN SUBSET failed ELSE {{}} :
                 /\ store' = [k \in Ids |-> IF k \in gone THEN NoJob ELSE ended("failed")[k]]
                 /\ removing' = removing \ gone
  /\ UNCHANGED <<lifecycle, cut>>

-----------------------------------------------------------------------------
(* The worker process.                                                        *)
\* Mutant: finalize() does not wait for the queues.
FinalizeAtOnce ==
  /\ process = "up" /\ process' = "closed"
  /\ UNCHANGED <<open, initialized, store, worker, removing, cut>>
Finalize ==
  /\ process = "up" /\ process' = "closing"
  /\ UNCHANGED <<open, initialized, store, worker, removing, cut>>

(* queue.close() waits for the jobs that the queue performs; the first that    *)
(* rejects rejects finalize().                                                *)
CloseQueue(q) ==
  /\ process \in {"closing", "rejected"} /\ q \in open
  /\ \A i \in Ids : worker[i] \notin Loops(q)
  /\ open' = open \ {q}
  /\ process' = IF process = "closing" /\ open' = {} THEN "closed" ELSE process
  /\ UNCHANGED <<initialized, store, worker, removing, cut>>

CloseFails(q) ==
  /\ process \in {"closing", "rejected"} /\ q \in open
  /\ open' = open \ {q} /\ process' = "rejected"
  /\ UNCHANGED <<initialized, store, worker, removing, cut>>

Crash ==
  /\ process \in {"up", "closing", "rejected"} /\ process' = "down"
  /\ worker' = [i \in Ids |-> NoLoop] /\ open' = {} /\ initialized' = {}
  /\ UNCHANGED <<store, removing, cut>>

(* The constructor of the adapter; the processing loops run from then on.      *)
Restart ==
  /\ process \in {"closed", "down"} /\ process' = "up"
  /\ open' = Queues /\ initialized' = {}
  /\ UNCHANGED <<store, worker, removing, cut>>

(* A job whose worker crashed waits again, once (maxStalledCount).             *)
Recover(i) ==
  /\ process = "up" /\ Kept(i, {"active"}) /\ worker[i] = NoLoop
  /\ store' = [store EXCEPT ![i].state = IF store[i].stalled THEN "failed" ELSE "waiting", ![i].stalled = TRUE]
  /\ UNCHANGED <<lifecycle, worker, removing, cut>>

Next ==
  \/ \E j \in JobNames, over \in Overrides : PerformLater(j, over)
  \/ \E s \in Schedules : InitializeSchedule(s)
  \/ \E i \in Ids : FindJob(i) \/ RemoveFound(i) \/ DueComes(i) \/ Promote(i)
  \/ \E q \in Queues : FindCompleted(q) \/ DeleteQueue(q)
  \/ \E i \in Ids, l \in AllLoops : Start(i, l)
  \/ \E i \in Ids : Complete(i) \/ Fail(i) \/ Recover(i)
  \/ Finalize \/ Crash \/ Restart
  \/ \E q \in Queues : CloseQueue(q) \/ CloseFails(q)

Spec == Init /\ [][Next]_vars

(* Redis and perform() answer in the end; nobody has to crash or to stop.      *)
FairSpec ==
  /\ Spec
  /\ \A i \in Ids : WF_vars(Complete(i) \/ Fail(i))
  /\ \A q \in Queues : WF_vars(CloseQueue(q))

-----------------------------------------------------------------------------
(* A queue performs one job at a time, whatever the names of the jobs on it,   *)
(* and although a job that is performed can be deleted.                       *)
OneAtATime ==
  \A i, j \in Ids : i # j /\ worker[i] # NoLoop /\ worker[j] # NoLoop => worker[i][1] # worker[j][1]

(* JobOptions.ts:23: a job without retryAttempts is not tried again when it    *)
(* failed, and a job with retryAttempts is not retried more often than that.   *)
RetriedAsAsked ==
  \A i \in Ids : store[i] # NoJob =>
    LET asked == store[i].options
    IN  store[i].made > 0 /\ store[i].state # "failed" =>
          Has(asked, "retryAttempts") /\ store[i].made <= asked.retryAttempts

(* JobOptions.ts:9,13: a job that does not repeat is not performed before its  *)
(* time; at comes before in.                                                  *)
NotBeforeDue ==
  \A i \in Ids :
    worker[i] # NoLoop /\ store[i] # NoJob /\ ~Has(store[i].options, "every") => store[i].due

(* Until a caller cuts it, a schedule always has a next job, and never two:    *)
(* failures, retries, crashes, restarts and repeated initialization included. *)
SchedulesGoOn ==
  \A s \in Schedules :
    LET next == {i \in Ids : IsNext(store[i], s.jobName, ScheduleOptions(s))}
    IN  /\ \A i, j \in next : i = j
        /\ s \in initialized \ cut =>
             \E i \in Ids : s \in SchedulesOf(store[i]) /\ Kept(i, {"waiting", "delayed"})

(* No job is performed any more when finalize() resolves.                     *)
ClosedIsIdle == process = "closed" => \A i \in Ids : worker[i] = NoLoop

(* finalize() settles, or the process crashes.                                *)
FinalizeSettles == process = "closing" ~> process # "closing"

(* JobOptions.ts:22: "How many times this job will be auto-retried on failure". *)
RetriesGranted ==
  \A i \in Ids : Kept(i, {"failed"}) /\ ~store[i].stalled /\ Has(store[i].options, "retryAttempts")
                   => store[i].made > store[i].options.retryAttempts
=============================================================================
