---------------------------- MODULE JobQueue_proofs ----------------------------
(* The safety properties of JobQueue for any jobs, queues, options, schedules  *)
(* and any number of jobs in storage.                                         *)
EXTENDS JobQueue, TLAPS

(* What the jobs of a store satisfy one by one, and the next jobs together.    *)
JobOK(job) ==
  /\ job \in JobRecords /\ job.options.queue \in Queues
  /\ job.made > 0 /\ job.state # "failed" =>
       Has(job.options, "retryAttempts") /\ job.made <= job.options.retryAttempts
  /\ ~job.due => Later(job.options)
  /\ ~Has(job.options, "every") /\ job.state # "delayed" => job.due

NextUnique(s) ==
  \A i, j \in Ids : s[i] # NoJob /\ IsNext(s[i], s[i].name, s[i].options)
                     /\ IsNext(s[j], s[i].name, s[i].options) => i = j

StoreOK(s) ==
  /\ s \in [Ids -> JobRecords \cup {NoJob}]
  /\ \A i \in Ids : s[i] # NoJob => JobOK(s[i])
  /\ NextUnique(s)

(* The next job of schedule s, or the one whose time has come.                 *)
Pending(job, s) == job # NoJob /\ s \in SchedulesOf(job) /\ job.state \in {"waiting", "delayed"}
Alive == \A s \in initialized \ cut : \E i \in Ids : Pending(store[i], s)

WorkersOK ==
  /\ \A i, j \in Ids : worker[i] # NoLoop /\ worker[i] = worker[j] => i = j
  /\ \A i \in Ids : worker[i] # NoLoop /\ store[i] # NoJob => store[i].state = "active"
  /\ process = "up" => open = Queues
  /\ process \in {"closing", "closed"} =>
       \A i \in Ids : worker[i] # NoLoop => worker[i][1] \in open
  /\ process = "closed" => open = {}

IInv == TypeOK /\ StoreOK(store) /\ WorkersOK /\ Alive

-----------------------------------------------------------------------------
(* Each queue has exactly the loop of the first job.                          *)
LEMMA LoopsOfQueue ==
  ASSUME NEW q \in Queues, NEW l \in Loops(q)
  PROVE  l = <<q, FirstJob>> /\ l \in AllLoops /\ l[1] = q /\ l # NoLoop
<1>1. l = <<q, FirstJob>> BY DEF Loops, Concurrency
<1>2. l \in AllLoops BY DEF AllLoops
<1>3. QED BY <1>1, <1>2, JobsAssumption

LEMMA LoopHasQueue ==
  ASSUME NEW l \in AllLoops
  PROVE  l[1] \in Queues /\ l = <<l[1], FirstJob>> /\ l \in Loops(l[1])
<1>1. PICK q \in Queues : l \in Loops(q) BY DEF AllLoops
<1>2. QED BY <1>1, LoopsOfQueue

(* A new job is in order.                                                     *)
LEMMA NewJobOK ==
  ASSUME NEW name \in JobNames, NEW options \in Options, options.queue \in Queues
  PROVE  /\ JobOK(NewJob(name, options)) /\ NewJob(name, options) # NoJob
         /\ NewJob(name, options).name = name /\ NewJob(name, options).options = options
         /\ Repeat(options) => IsNext(NewJob(name, options), name, options)
<1> DEFINE job == NewJob(name, options)
<1>1. job \in JobRecords
  BY DEF NewJob, JobRecords, States, Later
<1>2. job # NoJob
  BY <1>1, JobsAssumption
<1>3. /\ job.name = name /\ job.options = options /\ job.made = 0
      /\ job.state = IF Repeat(options) \/ Delay(options) THEN "delayed" ELSE "waiting"
  BY DEF NewJob
<1>4. (job.due <=> ~Later(options)) /\ (~Has(options, "every") /\ ~job.due => job.state = "delayed")
  BY DEF NewJob, Repeat, Delay, Later
<1> HIDE DEF job
<1>5. JobOK(job)
  BY <1>1, <1>3, <1>4 DEF JobOK
<1>6. Repeat(options) => IsNext(job, name, options)
  BY <1>2, <1>3 DEF Repeat, IsNext, Repeats
<1>7. QED BY <1>2, <1>3, <1>5, <1>6 DEF job

(* queue.add keeps a store in order and the jobs in it, and a repetition has   *)
(* its next job afterwards.                                                   *)
LEMMA AddedOK ==
  ASSUME NEW s, StoreOK(s), NEW name \in JobNames, NEW options \in Options,
         options.queue \in Queues, NEW t \in Added(s, name, options)
  PROVE  /\ StoreOK(t)
         /\ \A i \in Ids : s[i] # NoJob => t[i] = s[i]
         /\ \A i \in Ids : t[i] # s[i] => worker[i] = NoLoop
         /\ Repeat(options) => \E i \in Ids : IsNext(t[i], name, options)
<1>1. CASE Repeat(options) /\ \E i \in Ids : IsNext(s[i], name, options)
  BY <1>1 DEF Added
<1>2. CASE ~(Repeat(options) /\ \E i \in Ids : IsNext(s[i], name, options))
  <2> DEFINE job == NewJob(name, options)
  <2>1. PICK k \in Ids : s[k] = NoJob /\ worker[k] = NoLoop /\ t = [s EXCEPT ![k] = job]
    BY <1>2 DEF Added
  <2>2. /\ JobOK(job) /\ job # NoJob /\ job.name = name /\ job.options = options
        /\ Repeat(options) => IsNext(job, name, options)
    BY NewJobOK
  <2>3. t \in [Ids -> JobRecords \cup {NoJob}] /\ t[k] = job /\ \A i \in Ids \ {k} : t[i] = s[i]
    BY <2>1, <2>2 DEF StoreOK, JobOK
  <2>4. \A i \in Ids : t[i] # NoJob => JobOK(t[i])
    BY <2>2, <2>3 DEF StoreOK
  <2>5. NextUnique(t)
    <3> SUFFICES ASSUME NEW i \in Ids, NEW j \in Ids, t[i] # NoJob, i # j,
                        IsNext(t[i], t[i].name, t[i].options),
                        IsNext(t[j], t[i].name, t[i].options)
                 PROVE  FALSE
      BY DEF NextUnique
    <3>1. IsNext(t[j], t[j].name, t[j].options) /\ IsNext(t[i], t[j].name, t[j].options) /\ t[j] # NoJob
      BY DEF IsNext, Repeats, Has
    <3>2. CASE i = k
      BY <3>2, <2>2, <2>3, <1>2 DEF IsNext, Repeats, Has, Repeat
    <3>3. CASE j = k
      BY <3>1, <3>3, <2>2, <2>3, <1>2 DEF IsNext, Repeats, Has, Repeat
    <3>4. CASE i # k /\ j # k
      BY <3>4, <2>3 DEF StoreOK, NextUnique
    <3>5. QED BY <3>2, <3>3, <3>4
  <2>6. QED
    BY <2>1, <2>2, <2>3, <2>4, <2>5 DEF StoreOK
<1>3. QED BY <1>1, <1>2

(* Jobs that leave keep a store in order.                                     *)
LEMMA ClearedOK ==
  ASSUME NEW s, StoreOK(s), NEW gone \in SUBSET Ids
  PROVE  StoreOK([i \in Ids |-> IF i \in gone THEN NoJob ELSE s[i]])
BY DEF StoreOK, NextUnique, IsNext

(* So does a job that changes without becoming the next of a repetition.       *)
LEMMA ChangedOK ==
  ASSUME NEW s, StoreOK(s), NEW k \in Ids, NEW job, JobOK(job), job # NoJob,
         IsNext(job, job.name, job.options) =>
           s[k] # NoJob /\ IsNext(s[k], job.name, job.options)
  PROVE  StoreOK([s EXCEPT ![k] = job])
<1> DEFINE t == [s EXCEPT ![k] = job]
<1>1. /\ t \in [Ids -> JobRecords \cup {NoJob}]
      /\ t[k] = job /\ \A i \in Ids \ {k} : t[i] = s[i]
  BY DEF StoreOK, JobOK
<1>2. \A i \in Ids : t[i] # NoJob => JobOK(t[i])
  BY <1>1 DEF StoreOK
<1>3. ASSUME NEW i \in Ids, NEW j \in Ids, t[i] # NoJob,
             IsNext(t[i], t[i].name, t[i].options), IsNext(t[j], t[i].name, t[i].options)
      PROVE  i = j
  <2>1. s[i] # NoJob /\ IsNext(s[i], t[i].name, t[i].options)
    BY <1>1, <1>3
  <2>2. IsNext(t[j], t[j].name, t[j].options)
    BY <1>3 DEF IsNext, Repeats
  <2>3. IsNext(s[j], t[i].name, t[i].options)
    BY <1>1, <1>3, <2>2 DEF IsNext, Repeats
  <2>4. IsNext(s[i], s[i].name, s[i].options) /\ IsNext(s[j], s[i].name, s[i].options)
    BY <2>1, <2>3 DEF IsNext, Repeats
  <2>5. QED BY <2>1, <2>4 DEF StoreOK, NextUnique
<1>4. QED BY <1>1, <1>2, <1>3 DEF StoreOK, NextUnique

-----------------------------------------------------------------------------
(* The next job of a repetition is pending for its schedules.                  *)
LEMMA NextIsPending ==
  ASSUME NEW job, NEW other, IsNext(job, other.name, other.options), NEW s \in SchedulesOf(other)
  PROVE  Pending(job, s)
BY DEF Pending, SchedulesOf, IsNext, Repeats

LEMMA ScheduleIsPending ==
  ASSUME NEW job, NEW s \in Schedules, IsNext(job, s.jobName, ScheduleOptions(s))
  PROVE  Pending(job, s)
BY DEF Pending, SchedulesOf, IsNext

LEMMA ScheduleOptionsOK ==
  ASSUME NEW s \in Schedules
  PROVE  /\ s.jobName \in JobNames /\ ScheduleOptions(s) \in Options
         /\ Repeat(ScheduleOptions(s))
<1>1. s.jobName \in JobNames
  BY JobsAssumption
<1>2. ScheduleOptions(s) \in Options
  BY <1>1 DEF ScheduleOptions, Options
<1>3. "every" \in DOMAIN Every(s)
  BY DEF Every
<1>4. Repeat(ScheduleOptions(s))
  BY <1>3 DEF Repeat, ScheduleOptions, Merge, Has
<1>5. QED BY <1>1, <1>2, <1>4

(* Schedules go on while the pending jobs stay and no schedule is added.       *)
LEMMA AliveKept ==
  ASSUME Alive, initialized' \subseteq initialized, cut \subseteq cut',
         \A i \in Ids, s \in initialized' \ cut' : Pending(store[i], s) => Pending(store'[i], s)
  PROVE  Alive'
<1> SUFFICES ASSUME NEW s \in initialized' \ cut'
             PROVE  \E i \in Ids : Pending(store'[i], s)
  BY DEF Alive, Pending, SchedulesOf, Repeats, ScheduleOptions, Merge, Every, Has
<1>1. PICK i \in Ids : Pending(store[i], s)
  BY DEF Alive
<1>2. QED BY <1>1

-----------------------------------------------------------------------------
THEOREM Initially == Init => IInv
<1> SUFFICES ASSUME Init PROVE IInv
  OBVIOUS
<1>1. TypeOK BY DEF Init, TypeOK
<1>2. StoreOK(store) BY DEF Init, StoreOK, NextUnique
<1>3. WorkersOK BY DEF Init, WorkersOK
<1>4. Alive BY DEF Init, Alive
<1>5. QED BY <1>1, <1>2, <1>3, <1>4 DEF IInv

LEMMA PerformLaterOK ==
  ASSUME IInv, NEW name \in JobNames, NEW over \in Overrides, PerformLater(name, over)
  PROVE  IInv'
<1> DEFINE options == Merge(Configured[name], over)
<1>1. /\ options \in Options /\ options.queue \in Queues
      /\ store' \in Added(store, name, options)
      /\ cut' = cut \ SchedulesOf(NewJob(name, options))
      /\ UNCHANGED <<lifecycle, worker, removing>>
  BY DEF PerformLater, Options, QueueExists
<1> HIDE DEF options
<1>2. /\ StoreOK(store')
      /\ \A i \in Ids : store[i] # NoJob => store'[i] = store[i]
      /\ \A i \in Ids : store'[i] # store[i] => worker[i] = NoLoop
      /\ Repeat(options) => \E i \in Ids : IsNext(store'[i], name, options)
  BY <1>1, AddedOK DEF IInv
<1>3. TypeOK'
  BY <1>1, <1>2 DEF IInv, TypeOK, lifecycle, StoreOK, JobOK
<1>4. WorkersOK'
  BY <1>1, <1>2 DEF IInv, WorkersOK, lifecycle
<1>5. Alive'
  <2> SUFFICES ASSUME NEW s \in initialized' \ cut'
               PROVE  \E i \in Ids : Pending(store'[i], s)
    BY DEF Alive, Pending, SchedulesOf, Repeats, ScheduleOptions, Merge, Every, Has
  <2>1. CASE s \in SchedulesOf(NewJob(name, options))
    <3> DEFINE job == NewJob(name, options)
    <3>1. job.name = name /\ job.options = options
      BY <1>1, NewJobOK
    <3>2. Repeat(options)
      BY <2>1, <3>1 DEF SchedulesOf, Repeats, Repeat
    <3>3. PICK i \in Ids : IsNext(store'[i], name, options)
      BY <1>2, <3>2
    <3>4. Pending(store'[i], s)
      BY <2>1, <3>1, <3>3, NextIsPending
    <3>5. QED BY <3>4
  <2>2. CASE s \in initialized \ cut
    BY <1>2, <2>2 DEF IInv, Alive, Pending
  <2>3. QED BY <1>1, <2>1, <2>2 DEF lifecycle
<1>6. QED BY <1>2, <1>3, <1>4, <1>5 DEF IInv, StoreOK, NextUnique

LEMMA InitializeScheduleOK ==
  ASSUME IInv, NEW s \in Schedules, InitializeSchedule(s)
  PROVE  IInv'
<1> DEFINE options == ScheduleOptions(s)
<1>1. /\ s.jobName \in JobNames /\ options \in Options /\ Repeat(options)
      /\ options.queue \in Queues /\ store' \in Added(store, s.jobName, options)
      /\ initialized' = initialized \cup {s} /\ cut' = cut \ {s}
      /\ UNCHANGED <<process, open, worker, removing>>
  BY ScheduleOptionsOK DEF InitializeSchedule, QueueExists
<1> HIDE DEF options
<1>2. /\ StoreOK(store')
      /\ \A i \in Ids : store[i] # NoJob => store'[i] = store[i]
      /\ \A i \in Ids : store'[i] # store[i] => worker[i] = NoLoop
      /\ \E i \in Ids : IsNext(store'[i], s.jobName, options)
  BY <1>1, AddedOK DEF IInv
<1>3. TypeOK'
  BY <1>1, <1>2 DEF IInv, TypeOK, StoreOK, JobOK
<1>4. WorkersOK'
  BY <1>1, <1>2 DEF IInv, WorkersOK
<1>5. Alive'
  <2> SUFFICES ASSUME NEW r \in initialized' \ cut'
               PROVE  \E i \in Ids : Pending(store'[i], r)
    BY DEF Alive, Pending, SchedulesOf, Repeats, ScheduleOptions, Merge, Every, Has
  <2>1. CASE r = s
    BY <1>2, <2>1, ScheduleIsPending DEF options
  <2>2. CASE r # s
    BY <1>1, <1>2, <2>2 DEF IInv, Alive, Pending
  <2>3. QED BY <2>1, <2>2
<1>6. QED BY <1>2, <1>3, <1>4, <1>5 DEF IInv, StoreOK, NextUnique

(* Jobs that are not performed leave Redis, and cut their schedules.           *)
LEMMA ClearOK ==
  ASSUME IInv, NEW gone \in SUBSET Ids, Clear(gone), Cut(gone), UNCHANGED <<lifecycle, worker>>
  PROVE  IInv'
<1>1. StoreOK(store') /\ \A i \in Ids : store'[i] = IF i \in gone THEN NoJob ELSE store[i]
  BY ClearedOK DEF IInv, Clear
<1>2. removing' \subseteq Ids
  BY DEF IInv, TypeOK, Clear
<1>3. cut' = cut \cup UNION {SchedulesOf(store[i]) : i \in {k \in gone : Kept(k, {"waiting", "delayed"})}}
  BY DEF Cut
<1>4. cut' \subseteq Schedules
  BY <1>3 DEF IInv, TypeOK, SchedulesOf
<1>5. TypeOK'
  BY <1>1, <1>2, <1>4 DEF IInv, TypeOK, lifecycle, StoreOK, JobOK
<1>6. WorkersOK'
  BY <1>1 DEF IInv, WorkersOK, lifecycle
<1>7. ASSUME NEW i \in Ids, NEW s \in initialized' \ cut', Pending(store[i], s)
      PROVE  Pending(store'[i], s)
  <2>1. i \notin gone
    BY <1>3, <1>7 DEF Pending, Kept
  <2>2. QED BY <1>1, <1>7, <2>1
<1>8. Alive'
  BY <1>3, <1>7, AliveKept DEF IInv, lifecycle
<1>9. QED BY <1>1, <1>5, <1>6, <1>8 DEF IInv, StoreOK, NextUnique

LEMMA RemovalOK ==
  ASSUME IInv, NEW i \in Ids, FindJob(i) \/ RemoveFound(i)
  PROVE  IInv'
<1>1. ASSUME removing' \subseteq Ids, UNCHANGED <<lifecycle, store, worker, cut>> PROVE IInv'
  BY <1>1 DEF IInv, TypeOK, StoreOK, NextUnique, WorkersOK, Alive, lifecycle
<1>2. CASE FindJob(i)
  BY <1>1, <1>2 DEF FindJob, IInv, TypeOK
<1>3. CASE Clear({i}) /\ Cut({i}) /\ UNCHANGED <<lifecycle, worker>>
  BY <1>3, ClearOK
<1>4. QED
  BY <1>1, <1>2, <1>3 DEF RemoveFound, IInv, TypeOK

LEMMA QueueCallsOK ==
  ASSUME IInv, NEW q \in Queues, FindCompleted(q) \/ DeleteQueue(q)
  PROVE  IInv'
<1>1. CASE FindCompleted(q)
  BY <1>1 DEF FindCompleted, IInv, TypeOK, StoreOK, NextUnique, WorkersOK, Alive, lifecycle
<1>2. CASE DeleteQueue(q)
  BY <1>2, ClearOK DEF DeleteQueue
<1>3. QED BY <1>1, <1>2

(* A job that is stored changes, is no new next job and stays pending if it    *)
(* was; its loop may be done with it.                                         *)
JobStep(i, job) ==
  /\ store[i] # NoJob /\ JobOK(job) /\ job # NoJob /\ store' = [store EXCEPT ![i] = job]
  /\ job.name = store[i].name /\ job.options = store[i].options
  /\ job.state = "delayed" /\ job.made = 0 => store[i].state = "delayed" /\ store[i].made = 0
  /\ store[i].state \in {"waiting", "delayed"} => job.state \in {"waiting", "delayed"}
  /\ worker'[i] # NoLoop => job.state = "active"
  /\ \A k \in Ids : worker'[k] = worker[k] \/ (k = i /\ worker'[k] = NoLoop)
  /\ worker' \in [Ids -> AllLoops \cup {NoLoop}]
  /\ removing' \subseteq Ids /\ UNCHANGED <<lifecycle, cut>>

LEMMA StepOK ==
  ASSUME IInv, NEW i \in Ids, NEW job, JobStep(i, job)
  PROVE  IInv'
<1> USE DEF JobStep
<1>1. StoreOK(store')
  BY ChangedOK DEF IInv, IsNext, Repeats
<1>2. store'[i] = job /\ \A k \in Ids \ {i} : store'[k] = store[k]
  BY DEF IInv, TypeOK
<1>3. TypeOK'
  BY <1>1 DEF IInv, TypeOK, lifecycle, StoreOK, JobOK
<1>4. WorkersOK'
  BY <1>2 DEF IInv, WorkersOK, lifecycle
<1>5. ASSUME NEW k \in Ids, NEW s \in initialized' \ cut', Pending(store[k], s)
      PROVE  Pending(store'[k], s)
  BY <1>2, <1>5 DEF Pending, SchedulesOf, Repeats
<1>6. Alive'
  BY <1>5, AliveKept DEF IInv, lifecycle
<1>7. QED BY <1>1, <1>3, <1>4, <1>6 DEF IInv, StoreOK, NextUnique

LEMMA TimeOK ==
  ASSUME IInv, NEW i \in Ids, DueComes(i) \/ Promote(i) \/ Recover(i)
  PROVE  IInv'
<1>1. CASE DueComes(i)
  <2> DEFINE job == [store[i] EXCEPT !.due = TRUE]
  <2>1. store[i] # NoJob /\ JobOK(store[i]) /\ store' = [store EXCEPT ![i] = job]
    BY <1>1 DEF DueComes, IInv, StoreOK
  <2>2. JobOK(job)
    BY <2>1 DEF JobOK, JobRecords
  <2>3. /\ job # NoJob /\ job.name = store[i].name /\ job.options = store[i].options
        /\ job.state = store[i].state /\ job.made = store[i].made
    BY <2>1, <2>2, JobsAssumption DEF JobOK, JobRecords
  <2>4. /\ removing' \subseteq Ids /\ UNCHANGED <<lifecycle, cut>> /\ worker' = worker
        /\ worker' \in [Ids -> AllLoops \cup {NoLoop}]
        /\ worker'[i] # NoLoop => job.state = "active"
    BY <1>1, <2>1, <2>3 DEF DueComes, IInv, TypeOK, WorkersOK
  <2> HIDE DEF job
  <2>5. JobStep(i, job)
    BY <2>1, <2>2, <2>3, <2>4 DEF JobStep
  <2>6. QED BY <2>5, StepOK
<1>2. CASE Promote(i)
  <2> DEFINE job == [store[i] EXCEPT !.state = "waiting"]
  <2>1. /\ store[i] # NoJob /\ JobOK(store[i]) /\ store[i].state = "delayed"
        /\ store' = [store EXCEPT ![i] = job]
    BY <1>2 DEF Promote, Kept, IInv, StoreOK
  <2>2. ~Has(store[i].options, "every") => store[i].due
    BY <1>2, <2>1 DEF Promote, Delay, JobOK, JobRecords
  <2>3. JobOK(job)
    BY <2>1, <2>2 DEF JobOK, JobRecords, States
  <2>4. /\ job # NoJob /\ job.name = store[i].name /\ job.options = store[i].options
        /\ job.state = "waiting"
    BY <2>1, <2>3, JobsAssumption DEF JobOK, JobRecords
  <2>5. /\ removing' \subseteq Ids /\ UNCHANGED <<lifecycle, cut>> /\ worker' = worker
        /\ worker' \in [Ids -> AllLoops \cup {NoLoop}] /\ worker'[i] = NoLoop
    BY <1>2, <2>1 DEF Promote, IInv, TypeOK, WorkersOK
  <2> HIDE DEF job
  <2>6. JobStep(i, job)
    BY <2>1, <2>3, <2>4, <2>5 DEF JobStep
  <2>7. QED BY <2>6, StepOK
<1>3. CASE Recover(i)
  <2> DEFINE job == [store[i] EXCEPT !.state = IF store[i].stalled THEN "failed" ELSE "waiting",
                                     !.stalled = TRUE]
  <2>1. /\ store[i] # NoJob /\ JobOK(store[i]) /\ store[i].state = "active"
        /\ store' = [store EXCEPT ![i] = job] /\ worker[i] = NoLoop
    BY <1>3 DEF Recover, Kept, IInv, StoreOK
  <2>2. JobOK(job)
    BY <2>1 DEF JobOK, JobRecords, States
  <2>3. /\ job # NoJob /\ job.name = store[i].name /\ job.options = store[i].options
        /\ job.state \in {"failed", "waiting"}
    BY <2>1, <2>2, JobsAssumption DEF JobOK, JobRecords
  <2>4. /\ removing' \subseteq Ids /\ UNCHANGED <<lifecycle, cut>> /\ worker' = worker
        /\ worker' \in [Ids -> AllLoops \cup {NoLoop}] /\ worker'[i] = NoLoop
    BY <1>3, <2>1 DEF Recover, IInv, TypeOK, WorkersOK
  <2> HIDE DEF job
  <2>5. JobStep(i, job)
    BY <2>1, <2>2, <2>3, <2>4 DEF JobStep
  <2>6. QED BY <2>5, StepOK
<1>4. QED BY <1>1, <1>2, <1>3

LEMMA StartOK ==
  ASSUME IInv, NEW i \in Ids, NEW l \in AllLoops, Start(i, l)
  PROVE  IInv'
<1> DEFINE job == [store[i] EXCEPT !.state = "active"]
           taken == [store EXCEPT ![i] = job]
<1>1. /\ store[i] # NoJob /\ JobOK(store[i]) /\ store[i].state = "waiting"
      /\ store' \in IF Repeat(store[i].options) THEN Added(taken, store[i].name, store[i].options)
                                                ELSE {taken}
      /\ l \in Loops(store[i].options.queue) /\ \A k \in Ids : worker[k] # l
      /\ cut' = cut \ SchedulesOf(store[i]) /\ worker' = [worker EXCEPT ![i] = l]
      /\ UNCHANGED <<lifecycle, removing>> /\ process = "up"
  BY DEF Start, Accepting, Kept, IInv, StoreOK
<1>2. JobOK(job) /\ job # NoJob /\ job.name = store[i].name /\ job.options = store[i].options
  BY <1>1, JobsAssumption DEF JobOK, JobRecords, States
<1>3. /\ taken[i] = job /\ job.state = "active"
      /\ \A k \in Ids \ {i} : taken[k] = store[k]
  BY <1>1 DEF IInv, TypeOK, JobOK, JobRecords
<1>4. StoreOK(taken)
  BY <1>1, <1>2, <1>3, ChangedOK DEF IInv, IsNext
<1>5. /\ store[i].name \in JobNames /\ store[i].options \in Options
      /\ store[i].options.queue \in Queues
  BY <1>1 DEF JobOK, JobRecords
<1> HIDE DEF taken
<1>6. /\ StoreOK(store')
      /\ \A k \in Ids : taken[k] # NoJob => store'[k] = taken[k]
      /\ \A k \in Ids : store'[k] # taken[k] => worker[k] = NoLoop
      /\ Repeat(store[i].options) =>
           \E k \in Ids : IsNext(store'[k], store[i].name, store[i].options)
  BY <1>1, <1>4, <1>5, AddedOK
<1>7. store'[i].state = "active"
  BY <1>2, <1>3, <1>6
<1>8. TypeOK'
  BY <1>1, <1>6 DEF IInv, TypeOK, lifecycle, StoreOK, JobOK
<1>9. WorkersOK'
  <2>1. worker'[i] = l /\ \A k \in Ids \ {i} : worker'[k] = worker[k]
    BY <1>1 DEF IInv, TypeOK
  <2>2. ASSUME NEW k \in Ids, worker'[k] # NoLoop, store'[k] # NoJob
        PROVE  store'[k].state = "active"
    BY <1>3, <1>6, <1>7, <2>1, <2>2 DEF IInv, WorkersOK
  <2>3. QED
    BY <1>1, <2>1, <2>2 DEF IInv, WorkersOK, lifecycle
<1>10. Alive'
  <2> SUFFICES ASSUME NEW s \in initialized' \ cut'
               PROVE  \E k \in Ids : Pending(store'[k], s)
    BY DEF Alive, Pending, SchedulesOf, Repeats, ScheduleOptions, Merge, Every, Has
  <2>1. CASE s \in SchedulesOf(store[i])
    <3>1. Repeat(store[i].options)
      BY <2>1 DEF SchedulesOf, Repeats, Repeat
    <3>2. PICK k \in Ids : IsNext(store'[k], store[i].name, store[i].options)
      BY <1>6, <3>1
    <3>3. Pending(store'[k], s)
      BY <2>1, <3>2, NextIsPending
    <3>4. QED BY <3>3
  <2>2. CASE s \notin SchedulesOf(store[i])
    <3>1. PICK k \in Ids : Pending(store[k], s)
      BY <1>1, <2>2 DEF IInv, Alive, lifecycle
    <3>2. k # i
      BY <2>2, <3>1 DEF Pending
    <3>3. store'[k] = store[k]
      BY <1>3, <1>6, <3>1, <3>2 DEF Pending
    <3>4. QED BY <3>1, <3>3
  <2>3. QED BY <2>1, <2>2
<1>11. QED BY <1>6, <1>8, <1>9, <1>10 DEF IInv, StoreOK, NextUnique

(* A loop is done with a job.                                                 *)
LEMMA LoopIsDone ==
  ASSUME IInv, NEW i \in Ids, worker' = [worker EXCEPT ![i] = NoLoop]
  PROVE  /\ worker'[i] = NoLoop /\ worker' \in [Ids -> AllLoops \cup {NoLoop}]
         /\ \A k \in Ids : worker'[k] = worker[k] \/ (k = i /\ worker'[k] = NoLoop)
BY DEF IInv, TypeOK

(* Jobs that are not pending leave while a loop is done with one of them or    *)
(* none.                                                                      *)
LEMMA LeaveOK ==
  ASSUME IInv, NEW gone \in SUBSET Ids, Clear(gone), UNCHANGED <<lifecycle, cut>>,
         \A k \in gone : ~Kept(k, {"waiting", "delayed"}),
         worker' \in [Ids -> AllLoops \cup {NoLoop}],
         \A k \in Ids : worker'[k] = worker[k] \/ worker'[k] = NoLoop
  PROVE  IInv'
<1>1. StoreOK(store') /\ \A k \in Ids : store'[k] = IF k \in gone THEN NoJob ELSE store[k]
  BY ClearedOK DEF IInv, Clear
<1>2. TypeOK'
  BY <1>1 DEF IInv, TypeOK, Clear, lifecycle, StoreOK, JobOK
<1>3. WorkersOK'
  BY <1>1 DEF IInv, WorkersOK, lifecycle
<1>4. ASSUME NEW k \in Ids, NEW s \in initialized' \ cut', Pending(store[k], s)
      PROVE  Pending(store'[k], s)
  BY <1>1, <1>4 DEF Pending, Kept
<1>5. Alive'
  BY <1>4, AliveKept DEF IInv, lifecycle
<1>6. QED BY <1>1, <1>2, <1>3, <1>5 DEF IInv, StoreOK, NextUnique

LEMMA CompleteOK ==
  ASSUME IInv, NEW i \in Ids, Complete(i)
  PROVE  IInv'
<1>1. /\ worker[i] # NoLoop /\ worker' = [worker EXCEPT ![i] = NoLoop] /\ UNCHANGED <<lifecycle, cut>>
      /\ store[i] # NoJob => store[i].state = "active" /\ JobOK(store[i])
  BY DEF Complete, IInv, WorkersOK, StoreOK
<1>2. CASE store[i] # NoJob /\ ~RemoveOnComplete(store[i].options)
  <2> DEFINE job == [store[i] EXCEPT !.state = "completed"]
  <2>1. /\ store' = [store EXCEPT ![i] = job] /\ UNCHANGED removing
        /\ removing' \subseteq Ids
    BY <1>2 DEF Complete, IInv, TypeOK
  <2>2. JobOK(job)
    BY <1>1, <1>2 DEF JobOK, JobRecords, States
  <2>3. /\ job # NoJob /\ job.name = store[i].name /\ job.options = store[i].options
        /\ job.state = "completed"
    BY <1>1, <1>2, <2>2, JobsAssumption DEF JobOK, JobRecords
  <2> HIDE DEF job
  <2>4. JobStep(i, job)
    BY <1>1, <1>2, <2>1, <2>2, <2>3, LoopIsDone DEF JobStep
  <2>5. QED BY <2>4, StepOK
<1>3. CASE ~(store[i] # NoJob /\ ~RemoveOnComplete(store[i].options))
  <2>1. Clear({i})
    BY <1>3 DEF Complete
  <2>2. \A k \in {i} : ~Kept(k, {"waiting", "delayed"})
    BY <1>1 DEF Kept
  <2>3. /\ worker' \in [Ids -> AllLoops \cup {NoLoop}]
        /\ \A k \in Ids : worker'[k] = worker[k] \/ worker'[k] = NoLoop
    BY <1>1, LoopIsDone
  <2>4. {i} \in SUBSET Ids
    OBVIOUS
  <2>5. QED BY <1>1, <2>1, <2>2, <2>3, <2>4, LeaveOK
<1>4. QED BY <1>2, <1>3

(* A job whose last try failed stays as failed, or older failed jobs leave.    *)
LEMMA LastTryOK ==
  ASSUME IInv, NEW i \in Ids, NEW job, NEW gone \in SUBSET Ids,
         store[i] # NoJob, JobOK(job), job # NoJob, job.state = "failed",
         store[i].state = "active", worker' = [worker EXCEPT ![i] = NoLoop],
         \A k \in gone : Kept(k, {"failed"}),
         store' = [k \in Ids |-> IF k \in gone THEN NoJob ELSE [store EXCEPT ![i] = job][k]],
         removing' = removing \ gone, UNCHANGED <<lifecycle, cut>>
  PROVE  IInv'
<1> DEFINE t == [store EXCEPT ![i] = job]
<1>1. StoreOK(t)
  BY ChangedOK DEF IInv, IsNext
<1>2. t[i] = job /\ \A k \in Ids \ {i} : t[k] = store[k]
  BY DEF IInv, TypeOK
<1>3. store' = [k \in Ids |-> IF k \in gone THEN NoJob ELSE t[k]]
  OBVIOUS
<1> HIDE DEF t
<1>4. StoreOK(store')
  BY <1>1, <1>3, ClearedOK
<1>5. \A k \in Ids : /\ store'[k] \in {NoJob, store[k]} \/ (k = i /\ store'[k] = job)
                     /\ store'[k] # store[k] => k = i \/ (store[k] # NoJob /\ store[k].state = "failed")
  BY <1>2, <1>3 DEF Kept
<1>6. /\ worker'[i] = NoLoop /\ worker' \in [Ids -> AllLoops \cup {NoLoop}]
      /\ \A k \in Ids : worker'[k] = worker[k] \/ (k = i /\ worker'[k] = NoLoop)
  BY LoopIsDone
<1>7. TypeOK'
  BY <1>4, <1>6 DEF IInv, TypeOK, lifecycle, StoreOK, JobOK
<1>8. WorkersOK'
  BY <1>5, <1>6 DEF IInv, WorkersOK, lifecycle
<1>9. ASSUME NEW k \in Ids, NEW s \in initialized' \ cut', Pending(store[k], s)
      PROVE  Pending(store'[k], s)
  <2>1. store'[k] = store[k]
    BY <1>5, <1>9 DEF Pending
  <2>2. QED BY <1>9, <2>1
<1>10. Alive'
  BY <1>9, AliveKept DEF IInv, lifecycle
<1>11. QED BY <1>4, <1>7, <1>8, <1>10 DEF IInv, StoreOK, NextUnique

(* Only the state and the number of tries of a job change when a try ended.    *)
Ended(job, s, made) == [job EXCEPT !.state = s, !.made = made]
LEMMA EndedOK ==
  ASSUME NEW job \in JobRecords, NEW s \in States, NEW made \in Nat
  PROVE  /\ Ended(job, s, made) \in JobRecords
         /\ Ended(job, s, made).name = job.name /\ Ended(job, s, made).options = job.options
         /\ Ended(job, s, made).state = s /\ Ended(job, s, made).made = made
         /\ Ended(job, s, made).due = job.due
<1> DEFINE half == [job EXCEPT !.state = s]
<1>1. /\ half \in JobRecords /\ half.name = job.name /\ half.options = job.options
      /\ half.state = s /\ half.due = job.due
  BY DEF JobRecords
<1> HIDE DEF half
<1>2. LET ended == [half EXCEPT !.made = made]
      IN  /\ ended \in JobRecords /\ ended.name = job.name /\ ended.options = job.options
          /\ ended.state = s /\ ended.made = made /\ ended.due = job.due
  BY <1>1 DEF JobRecords
<1>3. QED BY <1>2 DEF half, Ended

LEMMA FailOK ==
  ASSUME IInv, NEW i \in Ids, Fail(i)
  PROVE  IInv'
<1> DEFINE made == store[i].made + 1
           ended(s) == Ended(store[i], s, made)
<1>1. /\ worker[i] # NoLoop /\ worker' = [worker EXCEPT ![i] = NoLoop] /\ UNCHANGED <<lifecycle, cut>>
      /\ store[i] # NoJob => store[i].state = "active" /\ JobOK(store[i])
  BY DEF Fail, IInv, WorkersOK, StoreOK
<1>0. store[i] # NoJob => made \in Nat \ {0}
  BY <1>1 DEF JobOK, JobRecords
<1>2. CASE store[i] = NoJob /\ UNCHANGED <<store, removing>>
  <2>1. Clear({})
    BY <1>2 DEF Clear, IInv, TypeOK
  <2>2. /\ worker' \in [Ids -> AllLoops \cup {NoLoop}]
        /\ \A k \in Ids : worker'[k] = worker[k] \/ worker'[k] = NoLoop
    BY <1>1, LoopIsDone
  <2>3. {} \in SUBSET Ids /\ \A k \in {} : ~Kept(k, {"waiting", "delayed"})
    OBVIOUS
  <2>4. QED BY <1>1, <2>1, <2>2, <2>3, LeaveOK
<1>3. CASE /\ store[i] # NoJob /\ made < Attempts(store[i].options)
           /\ store' = [store EXCEPT ![i] = ended("delayed")] /\ UNCHANGED removing
  <2> DEFINE job == ended("delayed")
  <2>1. /\ job \in JobRecords /\ job.name = store[i].name /\ job.options = store[i].options
        /\ job.state = "delayed" /\ job.made = made /\ made \in Nat \ {0} /\ job.due = store[i].due
    <3>1. store[i] \in JobRecords /\ made \in Nat /\ made \in Nat \ {0} /\ "delayed" \in States
      BY <1>0, <1>1, <1>3 DEF JobOK, States
    <3> HIDE DEF made
    <3>2. QED BY <3>1, EndedOK
  <2>2. made < Attempts(store[i].options) => 
          Has(store[i].options, "retryAttempts") /\ made <= store[i].options.retryAttempts
    BY <1>1, <1>3, <2>1, JobsAssumption DEF Attempts, JobOK, JobRecords
  <2>3. JobOK(job) /\ job # NoJob
    BY <1>1, <1>3, <2>1, <2>2, JobsAssumption DEF JobOK
  <2>4. removing' \subseteq Ids
    BY <1>3 DEF IInv, TypeOK
  <2>5. store' = [store EXCEPT ![i] = job]
    BY <1>3
  <2> HIDE DEF job, made
  <2>6. JobStep(i, job)
    BY <1>1, <1>3, <2>1, <2>3, <2>4, <2>5, LoopIsDone DEF JobStep
  <2>7. QED BY <2>6, StepOK
<1>4. ASSUME NEW gone \in SUBSET {k \in Ids : Kept(k, {"failed"})}, store[i] # NoJob,
             store' = [k \in Ids |-> IF k \in gone THEN NoJob ELSE [store EXCEPT ![i] = ended("failed")][k]],
             removing' = removing \ gone
      PROVE  IInv'
  <2> DEFINE job == ended("failed")
  <2>1. job \in JobRecords /\ job.options = store[i].options /\ job.state = "failed" /\ job.due = store[i].due
    <3>1. store[i] \in JobRecords /\ made \in Nat /\ made \in Nat \ {0} /\ "failed" \in States
      BY <1>0, <1>1, <1>4 DEF JobOK, States
    <3> HIDE DEF made
    <3>2. QED BY <3>1, EndedOK
  <2>2. JobOK(job) /\ job # NoJob
    BY <1>1, <1>4, <2>1, JobsAssumption DEF JobOK
  <2>3. store' = [k \in Ids |-> IF k \in gone THEN NoJob ELSE [store EXCEPT ![i] = job][k]]
    BY <1>4
  <2>4. gone \in SUBSET Ids /\ \A k \in gone : Kept(k, {"failed"})
    OBVIOUS
  <2> HIDE DEF job
  <2>5. QED BY <1>1, <1>4, <2>1, <2>2, <2>3, <2>4, LastTryOK
<1>5. \A s : [store EXCEPT ![i].state = s, ![i].made = made] = [store EXCEPT ![i] = ended(s)]
  BY DEF IInv, TypeOK, Ended
<1> HIDE DEF ended
<1>6. \/ store[i] = NoJob /\ UNCHANGED <<store, removing>>
      \/ /\ store[i] # NoJob /\ made < Attempts(store[i].options)
         /\ store' = [store EXCEPT ![i].state = "delayed", ![i].made = made] /\ UNCHANGED removing
      \/ \E gone \in SUBSET {k \in Ids : Kept(k, {"failed"})} :
           /\ store[i] # NoJob /\ removing' = removing \ gone
           /\ store' = [k \in Ids |-> IF k \in gone THEN NoJob
                                     ELSE [store EXCEPT ![i].state = "failed", ![i].made = made][k]]
  BY DEF Fail
<1>7. QED
  BY <1>2, <1>3, <1>4, <1>5, <1>6
-----------------------------------------------------------------------------
LEMMA CloseOK ==
  ASSUME IInv, Finalize \/ \E q \in Queues : CloseQueue(q) \/ CloseFails(q)
  PROVE  IInv'
<1>1. /\ UNCHANGED <<initialized, store, worker, removing, cut>> /\ open' \subseteq open
      /\ process' \in {"closing", "closed", "rejected"}
  BY DEF Finalize, CloseQueue, CloseFails
<1>2. TypeOK' /\ StoreOK(store)' /\ Alive'
  BY <1>1 DEF IInv, TypeOK, StoreOK, NextUnique, Alive
<1>3. \A i \in Ids : worker[i] # NoLoop => worker[i][1] \in Queues /\ worker[i] \in Loops(worker[i][1])
  BY LoopHasQueue DEF IInv, TypeOK
<1>4. WorkersOK'
  <2>1. CASE Finalize
    BY <1>3, <2>1 DEF Finalize, IInv, WorkersOK
  <2>2. ASSUME NEW q \in Queues, CloseQueue(q) PROVE WorkersOK'
    <3>1. \A i \in Ids : worker[i] # NoLoop => worker[i][1] # q
      BY <1>3, <2>2 DEF CloseQueue
    <3>2. QED BY <2>2, <3>1 DEF CloseQueue, IInv, WorkersOK
  <2>3. ASSUME NEW q \in Queues, CloseFails(q) PROVE WorkersOK'
    BY <2>3 DEF CloseFails, IInv, WorkersOK
  <2>4. QED BY <2>1, <2>2, <2>3
<1>5. QED BY <1>2, <1>4 DEF IInv

LEMMA CrashOK ==
  ASSUME IInv, Crash \/ Restart
  PROVE  IInv'
<1>1. TypeOK'
  BY DEF Crash, Restart, IInv, TypeOK
<1>2. StoreOK(store)'
  BY DEF Crash, Restart, IInv, StoreOK, NextUnique
<1>3. WorkersOK'
  BY DEF Crash, Restart, IInv, WorkersOK
<1>4. Alive'
  BY DEF Crash, Restart, Alive
<1>5. QED BY <1>1, <1>2, <1>3, <1>4 DEF IInv

-----------------------------------------------------------------------------
(* Jobs, loops and schedules are in order in every state of every behaviour.   *)
THEOREM Invariance == Spec => []IInv
<1>1. Init => IInv
  BY Initially
<1>2. IInv /\ [Next]_vars => IInv'
  <2> SUFFICES ASSUME IInv, [Next]_vars PROVE IInv'
    OBVIOUS
  <2>1. ASSUME NEW j \in JobNames, NEW over \in Overrides, PerformLater(j, over) PROVE IInv'
    BY <2>1, PerformLaterOK
  <2>2. ASSUME NEW s \in Schedules, InitializeSchedule(s) PROVE IInv'
    BY <2>2, InitializeScheduleOK
  <2>3. ASSUME NEW i \in Ids, FindJob(i) \/ RemoveFound(i) PROVE IInv'
    BY <2>3, RemovalOK
  <2>4. ASSUME NEW i \in Ids, DueComes(i) \/ Promote(i) \/ Recover(i) PROVE IInv'
    BY <2>4, TimeOK
  <2>5. ASSUME NEW q \in Queues, FindCompleted(q) \/ DeleteQueue(q) PROVE IInv'
    BY <2>5, QueueCallsOK
  <2>6. ASSUME NEW i \in Ids, NEW l \in AllLoops, Start(i, l) PROVE IInv'
    BY <2>6, StartOK
  <2>7. ASSUME NEW i \in Ids, Complete(i) \/ Fail(i) PROVE IInv'
    BY <2>7, CompleteOK, FailOK
  <2>8. CASE Finalize \/ \E q \in Queues : CloseQueue(q) \/ CloseFails(q)
    BY <2>8, CloseOK
  <2>9. CASE Crash \/ Restart
    BY <2>9, CrashOK
  <2>10. CASE UNCHANGED vars
    BY <2>10 DEF vars, IInv, TypeOK, StoreOK, NextUnique, WorkersOK, Alive
  <2>11. QED
    BY <2>1, <2>2, <2>3, <2>4, <2>5, <2>6, <2>7, <2>8, <2>9, <2>10 DEF Next
<1>3. QED
  BY <1>1, <1>2, PTL DEF Spec

(* The variables keep their types.                                            *)
THEOREM TypeCorrect == Spec => []TypeOK
<1>1. IInv => TypeOK
  BY DEF IInv
<1>2. QED BY <1>1, Invariance, PTL

(* A queue performs one job at a time: it has one loop, whatever the number of *)
(* the configured jobs.                                                       *)
THEOREM OneJobPerQueue == Spec => []OneAtATime
<1>1. ASSUME IInv PROVE OneAtATime
  <2> SUFFICES ASSUME NEW i \in Ids, NEW j \in Ids, worker[i] # NoLoop, worker[j] # NoLoop,
                      worker[i][1] = worker[j][1]
               PROVE  i = j
    BY DEF OneAtATime
  <2>1. worker[i] \in AllLoops /\ worker[j] \in AllLoops
    BY <1>1 DEF IInv, TypeOK
  <2>2. worker[i] = worker[j]
    BY <2>1, LoopHasQueue
  <2>3. QED BY <1>1, <2>2 DEF IInv, WorkersOK
<1>2. QED BY <1>1, Invariance, PTL

(* A job is not tried again unless its options ask for it, nor too often.      *)
THEOREM RetriesBounded == Spec => []RetriedAsAsked
<1>1. IInv => RetriedAsAsked
  BY DEF IInv, StoreOK, JobOK, RetriedAsAsked
<1>2. QED BY <1>1, Invariance, PTL

(* No job that does not repeat is performed before the time it was put off to. *)
THEOREM DelaysHold == Spec => []NotBeforeDue
<1>1. IInv => NotBeforeDue
  BY DEF IInv, StoreOK, JobOK, WorkersOK, NotBeforeDue
<1>2. QED BY <1>1, Invariance, PTL

(* A schedule that no caller cuts has a next job, and one only.                *)
THEOREM SchedulesSurvive == Spec => []SchedulesGoOn
<1>1. ASSUME IInv PROVE SchedulesGoOn
  <2> SUFFICES ASSUME NEW s \in Schedules
               PROVE  /\ \A i, j \in Ids : /\ IsNext(store[i], s.jobName, ScheduleOptions(s))
                                          /\ IsNext(store[j], s.jobName, ScheduleOptions(s)) => i = j
                      /\ s \in initialized \ cut =>
                           \E i \in Ids : s \in SchedulesOf(store[i]) /\ Kept(i, {"waiting", "delayed"})
    BY DEF SchedulesGoOn
  <2>1. ASSUME NEW i \in Ids, NEW j \in Ids, IsNext(store[i], s.jobName, ScheduleOptions(s)),
               IsNext(store[j], s.jobName, ScheduleOptions(s))
        PROVE  i = j
    <3>1. /\ IsNext(store[i], store[i].name, store[i].options)
          /\ IsNext(store[j], store[i].name, store[i].options) /\ store[i] # NoJob
      BY <2>1 DEF IsNext, Repeats
    <3>2. QED BY <1>1, <3>1 DEF IInv, StoreOK, NextUnique
  <2>2. s \in initialized \ cut =>
          \E i \in Ids : s \in SchedulesOf(store[i]) /\ Kept(i, {"waiting", "delayed"})
    BY <1>1 DEF IInv, Alive, Pending, Kept
  <2>3. QED BY <2>1, <2>2
<1>2. QED BY <1>1, Invariance, PTL

(* finalize() resolves only when no job is performed any more.                 *)
THEOREM CloseWaits == Spec => []ClosedIsIdle
<1>1. IInv => ClosedIsIdle
  BY DEF IInv, WorkersOK, ClosedIsIdle
<1>2. QED BY <1>1, Invariance, PTL
=============================================================================
