----------------------------- MODULE AppLifecycle -----------------------------
(* One process of the application from its command line to its exit: a server *)
(* (AppRunner.runCli) or an accessor command such as db:migrate               *)
(* (AsyncronousAppAccessorRunner).  The chain of awaits of the run is pc; what *)
(* it awaits, or stopped awaiting, completes in any order beside it: schedules *)
(* sent to Redis, the two DataSources, requests, the finalizers.              *)
CONSTANTS
  Schedules,   \* the configured job schedules
  Requests,    \* requests the server may accept before it is stopped
  Callbacks    \* what commands do: "database" initializes the data mapper
               \* (db:*, storages:drop), "plain" does not (seed, task, queues:*)

ASSUME CallbacksAssumption == Callbacks \subseteq {"database", "plain"}

VARIABLES
  mode,        \* "server" or the callback of the command
  pc,          \* where the run waits
  pending,     \* schedules whose queue.add has not settled
  scheduled,   \* schedules in the queue
  jobsFailed,  \* JobSchedulesInitializer has rejected
  source,      \* the DataSource of the initializer and the callback's one
  dataSource,  \* the field of the TypeOrmDataMapper: the DataSource it knows
  server, queue,
  requests,    \* [Requests -> ...]
  failures,    \* parts of the run that threw
  stopFailed,  \* a finalizer has rejected
  exit         \* "no", "normal", "error"

vars == <<mode, pc, pending, scheduled, jobsFailed, source, dataSource, server, queue,
          requests, failures, stopFailed, exit>>
jobs == <<pending, scheduled, jobsFailed>>
mapper == <<source, dataSource>>

Owners == {"initializer", "callback"}
SourceStates == {"none", "migrations", "connecting", "open", "failed", "closing", "closed"}

TypeOK ==
  /\ mode \in Callbacks \cup {"server"}
  /\ pc \in {"start", "parallel", "listen", "version", "up", "callback", "rejected", "stop",
             "stopping", "stopped"}
  /\ pending \subseteq Schedules /\ scheduled \subseteq Schedules /\ jobsFailed \in BOOLEAN
  /\ source \in [Owners -> SourceStates] /\ dataSource \in Owners \cup {"none"}
  /\ server \in {"none", "listening", "closing", "closed"}
  /\ queue \in {"open", "closing", "closed"}
  /\ requests \in [Requests -> {"none", "handling", "served", "error"}]
  /\ failures \subseteq {"start", "callback", "stop"} /\ stopFailed \in BOOLEAN
  /\ exit \in {"no", "normal", "error"}

(* The queues connect when the application is instantiated.                   *)
Init ==
  /\ mode \in Callbacks \cup {"server"} /\ pc = "start"
  /\ pending = {} /\ scheduled = {} /\ jobsFailed = FALSE
  /\ source = [o \in Owners |-> "none"] /\ dataSource = "none"
  /\ server = "none" /\ queue = "open" /\ requests = [r \in Requests |-> "none"]
  /\ failures = {} /\ stopFailed = FALSE /\ exit = "no"

Running == exit = "no"
Source == IF dataSource = "none" THEN "none" ELSE source[dataSource]

-----------------------------------------------------------------------------
(* TypeOrmDataMapper.initialize reads the migrations folder before it sets    *)
(* the field, and connects after it.                                          *)
CallInitialize(o) == source' = [source EXCEPT ![o] = "migrations"] /\ UNCHANGED dataSource

\* Mutant: the field takes what initialize awaits.
MigrationsReadRaw(o) ==
  /\ Running /\ source[o] = "migrations"
  /\ source' = [source EXCEPT ![o] = "connecting"] /\ dataSource' = source[o]
  /\ UNCHANGED <<mode, pc, jobs, server, queue, requests, failures, stopFailed, exit>>

MigrationsRead(o) ==
  /\ Running /\ source[o] = "migrations"
  /\ source' = [source EXCEPT ![o] = "connecting"] /\ dataSource' = o
  /\ UNCHANGED <<mode, pc, jobs, server, queue, requests, failures, stopFailed, exit>>

Connects(o) ==
  /\ Running /\ source[o] = "connecting"
  /\ \E s \in {"open", "failed"} : source' = [source EXCEPT ![o] = s]
  /\ UNCHANGED <<mode, pc, jobs, dataSource, server, queue, requests, failures, stopFailed, exit>>

(* Redis answers queue.add of a schedule; after a close it can only fail.      *)
ScheduleSettles(s) ==
  /\ Running /\ s \in pending /\ pending' = pending \ {s}
  /\ \/ queue = "open" /\ scheduled' = scheduled \cup {s} /\ UNCHANGED jobsFailed
     \/ jobsFailed' = TRUE /\ UNCHANGED scheduled
  /\ UNCHANGED <<mode, pc, mapper, server, queue, requests, failures, stopFailed, exit>>

-----------------------------------------------------------------------------
(* The initializers of the sequence up to the ParallelHandler, whose handlers  *)
(* are called at once.                                                        *)
StartParallel ==
  /\ Running /\ pc = "start" /\ pc' = "parallel"
  /\ pending' = Schedules /\ UNCHANGED <<scheduled, jobsFailed>>
  /\ CallInitialize("initializer")
  /\ UNCHANGED <<mode, server, queue, requests, failures, stopFailed, exit>>

AfterParallel == pc' = IF mode = "server" THEN "listen" ELSE "version"

\* Mutants: the schedules are not awaited; failures are swallowed (allSettled).
ParallelIgnoresJobs ==
  /\ Running /\ pc = "parallel" /\ source["initializer"] = "open" /\ AfterParallel
  /\ UNCHANGED <<mode, jobs, mapper, server, queue, requests, failures, stopFailed, exit>>
ParallelSettled ==
  /\ Running /\ pc = "parallel" /\ pending = {} /\ source["initializer"] \in {"open", "failed"}
  /\ AfterParallel
  /\ UNCHANGED <<mode, jobs, mapper, server, queue, requests, failures, stopFailed, exit>>

ParallelResolves ==
  /\ Running /\ pc = "parallel"
  /\ pending = {} /\ ~jobsFailed /\ source["initializer"] = "open" /\ AfterParallel
  /\ UNCHANGED <<mode, jobs, mapper, server, queue, requests, failures, stopFailed, exit>>

\* Mutant: the rejection of the schedules does not reach the chain.
ParallelRejectsMapper ==
  /\ Running /\ pc = "parallel" /\ source["initializer"] = "failed"
  /\ pc' = "rejected" /\ failures' = failures \cup {"start"}
  /\ UNCHANGED <<mode, jobs, mapper, server, queue, requests, stopFailed, exit>>

(* Promise.all rejects with the first failure; the other handler goes on.      *)
ParallelRejects ==
  /\ Running /\ pc = "parallel" /\ (jobsFailed \/ source["initializer"] = "failed")
  /\ pc' = "rejected" /\ failures' = failures \cup {"start"}
  /\ UNCHANGED <<mode, jobs, mapper, server, queue, requests, stopFailed, exit>>

(* BaseServerFactory: a key or certificate that cannot be read, options that  *)
(* Node refuses, or a configurator that fails.                                *)
CreateServerFails ==
  /\ Running /\ pc = "listen"
  /\ pc' = "rejected" /\ failures' = failures \cup {"start"}
  /\ UNCHANGED <<mode, jobs, mapper, server, queue, requests, stopFailed, exit>>

(* ServerInitializer: an address in use is an 'error' event of the server, to *)
(* which nobody listens.                                                      *)
Listen ==
  /\ Running /\ pc = "listen"
  /\ \/ server' = "listening" /\ pc' = "version" /\ UNCHANGED <<failures, exit>>
     \/ exit' = "error" /\ UNCHANGED <<server, pc, failures>>
  /\ UNCHANGED <<mode, jobs, mapper, queue, requests, stopFailed>>

(* ModuleVersionVerifier; app.start() has resolved.                           *)
WriteVersion ==
  /\ Running /\ pc = "version"
  /\ pc' = IF mode = "server" THEN "up" ELSE "callback"
  /\ IF mode = "database" THEN CallInitialize("callback") ELSE UNCHANGED mapper
  /\ UNCHANGED <<mode, jobs, server, queue, requests, failures, stopFailed, exit>>

CallbackSettles ==
  /\ Running /\ pc = "callback" /\ pc' = "stop"
  /\ mode = "database" => source["callback"] \in {"open", "failed"}
  /\ \/ failures' = failures \cup {"callback"}
     \/ ~(mode = "database" /\ source["callback"] = "failed") /\ UNCHANGED failures
  /\ UNCHANGED <<mode, jobs, mapper, server, queue, requests, stopFailed, exit>>

(* A server's run rejects into Cli, which exits; a command goes to its finally. *)
StartRejects ==
  /\ Running /\ pc = "rejected"
  /\ IF mode = "server" THEN exit' = "error" /\ UNCHANGED pc
                        ELSE pc' = "stop" /\ UNCHANGED exit
  /\ UNCHANGED <<mode, jobs, mapper, server, queue, requests, failures, stopFailed>>

-----------------------------------------------------------------------------
StopAt == pc = "stop" \/ (mode = "server" /\ pc = "up")

\* Mutant: the data mapper is not among the finalizers.
StopLeavesMapper ==
  /\ Running /\ StopAt /\ pc' = "stopping" /\ queue' = "closing"
  /\ server' = IF server = "listening" THEN "closing" ELSE server
  /\ UNCHANGED <<mode, jobs, mapper, requests, failures, stopFailed, exit>>

(* App.stop: the ParallelFinalizer calls server.close, queue.close and         *)
(* dataSource.destroy; the last one rejects unless the source is connected.    *)
(* Who embeds the server may stop it once it is up.                           *)
Stop ==
  /\ Running /\ StopAt /\ pc' = "stopping" /\ queue' = "closing"
  /\ server' = IF server = "listening" THEN "closing" ELSE server
  /\ source' = [o \in Owners |->
                  IF o = dataSource /\ source[o] = "open" THEN "closing" ELSE source[o]]
  /\ stopFailed' = (Source \notin {"none", "open"})
  /\ UNCHANGED <<mode, jobs, dataSource, requests, failures, exit>>

SourceCloses(o) ==
  /\ Running /\ source[o] = "closing" /\ source' = [source EXCEPT ![o] = "closed"]
  /\ UNCHANGED <<mode, pc, jobs, dataSource, server, queue, requests, failures, stopFailed, exit>>

QueueCloses ==
  /\ Running /\ queue = "closing" /\ queue' = "closed"
  /\ UNCHANGED <<mode, pc, jobs, mapper, server, requests, failures, stopFailed, exit>>

(* server.close waits for the requests that are being handled.                *)
ServerCloses ==
  /\ Running /\ server = "closing" /\ server' = "closed"
  /\ \A r \in Requests : requests[r] # "handling"
  /\ UNCHANGED <<mode, pc, jobs, mapper, queue, requests, failures, stopFailed, exit>>

Finalized == queue = "closed" /\ server \in {"none", "closed"} /\ Source # "closing"

\* Mutant: the error is logged and not thrown again.
StopResolvesQuietly ==
  /\ Running /\ pc = "stopping" /\ ~stopFailed /\ Finalized
  /\ pc' = "stopped"
  /\ UNCHANGED <<mode, jobs, mapper, server, queue, requests, failures, stopFailed, exit>>

(* Then the error that was caught before the finally goes on to Cli.           *)
StopResolves ==
  /\ Running /\ pc = "stopping" /\ ~stopFailed /\ Finalized
  /\ pc' = "stopped" /\ exit' = IF failures = {} THEN exit ELSE "error"
  /\ UNCHANGED <<mode, jobs, mapper, server, queue, requests, failures, stopFailed>>

(* The finalizer's error replaces the one before it; Cli exits at once.        *)
StopRejects ==
  /\ Running /\ pc = "stopping" /\ stopFailed
  /\ failures' = failures \cup {"stop"} /\ exit' = "error"
  /\ UNCHANGED <<mode, pc, jobs, mapper, server, queue, requests, stopFailed>>

(* Node ends a process without anything left to wait for.                     *)
ProcessEnds ==
  /\ Running /\ pc = "stopped" /\ exit' = "normal"
  /\ pending = {} /\ \A o \in Owners : source[o] \in {"none", "failed", "closed"}
  /\ UNCHANGED <<mode, pc, jobs, mapper, server, queue, requests, failures, stopFailed>>

-----------------------------------------------------------------------------
Accept(r) ==
  /\ Running /\ server = "listening" /\ requests[r] = "none"
  /\ requests' = [requests EXCEPT ![r] = "handling"]
  /\ UNCHANGED <<mode, pc, jobs, mapper, server, queue, failures, stopFailed, exit>>

(* A route handler takes a repository from the data mapper and queries it.     *)
Handle(r) ==
  /\ Running /\ requests[r] = "handling"
  /\ requests' = [requests EXCEPT ![r] = IF Source = "open" THEN "served" ELSE "error"]
  /\ UNCHANGED <<mode, pc, jobs, mapper, server, queue, failures, stopFailed, exit>>

Chain ==
  \/ StartParallel \/ ParallelResolves \/ ParallelRejects
  \/ CreateServerFails \/ Listen \/ WriteVersion
  \/ CallbackSettles \/ StartRejects \/ StopResolves \/ StopRejects \/ ProcessEnds
DataMapper == \E o \in Owners : MigrationsRead(o) \/ Connects(o) \/ SourceCloses(o)
Outside == QueueCloses \/ ServerCloses \/ (\E s \in Schedules : ScheduleSettles(s))
Handling == \E r \in Requests : Handle(r)
Next ==
  \/ Chain \/ Stop \/ DataMapper \/ Outside \/ Handling
  \/ \E r \in Requests : Accept(r)

Spec == Init /\ [][Next]_vars

(* Continuations run; PostgreSQL, Redis and the handlers answer at last; a     *)
(* command always stops its application.  Nobody has to stop a server.        *)
Fairness ==
  /\ WF_vars(Chain) /\ WF_vars(pc = "stop" /\ Stop)
  /\ WF_vars(\E o \in Owners : MigrationsRead(o)) /\ WF_vars(\E o \in Owners : Connects(o))
  /\ WF_vars(\E o \in Owners : SourceCloses(o))
  /\ WF_vars(QueueCloses) /\ WF_vars(ServerCloses)
  /\ WF_vars(\E s \in Schedules : ScheduleSettles(s)) /\ WF_vars(Handling)
FairSpec == Spec /\ Fairness

-----------------------------------------------------------------------------
(* The server accepts requests only between a complete start and a stop: its   *)
(* schedules are queued and its database is connected.                        *)
ServesOnlyReady ==
  server = "listening" => scheduled = Schedules /\ Source = "open"

(* A request meets a data mapper without a connection only while the           *)
(* application stops (the finalizers run beside the requests in progress).     *)
NoDatabaseOnlyWhileStopping ==
  (\E r \in Requests : requests[r] = "error") => pc \in {"stopping", "stopped"}

(* When stop() has resolved in a run without errors, the queues, the server    *)
(* and the DataSource the mapper knows are closed.                            *)
StopReleases ==
  pc = "stopped" /\ failures = {} =>
    queue = "closed" /\ server \in {"none", "closed"} /\ Source \in {"none", "closed"}

(* Every part of a run that fails is seen in the exit code, whatever stop()    *)
(* does after it, and the connection attempt that fails is part of the run.    *)
FailureExits ==
  failures # {} \/ jobsFailed \/ (\E o \in Owners : source[o] = "failed") ~> exit = "error"

(* A server comes up or exits; a command's promise settles or it exits.        *)
RunSettles == <>(pc \in {"up", "stopped"} \/ exit # "no")

(* initializer.json: "Makes sure the data mapper disconnects from it's         *)
(* database when the application needs to stop."                              *)
StopDisconnects ==
  pc = "stopped" /\ failures = {} => \A o \in Owners : source[o] # "open"
=============================================================================
