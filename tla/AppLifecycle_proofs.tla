------------------------- MODULE AppLifecycle_proofs -------------------------
(* Proofs about AppLifecycle for any schedules, requests and kinds of commands. *)
(* The inductive invariant says what the run has behind it at each pc, and     *)
(* that nothing sets the data mapper's field once a run without errors stops.  *)
EXTENDS AppLifecycle, TLAPS

Settled == source["initializer"] = "open" /\ pending = {} /\ ~jobsFailed
Stopping == pc \in {"stopping", "stopped"}

StartInv ==
  /\ pc = "start" => /\ pending = {} /\ ~jobsFailed /\ source["initializer"] = "none"
  /\ pc # "start" /\ ~jobsFailed => pending \cup scheduled = Schedules
  /\ pc \in {"listen", "version", "up"} => Settled
  /\ pc \in {"start", "parallel", "listen", "version", "up"} => source["callback"] = "none"
  /\ pc \in {"listen", "up"} => mode = "server"
  /\ pc = "version" /\ mode = "server" => server = "listening"
  /\ pc = "rejected" => failures # {}

MapperInv ==
  /\ source["callback"] = "none" => dataSource # "callback"
  /\ source["initializer"] \in {"open", "failed", "connecting"} => dataSource # "none"
  /\ mode = "server" => source["callback"] = "none"
  /\ mode = "plain" => source["callback"] = "none"
  /\ source["callback"] \in {"connecting", "open", "failed"} => dataSource = "callback"
  /\ source["callback"] # "none" => source["initializer"] \in {"open", "closing", "closed"}

ServerInv ==
  /\ server = "listening" => pc \in {"version", "up"} /\ mode = "server"
  /\ server = "closing" => pc = "stopping"
  /\ \A r \in Requests : requests[r] = "handling" => server \in {"listening", "closing"}

StopInv ==
  /\ pc = "callback" => mode # "server" /\ Settled
  /\ pc = "callback" /\ mode = "database" => source["callback"] # "none"
  /\ pc = "stop" /\ failures = {} => Settled /\ Source = "open"
  /\ pc = "stop" \/ Stopping => \A o \in Owners :
       failures = {} => source[o] \notin {"migrations", "connecting"}
  /\ Stopping /\ failures = {} => ~stopFailed /\ Source \in {"closing", "closed"}
  /\ pc = "stopped" => queue = "closed" /\ server \in {"none", "closed"} /\ ~stopFailed
  /\ pc = "stopped" /\ failures = {} => Source = "closed"

IInv ==
  /\ TypeOK /\ StartInv /\ MapperInv /\ ServerInv /\ StopInv
  /\ ServesOnlyReady /\ NoDatabaseOnlyWhileStopping /\ StopReleases

LEMMA InitInv == Init => IInv
  BY DEF Init, IInv, TypeOK, StartInv, MapperInv, ServerInv, StopInv, ServesOnlyReady,
     NoDatabaseOnlyWhileStopping, StopReleases, Settled, Stopping, Source, Owners, SourceStates

LEMMA NextInv == IInv /\ [Next]_vars => IInv'
<1> SUFFICES ASSUME IInv, [Next]_vars PROVE IInv'
  OBVIOUS
<1> USE CallbacksAssumption DEF IInv, TypeOK, StartInv, MapperInv, ServerInv, StopInv, ServesOnlyReady,
        NoDatabaseOnlyWhileStopping, StopReleases, Settled, Stopping, Source, Owners,
        SourceStates, Running, jobs, mapper
<1>1. CASE StartParallel
  BY <1>1 DEF StartParallel, CallInitialize
<1>2. CASE ParallelResolves
  BY <1>2 DEF ParallelResolves, AfterParallel
<1>3. CASE ParallelRejects
  BY <1>3 DEF ParallelRejects
<1>4. CASE Listen
  BY <1>4 DEF Listen
<1>5. CASE WriteVersion
  BY <1>5 DEF WriteVersion, CallInitialize
<1>6. CASE CallbackSettles
  BY <1>6 DEF CallbackSettles
<1>7. CASE StartRejects
  <2>1. TypeOK'
    BY <1>7 DEF StartRejects
  <2>2. StartInv'
    BY <1>7 DEF StartRejects
  <2>3. MapperInv'
    BY <1>7 DEF StartRejects
  <2>4. ServerInv'
    BY <1>7 DEF StartRejects
  <2>5. StopInv'
    BY <1>7 DEF StartRejects
  <2>6. (ServesOnlyReady /\ NoDatabaseOnlyWhileStopping /\ StopReleases)'
    BY <1>7 DEF StartRejects
  <2> QED  BY <2>1, <2>2, <2>3, <2>4, <2>5, <2>6
<1>8. CASE StopResolves
  BY <1>8 DEF StopResolves, Finalized
<1>9. CASE StopRejects
  BY <1>9 DEF StopRejects
<1>10. CASE ProcessEnds
  BY <1>10 DEF ProcessEnds
<1>11. CASE Stop
  BY <1>11 DEF Stop, StopAt
<1>12. CASE QueueCloses
  BY <1>12 DEF QueueCloses
<1>13. CASE ServerCloses
  BY <1>13 DEF ServerCloses
<1>14. ASSUME NEW o \in Owners, MigrationsRead(o) PROVE IInv'
  <2>1. TypeOK'
    BY <1>14 DEF MigrationsRead
  <2>2. StartInv'
    BY <1>14 DEF MigrationsRead
  <2>3. MapperInv'
    BY <1>14 DEF MigrationsRead
  <2>4. ServerInv'
    BY <1>14 DEF MigrationsRead
  <2>5. StopInv'
    BY <1>14 DEF MigrationsRead
  <2>6. (ServesOnlyReady /\ NoDatabaseOnlyWhileStopping /\ StopReleases)'
    BY <1>14 DEF MigrationsRead
  <2> QED  BY <2>1, <2>2, <2>3, <2>4, <2>5, <2>6
<1>15. ASSUME NEW o \in Owners, Connects(o) PROVE IInv'
  BY <1>15 DEF Connects
<1>16. ASSUME NEW o \in Owners, SourceCloses(o) PROVE IInv'
  BY <1>16 DEF SourceCloses
<1>17. ASSUME NEW s \in Schedules, ScheduleSettles(s) PROVE IInv'
  <2>1. TypeOK'
    BY <1>17 DEF ScheduleSettles
  <2>2. StartInv'
    BY <1>17 DEF ScheduleSettles
  <2>3. MapperInv'
    BY <1>17 DEF ScheduleSettles
  <2>4. ServerInv'
    BY <1>17 DEF ScheduleSettles
  <2>5. StopInv'
    BY <1>17 DEF ScheduleSettles
  <2>6. (ServesOnlyReady /\ NoDatabaseOnlyWhileStopping /\ StopReleases)'
    BY <1>17 DEF ScheduleSettles
  <2> QED  BY <2>1, <2>2, <2>3, <2>4, <2>5, <2>6
<1>18. ASSUME NEW r \in Requests, Accept(r) PROVE IInv'
  BY <1>18 DEF Accept
<1>19. ASSUME NEW r \in Requests, Handle(r) PROVE IInv'
  BY <1>19 DEF Handle
<1>20. CASE CreateServerFails
  BY <1>20 DEF CreateServerFails
<1>21. CASE UNCHANGED vars
  BY <1>21 DEF vars
<1> QED
  BY <1>1, <1>2, <1>3, <1>4, <1>5, <1>6, <1>7, <1>8, <1>9, <1>10, <1>11, <1>12, <1>13, <1>14, <1>15, <1>16, <1>17, <1>18, <1>19, <1>20, <1>21
     DEF Next, Chain, DataMapper, Outside, Handling

(* The inductive invariant holds in every reachable state.                     *)
THEOREM Invariance == Spec => []IInv
  BY InitInv, NextInv, PTL DEF Spec

(* The variables keep their types.                                             *)
THEOREM TypeCorrect == Spec => []TypeOK
  BY Invariance, PTL DEF IInv

(* Requests are accepted only by an application that has started completely.   *)
THEOREM ServerIsReady == Spec => []ServesOnlyReady
  BY Invariance, PTL DEF IInv

(* Requests meet a disconnected data mapper only while the application stops.  *)
THEOREM DatabaseWhileServing == Spec => []NoDatabaseOnlyWhileStopping
  BY Invariance, PTL DEF IInv

(* A stop that resolves has closed what the application knows.                 *)
THEOREM StopIsComplete == Spec => []StopReleases
  BY Invariance, PTL DEF IInv
=============================================================================
