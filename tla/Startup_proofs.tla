--------------------------- MODULE Startup_proofs ---------------------------
(***************************************************************************)
(* Proofs about Startup: its types, what storages:drop leaves, when a new  *)
(* base URL is announced, what the parses of the command line agree on,    *)
(* and that every namespace is a map of its own.                           *)
(***************************************************************************)
EXTENDS Startup, FoldLemmas, FiniteSetTheorems

\* What is known of the process that is being set up.
SetupOK ==
    \A p \in Processes :
        /\ pc[p] \in {"setup", "instantiate"} =>
              /\ launch \in Launches
              /\ params = parseCliArgs(launch.argv, launch.env)
              /\ Runs(params)
              /\ \A q \in Processes : pc[q] \in {"setup", "instantiate"} => q = p
        /\ pc[p] = "instantiate" =>
              variables = resolveVariables(launch.argv, launch.env, params)

\* A process has a job once it is instantiated.
JobOK ==
    \A p \in Processes : pc[p] \notin {"off", "setup", "instantiate"} => job[p] \in Jobs

\* Only applications walk over a namespace.
WalkOK == \A p \in Processes : walking[p] # NoNamespace => RunsApplication(p)

\* What is in a storage while storages:drop runs: the walk still has to visit
\* it, it is to be deleted, or it was written since.
DropOK ==
    \A p \in Processes :
        /\ pc[p] = "collect" =>
              Present(StoreOf(p)) \subseteq waiting[p] \cup collected[p] \cup written[p]
        /\ pc[p] = "delete" =>
              Present(StoreOf(p)) \subseteq collected[p] \cup written[p]
        /\ pc[p] \notin {"delete", "collect", "stop"} => collected[p] = {}

IInv == TypeOK /\ SetupOK /\ JobOK /\ WalkOK /\ DropOK /\ DropLeavesOnlyLater /\ MoveIsAnnounced
---------------------------------------------------------------------------
(* The storage.                                                            *)

\* Keys of namespaces are told apart (EncodingNamespaceStorage.addNamespaceToKey).
LEMMA KeysApart ==
    \A n, m \in Namespaces, k, l \in Keys :
        /\ addNamespaceToKey(n, k) \in NamespacedKeys
        /\ addNamespaceToKey(n, k) = addNamespaceToKey(m, l) => n = m /\ k = l
BY EncodingAssumption DEF addNamespaceToKey, NamespacedKeys

\* Setting or deleting one key of one map leaves everything else.
LEMMA SetChanges ==
    ASSUME DataOK, NEW s \in Stores, NEW k \in NamespacedKeys,
           NEW v \in Values \cup {NoValue}, SetKey(s, k, v)
    PROVE  /\ DataOK'
           /\ \A t \in Stores, l \in NamespacedKeys :
                 data'[t][l] = IF t = s /\ l = k THEN v ELSE data[t][l]
BY DEF SetKey, DataOK

\* Every process has a store.
LEMMA StoreType == ASSUME NEW p \in Processes PROVE StoreOf(p) \in Stores
BY StorageAssumption DEF StoreOf

\* A write reaches its own store and is noted for the drops on that store.
LEMMA PutChanges ==
    ASSUME TypeOK, NEW p \in Processes, NEW n \in Namespaces, NEW k \in Keys,
           NEW v \in Values, Put(p, n, k, v)
    PROVE  /\ DataOK'
           /\ written' \in [Processes -> SUBSET NamespacedKeys]
           /\ \A t \in Stores, l \in NamespacedKeys :
                 data'[t][l] = IF t = StoreOf(p) /\ l = addNamespaceToKey(n, k)
                               THEN v ELSE data[t][l]
           /\ \A q \in Processes :
                 written'[q] = IF StoreOf(q) = StoreOf(p) /\ Dropping(q)
                               THEN written[q] \cup {addNamespaceToKey(n, k)} ELSE written[q]
<1>1. addNamespaceToKey(n, k) \in NamespacedKeys BY KeysApart
<1>2. SetKey(StoreOf(p), addNamespaceToKey(n, k), v) BY DEF Put, Set
<1>3. DataOK BY DEF TypeOK
<1>4. /\ DataOK'
      /\ \A t \in Stores, l \in NamespacedKeys :
            data'[t][l] = IF t = StoreOf(p) /\ l = addNamespaceToKey(n, k)
                          THEN v ELSE data[t][l]
    BY <1>1, <1>2, <1>3, StoreType, SetChanges
<1>5. written \in [Processes -> SUBSET NamespacedKeys] BY DEF TypeOK
<1>6. written' = [q \in Processes |->
                     IF StoreOf(q) = StoreOf(p) /\ Dropping(q)
                     THEN written[q] \cup {addNamespaceToKey(n, k)} ELSE written[q]]
    BY DEF Put
<1> QED BY <1>1, <1>4, <1>5, <1>6

---------------------------------------------------------------------------
(* The inductive invariant.                                                *)

\* No process runs yet.
LEMMA InitIInv == Init => IInv
<1> SUFFICES ASSUME Init PROVE IInv OBVIOUS
<1>1. TypeOK
    BY DEF Init, TypeOK, DataOK, Nothing
<1>2. SetupOK /\ JobOK /\ WalkOK /\ DropOK /\ DropLeavesOnlyLater /\ MoveIsAnnounced
    BY DEF Init, SetupOK, JobOK, WalkOK, DropOK, DropLeavesOnlyLater, MoveIsAnnounced
<1> QED BY <1>1, <1>2 DEF IInv

\* The job a process is instantiated with.
LEMMA InstantiatedJob ==
    ASSUME IInv, NEW p \in Processes, Instantiate(p)
    PROVE  [command |-> params.command,
            operand |-> OperandOf(launch.argv, params.command),
            baseUrl |-> variables.baseUrl,
            port    |-> variables.port] \in Jobs
<1>1. /\ launch \in Launches /\ params = parseCliArgs(launch.argv, launch.env)
      /\ variables = resolveVariables(launch.argv, launch.env, params)
      /\ params.command \in Commands \cup {Undefined}
    BY DEF IInv, SetupOK, Instantiate, Runs
<1>2. variables.baseUrl \in Values /\ variables.port \in Ports
    BY <1>1, LaunchAssumption
<1>3. OperandOf(launch.argv, params.command) \in Operands
    BY <1>1 DEF Operands
<1> QED BY <1>1, <1>2, <1>3 DEF Jobs

\* Every step keeps the types, action by action.
LEMMA TypePreserved == IInv /\ [Next]_vars => TypeOK'
<1> SUFFICES ASSUME IInv, [Next]_vars PROVE TypeOK' OBVIOUS
<1> USE DEF TypeOK, DataOK, Goto, vars, storage, walks, setup
<1>0. TypeOK BY DEF IInv
<1>1. CASE UNCHANGED vars BY <1>0, <1>1
<1>2. ASSUME NEW p \in Processes, Launch(p) PROVE TypeOK' BY <1>0, <1>2 DEF Launch
<1>3. ASSUME NEW p \in Processes, ResolveVariables(p) PROVE TypeOK'
    BY <1>0, <1>3 DEF ResolveVariables
<1>4. ASSUME NEW p \in Processes, Instantiate(p) PROVE TypeOK'
    BY <1>0, <1>4, InstantiatedJob DEF Instantiate
<1>5. ASSUME NEW p \in Processes, ReadBaseUrl(p) PROVE TypeOK'
    BY <1>0, <1>5 DEF ReadBaseUrl
<1>6. ASSUME NEW p \in Processes, RecordBaseUrl(p) PROVE TypeOK'
  <2>1. job[p].baseUrl \in Values BY <1>6 DEF IInv, JobOK, RecordBaseUrl, Jobs
  <2>2. DataOK' /\ written' \in [Processes -> SUBSET NamespacedKeys]
    BY <1>0, <1>6, <2>1, PutChanges, StorageAssumption DEF RecordBaseUrl
  <2> QED BY <1>0, <1>6, <2>2 DEF RecordBaseUrl, Raced
<1>7. ASSUME NEW p \in Processes, Listen(p) PROVE TypeOK' BY <1>0, <1>7 DEF Listen
<1>8. ASSUME NEW p \in Processes, WriteVersion(p) PROVE TypeOK'
  <2>1. DataOK' /\ written' \in [Processes -> SUBSET NamespacedKeys]
    BY <1>0, <1>8, PutChanges, StorageAssumption DEF WriteVersion
  <2> QED BY <1>0, <1>8, <2>1 DEF WriteVersion
<1>9. ASSUME NEW p \in Processes, NEW n \in AppNamespaces, NEW k \in AppKeys, AppSet(p, n, k)
      PROVE  TypeOK'
  <2>1. DataOK' /\ written' \in [Processes -> SUBSET NamespacedKeys]
    BY <1>0, <1>9, PutChanges, StorageAssumption DEF AppSet, AppNamespaces
  <2> QED BY <1>0, <1>9, <2>1 DEF AppSet
<1>10. ASSUME NEW p \in Processes, NEW n \in AppNamespaces, NEW k \in AppKeys, AppDelete(p, n, k)
       PROVE  TypeOK'
  <2>1. DataOK'
    BY <1>0, <1>10, SetChanges, StoreType, KeysApart, StorageAssumption
       DEF AppDelete, AppNamespaces, Delete
  <2> QED BY <1>0, <1>10, <2>1 DEF AppDelete
<1>11. ASSUME NEW p \in Processes, NEW n \in AppNamespaces, BeginWalk(p, n) PROVE TypeOK'
    BY <1>0, <1>11 DEF BeginWalk, Present
<1>12. ASSUME NEW p \in Processes, NEW k \in NamespacedKeys, NextEntry(p, k) PROVE TypeOK'
    BY <1>0, <1>12 DEF NextEntry
<1>13. ASSUME NEW p \in Processes, EndWalk(p) PROVE TypeOK' BY <1>0, <1>13 DEF EndWalk
<1>14. ASSUME NEW p \in Processes, BeginDrop(p) PROVE TypeOK'
    BY <1>0, <1>14 DEF BeginDrop, Present
<1>15. ASSUME NEW p \in Processes, NEW k \in NamespacedKeys, DropEntry(p, k) PROVE TypeOK'
    BY <1>0, <1>15 DEF DropEntry
<1>16. ASSUME NEW p \in Processes, DropCollected(p) PROVE TypeOK'
    BY <1>0, <1>16 DEF DropCollected
<1>17. ASSUME NEW p \in Processes, NEW k \in NamespacedKeys, DropDelete(p, k) PROVE TypeOK'
  <2>1. DataOK' BY <1>0, <1>17, SetChanges, StoreType DEF DropDelete
  <2>2. raced' \in [Processes -> BOOLEAN] BY <1>0, <1>17 DEF DropDelete, Raced
  <2> QED BY <1>0, <1>17, <2>1, <2>2 DEF DropDelete
<1>18. ASSUME NEW p \in Processes, Dropped(p) PROVE TypeOK' BY <1>0, <1>18 DEF Dropped
<1>19. ASSUME NEW p \in Processes, Exit(p) PROVE TypeOK'
  <2>1. DataOK' BY <1>0, <1>19, StorageAssumption DEF Exit, Nothing
  <2>2. launch' \in Launches \cup {NoLaunch} BY <1>0, <1>19 DEF Exit
  <2> QED BY <1>0, <1>19, <2>1, <2>2 DEF Exit
<1> QED
    BY <1>1, <1>2, <1>3, <1>4, <1>5, <1>6, <1>7, <1>8, <1>9, <1>10, <1>11, <1>12, <1>13, <1>14,
       <1>15, <1>16, <1>17, <1>18, <1>19
    DEF Next, Start, Use, Drop

\* Every step keeps what is known of the process that is set up, of the jobs and
\* of the walks.
LEMMA SetupPreserved == IInv /\ [Next]_vars => SetupOK' /\ JobOK' /\ WalkOK'
<1> SUFFICES ASSUME IInv, [Next]_vars PROVE SetupOK' /\ JobOK' /\ WalkOK' OBVIOUS
<1>a. /\ pc \in [Processes -> {"off", "setup", "instantiate", "read", "record", "listen",
                              "listening", "version", "up", "callback", "collect", "delete",
                              "stop"}]
      /\ job \in [Processes -> Jobs \cup {NoJob}]
      /\ walking \in [Processes -> AppNamespaces \cup {NoNamespace}]
    BY DEF IInv, TypeOK
<1>b. SetupOK /\ JobOK /\ WalkOK BY DEF IInv
<1> USE DEF SetupOK, JobOK, WalkOK, RunsApplication, RunsTask, Goto, vars, storage, walks, setup
<1>1. CASE UNCHANGED vars BY <1>b, <1>1
<1>2. ASSUME NEW p \in Processes, Launch(p) PROVE SetupOK' /\ JobOK' /\ WalkOK'
    BY <1>a, <1>b, <1>2 DEF Launch
<1>3. ASSUME NEW p \in Processes, ResolveVariables(p) PROVE SetupOK' /\ JobOK' /\ WalkOK'
    BY <1>a, <1>b, <1>3 DEF ResolveVariables
<1>4. ASSUME NEW p \in Processes, Instantiate(p) PROVE SetupOK' /\ JobOK' /\ WalkOK'
    BY <1>a, <1>b, <1>4, InstantiatedJob DEF Instantiate
<1>5. ASSUME NEW p \in Processes, ReadBaseUrl(p) PROVE SetupOK' /\ JobOK' /\ WalkOK'
    BY <1>a, <1>b, <1>5 DEF ReadBaseUrl
<1>6. ASSUME NEW p \in Processes, RecordBaseUrl(p) PROVE SetupOK' /\ JobOK' /\ WalkOK'
    BY <1>a, <1>b, <1>6 DEF RecordBaseUrl
<1>7. ASSUME NEW p \in Processes, Listen(p) PROVE SetupOK' /\ JobOK' /\ WalkOK'
    BY <1>a, <1>b, <1>7 DEF Listen
<1>8. ASSUME NEW p \in Processes, WriteVersion(p) PROVE SetupOK' /\ JobOK' /\ WalkOK'
    BY <1>a, <1>b, <1>8 DEF WriteVersion
<1>9. ASSUME NEW p \in Processes, Use(p) PROVE SetupOK' /\ JobOK' /\ WalkOK'
    BY <1>a, <1>b, <1>9 DEF Use, AppSet, AppDelete, BeginWalk, NextEntry, EndWalk
<1>10. ASSUME NEW p \in Processes, Drop(p) PROVE SetupOK' /\ JobOK' /\ WalkOK'
    BY <1>a, <1>b, <1>10 DEF Drop, BeginDrop, DropEntry, DropCollected, DropDelete, Dropped
<1>11. ASSUME NEW p \in Processes, Exit(p) PROVE SetupOK' /\ JobOK' /\ WalkOK'
  <2>1. SetupOK' BY <1>a, <1>b, <1>11 DEF Exit
  <2>2. JobOK' /\ WalkOK' BY <1>a, <1>b, <1>11 DEF Exit
  <2> QED BY <2>1, <2>2
<1> QED
    BY <1>1, <1>2, <1>3, <1>4, <1>5, <1>6, <1>7, <1>8, <1>9, <1>10, <1>11
    DEF Next, Start

---------------------------------------------------------------------------
(* storages:drop.                                                          *)

\* The data only grows by keys that are noted for the drop of q.
Noted(q) ==
    Dropping(q) =>
        /\ written[q] \subseteq written'[q]
        /\ Present(StoreOf(q))' \subseteq Present(StoreOf(q)) \cup written'[q]

\* A write is noted for the drops on its store ...
LEMMA PutNoted ==
    ASSUME TypeOK, NEW p \in Processes, NEW n \in Namespaces, NEW k \in Keys,
           NEW v \in Values, Put(p, n, k, v), UNCHANGED persistent, NEW q \in Processes
    PROVE  Noted(q)
<1> SUFFICES ASSUME Dropping(q)
             PROVE  /\ written[q] \subseteq written'[q]
                    /\ \A l \in NamespacedKeys :
                          data'[StoreOf(q)][l] # NoValue =>
                              data[StoreOf(q)][l] # NoValue \/ l \in written'[q]
    BY DEF Noted, Present, StoreOf
<1>1. StoreOf(q) \in Stores BY StoreType
<1> HIDE DEF Dropping
<1> QED BY <1>1, PutChanges

\* ... and a deletion adds nothing.
LEMMA DeleteNoted ==
    ASSUME TypeOK, NEW s \in Stores, NEW k \in NamespacedKeys, SetKey(s, k, NoValue),
           UNCHANGED <<persistent, written>>, NEW q \in Processes
    PROVE  Noted(q) /\ Present(s)' = Present(s) \ {k}
<1>1. \A t \in Stores, l \in NamespacedKeys :
         data'[t][l] = IF t = s /\ l = k THEN NoValue ELSE data[t][l]
    BY SetChanges DEF TypeOK
<1>2. StoreOf(q) \in Stores BY StoreType
<1>3. Noted(q) BY <1>1, <1>2 DEF Noted, Present, StoreOf
<1>4. Present(s)' = Present(s) \ {k} BY <1>1 DEF Present
<1> QED BY <1>3, <1>4

\* What the invariant says of the drop of q.
DropAt(q) ==
    /\ pc[q] = "collect" =>
          Present(StoreOf(q)) \subseteq waiting[q] \cup collected[q] \cup written[q]
    /\ pc[q] = "delete" => Present(StoreOf(q)) \subseteq collected[q] \cup written[q]
    /\ pc[q] \notin {"delete", "collect", "stop"} => collected[q] = {}
    /\ pc[q] = "stop" => Present(StoreOf(q)) \subseteq written[q]

\* The invariant of the drops, process by process.
LEMMA DropEach == DropOK /\ DropLeavesOnlyLater <=> \A q \in Processes : DropAt(q)
BY DEF DropOK, DropLeavesOnlyLater, DropAt

\* The drop of q is at the same place and has as much to visit and to delete,
\* or q was and is at something else.
LEMMA DropKept ==
    ASSUME NEW q, DropAt(q), Noted(q), UNCHANGED persistent,
           \/ pc'[q] = pc[q] /\ (pc[q] = "collect" => waiting'[q] = waiting[q])
           \/ ~Dropping(q) /\ ~Dropping(q)',
           collected'[q] = collected[q]
    PROVE  DropAt(q)'
<1>1. CASE ~Dropping(q) BY <1>1 DEF DropAt, Dropping
<1>2. CASE Dropping(q) BY <1>2 DEF DropAt, Noted, Dropping
<1> QED BY <1>1, <1>2

\* Every step keeps it.
LEMMA DropPreserved == IInv /\ [Next]_vars => (DropOK /\ DropLeavesOnlyLater)'
<1> SUFFICES ASSUME IInv, [Next]_vars, NEW q \in Processes PROVE DropAt(q)'
    BY DEF DropOK, DropLeavesOnlyLater, DropAt
<1>a. TypeOK /\ WalkOK /\ JobOK /\ DropAt(q) BY DropEach DEF IInv
<1>b. /\ pc \in [Processes -> {"off", "setup", "instantiate", "read", "record", "listen",
                              "listening", "version", "up", "callback", "collect", "delete",
                              "stop"}]
      /\ waiting \in [Processes -> SUBSET NamespacedKeys]
      /\ collected \in [Processes -> SUBSET NamespacedKeys]
    BY DEF IInv, TypeOK
<1> USE DEF Goto, vars, storage, walks, setup
<1>0. ASSUME UNCHANGED <<data, written, persistent>> PROVE Noted(q)
    BY <1>0 DEF Noted, Present, StoreOf
<1>1. CASE UNCHANGED vars
    BY <1>a, <1>1, <1>0, DropKept
<1>2. ASSUME NEW p \in Processes,
             \/ Launch(p) \/ ResolveVariables(p) \/ Instantiate(p) \/ ReadBaseUrl(p) \/ Listen(p)
      PROVE  DropAt(q)'
  <2>1. UNCHANGED <<data, written, persistent, collected, waiting>>
    BY <1>2 DEF Launch, ResolveVariables, Instantiate, ReadBaseUrl, Listen
  <2>2. \/ pc'[q] = pc[q]
        \/ ~Dropping(q) /\ ~Dropping(q)'
    BY <1>b, <1>2 DEF Launch, ResolveVariables, Instantiate, ReadBaseUrl, Listen, Dropping
  <2> QED BY <1>a, <1>0, <2>1, <2>2, DropKept
<1>3. ASSUME NEW p \in Processes, RecordBaseUrl(p) PROVE DropAt(q)'
  <2>1. job[p].baseUrl \in Values BY <1>a, <1>3 DEF JobOK, RecordBaseUrl, Jobs
  <2>2. Noted(q) BY <1>a, <1>3, <2>1, PutNoted, StorageAssumption DEF RecordBaseUrl
  <2>3. pc'[q] = pc[q] \/ (~Dropping(q) /\ ~Dropping(q)')
    BY <1>b, <1>3 DEF RecordBaseUrl, Dropping
  <2> QED BY <1>a, <1>3, <2>2, <2>3, DropKept DEF RecordBaseUrl
<1>4. ASSUME NEW p \in Processes, WriteVersion(p) PROVE DropAt(q)'
  <2>1. Noted(q) BY <1>a, <1>4, PutNoted, StorageAssumption DEF WriteVersion
  <2>2. pc'[q] = pc[q] \/ (~Dropping(q) /\ ~Dropping(q)')
    BY <1>b, <1>4 DEF WriteVersion, Dropping
  <2> QED BY <1>a, <1>4, <2>1, <2>2, DropKept DEF WriteVersion
<1>5. ASSUME NEW p \in Processes, NEW n \in AppNamespaces, NEW k \in AppKeys, AppSet(p, n, k)
      PROVE  DropAt(q)'
  <2>1. Noted(q) BY <1>a, <1>5, PutNoted, StorageAssumption DEF AppSet, AppNamespaces
  <2> QED BY <1>a, <1>5, <2>1, DropKept DEF AppSet
<1>6. ASSUME NEW p \in Processes, NEW n \in AppNamespaces, NEW k \in AppKeys, AppDelete(p, n, k)
      PROVE  DropAt(q)'
  <2>1. Noted(q)
    BY <1>a, <1>6, DeleteNoted, StoreType, KeysApart, StorageAssumption
       DEF AppDelete, AppNamespaces, Delete
  <2> QED BY <1>a, <1>6, <2>1, DropKept DEF AppDelete
<1>7. ASSUME NEW p \in Processes,
             \/ \E n \in AppNamespaces : BeginWalk(p, n)
             \/ \E k \in NamespacedKeys : NextEntry(p, k)
             \/ EndWalk(p)
      PROVE  DropAt(q)'
  <2>1. UNCHANGED <<data, written, persistent, collected, pc>>
    BY <1>7 DEF BeginWalk, NextEntry, EndWalk
  <2>2. RunsApplication(p) BY <1>a, <1>7 DEF BeginWalk, NextEntry, EndWalk, WalkOK
  <2>3. pc[q] = "collect" => waiting'[q] = waiting[q]
    BY <1>b, <1>7, <2>2 DEF BeginWalk, NextEntry, EndWalk, RunsApplication, RunsTask
  <2> QED BY <1>a, <1>0, <2>1, <2>3, DropKept
<1>8. ASSUME NEW p \in Processes,
             \/ BeginDrop(p) \/ DropCollected(p) \/ Dropped(p)
             \/ \E k \in NamespacedKeys : DropEntry(p, k)
      PROVE  DropAt(q)'
  <2>1. UNCHANGED <<data, written, persistent>>
    BY <1>8 DEF BeginDrop, DropCollected, Dropped, DropEntry
  <2>2. Present(StoreOf(q))' = Present(StoreOf(q)) BY <2>1 DEF Present, StoreOf
  <2>3. CASE p # q
    <3>1. pc'[q] = pc[q] /\ waiting'[q] = waiting[q] /\ collected'[q] = collected[q]
      BY <1>b, <1>8, <2>3 DEF BeginDrop, DropCollected, Dropped, DropEntry
    <3> QED BY <1>a, <1>0, <2>1, <3>1, DropKept
  <2>4. CASE p = q
    <3>1. CASE BeginDrop(p) BY <1>a, <1>b, <2>2, <2>4, <3>1 DEF BeginDrop, DropAt
    <3>2. CASE DropCollected(p)
      BY <1>a, <1>b, <2>1, <2>2, <2>4, <3>2 DEF DropCollected, Walked, DropAt
    <3>3. CASE Dropped(p) BY <1>a, <1>b, <2>1, <2>2, <2>4, <3>3 DEF Dropped, DropAt
    <3>4. CASE \E k \in NamespacedKeys : DropEntry(p, k)
      BY <1>a, <1>b, <2>1, <2>2, <2>4, <3>4 DEF DropEntry, DropAt
    <3> QED BY <1>8, <3>1, <3>2, <3>3, <3>4
  <2> QED BY <2>3, <2>4
<1>9. ASSUME NEW p \in Processes, NEW k \in NamespacedKeys, DropDelete(p, k) PROVE DropAt(q)'
  <2>1. Noted(q) /\ Present(StoreOf(p))' = Present(StoreOf(p)) \ {k}
    <3>1. Noted(q) /\ \A s \in Stores : s = StoreOf(p) => Present(s)' = Present(s) \ {k}
      BY <1>a, <1>9, DeleteNoted, StoreType DEF DropDelete
    <3>2. StoreOf(p)' = StoreOf(p) BY <1>9 DEF DropDelete, StoreOf
    <3>3. data'[StoreOf(p)] = (data[StoreOf(p)])' BY <3>2
    <3> QED BY <3>1, <3>2, StoreType DEF Present
  <2>2. CASE p # q
    <3>1. collected'[q] = collected[q] BY <1>b, <1>9, <2>2 DEF DropDelete
    <3> QED BY <1>a, <1>9, <2>1, <3>1, DropKept DEF DropDelete
  <2>3. CASE p = q BY <1>a, <1>b, <1>9, <2>1, <2>3 DEF DropDelete, DropAt
  <2> QED BY <2>2, <2>3
<1>10. ASSUME NEW p \in Processes, Exit(p) PROVE DropAt(q)'
  <2>1. CASE p # q
    <3>1. /\ pc'[q] = pc[q] /\ waiting'[q] = waiting[q]
          /\ collected'[q] = collected[q] /\ written'[q] = written[q]
      BY <1>a, <1>b, <1>10, <2>1 DEF Exit, TypeOK
    <3>2. data'[StoreOf(q)] = data[StoreOf(q)]
      BY <1>a, <1>10, <2>1, StorageAssumption DEF Exit, TypeOK, DataOK, StoreOf
    <3>3. Noted(q) BY <1>10, <3>1, <3>2 DEF Noted, Present, StoreOf, Exit
    <3> QED BY <1>a, <1>10, <3>1, <3>3, DropKept DEF Exit
  <2>2. CASE p = q BY <1>b, <1>10, <2>2 DEF Exit, DropAt
  <2> QED BY <2>1, <2>2
<1> QED
    BY <1>1, <1>2, <1>3, <1>4, <1>5, <1>6, <1>7, <1>8, <1>9, <1>10
    DEF Next, Start, Use, Drop

---------------------------------------------------------------------------
(* The base URL.                                                           *)

RecordedUrl(s) == data[s][addNamespaceToKey(SetupNamespace, BaseUrlKey)]

\* What the invariant says of the base URL verifier of q.
MoveAt(q) ==
    pc[q] = "record" /\ ~raced[q] =>
        (warned[q] <=> RecordedUrl(StoreOf(q)) \notin {NoValue, job[q].baseUrl})

\* The property, process by process.
LEMMA MoveEach == MoveIsAnnounced <=> \A q \in Processes : MoveAt(q)
BY DEF MoveIsAnnounced, MoveAt, RecordedUrl, Get

\* It holds on while nothing it speaks of changes.
LEMMA MoveKept ==
    ASSUME NEW q, MoveAt(q), UNCHANGED persistent,
           \/ /\ pc'[q] = pc[q] /\ raced'[q] = raced[q]
              /\ warned'[q] = warned[q] /\ job'[q] = job[q]
              /\ RecordedUrl(StoreOf(q))' = RecordedUrl(StoreOf(q))
           \/ pc'[q] # "record"
           \/ raced'[q]
    PROVE  MoveAt(q)'
BY DEF MoveAt, StoreOf

\* Any other key may be written and deleted.
LEMMA OtherKey ==
    ASSUME TypeOK, NEW s \in Stores, NEW n \in Namespaces, NEW k \in Keys,
           <<n, k>> # <<SetupNamespace, BaseUrlKey>>,
           NEW v \in Values \cup {NoValue}, SetKey(s, addNamespaceToKey(n, k), v),
           UNCHANGED persistent, NEW q \in Processes
    PROVE  RecordedUrl(StoreOf(q))' = RecordedUrl(StoreOf(q))
<1>1. /\ addNamespaceToKey(n, k) \in NamespacedKeys
      /\ addNamespaceToKey(SetupNamespace, BaseUrlKey) \in NamespacedKeys
      /\ addNamespaceToKey(n, k) # addNamespaceToKey(SetupNamespace, BaseUrlKey)
    BY KeysApart, StorageAssumption
<1>2. \A t \in Stores, l \in NamespacedKeys :
         data'[t][l] = IF t = s /\ l = addNamespaceToKey(n, k) THEN v ELSE data[t][l]
    BY <1>1, SetChanges DEF TypeOK
<1> QED BY <1>1, <1>2, StoreType DEF RecordedUrl, StoreOf

\* Every step keeps it.
LEMMA MovePreserved == IInv /\ [Next]_vars => MoveIsAnnounced'
<1> SUFFICES ASSUME IInv, [Next]_vars, NEW q \in Processes PROVE MoveAt(q)'
    BY DEF MoveIsAnnounced, MoveAt, RecordedUrl, Get
<1>a. TypeOK /\ JobOK /\ MoveAt(q) BY MoveEach DEF IInv
<1>b. /\ pc \in [Processes -> {"off", "setup", "instantiate", "read", "record", "listen",
                              "listening", "version", "up", "callback", "collect", "delete",
                              "stop"}]
      /\ raced \in [Processes -> BOOLEAN] /\ warned \in [Processes -> BOOLEAN]
      /\ job \in [Processes -> Jobs \cup {NoJob}]
    BY DEF IInv, TypeOK
<1>c. addNamespaceToKey(SetupNamespace, BaseUrlKey) \in NamespacedKeys
    BY KeysApart, StorageAssumption
<1> USE DEF Goto, vars, storage, walks, setup
<1>0. ASSUME UNCHANGED <<data, persistent>>
      PROVE  RecordedUrl(StoreOf(q))' = RecordedUrl(StoreOf(q))
    BY <1>0 DEF RecordedUrl, StoreOf
<1>1. CASE UNCHANGED vars BY <1>a, <1>1, <1>0, MoveKept
<1>2. ASSUME NEW p \in Processes,
             \/ Launch(p) \/ ResolveVariables(p) \/ Instantiate(p) \/ Listen(p) \/ Dropped(p)
             \/ BeginDrop(p) \/ DropCollected(p)
             \/ \E k \in NamespacedKeys : DropEntry(p, k) \/ NextEntry(p, k)
             \/ \E n \in AppNamespaces : BeginWalk(p, n)
             \/ EndWalk(p)
      PROVE  MoveAt(q)'
  <2> USE DEF Launch, ResolveVariables, Instantiate, Listen, BeginDrop, DropCollected, Dropped,
              DropEntry, BeginWalk, NextEntry, EndWalk
  <2>1. UNCHANGED <<data, persistent, raced, warned>> BY <1>2
  <2>2. (pc'[q] = pc[q] /\ job'[q] = job[q]) \/ pc'[q] # "record" BY <1>b, <1>2
  <2> HIDE DEF Launch, ResolveVariables, Instantiate, Listen, BeginDrop, DropCollected, Dropped,
              DropEntry, BeginWalk, NextEntry, EndWalk
  <2> QED BY <1>a, <1>0, <2>1, <2>2, MoveKept
<1>3. ASSUME NEW p \in Processes, ReadBaseUrl(p) PROVE MoveAt(q)'
  <2>1. CASE p = q
    <3>1. RecordedUrl(StoreOf(q))' = RecordedUrl(StoreOf(q)) /\ job' = job /\ persistent' = persistent
      BY <1>0, <1>3 DEF ReadBaseUrl
    <3>2. warned'[q] <=> RecordedUrl(StoreOf(q)) \notin {NoValue, job[q].baseUrl}
      BY <1>b, <1>3, <2>1 DEF ReadBaseUrl, Get, RecordedUrl
    <3>3. warned'[q] <=> RecordedUrl(StoreOf(q))' \notin {NoValue, job'[q].baseUrl}
      BY <3>1, <3>2
    <3> QED BY <3>3, <3>1 DEF MoveAt, StoreOf
  <2>2. CASE p # q BY <1>a, <1>b, <1>0, <1>3, <2>2, MoveKept DEF ReadBaseUrl
  <2> QED BY <2>1, <2>2
<1>4. ASSUME NEW p \in Processes, RecordBaseUrl(p) PROVE MoveAt(q)'
  <2>1. CASE p = q
    <3>1. pc'[q] # "record" BY <1>b, <1>4, <2>1 DEF RecordBaseUrl
    <3> QED BY <1>a, <1>4, <3>1, MoveKept DEF RecordBaseUrl
  <2>2. CASE p # q /\ StoreOf(q) = StoreOf(p)
    <3>1. pc[q] = "record" => raced'[q] BY <1>b, <1>4, <2>2 DEF RecordBaseUrl, Raced
    <3>2. pc'[q] = pc[q] BY <1>b, <1>4, <2>2 DEF RecordBaseUrl
    <3> QED BY <1>a, <1>4, <3>1, <3>2, MoveKept DEF RecordBaseUrl
  <2>3. CASE p # q /\ StoreOf(q) # StoreOf(p)
    <3>1. job[p].baseUrl \in Values BY <1>a, <1>4 DEF JobOK, RecordBaseUrl, Jobs
    <3>2. \A t \in Stores, l \in NamespacedKeys : t # StoreOf(p) => data'[t][l] = data[t][l]
      BY <1>a, <1>4, <3>1, PutChanges, StorageAssumption DEF RecordBaseUrl
    <3>3. RecordedUrl(StoreOf(q))' = RecordedUrl(StoreOf(q))
      BY <1>c, <1>4, <2>3, <3>2, StoreType DEF RecordedUrl, StoreOf, RecordBaseUrl
    <3>4. /\ pc'[q] = pc[q] /\ raced'[q] = raced[q]
          /\ warned'[q] = warned[q] /\ job'[q] = job[q]
      BY <1>b, <1>4, <2>3 DEF RecordBaseUrl, Raced
    <3> QED BY <1>a, <1>4, <3>3, <3>4, MoveKept DEF RecordBaseUrl
  <2> QED BY <2>1, <2>2, <2>3
<1>5. ASSUME NEW p \in Processes, WriteVersion(p) PROVE MoveAt(q)'
  <2>1. RecordedUrl(StoreOf(q))' = RecordedUrl(StoreOf(q))
    BY <1>a, <1>5, OtherKey, StoreType, StorageAssumption DEF WriteVersion, Put, Set
  <2>2. pc'[q] = pc[q] \/ pc'[q] # "record" BY <1>b, <1>5 DEF WriteVersion
  <2> QED BY <1>a, <1>5, <2>1, <2>2, MoveKept DEF WriteVersion
<1>6. ASSUME NEW p \in Processes, NEW n \in AppNamespaces, NEW k \in AppKeys,
             AppSet(p, n, k) \/ AppDelete(p, n, k)
      PROVE  MoveAt(q)'
  <2>1. n \in Namespaces /\ n # SetupNamespace /\ k \in Keys
    BY StorageAssumption DEF AppNamespaces
  <2>2. PICK v \in Values \cup {NoValue} : SetKey(StoreOf(p), addNamespaceToKey(n, k), v)
    BY <1>6, StorageAssumption DEF AppSet, AppDelete, Put, Set, Delete
  <2>3. RecordedUrl(StoreOf(q))' = RecordedUrl(StoreOf(q))
    BY <1>a, <1>6, <2>1, <2>2, OtherKey, StoreType DEF AppSet, AppDelete
  <2> QED BY <1>a, <1>6, <2>3, MoveKept DEF AppSet, AppDelete
<1>7. ASSUME NEW p \in Processes, NEW k \in NamespacedKeys, DropDelete(p, k) PROVE MoveAt(q)'
  <2>1. \A t \in Stores, l \in NamespacedKeys :
           data'[t][l] = IF t = StoreOf(p) /\ l = k THEN NoValue ELSE data[t][l]
    BY <1>a, <1>7, SetChanges, StoreType DEF DropDelete, TypeOK
  <2>2. CASE RecordedUrl(StoreOf(q))' = RecordedUrl(StoreOf(q)) /\ raced'[q] = raced[q]
    BY <1>a, <1>7, <2>2, MoveKept DEF DropDelete
  <2>3. CASE RecordedUrl(StoreOf(q))' # RecordedUrl(StoreOf(q)) \/ raced'[q] # raced[q]
    <3>1. k = addNamespaceToKey(SetupNamespace, BaseUrlKey)
      BY <1>c, <1>7, <2>1, <2>3, StoreType DEF RecordedUrl, StoreOf, DropDelete
    <3>2. raced'[q] = (raced[q] \/ (q # p /\ pc[q] = "record" /\ StoreOf(q) = StoreOf(p)))
      BY <1>7, <3>1 DEF DropDelete, Raced
    <3>3. pc[q] = "record" => q # p BY <1>7 DEF DropDelete
    <3>4. StoreOf(q) = StoreOf(p) \/ RecordedUrl(StoreOf(q))' = RecordedUrl(StoreOf(q))
      BY <1>c, <1>7, <2>1, StoreType DEF RecordedUrl, StoreOf, DropDelete
    <3>5. pc[q] = "record" => raced'[q]
      BY <1>b, <2>3, <3>2, <3>3, <3>4
    <3> QED BY <1>a, <1>7, <3>5, MoveKept DEF DropDelete
  <2> QED BY <2>2, <2>3
<1>8. ASSUME NEW p \in Processes, Exit(p) PROVE MoveAt(q)'
  <2>1. CASE p = q
    <3>1. pc'[q] # "record" BY <1>b, <1>8, <2>1 DEF Exit
    <3> QED BY <1>a, <1>8, <3>1, MoveKept DEF Exit
  <2>2. CASE p # q
    <3>1. data'[StoreOf(q)] = data[StoreOf(q)]
      BY <1>a, <1>8, <2>2, StorageAssumption DEF Exit, TypeOK, DataOK, StoreOf
    <3>2. RecordedUrl(StoreOf(q))' = RecordedUrl(StoreOf(q))
      BY <1>8, <3>1 DEF RecordedUrl, StoreOf, Exit
    <3>3. /\ pc'[q] = pc[q] /\ raced'[q] = raced[q]
          /\ warned'[q] = warned[q] /\ job'[q] = job[q]
      BY <1>b, <1>8, <2>2 DEF Exit
    <3> QED BY <1>a, <1>8, <3>2, <3>3, MoveKept DEF Exit
  <2> QED BY <2>1, <2>2
<1> QED
    BY <1>1, <1>2, <1>3, <1>4, <1>5, <1>6, <1>7, <1>8
    DEF Next, Start, Use, Drop

---------------------------------------------------------------------------
(* The command line with the environment typed at its end.                 *)

\* The form of a launch (LaunchForm).
Formed(argv, env) ==
    /\ argv \in Seq(STRING \ {Undefined})
    /\ \A i \in DOMAIN argv :
          argv[i] \in {"--assets", "--mainModulePlaceholder"} => Takes(argv, i)
    /\ \A key \in DOMAIN env : env[key] \notin Options \cup {Help, Undefined}

\* The name of the variable that stands for an option.
KeyOf(argv, option) == <<DefaultTo(ValueOf(argv, "-v"), ""), option>>

Texts(env) == (STRING \ {Undefined}) \cup Options \cup {env[key] : key \in DOMAIN env}

\* The command line with some options added at its end.
Grown(argv, env, text, done) ==
    /\ text \in Seq(Texts(env))
    /\ Len(argv) <= Len(text)
    /\ \A i \in 1..Len(argv) : text[i] = argv[i]
    /\ \A i \in (Len(argv) + 1)..Len(text) :
          \/ /\ text[i] \in done /\ Added(argv, env, text[i]) # <<>>
             /\ text[i] # "-t" => i < Len(text) /\ text[i + 1] = env[KeyOf(argv, text[i])]
          \/ /\ i - 1 > Len(argv) /\ text[i - 1] \in Options \ {"-t"}
             /\ text[i] \notin Options \cup {Help}
    /\ \A option \in done :
          Added(argv, env, option) # <<>> =>
              \E i \in (Len(argv) + 1)..Len(text) : text[i] = option

\* What the environment adds for an option: nothing, the option with its text, or
\* the option -t alone.
LEMMA AddedForm ==
    ASSUME NEW argv, NEW env, NEW option
    PROVE  \/ Added(argv, env, option) = <<>>
           \/ /\ option # "-t" /\ Given(argv, option) = {}
              /\ KeyOf(argv, option) \in DOMAIN env
              /\ Added(argv, env, option) = <<option, env[KeyOf(argv, option)]>>
           \/ /\ option = "-t" /\ Added(argv, env, option) = <<"-t">>
BY DEF Added, KeyOf

\* Nothing is added yet.
LEMMA GrownStart ==
    ASSUME NEW argv, NEW env, Formed(argv, env)
    PROVE  Grown(argv, env, argv, {})
<1>1. argv \in Seq(STRING \ {Undefined})
  BY DEF Formed
<1> DEFINE n == Len(argv)
<1>2. n \in Nat /\ argv \in [1..n -> STRING \ {Undefined}]
  BY <1>1, LenProperties
<1>3. argv \in [1..n -> Texts(env)]
  BY <1>2 DEF Texts
<1>4. argv \in Seq(Texts(env))
  <2> HIDE DEF n
  <2>1. argv \in UNION {[1..k -> Texts(env)] : k \in Nat}
    BY <1>2, <1>3
  <2>2. QED BY <2>1, SeqDef
<1>5. QED BY <1>2, <1>4 DEF Grown

\* One more option is added.
LEMMA GrownStep ==
    ASSUME NEW argv, NEW env, Formed(argv, env), NEW text, NEW done \in SUBSET Options,
           Grown(argv, env, text, done), NEW option \in Options
    PROVE  Grown(argv, env, text \o Added(argv, env, option), done \cup {option})
<1> DEFINE m   == Len(argv)
           n   == Len(text)
           T   == Texts(env)
           key == KeyOf(argv, option)
           more == done \cup {option}
<1>1. m \in Nat /\ n \in Nat /\ m <= n /\ text \in Seq(T)
  BY LenProperties DEF Formed, Grown
<1>2. \A i \in 1..m : text[i] = argv[i]
  BY DEF Grown
<1>3. \A i \in (m + 1)..n :
          \/ /\ text[i] \in done /\ Added(argv, env, text[i]) # <<>>
             /\ text[i] # "-t" => i < n /\ text[i + 1] = env[KeyOf(argv, text[i])]
          \/ /\ i - 1 > m /\ text[i - 1] \in Options \ {"-t"}
             /\ text[i] \notin Options \cup {Help}
  BY DEF Grown
<1>4. \A o \in done :
          Added(argv, env, o) # <<>> => \E i \in (m + 1)..n : text[i] = o
  BY DEF Grown
<1> HIDE DEF T, n, m
<1>5. CASE Added(argv, env, option) = <<>>
  <2>1. text \o <<>> = text
    BY <1>1
  <2>2. QED BY <1>1, <1>2, <1>3, <1>4, <1>5, <2>1 DEF Grown, m, n, T
<1>6. ASSUME NEW block \in Seq(T), block = Added(argv, env, option), NEW k \in {1, 2}, Len(block) = k,
             block[1] = option, k = 1 <=> option = "-t",
             k = 2 => block[2] = env[key] /\ block[2] \notin Options \cup {Help}
      PROVE  Grown(argv, env, text \o block, more)
  <2> DEFINE longer == text \o block
  <2>1. /\ longer \in Seq(T) /\ Len(longer) = n + k
        /\ \A i \in 1..n : longer[i] = text[i]
        /\ longer[n + 1] = option
        /\ k = 2 => longer[n + 2] = env[key] /\ longer[n + 2] \notin Options \cup {Help}
    BY <1>1, <1>6 DEF n
  <2> HIDE DEF longer, key
  <2>2. m <= Len(longer) /\ \A i \in 1..m : longer[i] = argv[i]
    BY <1>1, <1>2, <1>6, <2>1
  <2>3. Added(argv, env, option) # <<>>
    BY <1>6
  <2>4. ASSUME NEW i \in (m + 1)..(n + k)
        PROVE  \/ /\ longer[i] \in more /\ Added(argv, env, longer[i]) # <<>>
                  /\ longer[i] # "-t" => i < n + k /\ longer[i + 1] = env[KeyOf(argv, longer[i])]
               \/ /\ i - 1 > m /\ longer[i - 1] \in Options \ {"-t"}
                  /\ longer[i] \notin Options \cup {Help}
    <3>1. CASE i \in (m + 1)..n
      <4>1. longer[i] = text[i] /\ i \in 1..n
        BY <1>1, <2>1, <3>1
      <4>2. CASE /\ text[i] \in done /\ Added(argv, env, text[i]) # <<>>
                 /\ text[i] # "-t" => i < n /\ text[i + 1] = env[KeyOf(argv, text[i])]
        <5>1. i < n => longer[i + 1] = text[i + 1] /\ i < n + k
          BY <1>1, <1>6, <2>1, <3>1
        <5>2. QED BY <4>1, <4>2, <5>1
      <4>3. CASE /\ i - 1 > m /\ text[i - 1] \in Options \ {"-t"}
                 /\ text[i] \notin Options \cup {Help}
        <5>1. longer[i - 1] = text[i - 1]
          BY <1>1, <2>1, <3>1, <4>3
        <5>2. QED BY <4>1, <4>3, <5>1
      <4>4. QED BY <1>3, <3>1, <4>2, <4>3
    <3>2. CASE i = n + 1
      <4>1. option # "-t" => k = 2 /\ n + 1 < n + k /\ longer[n + 2] = env[key] /\ (n + 1) + 1 = n + 2
        BY <1>1, <1>6, <2>1
      <4>2. QED BY <2>1, <2>3, <3>2, <4>1 DEF key
    <3>3. CASE i = n + 2 /\ k = 2
      <4>1. i - 1 = n + 1 /\ i - 1 > m /\ option # "-t"
        BY <1>1, <1>6, <3>3
      <4>2. QED BY <2>1, <3>3, <4>1
    <3>4. QED BY <1>1, <1>6, <3>1, <3>2, <3>3
  <2>5. ASSUME NEW o \in more, Added(argv, env, o) # <<>>
        PROVE  \E i \in (m + 1)..(n + k) : longer[i] = o
    <3>1. CASE o = option
      <4>1. n + 1 \in (m + 1)..(n + k)
        BY <1>1, <1>6
      <4>2. QED BY <2>1, <3>1, <4>1
    <3>2. CASE o \in done
      <4>1. PICK i \in (m + 1)..n : text[i] = o
        BY <1>4, <2>5, <3>2
      <4>2. i \in (m + 1)..(n + k) /\ longer[i] = o
        BY <1>1, <1>6, <2>1, <4>1
      <4>3. QED BY <4>2
    <3>3. QED BY <3>1, <3>2
  <2>6. QED
    <3>1. Grown(argv, env, longer, more)
      BY <2>1, <2>2, <2>4, <2>5 DEF Grown, m, T
    <3>2. QED BY <3>1 DEF longer
<1>7. CASE option # "-t" /\ key \in DOMAIN env /\ Added(argv, env, option) = <<option, env[key]>>
  <2>1. option \in T /\ env[key] \in T /\ env[key] \notin Options \cup {Help}
    BY <1>7 DEF Formed, Texts, T
  <2> DEFINE block == <<option, env[key]>>
  <2>2. block \in Seq(T) /\ Len(block) = 2 /\ block[1] = option /\ block[2] = env[key]
    BY <2>1
  <2> HIDE DEF block
  <2>3. block = Added(argv, env, option) /\ block[2] \notin Options \cup {Help}
        /\ (Len(block) = 1 <=> option = "-t") /\ Len(block) \in {1, 2}
    BY <1>7, <2>1, <2>2 DEF block
  <2> HIDE DEF key
  <2>4. Grown(argv, env, text \o block, more)
    BY <1>6, <2>2, <2>3
  <2>5. QED BY <2>3, <2>4
<1>8. CASE option = "-t" /\ Added(argv, env, option) = <<"-t">>
  <2>1. option \in T
    BY DEF Texts, T
  <2> DEFINE block == <<option>>
  <2>2. block \in Seq(T) /\ Len(block) = 1 /\ block[1] = option
    BY <2>1
  <2> HIDE DEF block
  <2>3. block = Added(argv, env, option) /\ (Len(block) = 1 <=> option = "-t")
        /\ Len(block) \in {1, 2} /\ Len(block) # 2
    BY <1>8, <2>2 DEF block
  <2> HIDE DEF key
  <2>4. Grown(argv, env, text \o block, more)
    BY <1>6, <2>2, <2>3
  <2>5. QED BY <2>3, <2>4
<1>9. QED BY <1>5, <1>7, <1>8, AddedForm

\* All options but -v are added (Typed).
LEMMA TypedGrown ==
    ASSUME NEW argv, NEW env, Formed(argv, env)
    PROVE  Grown(argv, env, Typed(argv, env), Options \ {"-v"})
<1> DEFINE A(option) == Added(argv, env, option)
           G(text, done) == Grown(argv, env, text, done)
           t1 == argv \o A("-l")
           t2 == t1 \o A("-m")
           t3 == t2 \o A("-o")
           t4 == t3 \o A("-c")
           t5 == t4 \o A("-b")
           t6 == t5 \o A("-p")
           t7 == t6 \o A("-t")
           t8 == t7 \o A("--assets")
           t9 == t8 \o A("--mainModulePlaceholder")
           d1 == {} \cup {"-l"}
           d2 == d1 \cup {"-m"}
           d3 == d2 \cup {"-o"}
           d4 == d3 \cup {"-c"}
           d5 == d4 \cup {"-b"}
           d6 == d5 \cup {"-p"}
           d7 == d6 \cup {"-t"}
           d8 == d7 \cup {"--assets"}
           d9 == d8 \cup {"--mainModulePlaceholder"}
<1>0. /\ {"-l", "-m", "-o", "-c", "-b", "-p", "-t", "--assets", "--mainModulePlaceholder"}
             \subseteq Options
      /\ d1 \in SUBSET Options /\ d2 \in SUBSET Options /\ d3 \in SUBSET Options
      /\ d4 \in SUBSET Options /\ d5 \in SUBSET Options /\ d6 \in SUBSET Options
      /\ d7 \in SUBSET Options /\ d8 \in SUBSET Options
      /\ d9 = Options \ {"-v"}
  BY DEF Options, CoreOptions
<1>1. Typed(argv, env) = t9
  BY DEF Typed
<1>2. G(argv, {})
  BY GrownStart
<1> HIDE DEF d1, d2, d3, d4, d5, d6, d7, d8, d9
<1>3. G(t1, d1)
  BY <1>0, <1>2, GrownStep DEF d1
<1> HIDE DEF t1
<1>4. G(t2, d2)
  BY <1>0, <1>3, GrownStep DEF d2
<1> HIDE DEF t2
<1>5. G(t3, d3)
  BY <1>0, <1>4, GrownStep DEF d3
<1> HIDE DEF t3
<1>6. G(t4, d4)
  BY <1>0, <1>5, GrownStep DEF d4
<1> HIDE DEF t4
<1>7. G(t5, d5)
  BY <1>0, <1>6, GrownStep DEF d5
<1> HIDE DEF t5
<1>8. G(t6, d6)
  BY <1>0, <1>7, GrownStep DEF d6
<1> HIDE DEF t6
<1>9. G(t7, d7)
  BY <1>0, <1>8, GrownStep DEF d7
<1> HIDE DEF t7
<1>10. G(t8, d8)
  BY <1>0, <1>9, GrownStep DEF d8
<1> HIDE DEF t8
<1>11. G(t9, d9)
  BY <1>0, <1>10, GrownStep DEF d9
<1>12. QED BY <1>0, <1>1, <1>11

\* What the longer command line says, place by place.
LEMMA TypedPlaces ==
    ASSUME NEW argv, NEW env, Formed(argv, env)
    PROVE  LET text == Typed(argv, env)
               m    == Len(argv)
               n    == Len(text)
           IN /\ m \in Nat /\ n \in Nat /\ m <= n
              /\ DOMAIN argv = 1..m /\ DOMAIN text = 1..n
              /\ \A i \in 1..m : text[i] = argv[i] /\ (Takes(text, i) <=> Takes(argv, i))
              /\ \A i \in (m + 1)..n :
                    /\ text[i] # Help
                    /\ text[i] \in Options =>
                          /\ Added(argv, env, text[i]) # <<>> /\ text[i] # "-v"
                          /\ text[i] # "-t" =>
                                Takes(text, i) /\ text[i + 1] = env[KeyOf(argv, text[i])]
                          /\ text[i] = "-t" => ~Takes(text, i)
                    /\ text[i] \notin Options => i > 1 /\ Takes(text, i - 1)
              /\ \A option \in Options \ {"-v"} :
                    Added(argv, env, option) # <<>> =>
                        \E i \in (m + 1)..n : text[i] = option
<1> DEFINE text == Typed(argv, env)
           m    == Len(argv)
           n    == Len(text)
           done == Options \ {"-v"}
<1>1. Grown(argv, env, text, done)
  BY TypedGrown
<1> HIDE DEF text
<1>2. /\ m \in Nat /\ n \in Nat /\ m <= n
      /\ DOMAIN argv = 1..m /\ DOMAIN text = 1..n
  BY <1>1, LenProperties DEF Formed, Grown
<1>3. \A i \in 1..m : text[i] = argv[i]
  BY <1>1 DEF Grown
<1>4. \A i \in (m + 1)..n :
          \/ /\ text[i] \in done /\ Added(argv, env, text[i]) # <<>>
             /\ text[i] # "-t" => i < n /\ text[i + 1] = env[KeyOf(argv, text[i])]
          \/ /\ i - 1 > m /\ text[i - 1] \in Options \ {"-t"}
             /\ text[i] \notin Options \cup {Help}
  BY <1>1 DEF Grown
<1>5. \A option \in done : Added(argv, env, option) # <<>> => \E i \in (m + 1)..n : text[i] = option
  BY <1>1 DEF Grown
<1>6. \A key \in DOMAIN env : env[key] \notin Options \cup {Help}
  BY DEF Formed
<1>7. Help \notin Options
  BY DEF Help, Options, CoreOptions
<1> HIDE DEF m, n, done
<1>8. ASSUME NEW i \in 1..m PROVE Takes(text, i) <=> Takes(argv, i)
  <2>1. CASE i < m
    <3>1. i + 1 \in 1..m /\ i < n
      BY <1>2, <2>1
    <3>2. text[i] = argv[i] /\ text[i + 1] = argv[i + 1]
      BY <1>3, <3>1
    <3>3. QED BY <2>1, <3>1, <3>2 DEF Takes, m, n
  <2>2. CASE i = m
    <3>1. ~Takes(argv, i)
      BY <1>2, <2>2 DEF Takes, m
    <3>2. ASSUME i < n PROVE text[i + 1] \in Options
      <4>1. i + 1 \in (m + 1)..n /\ ~((i + 1) - 1 > m)
        BY <1>2, <2>2, <3>2
      <4>2. text[i + 1] \in done
        BY <1>4, <4>1
      <4>3. QED BY <4>2 DEF done
    <3>3. ~Takes(text, i)
      BY <3>2 DEF Takes, n
    <3>4. QED BY <3>1, <3>3
  <2>3. QED BY <1>2, <2>1, <2>2
<1>9. ASSUME NEW i \in (m + 1)..n
      PROVE  /\ text[i] # Help
             /\ text[i] \in Options =>
                   /\ Added(argv, env, text[i]) # <<>> /\ text[i] # "-v"
                   /\ text[i] # "-t" =>
                         Takes(text, i) /\ text[i + 1] = env[KeyOf(argv, text[i])]
                   /\ text[i] = "-t" => ~Takes(text, i)
             /\ text[i] \notin Options => i > 1 /\ Takes(text, i - 1)
  <2>1. CASE /\ text[i] \in done /\ Added(argv, env, text[i]) # <<>>
             /\ text[i] # "-t" => i < n /\ text[i + 1] = env[KeyOf(argv, text[i])]
    <3>1. text[i] \in Options /\ text[i] # "-v"
      BY <2>1 DEF done
    <3>2. ASSUME text[i] # "-t" PROVE Takes(text, i)
      <4>1. KeyOf(argv, text[i]) \in DOMAIN env
        BY <2>1, <3>2, AddedForm
      <4>2. QED BY <1>6, <2>1, <3>1, <3>2, <4>1 DEF Takes, n
    <3>3. ASSUME text[i] = "-t", Takes(text, i) PROVE FALSE
      <4>1. i + 1 \in (m + 1)..n /\ (i + 1) - 1 = i /\ text[i + 1] \notin Options
        BY <1>2, <3>3 DEF Takes, n
      <4>2. text[i + 1] \notin done
        BY <4>1 DEF done
      <4>3. QED BY <1>4, <3>3, <4>1, <4>2
    <3>4. QED BY <1>7, <2>1, <3>1, <3>2, <3>3
  <2>2. CASE /\ i - 1 > m /\ text[i - 1] \in Options \ {"-t"}
             /\ text[i] \notin Options \cup {Help}
    <3>1. i > 1 /\ i - 1 < n /\ (i - 1) + 1 = i
      BY <1>2, <2>2
    <3>2. Takes(text, i - 1)
      BY <2>2, <3>1 DEF Takes, n
    <3>3. QED BY <2>2, <3>1, <3>2
  <2>3. QED BY <1>4, <2>1, <2>2
<1>10. QED BY <1>2, <1>3, <1>5, <1>8, <1>9 DEF text, m, n, done

\* No word is added.
LEMMA TypedWords ==
    ASSUME NEW argv, NEW env, Formed(argv, env)
    PROVE  Words(Typed(argv, env)) = Words(argv)
<1> DEFINE text == Typed(argv, env)
           m    == Len(argv)
           n    == Len(text)
<1>1. /\ m \in Nat /\ n \in Nat /\ m <= n
      /\ DOMAIN argv = 1..m /\ DOMAIN text = 1..n
      /\ \A i \in 1..m : text[i] = argv[i] /\ (Takes(text, i) <=> Takes(argv, i))
      /\ \A i \in (m + 1)..n :
            /\ text[i] # Help
            /\ text[i] \notin Options => i > 1 /\ Takes(text, i - 1)
  BY TypedPlaces
<1> HIDE DEF text, m, n
<1>2. ASSUME NEW i \in 1..m PROVE i \in Words(text) <=> i \in Words(argv)
  <2>1. i = 1 \/ i - 1 \in 1..m
    BY <1>1
  <2>2. QED BY <1>1, <2>1 DEF Words
<1>3. ASSUME NEW i \in (m + 1)..n PROVE i \notin Words(text)
  <2>1. CASE text[i] \in Options
    BY <2>1 DEF Words
  <2>2. CASE text[i] \notin Options
    <3>1. i # 1 /\ Takes(text, i - 1)
      BY <1>1, <2>2
    <3>2. QED BY <3>1 DEF Words
  <2>3. QED BY <2>1, <2>2
<1>4. Words(text) \subseteq 1..n /\ Words(argv) \subseteq 1..m
  BY <1>1 DEF Words
<1>5. Words(text) = Words(argv)
  <2>1. \A i \in 1..n : i \in 1..m \/ i \in (m + 1)..n
    BY <1>1
  <2>2. QED BY <1>2, <1>3, <1>4, <2>1
<1>6. QED BY <1>5 DEF text

\* The places of an option: those it had, or new ones where it takes what the
\* environment says.
LEMMA TypedGiven ==
    ASSUME NEW argv, NEW env, Formed(argv, env), NEW option \in Options \cup {Help}
    PROVE  LET text == Typed(argv, env)
           IN \/ /\ Given(text, option) = Given(argv, option)
                 /\ option = Help \/ option = "-v" \/ Added(argv, env, option) = <<>>
                 /\ \A i \in Given(argv, option) :
                       i \in 1..Len(argv) /\ (Takes(text, i) <=> Takes(argv, i))
                                         /\ (Takes(argv, i) => text[i + 1] = argv[i + 1])
              \/ /\ option \in Options \ {"-v"} /\ Added(argv, env, option) # <<>>
                 /\ Given(argv, option) = {} /\ Given(text, option) # {}
                 /\ option # "-t" =>
                       \A i \in Given(text, option) :
                           Takes(text, i) /\ text[i + 1] = env[KeyOf(argv, option)]
                 /\ option = "-t" => \A i \in Given(text, option) : ~Takes(text, i)
<1> DEFINE text == Typed(argv, env)
           m    == Len(argv)
           n    == Len(text)
<1>1. /\ m \in Nat /\ n \in Nat /\ m <= n
      /\ DOMAIN argv = 1..m /\ DOMAIN text = 1..n
      /\ \A i \in 1..m : text[i] = argv[i] /\ (Takes(text, i) <=> Takes(argv, i))
      /\ \A i \in (m + 1)..n :
            /\ text[i] # Help
            /\ text[i] \in Options =>
                  /\ Added(argv, env, text[i]) # <<>> /\ text[i] # "-v"
                  /\ text[i] # "-t" =>
                        Takes(text, i) /\ text[i + 1] = env[KeyOf(argv, text[i])]
                  /\ text[i] = "-t" => ~Takes(text, i)
      /\ \A o \in Options \ {"-v"} :
            Added(argv, env, o) # <<>> => \E i \in (m + 1)..n : text[i] = o
  BY TypedPlaces
<1> HIDE DEF text, m, n
<1>2. ASSUME NEW i \in 1..n PROVE i \in 1..m \/ i \in (m + 1)..n
  BY <1>1
<1>3. CASE option = Help \/ option = "-v" \/ Added(argv, env, option) = <<>>
  <2>1. \A i \in (m + 1)..n : text[i] # option
    BY <1>1, <1>3
  <2>2. Given(text, option) = Given(argv, option)
    <3>1. \A i \in 1..m : i \in Given(text, option) <=> i \in Given(argv, option)
      BY <1>1 DEF Given
    <3>2. Given(text, option) \subseteq 1..m /\ Given(argv, option) \subseteq 1..m
      BY <1>1, <1>2, <2>1 DEF Given
    <3>3. QED BY <3>1, <3>2
  <2>3. ASSUME NEW i \in Given(argv, option)
        PROVE  i \in 1..m /\ (Takes(text, i) <=> Takes(argv, i)) /\ (Takes(argv, i) => text[i + 1] = argv[i + 1])
    <3>1. i \in 1..m
      BY <1>1 DEF Given
    <3>2. ASSUME Takes(argv, i) PROVE i + 1 \in 1..m
      BY <1>1, <3>1, <3>2 DEF Takes, m
    <3>3. QED BY <1>1, <3>1, <3>2
  <2>4. QED BY <1>3, <2>2, <2>3 DEF text, m
<1>4. CASE option \in Options \ {"-v"} /\ Added(argv, env, option) # <<>>
  <2>1. Given(argv, option) = {}
    BY <1>4 DEF Added
  <2>2. PICK i \in (m + 1)..n : text[i] = option
    BY <1>1, <1>4
  <2>3. i \in Given(text, option)
    BY <1>1, <2>2 DEF Given
  <2>4. ASSUME NEW j \in Given(text, option) PROVE j \in (m + 1)..n /\ text[j] = option
    <3>1. j \in 1..n /\ text[j] = option
      BY <1>1 DEF Given
    <3>2. j \notin 1..m
      BY <1>1, <2>1, <3>1 DEF Given
    <3>3. QED BY <1>2, <3>1, <3>2
  <2>5. option # "-t" => \A j \in Given(text, option) :
           Takes(text, j) /\ text[j + 1] = env[KeyOf(argv, option)]
    BY <1>1, <1>4, <2>4
  <2>6. option = "-t" => \A j \in Given(text, option) : ~Takes(text, j)
    BY <1>1, <1>4, <2>4
  <2>7. QED BY <1>4, <2>1, <2>3, <2>5, <2>6 DEF text
<1>5. QED BY <1>3, <1>4

\* A command line and its longer form lack the same arguments.
LEMMA TypedLacks ==
    ASSUME NEW argv, NEW env, Formed(argv, env), NEW options \in SUBSET (Options \ {"-t"})
    PROVE  LacksArgument(Typed(argv, env), options) <=> LacksArgument(argv, options)
<1> DEFINE text == Typed(argv, env)
<1>1. ASSUME NEW option \in options
      PROVE  (\E i \in Given(text, option) : ~Takes(text, i))
                <=> \E i \in Given(argv, option) : ~Takes(argv, i)
  <2>1. option \in Options /\ option # "-t"
    OBVIOUS
  <2>2. \/ /\ Given(text, option) = Given(argv, option)
           /\ \A i \in Given(argv, option) : Takes(text, i) <=> Takes(argv, i)
        \/ /\ Given(argv, option) = {}
           /\ \A i \in Given(text, option) : Takes(text, i)
    BY <2>1, TypedGiven
  <2> HIDE DEF text
  <2>3. QED BY <2>2
<1> HIDE DEF text
<1>2. LacksArgument(text, options) <=> LacksArgument(argv, options)
  BY <1>1 DEF LacksArgument
<1>3. QED BY <1>2 DEF text

\* What yargs reads from the longer command line alone is what it reads from
\* the command line and the environment.
LEMMA TypedValue ==
    ASSUME NEW argv, NEW env, Formed(argv, env), NEW option \in Options \ {"-t", "-v"},
           \A i \in Given(argv, option) : Takes(argv, i)
    PROVE  ValueOf(Typed(argv, env), option)
              = Setting(argv, env, DefaultTo(ValueOf(argv, "-v"), ""), option)
<1> DEFINE text   == Typed(argv, env)
           prefix == DefaultTo(ValueOf(argv, "-v"), "")
           key    == KeyOf(argv, option)
<1>1. key = <<prefix, option>>
  BY DEF KeyOf
<1>2. \/ /\ Given(text, option) = Given(argv, option) /\ Added(argv, env, option) = <<>>
         /\ \A i \in Given(argv, option) :
               /\ i \in 1..Len(argv) /\ Takes(text, i) /\ text[i + 1] = argv[i + 1]
      \/ /\ Added(argv, env, option) # <<>> /\ Given(argv, option) = {}
         /\ Given(text, option) # {}
         /\ \A i \in Given(text, option) : Takes(text, i) /\ text[i + 1] = env[key]
  <2>1. option \notin {Help, "-v", "-t"} /\ option \in Options
    BY DEF Help, Options, CoreOptions
  <2>2. QED BY <2>1, TypedGiven
<1> HIDE DEF text, prefix, key
<1>3. CASE Given(argv, option) # {}
  <2> DEFINE i == CHOOSE i \in Given(argv, option) : Takes(argv, i)
  <2>1. i \in Given(argv, option) /\ (CHOOSE j \in Given(text, option) : Takes(text, j)) = i
    BY <1>2, <1>3
  <2>2. Given(text, option) = Given(argv, option) /\ Takes(text, i) /\ Takes(argv, i) /\ text[i + 1] = argv[i + 1]
    BY <1>2, <1>3, <2>1
  <2>3. ValueOf(argv, option) = argv[i + 1] /\ ValueOf(text, option) = text[i + 1]
    BY <2>1, <2>2 DEF ValueOf
  <2>4. argv[i + 1] # Undefined
    <3>1. argv \in Seq(STRING \ {Undefined}) /\ Len(argv) \in Nat
      BY LenProperties DEF Formed
    <3>2. i + 1 \in 1..Len(argv)
      BY <1>2, <1>3, <2>1, <2>2, <3>1 DEF Takes
    <3>3. argv[i + 1] \in STRING \ {Undefined}
      <4> HIDE DEF i
      <4>1. QED BY <3>1, <3>2, ElementOfSeq
    <3>4. QED BY <3>3
  <2>5. QED BY <2>2, <2>3, <2>4 DEF Setting, text
<1>4. CASE Given(argv, option) = {}
  <2>1. ValueOf(argv, option) = Undefined
    BY <1>4 DEF ValueOf
  <2>2. CASE Added(argv, env, option) = <<>>
    <3>1. ValueOf(text, option) = Undefined
      BY <1>2, <1>4, <2>2 DEF ValueOf
    <3>2. key \notin DOMAIN env
      BY <1>4, <2>2 DEF Added, key, KeyOf
    <3>3. QED BY <1>1, <2>1, <3>1, <3>2 DEF Setting, text, prefix
  <2>3. CASE Added(argv, env, option) # <<>>
    <3>1. ValueOf(text, option) = env[key]
      BY <1>2, <2>3 DEF ValueOf
    <3>2. key \in DOMAIN env
      BY <2>3 DEF Added, key, KeyOf
    <3>3. QED BY <1>1, <2>1, <3>1, <3>2 DEF Setting, text, prefix
  <2>4. QED BY <2>2, <2>3
<1>5. QED BY <1>3, <1>4

\* The prefix itself is typed or nothing.
LEMMA TypedPrefix ==
    ASSUME NEW argv, NEW env, Formed(argv, env), \A i \in Given(argv, "-v") : Takes(argv, i)
    PROVE  ValueOf(Typed(argv, env), "-v") = ValueOf(argv, "-v")
<1> DEFINE text == Typed(argv, env)
<1>1. "-v" \in Options
  BY DEF Options, CoreOptions
<1>2. /\ Given(text, "-v") = Given(argv, "-v")
      /\ \A i \in Given(argv, "-v") :
            (Takes(text, i) <=> Takes(argv, i)) /\ (Takes(argv, i) => text[i + 1] = argv[i + 1])
  BY <1>1, TypedGiven
<1> HIDE DEF text
<1>3. ValueOf(text, "-v") = ValueOf(argv, "-v")
  <2>1. CASE Given(argv, "-v") = {}
    BY <1>2, <2>1 DEF ValueOf
  <2>2. CASE Given(argv, "-v") # {}
    <3> DEFINE i == CHOOSE i \in Given(argv, "-v") : Takes(argv, i)
    <3>1. i \in Given(argv, "-v") /\ (CHOOSE j \in Given(text, "-v") : Takes(text, j)) = i
      BY <1>2, <2>2
    <3>2. ValueOf(argv, "-v") = argv[i + 1] /\ ValueOf(text, "-v") = text[i + 1]
      BY <1>2, <3>1 DEF ValueOf
    <3> HIDE DEF i
    <3>3. QED BY <1>2, <3>1, <3>2
  <2>3. QED BY <2>1, <2>2
<1>4. QED BY <1>3 DEF text

\* The first word, if there is one, is at the first place of a word.
LEMMA FirstWord ==
    ASSUME NEW argv, Words(argv) # {}, Words(argv) \subseteq 1..Len(argv), Len(argv) \in Nat
    PROVE  \E w \in Words(argv) :
              /\ \A i \in Words(argv) : w <= i
              /\ NthWord(argv, 1) = argv[w]
<1> DEFINE W == Words(argv)
           Before(i) == {j \in W : j <= i}
           x == CHOOSE i \in W : Cardinality(Before(i)) = 1
<1>1. IsFiniteSet(W) /\ Cardinality(W) \in Nat /\ Cardinality(W) # 0
  <2>1. IsFiniteSet(1..Len(argv))
    BY FS_Interval
  <2>2. IsFiniteSet(W)
    <3> HIDE DEF W
    <3>1. W \in SUBSET (1..Len(argv))
      BY DEF W
    <3>2. QED BY <2>1, <3>1, FS_Subset
  <2>3. QED BY <2>2, FS_CardinalityType, FS_EmptySet
<1>2. PICK w \in W : \A i \in W : w <= i
  <2>1. W \in SUBSET Nat
    OBVIOUS
  <2> HIDE DEF W
  <2>2. W # {}
    BY DEF W
  <2>3. Min(W) \in W /\ \A i \in W : Min(W) <= i
    BY <2>1, <2>2, MinProperties
  <2>4. QED BY <2>3
<1>3. \A i \in W : Cardinality(Before(i)) = 1 <=> i = w
  <2>1. SUFFICES ASSUME NEW i \in W PROVE Cardinality(Before(i)) = 1 <=> i = w
    OBVIOUS
  <2>2. i \in Before(i) /\ w \in Before(i) /\ i \in Nat /\ w \in Nat
    BY <1>2
  <2>3. IsFiniteSet(Before(i))
    <3>1. Before(i) \in SUBSET W
      OBVIOUS
    <3> HIDE DEF Before, W
    <3>2. QED BY <1>1, <3>1, FS_Subset
  <2>4. ASSUME i = w PROVE Before(i) = {i}
    BY <1>2, <2>4
  <2> HIDE DEF Before
  <2>5. ASSUME i = w PROVE Cardinality(Before(i)) = 1
    <3>1. Before(i) = {i}
      BY <2>4, <2>5
    <3>2. QED BY <3>1, FS_Singleton
  <2>6. ASSUME Cardinality(Before(i)) = 1 PROVE i = w
    <3>1. PICK e : Before(i) = {e}
      BY <2>3, <2>6, FS_Singleton
    <3>2. QED BY <2>2, <3>1
  <2>7. QED BY <2>5, <2>6
<1>4. x = w
  <2> HIDE DEF Before
  <2>1. QED BY <1>2, <1>3
<1>5. NthWord(argv, 1) = argv[x]
  BY <1>1 DEF NthWord
<1>6. QED BY <1>2, <1>4, <1>5

\* The first word is the one that was typed.
LEMMA TypedFirstWord ==
    ASSUME NEW argv, NEW env, Formed(argv, env)
    PROVE  NthWord(Typed(argv, env), 1) = NthWord(argv, 1)
<1> DEFINE text == Typed(argv, env)
           W    == Words(argv)
<1>1. /\ Len(argv) \in Nat /\ Len(text) \in Nat /\ Len(argv) <= Len(text)
      /\ DOMAIN argv = 1..Len(argv)
      /\ \A i \in 1..Len(argv) : text[i] = argv[i]
  BY TypedPlaces
<1>2. Words(text) = W
  BY TypedWords
<1>3. W \subseteq 1..Len(argv) /\ W \subseteq 1..Len(text)
  BY <1>1 DEF Words
<1> HIDE DEF text
<1>4. CASE W = {}
  <2>1. Cardinality(W) = 0
    BY <1>4, FS_EmptySet
  <2>2. NthWord(text, 1) = Undefined /\ NthWord(argv, 1) = Undefined
    BY <1>2, <2>1 DEF NthWord
  <2>3. QED BY <2>2 DEF text
<1>5. CASE W # {}
  <2>1. PICK w \in W : (\A i \in W : w <= i) /\ NthWord(argv, 1) = argv[w]
    BY <1>1, <1>3, <1>5, FirstWord
  <2>2. PICK u \in W : (\A i \in W : u <= i) /\ NthWord(text, 1) = text[u]
    BY <1>1, <1>2, <1>3, <1>5, FirstWord
  <2>3. w = u
    BY <1>1, <1>3, <2>1, <2>2
  <2>4. QED BY <1>1, <1>3, <2>1, <2>2, <2>3 DEF text
<1>6. QED BY <1>4, <1>5

\* The prefix counts on the command line, or in no place.
PrefixTyped(argv, env) == ValueOf(argv, "-v") # Undefined \/ <<"", "-v">> \notin DOMAIN env

\* What the first parse reads, from both sides.
LEMMA TypedRead ==
    ASSUME NEW argv, NEW env, Formed(argv, env),
           ~LacksArgument(argv, CoreOptions), PrefixTyped(argv, env)
    PROVE  LET text   == Typed(argv, env)
               prefix == DefaultTo(ValueOf(argv, "-v"), "")
           IN /\ DefaultTo(ValueOf(text, "-v"), "") = prefix
              /\ \A option \in {"-l", "-m", "-o", "-c"} : \A any :
                    Setting(text, <<>>, any, option) = Setting(argv, env, prefix, option)
              /\ \A any : DefaultTo(Setting(text, <<>>, any, "-v"), "") = prefix
              /\ DefaultTo(Setting(argv, env, prefix, "-v"), "") = prefix
<1> DEFINE text   == Typed(argv, env)
           prefix == DefaultTo(ValueOf(argv, "-v"), "")
<1>1. \A option \in CoreOptions : \A i \in Given(argv, option) : Takes(argv, i)
  BY DEF LacksArgument
<1>2. ValueOf(text, "-v") = ValueOf(argv, "-v")
  <2>1. "-v" \in CoreOptions
    BY DEF CoreOptions
  <2>2. QED BY <1>1, <2>1, TypedPrefix
<1>3. ASSUME NEW option \in {"-l", "-m", "-o", "-c"}
      PROVE  ValueOf(text, option) = Setting(argv, env, prefix, option)
  <2>1. option \in Options \ {"-t", "-v"} /\ option \in CoreOptions
    BY DEF Options, CoreOptions
  <2> HIDE DEF prefix
  <2>2. QED BY <1>1, <2>1, TypedValue DEF prefix
<1> HIDE DEF text
<1>4. \A any, option : Setting(text, <<>>, any, option) = ValueOf(text, option)
  <2>1. DOMAIN <<>> = {}
    OBVIOUS
  <2>2. QED BY <2>1 DEF Setting
<1>5. DefaultTo(Setting(argv, env, prefix, "-v"), "") = prefix
  <2>1. CASE ValueOf(argv, "-v") # Undefined
    BY <2>1 DEF Setting, DefaultTo
  <2>2. CASE ValueOf(argv, "-v") = Undefined
    <3>1. prefix = "" /\ <<prefix, "-v">> \notin DOMAIN env
      BY <2>2 DEF DefaultTo, PrefixTyped
    <3> HIDE DEF prefix
    <3>2. Setting(argv, env, prefix, "-v") = Undefined
      BY <2>2, <3>1 DEF Setting
    <3>3. QED BY <3>1, <3>2 DEF DefaultTo
  <2>3. QED BY <2>1, <2>2
<1>6. QED BY <1>2, <1>3, <1>4, <1>5 DEF text

\* The parameters of a run are those of the longer command line (Cli.parseCliArgs).
LEMMA TypedParams ==
    ASSUME NEW argv, NEW env, Formed(argv, env), PrefixTyped(argv, env),
           Runs(parseCliArgs(argv, env))
    PROVE  parseCliArgs(argv, env) = parseCliArgs(Typed(argv, env), <<>>)
<1> DEFINE text   == Typed(argv, env)
           prefix == DefaultTo(ValueOf(argv, "-v"), "")
           typed  == DefaultTo(ValueOf(text, "-v"), "")
           level  == DefaultTo(Setting(argv, env, prefix, "-l"), "info")
           level2 == DefaultTo(Setting(text, <<>>, typed, "-l"), "info")
           ours   == parseCliArgs(argv, env)
           theirs == parseCliArgs(text, <<>>)
<1>1. ~LacksArgument(argv, CoreOptions) /\ level \in LogLevels /\ Given(argv, Help) = {}
  BY DEF Runs, parseCliArgs
<1>2. ours.valid = TRUE /\ ours.help = FALSE
  BY <1>1 DEF parseCliArgs
<1>3. /\ typed = prefix
      /\ \A option \in {"-l", "-m", "-o", "-c"} : \A any :
            Setting(text, <<>>, any, option) = Setting(argv, env, prefix, option)
      /\ \A any : DefaultTo(Setting(text, <<>>, any, "-v"), "") = prefix
      /\ DefaultTo(Setting(argv, env, prefix, "-v"), "") = prefix
  BY <1>1, TypedRead
<1>4. ~LacksArgument(text, CoreOptions)
  <2>1. CoreOptions \in SUBSET (Options \ {"-t"})
    BY DEF Options, CoreOptions
  <2>2. QED BY <1>1, <2>1, TypedLacks
<1>5. Given(text, Help) = {}
  <2>1. Help \notin Options
    BY DEF Help, Options, CoreOptions
  <2>2. QED BY <1>1, <2>1, TypedGiven
<1>6. NthWord(text, 1) = NthWord(argv, 1)
  BY TypedFirstWord
<1> HIDE DEF text, prefix, typed, level, level2
<1>7. level2 = level
  BY <1>3 DEF level, level2
<1>8. theirs.valid = TRUE /\ theirs.help = FALSE
  BY <1>1, <1>4, <1>5, <1>7 DEF parseCliArgs, level2, typed
<1>9. /\ ours.loggingLevel = theirs.loggingLevel
      /\ ours.mainModulePath = theirs.mainModulePath
      /\ ours.modulePathPlaceholder = theirs.modulePathPlaceholder
      /\ ours.envVarPrefix = theirs.envVarPrefix
      /\ ours.config = theirs.config
      /\ ours.command = theirs.command
  BY <1>3, <1>6 DEF parseCliArgs, prefix, typed
<1>10. ASSUME NEW any, NEW env2
       PROVE  LET read == parseCliArgs(any, env2)
              IN read = [loggingLevel |-> read.loggingLevel,
                         mainModulePath |-> read.mainModulePath,
                         modulePathPlaceholder |-> read.modulePathPlaceholder,
                         envVarPrefix |-> read.envVarPrefix,
                         config |-> read.config,
                         command |-> read.command,
                         help |-> read.help,
                         valid |-> read.valid]
  BY DEF parseCliArgs
<1>11. ours = theirs
  <2>1. ours.help = theirs.help /\ ours.valid = theirs.valid
    BY <1>2, <1>8
  <2>2. /\ ours = [loggingLevel |-> ours.loggingLevel,
                   mainModulePath |-> ours.mainModulePath,
                   modulePathPlaceholder |-> ours.modulePathPlaceholder,
                   envVarPrefix |-> ours.envVarPrefix,
                   config |-> ours.config,
                   command |-> ours.command,
                   help |-> ours.help,
                   valid |-> ours.valid]
        /\ theirs = [loggingLevel |-> theirs.loggingLevel,
                   mainModulePath |-> theirs.mainModulePath,
                   modulePathPlaceholder |-> theirs.modulePathPlaceholder,
                   envVarPrefix |-> theirs.envVarPrefix,
                   config |-> theirs.config,
                   command |-> theirs.command,
                   help |-> theirs.help,
                   valid |-> theirs.valid]
    BY <1>10
  <2> HIDE DEF ours, theirs
  <2>3. QED BY <1>9, <2>1, <2>2
<1>12. QED BY <1>11 DEF text

\* Whether the stack trace is shown, read from both sides (ShowStackTrace).
LEMMA TypedStackTrace ==
    ASSUME NEW argv, NEW env, Formed(argv, env), NEW any
    PROVE  ShowStackTrace(argv, env, DefaultTo(ValueOf(argv, "-v"), ""))
              <=> ShowStackTrace(Typed(argv, env), <<>>, any)
<1> DEFINE text == Typed(argv, env)
           key  == KeyOf(argv, "-t")
<1>1. /\ "-t" \in Options \ {"-v"} /\ "-t" # Help
      /\ Undefined # "false" /\ DOMAIN <<>> = {}
  BY DEF Help, Options, CoreOptions, Undefined
<1>2. \/ /\ Given(text, "-t") = Given(argv, "-t") /\ Added(argv, env, "-t") = <<>>
         /\ \A i \in Given(argv, "-t") :
               (Takes(text, i) <=> Takes(argv, i)) /\ (Takes(argv, i) => text[i + 1] = argv[i + 1])
      \/ /\ Added(argv, env, "-t") # <<>> /\ Given(argv, "-t") = {} /\ Given(text, "-t") # {}
         /\ \A i \in Given(text, "-t") : ~Takes(text, i)
  BY <1>1, TypedGiven
<1>3. Added(argv, env, "-t") # <<>>
         <=> Given(argv, "-t") = {} /\ key \in DOMAIN env /\ env[key] = "true"
  BY DEF Added, KeyOf
<1>4. key = <<DefaultTo(ValueOf(argv, "-v"), ""), "-t">>
  BY DEF KeyOf
<1> HIDE DEF text, key
<1>5. CASE Given(argv, "-t") # {}
  <2>1. /\ Given(text, "-t") = Given(argv, "-t")
        /\ \A j \in Given(argv, "-t") :
              (Takes(text, j) <=> Takes(argv, j)) /\ (Takes(argv, j) => text[j + 1] = argv[j + 1])
    BY <1>2, <1>5
  <2>2. ValueOf(text, "-t") = ValueOf(argv, "-t")
    <3>1. CASE \A j \in Given(argv, "-t") : ~Takes(argv, j)
      BY <2>1, <3>1 DEF ValueOf
    <3>2. CASE \E j \in Given(argv, "-t") : Takes(argv, j)
      <4> DEFINE i == CHOOSE i \in Given(argv, "-t") : Takes(argv, i)
      <4>1. /\ i \in Given(argv, "-t") /\ Takes(argv, i)
            /\ (CHOOSE j \in Given(text, "-t") : Takes(text, j)) = i
        BY <2>1, <3>2
      <4>2. ValueOf(argv, "-t") = argv[i + 1] /\ ValueOf(text, "-t") = text[i + 1]
        BY <2>1, <3>2, <4>1 DEF ValueOf
      <4> HIDE DEF i
      <4>3. QED BY <2>1, <4>1, <4>2
    <3>3. QED BY <3>1, <3>2
  <2>3. QED BY <1>5, <2>1, <2>2 DEF ShowStackTrace, text
<1>6. CASE Given(argv, "-t") = {} /\ Added(argv, env, "-t") = <<>>
  BY <1>1, <1>2, <1>3, <1>4, <1>6 DEF ShowStackTrace, text
<1>7. CASE Given(argv, "-t") = {} /\ Added(argv, env, "-t") # <<>>
  <2>1. Given(text, "-t") # {} /\ ValueOf(text, "-t") = Undefined
    BY <1>2, <1>7 DEF ValueOf
  <2>2. QED BY <1>1, <1>3, <1>4, <1>7, <2>1 DEF ShowStackTrace, text
<1>8. QED BY <1>5, <1>6, <1>7

\* What the second parse reads, from both sides.
LEMMA TypedVariables ==
    ASSUME NEW argv, NEW env, Formed(argv, env), PrefixTyped(argv, env),
           NEW read, Runs(parseCliArgs(argv, env)), read = parseCliArgs(argv, env),
           resolveVariables(argv, env, read).valid
    PROVE  resolveVariables(argv, env, read) = resolveVariables(Typed(argv, env), <<>>, read)
<1> DEFINE text    == Typed(argv, env)
           prefix  == DefaultTo(ValueOf(argv, "-v"), "")
           values  == [o \in Options |-> Setting(argv, env, read.envVarPrefix, o)]
           values2 == [o \in Options |-> Setting(text, <<>>, read.envVarPrefix, o)]
           traced  == ShowStackTrace(argv, env, read.envVarPrefix)
           traced2 == ShowStackTrace(text, <<>>, read.envVarPrefix)
           mine    == SettingsOf(values, traced, read.modulePathPlaceholder)
           theirs  == SettingsOf(values2, traced2, read.modulePathPlaceholder)
<1>1. ~LacksArgument(argv, CoreOptions)
  BY DEF Runs, parseCliArgs
<1>2. read.envVarPrefix = prefix
  <2>1. DefaultTo(Setting(argv, env, prefix, "-v"), "") = prefix
    BY <1>1, TypedRead
  <2>2. QED BY <2>1 DEF parseCliArgs
<1>3. /\ resolveVariables(argv, env, read)
            = [mine EXCEPT !.valid = mine.valid /\ ~LacksArgument(argv, {"-b", "-p"})]
      /\ resolveVariables(text, <<>>, read)
            = [theirs EXCEPT !.valid = theirs.valid /\ ~LacksArgument(text, {"-b", "-p"})]
  BY DEF resolveVariables
<1>4. mine.valid /\ ~LacksArgument(argv, {"-b", "-p"})
  BY <1>3 DEF SettingsOf
<1>5. ~LacksArgument(text, {"-b", "-p"})
  <2>1. {"-b", "-p"} \in SUBSET (Options \ {"-t"})
    BY DEF Options
  <2>2. QED BY <1>4, <2>1, TypedLacks
<1>6. ASSUME NEW option \in {"-l", "-b", "-p", "--assets", "--mainModulePlaceholder"}
      PROVE  values[option] = values2[option]
  <2>1. option \in Options \ {"-t", "-v"}
    BY DEF Options, CoreOptions
  <2>2. \A i \in Given(argv, option) : Takes(argv, i)
    <3>1. CASE option \in {"-l", "-b", "-p"}
      BY <1>1, <1>4, <3>1 DEF LacksArgument, CoreOptions
    <3>2. CASE option \in {"--assets", "--mainModulePlaceholder"}
      BY <3>2 DEF Formed, Given
    <3>3. QED BY <3>1, <3>2
  <2>3. ValueOf(text, option) = Setting(argv, env, prefix, option)
    BY <2>1, <2>2, TypedValue
  <2>4. Setting(text, <<>>, read.envVarPrefix, option) = ValueOf(text, option)
    <3>1. DOMAIN <<>> = {}
      OBVIOUS
    <3>2. QED BY <3>1 DEF Setting
  <2> HIDE DEF text, prefix
  <2>5. QED BY <1>2, <2>1, <2>3, <2>4
<1>7. traced <=> traced2
  BY <1>2, TypedStackTrace
<1> HIDE DEF traced, traced2
<1> HIDE DEF values, values2, text, prefix
<1>8. /\ mine.valid = (values["--assets"] \notin Numeric)
      /\ theirs.valid = (values2["--assets"] \notin Numeric)
  BY DEF SettingsOf
<1>9. theirs.valid
  BY <1>4, <1>6, <1>8
<1>10. mine = theirs
  <2> DEFINE assets == AssetPath(values["--assets"], read.modulePathPlaceholder)
             placeholder == DefaultTo(values["--mainModulePlaceholder"], "@SoR:")
             url == BaseUrl(values["-b"], values["-p"])
             level == DefaultTo(values["-l"], "info")
             port == DefaultTo(values["-p"], "3000")
  <2>1. values["--assets"] = values2["--assets"] /\ values["-l"] = values2["-l"]
        /\ values["-b"] = values2["-b"] /\ values["-p"] = values2["-p"]
        /\ values["--mainModulePlaceholder"] = values2["--mainModulePlaceholder"]
    BY <1>6
  <2>2. values["--assets"] \notin Numeric
    BY <1>4, <1>8
  <2>3. /\ mine = [valid |-> TRUE, modulePathPlaceholder |-> placeholder, baseUrl |-> url,
                   loggingLevel |-> level, port |-> port, showStackTrace |-> traced,
                   assets |-> assets]
        /\ theirs = [valid |-> TRUE, modulePathPlaceholder |-> placeholder, baseUrl |-> url,
                   loggingLevel |-> level, port |-> port, showStackTrace |-> traced2,
                   assets |-> assets]
    BY <2>1, <2>2 DEF SettingsOf
  <2>4. traced = traced2
    BY <1>7 DEF traced, traced2, ShowStackTrace
  <2>5. QED BY <2>3, <2>4
<1>11. QED
  <2> HIDE DEF mine, theirs
  <2>1. resolveVariables(argv, env, read) = [mine EXCEPT !.valid = TRUE]
    BY <1>3, <1>4
  <2>2. resolveVariables(text, <<>>, read) = [theirs EXCEPT !.valid = TRUE]
    BY <1>3, <1>5, <1>9
  <2>3. QED BY <1>10, <2>1, <2>2 DEF text

\* The words of a command line are told apart by their places.
LEMMA SecondWord ==
    ASSUME NEW argv, Words(argv) \subseteq 1..Len(argv), Len(argv) \in Nat,
           NEW w \in Words(argv), \A i \in Words(argv) : w <= i, w + 1 \in Words(argv)
    PROVE  NthWord(argv, 2) = argv[w + 1]
<1> DEFINE W == Words(argv)
           Before(i) == {j \in W : j <= i}
           x == CHOOSE i \in W : Cardinality(Before(i)) = 2
           one == {w}
           two == one \cup {w + 1}
<1>1. w \in Nat /\ w + 1 \in W /\ w # w + 1 /\ \A i \in W : i \in Nat /\ w <= i
  OBVIOUS
<1>2. one \subseteq two /\ two \subseteq W /\ w + 1 \in two /\ w + 1 \notin one
  BY <1>1
<1>3. Before(w) = one /\ Before(w + 1) = two /\ \A i \in W : i \in Before(i)
  BY <1>1
<1>4. ASSUME NEW i \in W, i # w, i # w + 1
      PROVE  two \subseteq Before(i) /\ i \notin two
  <2>1. i > w + 1
    BY <1>1, <1>4
  <2>2. QED BY <1>1, <2>1
<1>5. IsFiniteSet(W)
  <2>1. IsFiniteSet(1..Len(argv))
    BY FS_Interval
  <2>2. W \in SUBSET (1..Len(argv))
    OBVIOUS
  <2> HIDE DEF W
  <2>3. QED BY <2>1, <2>2, FS_Subset
<1>6. \A i \in W : Before(i) \in SUBSET W
  OBVIOUS
<1>7. Cardinality(one) = 1 /\ IsFiniteSet(one)
  BY FS_Singleton
<1>8. Cardinality(two) = 2 /\ IsFiniteSet(two)
  <2> HIDE DEF one
  <2>1. Cardinality(two) = Cardinality(one) + 1 /\ IsFiniteSet(two)
    BY <1>2, <1>7, FS_AddElement
  <2>2. QED BY <1>7, <2>1
<1> HIDE DEF W, Before, one, two
<1>9. \A i \in W : IsFiniteSet(Before(i))
  BY <1>5, <1>6, FS_Subset
<1>10. ASSUME NEW i \in W PROVE Cardinality(Before(i)) = 2 <=> i = w + 1
  <2>1. CASE i = w
    BY <1>1, <1>3, <1>7, <2>1
  <2>2. CASE i = w + 1
    BY <1>3, <1>8, <2>2
  <2>3. CASE i # w /\ i # w + 1
    <3>1. two \in SUBSET Before(i) /\ i \notin two /\ i \in Before(i)
      BY <1>3, <1>4, <2>3
    <3>2. Cardinality(two) = Cardinality(Before(i)) => two = Before(i)
      BY <1>9, <3>1, FS_Subset
    <3>3. QED BY <1>1, <1>8, <2>3, <3>1, <3>2
  <2>4. QED BY <2>1, <2>2, <2>3
<1>11. x = w + 1
  BY <1>1, <1>10
<1>12. ~(Cardinality(W) < 2)
  <2>1. two \in SUBSET W
    BY <1>2
  <2>2. Cardinality(two) <= Cardinality(W) /\ Cardinality(W) \in Nat
    BY <1>5, <2>1, FS_Subset, FS_CardinalityType
  <2>3. QED BY <1>8, <2>2
<1>13. NthWord(argv, 2) = argv[x]
  BY <1>12 DEF NthWord, W, Before
<1>14. QED BY <1>11, <1>13

\* A known queue or task that a command works on is the second word of its
\* command line.
LEMMA OperandIsWord ==
    ASSUME NEW argv \in Seq(STRING \ {Undefined}),
           OperandOf(argv, NthWord(argv, 1)) \in Known
    PROVE  OperandOf(argv, NthWord(argv, 1)) = NthWord(argv, 2)
<1> DEFINE n       == Len(argv)
           command == NthWord(argv, 1)
           places  == Given(argv, command)
           first   == CHOOSE i \in places : \A j \in places : i <= j
           operand == OperandOf(argv, command)
<1>1. n \in Nat /\ DOMAIN argv = 1..n
  BY LenProperties
<1>2. operand \notin Operated \cup Options \cup {Help, Undefined}
  BY DEF Known
<1>3. command \in Operated /\ places # {} /\ first < n /\ operand = argv[first + 1]
  BY <1>2 DEF OperandOf
<1>4. Undefined \notin Operated /\ Operated \cap (Options \cup {Help}) = {}
  BY DEF Undefined, Operated, Options, CoreOptions, Help
<1>5. Words(argv) \subseteq 1..n
  BY <1>1 DEF Words
<1>6. Words(argv) # {}
  <2>1. Cardinality({}) = 0
    BY FS_EmptySet
  <2>2. Words(argv) = {} => NthWord(argv, 1) = Undefined
    BY <2>1 DEF NthWord
  <2> HIDE DEF places, first, operand
  <2>3. QED BY <1>3, <1>4, <2>2
<1>7. PICK w \in Words(argv) : (\A i \in Words(argv) : w <= i) /\ command = argv[w]
  BY <1>1, <1>5, <1>6, FirstWord
<1>8. first \in places /\ \A j \in places : first <= j
  <2>1. places \in SUBSET Nat
    BY <1>1 DEF Given
  <2> HIDE DEF places
  <2>2. \E i \in places : \A j \in places : i <= j
    BY <1>3, <2>1, MinProperties
  <2>3. QED BY <2>2
<1> HIDE DEF command, first, operand
<1>9. first \in 1..n /\ argv[first] = command /\ first <= w /\ w \in 1..n
  BY <1>1, <1>5, <1>7, <1>8 DEF Given
<1>10. first + 1 \in 1..n /\ (first + 1) - 1 = first /\ first + 1 # 1
  BY <1>1, <1>3, <1>9
<1>11. first + 1 \in Words(argv)
  <2>1. ~Takes(argv, first)
    BY <1>3, <1>4, <1>9 DEF Takes
  <2>2. argv[first + 1] \notin Options \cup {Help}
    BY <1>2, <1>3
  <2>3. QED BY <1>1, <1>10, <2>1, <2>2 DEF Words
<1>12. first = w
  <2>1. w <= first + 1
    BY <1>7, <1>11
  <2>2. first + 1 # w
    BY <1>2, <1>3, <1>7
  <2>3. QED BY <1>9, <2>1, <2>2
<1>13. NthWord(argv, 2) = argv[w + 1]
  BY <1>1, <1>5, <1>7, <1>11, <1>12, SecondWord
<1>14. QED BY <1>3, <1>12, <1>13 DEF operand, command

---------------------------------------------------------------------------
(* Every command line that is set up.                                      *)

\* The variables that are there were read from the launch.
ResolvedOK ==
    variables # NoVariables =>
        /\ launch \in Launches
        /\ params = parseCliArgs(launch.argv, launch.env)
        /\ Runs(params)
        /\ variables = resolveVariables(launch.argv, launch.env, params)
        /\ variables.valid
        /\ \E p \in Processes : pc[p] = "instantiate"

\* Every step keeps what is known of the variables, action by action.
LEMMA ResolvedPreserved == IInv /\ ResolvedOK /\ [Next]_vars => ResolvedOK'
<1> SUFFICES ASSUME IInv, ResolvedOK, [Next]_vars PROVE ResolvedOK' OBVIOUS
<1>a. /\ pc \in [Processes -> {"off", "setup", "instantiate", "read", "record", "listen",
                              "listening", "version", "up", "callback", "collect", "delete",
                              "stop"}]
      /\ SetupOK
    BY DEF IInv, TypeOK
<1> USE DEF ResolvedOK, RunsApplication, RunsTask, Goto, vars, storage, walks, setup
<1>1. CASE UNCHANGED vars BY <1>1
<1>2. ASSUME NEW p \in Processes, Launch(p) PROVE ResolvedOK' BY <1>a, <1>2 DEF Launch
<1>3. ASSUME NEW p \in Processes, ResolveVariables(p) PROVE ResolvedOK'
    BY <1>a, <1>3 DEF ResolveVariables, SetupOK
<1>4. ASSUME NEW p \in Processes, Instantiate(p) PROVE ResolvedOK' BY <1>4 DEF Instantiate
<1>5. ASSUME NEW p \in Processes, ReadBaseUrl(p) PROVE ResolvedOK' BY <1>a, <1>5 DEF ReadBaseUrl
<1>6. ASSUME NEW p \in Processes, RecordBaseUrl(p) PROVE ResolvedOK'
    BY <1>a, <1>6 DEF RecordBaseUrl
<1>7. ASSUME NEW p \in Processes, Listen(p) PROVE ResolvedOK' BY <1>a, <1>7 DEF Listen
<1>8. ASSUME NEW p \in Processes, WriteVersion(p) PROVE ResolvedOK'
    BY <1>a, <1>8 DEF WriteVersion
<1>9. ASSUME NEW p \in Processes, Use(p) PROVE ResolvedOK'
    BY <1>a, <1>9 DEF Use, AppSet, AppDelete, BeginWalk, NextEntry, EndWalk
<1>10. ASSUME NEW p \in Processes, Drop(p) PROVE ResolvedOK'
    BY <1>a, <1>10 DEF Drop, BeginDrop, DropEntry, DropCollected, DropDelete, Dropped
<1>11. ASSUME NEW p \in Processes, Exit(p) PROVE ResolvedOK' BY <1>a, <1>11 DEF Exit
<1> QED
    BY <1>1, <1>2, <1>3, <1>4, <1>5, <1>6, <1>7, <1>8, <1>9, <1>10, <1>11 DEF Next, Start

\* What is known of the variables is enough.
LEMMA ResolvedDecides == ResolvedOK => CommandLineDecides
<1> SUFFICES ASSUME ResolvedOK, variables # NoVariables PROVE CommandLineDecides
  BY DEF CommandLineDecides
<1> DEFINE argv  == launch.argv
           env   == launch.env
           typed == Typed(argv, env)
<1>1. /\ Formed(argv, env)
      /\ params = parseCliArgs(argv, env) /\ Runs(parseCliArgs(argv, env))
      /\ variables = resolveVariables(argv, env, params)
      /\ resolveVariables(argv, env, params).valid
  BY LaunchForm DEF ResolvedOK, Formed
<1>2. ASSUME PrefixTyped(argv, env)
      PROVE  /\ params = parseCliArgs(typed, <<>>)
             /\ variables = resolveVariables(typed, <<>>, parseCliArgs(typed, <<>>))
  <2>1. params = parseCliArgs(typed, <<>>)
    BY <1>1, <1>2, TypedParams
  <2> HIDE DEF argv, env
  <2>2. resolveVariables(argv, env, params) = resolveVariables(typed, <<>>, params)
    BY <1>1, <1>2, TypedVariables
  <2>3. QED BY <1>1, <2>1, <2>2
<1>3. params.command = NthWord(argv, 1)
  BY <1>1 DEF parseCliArgs
<1>4. OperandOf(argv, params.command) \in Known =>
          OperandOf(argv, params.command) = NthWord(argv, 2)
  <2>1. argv \in Seq(STRING \ {Undefined})
    BY <1>1 DEF Formed
  <2> HIDE DEF argv
  <2>2. QED BY <1>3, <2>1, OperandIsWord
<1>5. QED BY <1>2, <1>3, <1>4 DEF CommandLineDecides, PrefixTyped

---------------------------------------------------------------------------
(* The theorems.                                                           *)

\* The inductive invariant (all the actions of Startup).
THEOREM Invariant == Spec => []IInv
<1>1. IInv /\ [Next]_vars => IInv'
    BY TypePreserved, SetupPreserved, DropPreserved, MovePreserved DEF IInv
<1> QED BY <1>1, InitIInv, PTL DEF Spec

\* Whatever the processes, the storages and the command lines are, every
\* variable keeps its type.
THEOREM TypeCorrect == Spec => []TypeOK
<1>1. IInv => TypeOK BY DEF IInv
<1> QED BY <1>1, Invariant, PTL

\* After storages:drop a storage holds only what was written since it began,
\* whatever the other processes do meanwhile (StorageAccessorRunner.dropStorages).
THEOREM DropLeavesLater == Spec => []DropLeavesOnlyLater
<1>1. IInv => DropLeavesOnlyLater BY DEF IInv
<1> QED BY <1>1, Invariant, PTL

\* A changed base URL is announced, and only a changed one, unless another
\* process raced the verifier (BaseUrlVerifier.handle).
THEOREM MoveAnnounced == Spec => []MoveIsAnnounced
<1>1. IInv => MoveIsAnnounced BY DEF IInv
<1> QED BY <1>1, Invariant, PTL

\* Whatever the command lines and environments are, the two parses agree and
\* a command works on its operand (Cli, YargsCliExtractor,
\* TaskAccessorRunner, QueueAccessorRunner).
THEOREM CommandLineRead == Spec => []CommandLineDecides
<1>1. Init => ResolvedOK
  BY DEF Init, ResolvedOK
<1>2. IInv /\ ResolvedOK /\ [Next]_vars => ResolvedOK'
  BY ResolvedPreserved
<1> QED BY <1>1, <1>2, ResolvedDecides, Invariant, PTL DEF Spec

---------------------------------------------------------------------------
(* The refinement.                                                         *)

MapsOf == [s \in Stores |-> [n \in Namespaces |-> [k \in Keys |-> Get(s, n, k)]]]

WaitingOf ==
    [p \in Processes |-> {k \in Keys : walking[p] # NoNamespace
                                       /\ addNamespaceToKey(walking[p], k) \in waiting[p]}]

\* One key of the map behind the namespaces is one key of one namespace.
LEMMA KeyChanges ==
    ASSUME TypeOK, NEW s \in Stores, NEW n \in Namespaces, NEW k \in Keys,
           NEW v \in Values \cup {NoValue}, SetKey(s, addNamespaceToKey(n, k), v),
           reply' = NoReply, UNCHANGED <<walking, waiting>>
    PROVE  Maps!Change(s, n, k)
<1>1. addNamespaceToKey(n, k) \in NamespacedKeys BY KeysApart
<1>2. \A t \in Stores, l \in NamespacedKeys :
         data'[t][l] = IF t = s /\ l = addNamespaceToKey(n, k) THEN v ELSE data[t][l]
    BY <1>1, SetChanges DEF TypeOK
<1>3. \A t \in Stores, m \in Namespaces, l \in Keys :
         Get(t, m, l)' = IF t = s /\ m = n /\ l = k THEN v ELSE Get(t, m, l)
    BY <1>2, KeysApart DEF Get
<1>4. MapsOf' = [MapsOf EXCEPT ![s][n][k] = v]
  <2>1. MapsOf' = [t \in Stores |-> [m \in Namespaces |-> [l \in Keys |->
                      IF t = s /\ m = n /\ l = k THEN v ELSE Get(t, m, l)]]]
    BY <1>3 DEF MapsOf
  <2>2. \A t \in Stores, m \in Namespaces :
           [l \in Keys |-> IF t = s /\ m = n /\ l = k THEN v ELSE Get(t, m, l)]
             = IF t = s /\ m = n THEN [MapsOf[t][m] EXCEPT ![k] = v] ELSE MapsOf[t][m]
    BY DEF MapsOf
  <2>3. \A t \in Stores :
           [m \in Namespaces |->
               [l \in Keys |-> IF t = s /\ m = n /\ l = k THEN v ELSE Get(t, m, l)]]
             = IF t = s THEN [MapsOf[t] EXCEPT ![n] = [MapsOf[t][n] EXCEPT ![k] = v]]
               ELSE MapsOf[t]
    <3> TAKE t \in Stores
    <3> DEFINE row(m) == IF t = s /\ m = n THEN [MapsOf[t][m] EXCEPT ![k] = v]
                         ELSE MapsOf[t][m]
    <3>1. MapsOf[t] = [m \in Namespaces |-> MapsOf[t][m]] BY DEF MapsOf
    <3>2. [m \in Namespaces |->
               [l \in Keys |-> IF t = s /\ m = n /\ l = k THEN v ELSE Get(t, m, l)]]
             = [m \in Namespaces |-> row(m)]
      BY <2>2
    <3>3. t # s => [m \in Namespaces |-> row(m)] = MapsOf[t] BY <3>1
    <3>4. t = s => [m \in Namespaces |-> row(m)]
                     = [MapsOf[t] EXCEPT ![n] = [MapsOf[t][n] EXCEPT ![k] = v]]
      BY <3>1
    <3> QED BY <3>2, <3>3, <3>4
  <2>4. MapsOf = [t \in Stores |-> MapsOf[t]] BY DEF MapsOf
  <2> QED BY <2>1, <2>3, <2>4
<1>5. MapsOf'[s][n][k] = v BY <1>3 DEF MapsOf
<1>6. WaitingOf' = WaitingOf BY DEF WaitingOf
<1>7. MapsOf' = [MapsOf EXCEPT ![s][n][k] = MapsOf'[s][n][k]] BY <1>4, <1>5
<1> QED BY <1>5, <1>6, <1>7 DEF Maps!Change, MapsOf, WaitingOf

\* The namespaces change with the data only.
LEMMA SameMaps == UNCHANGED data => MapsOf' = MapsOf
BY DEF MapsOf, Get

\* Nothing of a namespace changes: also not if a process that walks over none
\* counts its keys.
LEMMA OtherStep ==
    ASSUME UNCHANGED <<data, walking>>, reply' = NoReply,
           \A p \in Processes : waiting'[p] = waiting[p] \/ walking[p] = NoNamespace
    PROVE  Maps!Other
<1>1. WaitingOf' = WaitingOf BY DEF WaitingOf
<1> QED BY <1>1, SameMaps DEF Maps!Other, MapsOf, WaitingOf

\* A walk begins: it has to yield the entries of its namespace.
LEMMA BeginStep ==
    ASSUME IInv, NEW p \in Processes, NEW n \in AppNamespaces, BeginWalk(p, n)
    PROVE  Maps!Begin(p, StoreOf(p), n)
<1>1. /\ walking \in [Processes -> AppNamespaces \cup {NoNamespace}]
      /\ waiting \in [Processes -> SUBSET NamespacedKeys]
    BY DEF IInv, TypeOK
<1>2. n # NoNamespace /\ n \in Namespaces BY StorageAssumption DEF AppNamespaces
<1>3. \A k \in Keys : addNamespaceToKey(n, k) \in Present(StoreOf(p))
                         <=> MapsOf[StoreOf(p)][n][k] # NoValue
    BY <1>2, KeysApart, StoreType DEF Present, MapsOf, Get
<1>4. WaitingOf' = [WaitingOf EXCEPT ![p] = {k \in Keys : MapsOf[StoreOf(p)][n][k] # NoValue}]
    BY <1>1, <1>2, <1>3 DEF WaitingOf, BeginWalk
<1>5. MapsOf' = MapsOf BY SameMaps DEF BeginWalk, storage
<1> QED BY <1>4, <1>5 DEF Maps!Begin, Maps!Present, MapsOf, WaitingOf, BeginWalk

\* A walk meets an entry: one of its namespace is yielded, others are skipped.
LEMMA EntryStep ==
    ASSUME IInv, NEW p \in Processes, NEW e \in NamespacedKeys, NextEntry(p, e)
    PROVE  Maps!Other \/ \E k \in Keys : Maps!Yield(p, StoreOf(p), k)
<1>1. /\ walking \in [Processes -> AppNamespaces \cup {NoNamespace}]
      /\ waiting \in [Processes -> SUBSET NamespacedKeys]
    BY DEF IInv, TypeOK
<1> DEFINE w == walking[p]
<1>2. w \in Namespaces /\ w # NoNamespace BY <1>1 DEF NextEntry, AppNamespaces
<1>3. PICK m \in Namespaces, k \in Keys : e = addNamespaceToKey(m, k)
    BY DEF NamespacedKeys, addNamespaceToKey
<1>4. StartsWith(w, e) <=> m = w
    BY <1>2, <1>3, NamespaceAssumption DEF StartsWith, addNamespaceToKey
<1>5. MapsOf' = MapsOf BY SameMaps DEF NextEntry
<1>6. CASE m # w
  <2>1. \A l \in Keys : addNamespaceToKey(w, l) # e BY <1>2, <1>3, <1>6, KeysApart
  <2>2. WaitingOf' = WaitingOf BY <1>1, <2>1 DEF WaitingOf, NextEntry
  <2>3. reply' = NoReply BY <1>4, <1>6 DEF NextEntry
  <2> QED BY <1>5, <2>2, <2>3 DEF Maps!Other, MapsOf, WaitingOf, NextEntry
<1>7. CASE m = w
  <2>1. \A l \in Keys : addNamespaceToKey(w, l) = e <=> l = k BY <1>2, <1>3, <1>7, KeysApart
  <2>2. WaitingOf' = [WaitingOf EXCEPT ![p] = @ \ {k}] BY <1>1, <1>2, <2>1 DEF WaitingOf, NextEntry
  <2>3. removeNamespaceFromKey(w, e) = k
    BY <1>3, <1>7, EncodingAssumption DEF removeNamespaceFromKey, addNamespaceToKey
  <2>4. data[StoreOf(p)][e] = MapsOf[StoreOf(p)][w][k]
    BY <1>2, <1>3, <1>7, StoreType DEF MapsOf, Get
  <2>5. MapsOf[StoreOf(p)][w][k] # NoValue BY <2>4 DEF NextEntry, Present
  <2>6. reply' = [namespace |-> w, key |-> k, value |-> MapsOf[StoreOf(p)][w][k]]
    BY <1>4, <1>7, <2>3, <2>4 DEF NextEntry, Replied
  <2>7. Maps!Yield(p, StoreOf(p), k)
    BY <1>2, <1>5, <2>2, <2>5, <2>6
    DEF Maps!Yield, Maps!Answer, Maps!Present, MapsOf, WaitingOf, NextEntry
  <2> QED BY <2>7
<1> QED BY <1>6, <1>7

\* A walk ends only when it has yielded what was there all along.
LEMMA EndStep ==
    ASSUME IInv, NEW p \in Processes, EndWalk(p)
    PROVE  Maps!End(p, StoreOf(p))
<1>1. /\ walking \in [Processes -> AppNamespaces \cup {NoNamespace}]
      /\ waiting \in [Processes -> SUBSET NamespacedKeys]
    BY DEF IInv, TypeOK
<1> DEFINE w == walking[p]
<1>2. w \in Namespaces /\ w # NoNamespace BY <1>1 DEF EndWalk, AppNamespaces
<1>3. \A k \in Keys : MapsOf[StoreOf(p)][w][k] # NoValue =>
                         addNamespaceToKey(w, k) \notin waiting[p]
    BY <1>2, KeysApart, StoreType DEF MapsOf, Get, EndWalk, Walked, Present
<1>4. WaitingOf[p] \cap {k \in Keys : MapsOf[StoreOf(p)][w][k] # NoValue} = {}
    BY <1>3 DEF WaitingOf
<1>5. WaitingOf' = [WaitingOf EXCEPT ![p] = {}] BY <1>1 DEF WaitingOf, EndWalk
<1>6. MapsOf' = MapsOf BY SameMaps DEF EndWalk
<1> QED BY <1>2, <1>4, <1>5, <1>6 DEF Maps!End, Maps!Present, MapsOf, WaitingOf, EndWalk

\* A process ends with the storage it kept in memory.
LEMMA LeaveStep ==
    ASSUME IInv, NEW p \in Processes, Exit(p)
    PROVE  Maps!Leave(p, p)
<1>1. /\ walking \in [Processes -> AppNamespaces \cup {NoNamespace}]
      /\ waiting \in [Processes -> SUBSET NamespacedKeys]
      /\ DataOK
    BY DEF IInv, TypeOK
<1>2. WaitingOf' = [WaitingOf EXCEPT ![p] = {}] BY <1>1 DEF WaitingOf, Exit
<1>3. MapsOf' = MapsOf \/ MapsOf' = [MapsOf EXCEPT ![p] = Maps!Empty]
  <2>1. CASE data' = data BY <2>1, SameMaps
  <2>2. CASE data' = [data EXCEPT ![p] = Nothing]
    <3>1. \A t \in Stores, n \in Namespaces, k \in Keys :
             Get(t, n, k)' = IF t = p THEN NoValue ELSE Get(t, n, k)
      BY <1>1, <2>2, KeysApart DEF Get, DataOK, Nothing
    <3> QED BY <3>1 DEF MapsOf, Maps!Empty
  <2> QED BY <2>1, <2>2 DEF Exit
<1> QED BY <1>2, <1>3 DEF Maps!Leave, MapsOf, WaitingOf, Exit

\* At first every namespace is empty.
LEMMA InitMaps == Init => Maps!Init
<1> SUFFICES ASSUME Init PROVE Maps!Init OBVIOUS
<1>1. MapsOf = [s \in Stores |-> Maps!Empty]
    BY KeysApart DEF Init, MapsOf, Maps!Empty, Get, Nothing
<1>2. WaitingOf = [p \in Processes |-> {}] BY DEF Init, WaitingOf
<1> QED BY <1>1, <1>2 DEF Maps!Init, Init, MapsOf, WaitingOf

\* Every step is one of the maps, or none at all.
LEMMA NextMaps == IInv /\ [Next]_vars => [Maps!Next]_(Maps!vars)
<1> SUFFICES ASSUME IInv, [Next]_vars PROVE [Maps!Next]_(Maps!vars) OBVIOUS
<1>a. TypeOK /\ WalkOK /\ JobOK BY DEF IInv
<1>b. Maps!Other => Maps!Next BY DEF Maps!Next
<1>c. \A s \in Stores, n \in Namespaces, k \in Keys :
         Maps!Get(s, n, k) \/ Maps!Change(s, n, k) => Maps!Next
    BY DEF Maps!Next
<1>d. \A s \in Stores, p \in Processes : Maps!End(p, s) \/ Maps!Leave(p, s) => Maps!Next
    BY DEF Maps!Next
<1>e. \A s \in Stores, p \in Processes, n \in Namespaces : Maps!Begin(p, s, n) => Maps!Next
    BY DEF Maps!Next
<1>f. \A s \in Stores, p \in Processes, k \in Keys : Maps!Yield(p, s, k) => Maps!Next
    BY DEF Maps!Next
<1> USE DEF vars, storage, walks, setup
<1>1. CASE UNCHANGED vars
  <2>1. UNCHANGED <<MapsOf, WaitingOf, walking, reply>> BY <1>1, SameMaps DEF WaitingOf
  <2> QED BY <2>1 DEF Maps!vars, MapsOf, WaitingOf
<1>2. ASSUME NEW p \in Processes,
             \/ Launch(p) \/ ResolveVariables(p) \/ Instantiate(p) \/ Listen(p) \/ Dropped(p)
      PROVE  Maps!Next
  <2>1. UNCHANGED <<data, walking, waiting>> /\ reply' = NoReply
    BY <1>2 DEF Launch, ResolveVariables, Instantiate, Listen, Dropped
  <2> QED BY <1>b, <2>1, OtherStep
<1>3. ASSUME NEW p \in Processes,
             BeginDrop(p) \/ DropCollected(p) \/ \E k \in NamespacedKeys : DropEntry(p, k)
      PROVE  Maps!Next
  <2> USE DEF BeginDrop, DropCollected, DropEntry
  <2>1. UNCHANGED <<data, walking>> /\ reply' = NoReply BY <1>3
  <2>2. walking[p] = NoNamespace BY <1>a, <1>3 DEF WalkOK, RunsApplication, RunsTask
  <2>3. \A q \in Processes : waiting'[q] = waiting[q] \/ walking[q] = NoNamespace
    BY <1>a, <1>3, <2>2 DEF TypeOK
  <2> QED BY <1>b, <2>1, <2>3, OtherStep
<1>4. ASSUME NEW p \in Processes, ReadBaseUrl(p) PROVE Maps!Next
  <2>1. MapsOf' = MapsOf /\ WaitingOf' = WaitingOf
    BY <1>4, SameMaps DEF ReadBaseUrl, WaitingOf
  <2>2. MapsOf[StoreOf(p)][SetupNamespace][BaseUrlKey]
           = Get(StoreOf(p), SetupNamespace, BaseUrlKey)
    BY StoreType, StorageAssumption DEF MapsOf
  <2>3. Maps!Get(StoreOf(p), SetupNamespace, BaseUrlKey)
    BY <1>4, <2>1, <2>2 DEF Maps!Get, Maps!Answer, MapsOf, WaitingOf, ReadBaseUrl, Replied
  <2> QED BY <1>c, <2>3, StoreType, StorageAssumption
<1>5. ASSUME NEW p \in Processes, RecordBaseUrl(p) PROVE Maps!Next
  <2>1. job[p].baseUrl \in Values BY <1>a, <1>5 DEF JobOK, RecordBaseUrl, Jobs
  <2>2. Maps!Change(StoreOf(p), SetupNamespace, BaseUrlKey)
    BY <1>a, <1>5, <2>1, KeyChanges, StoreType, StorageAssumption DEF RecordBaseUrl, Put, Set
  <2> QED BY <1>c, <2>2, StoreType, StorageAssumption
<1>6. ASSUME NEW p \in Processes, WriteVersion(p) PROVE Maps!Next
  <2>1. Maps!Change(StoreOf(p), SetupNamespace, VersionKey)
    BY <1>a, <1>6, KeyChanges, StoreType, StorageAssumption DEF WriteVersion, Put, Set
  <2> QED BY <1>c, <2>1, StoreType, StorageAssumption
<1>7. ASSUME NEW p \in Processes, NEW n \in AppNamespaces, NEW k \in AppKeys,
             AppSet(p, n, k) \/ AppDelete(p, n, k)
      PROVE  Maps!Next
  <2>1. n \in Namespaces /\ k \in Keys BY StorageAssumption DEF AppNamespaces
  <2>2. PICK v \in Values \cup {NoValue} : SetKey(StoreOf(p), addNamespaceToKey(n, k), v)
    BY <1>7, StorageAssumption DEF AppSet, AppDelete, Put, Set, Delete
  <2>3. reply' = NoReply /\ UNCHANGED <<walking, waiting>> BY <1>7 DEF AppSet, AppDelete, Put
  <2>4. Maps!Change(StoreOf(p), n, k) BY <1>a, <2>1, <2>2, <2>3, KeyChanges, StoreType
  <2> QED BY <1>c, <2>1, <2>4, StoreType
<1>8. ASSUME NEW p \in Processes, NEW n \in AppNamespaces, BeginWalk(p, n) PROVE Maps!Next
  <2>1. Maps!Begin(p, StoreOf(p), n) BY <1>8, BeginStep
  <2>2. n \in Namespaces BY DEF AppNamespaces
  <2>3. StoreOf(p) \in Stores BY StoreType
  <2> QED BY <1>e, <2>1, <2>2, <2>3 DEF Maps!Begin
<1>9. ASSUME NEW p \in Processes, NEW k \in NamespacedKeys, NextEntry(p, k) PROVE Maps!Next
  <2>1. Maps!Other \/ \E l \in Keys : Maps!Yield(p, StoreOf(p), l) BY <1>9, EntryStep
  <2>2. StoreOf(p) \in Stores BY StoreType
  <2> QED BY <1>b, <1>f, <2>1, <2>2 DEF Maps!Yield
<1>10. ASSUME NEW p \in Processes, EndWalk(p) PROVE Maps!Next
    BY <1>10, <1>d, EndStep, StoreType
<1>11. ASSUME NEW p \in Processes, NEW e \in NamespacedKeys, DropDelete(p, e) PROVE Maps!Next
  <2>1. PICK n \in Namespaces, k \in Keys : e = addNamespaceToKey(n, k)
    BY DEF NamespacedKeys, addNamespaceToKey
  <2>2. Maps!Change(StoreOf(p), n, k)
    BY <1>a, <1>11, <2>1, KeyChanges, StoreType DEF DropDelete
  <2> QED BY <1>c, <2>2, StoreType
<1>12. ASSUME NEW p \in Processes, Exit(p) PROVE Maps!Next
    BY <1>12, <1>d, LeaveStep, StorageAssumption
<1> QED
    BY <1>1, <1>2, <1>3, <1>4, <1>5, <1>6, <1>7, <1>8, <1>9, <1>10, <1>11, <1>12
    DEF Next, Start, Use, Drop

\* For all storages, namespaces and keys, the namespaces kept in one map are
\* maps of their own (EncodingNamespaceStorage over MemoryMapStorage).
THEOREM NamespacesAreMaps == Spec => MapsSpec
<1>1. Spec => Maps!Init /\ [][Maps!Next]_(Maps!vars)
    BY Invariant, InitMaps, NextMaps, PTL DEF Spec
<1> QED BY <1>1 DEF MapsSpec, Maps!Spec
============================================================================
