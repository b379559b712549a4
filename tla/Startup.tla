------------------------------ MODULE Startup ------------------------------
(***************************************************************************)
(* Processes that start from a command line, verify the base URL and use   *)
(* one key-value storage: servers and commands (Cli, ComponentsJsUtil,     *)
(* AppRunner, AsyncronousAppAccessorRunner, BaseUrlVerifier,               *)
(* ModuleVersionVerifier, StorageAccessorRunner).  The default storage     *)
(* lives in the process; an application may configure one that lives       *)
(* outside and is shared by its processes.                                 *)
(***************************************************************************)
EXTENDS Settings, KeyValueStorage

CONSTANTS
    Processes,
    Shared,         \* the storage outside the processes
    Launches,       \* the command lines with their environments: [argv, env]
    ConfigFiles,    \* the resolved paths of the configurations that exist
    Ports,          \* the ports that may be named
    Queues, Tasks,  \* the configured queues, the tasks in ./tasks
    SetupNamespace, BaseUrlKey, VersionKey, Version,
    AppKeys, AppValues,     \* what the application stores
    NoNamespace, NoReply, NoJob, NoLaunch, NoParams, NoVariables

ASSUME StorageAssumption ==
    /\ Processes \subseteq Stores /\ Shared \in Stores
    /\ SetupNamespace \in Namespaces /\ NoNamespace \notin Namespaces
    /\ BaseUrlKey \in Keys /\ VersionKey \in Keys /\ BaseUrlKey # VersionKey
    /\ AppKeys \subseteq Keys
    /\ Version \in Values /\ AppValues \subseteq Values

\* The base URLs and ports the command lines lead to.
ASSUME LaunchAssumption ==
    \A l \in Launches :
        LET resolved == resolveVariables(l.argv, l.env, parseCliArgs(l.argv, l.env))
        IN resolved.baseUrl \in Values /\ resolved.port \in Ports

\* An option of the application is written with its text, and the
\* environment holds none of the texts that begin an option.
ASSUME LaunchForm ==
    \A l \in Launches :
        /\ l.argv \in Seq(STRING \ {Undefined})
        /\ \A i \in DOMAIN l.argv :
              l.argv[i] \in {"--assets", "--mainModulePlaceholder"} => Takes(l.argv, i)
        /\ \A key \in DOMAIN l.env : l.env[key] \notin Options \cup {Help, Undefined}

VARIABLES
    persistent,     \* the storage is kept outside the processes
    pc,             \* where each process waits
    launch,         \* of the process that is being set up: its command line,
    params,         \*   what Cli read from it,
    variables,      \*   and the values of the Components.js variables
    job,            \* what each process was instantiated to do
    warned,         \* its BaseUrlVerifier has warned and not yet recorded the URL
    walking,        \* the namespace it walks over with entries()
    waiting,        \* the keys that were there when its walk began
    collected,      \* the keys storages:drop has to delete
    reply,          \* what the last step got from a namespace
    raced,          \* history: another process changed the URL since the own get
    written         \* history: the keys written since a drop began

storage == <<data, reply, written>>
walks   == <<walking, waiting, collected>>
setup   == <<launch, params, variables>>
vars    == <<persistent, pc, setup, job, warned, walks, storage, raced>>

Operands == {OperandOf(l.argv, c) : l \in Launches, c \in Commands \cup {Undefined}}

Jobs == [command : Commands \cup {Undefined}, operand : Operands, baseUrl : Values, port : Ports]

StoreOf(p) == IF persistent THEN Shared ELSE p

AppNamespaces == Namespaces \ {SetupNamespace}

Init ==
    /\ persistent \in BOOLEAN
    /\ pc = [p \in Processes |-> "off"]
    /\ launch = NoLaunch /\ params = NoParams /\ variables = NoVariables
    /\ job = [p \in Processes |-> NoJob]
    /\ warned = [p \in Processes |-> FALSE]
    /\ data = [s \in Stores |-> Nothing]
    /\ reply = NoReply
    /\ walking = [p \in Processes |-> NoNamespace]
    /\ waiting = [p \in Processes |-> {}]
    /\ collected = [p \in Processes |-> {}]
    /\ raced = [p \in Processes |-> FALSE]
    /\ written = [p \in Processes |-> {}]

Goto(p, to) == pc' = [pc EXCEPT ![p] = to]

---------------------------------------------------------------------------
(* From the command line to the instances.                                 *)

\* runCliSync: a command line that asks for help, names an unknown command
\* or does not parse starts nothing.  Bounds: a process is set up while the
\* others are off, not yet at their storage, or up (a start that waits at "read"
\* meets all their other steps); processes that share nothing run one by one.
Launch(p) ==
    /\ pc[p] = "off"
    /\ \A q \in Processes : pc[q] \in IF persistent THEN {"off", "read", "up"} ELSE {"off"}
    /\ \E l \in Launches :
          /\ launch' = l
          /\ params' = parseCliArgs(l.argv, l.env)
          /\ Runs(params')
    /\ Goto(p, "setup")
    /\ reply' = NoReply
    /\ UNCHANGED <<persistent, variables, job, warned, walks, data, written, raced>>

\* createComponentsManagerOrResolveError
ConfigBuilds == ComponentsPaths(params).config \in ConfigFiles

\* createComponentsManagerSetupFromCliArgs: the configuration is read and the
\* variables are computed.
ResolveVariables(p) ==
    /\ pc[p] = "setup"
    /\ ConfigBuilds
    /\ variables' = resolveVariables(launch.argv, launch.env, params)
    /\ variables'.valid
    /\ Goto(p, "instantiate")
    /\ reply' = NoReply
    /\ UNCHANGED <<persistent, launch, params, job, warned, walks, data, written, raced>>

\* Mutant: the port is what was typed.
InstantiateTyped(p) ==
    /\ pc[p] = "instantiate"
    /\ job' = [job EXCEPT ![p] =
                  [command |-> params.command,
                   operand |-> OperandOf(launch.argv, params.command),
                   baseUrl |-> variables.baseUrl,
                   port    |-> ValueOf(launch.argv, "-p")]]
    /\ launch' = NoLaunch /\ params' = NoParams /\ variables' = NoVariables
    /\ Goto(p, "read")
    /\ reply' = NoReply
    /\ UNCHANGED <<persistent, warned, walks, data, written, raced>>

\* instantiateWithManagerAndVariables; the logger is set up.
Instantiate(p) ==
    /\ pc[p] = "instantiate"
    /\ job' = [job EXCEPT ![p] =
                  [command |-> params.command,
                   operand |-> OperandOf(launch.argv, params.command),
                   baseUrl |-> variables.baseUrl,
                   port    |-> variables.port]]
    /\ launch' = NoLaunch /\ params' = NoParams /\ variables' = NoVariables
    /\ Goto(p, "read")
    /\ reply' = NoReply
    /\ UNCHANGED <<persistent, warned, walks, data, written, raced>>

Serves(p) == job[p].command = Undefined

---------------------------------------------------------------------------
(* The initializers.  A write of one process is noted for the drops of the *)
(* processes on the same storage.                                          *)

Dropping(p) == pc[p] \in {"collect", "delete", "stop"}

Put(p, namespace, key, value) ==
    /\ Set(StoreOf(p), namespace, key, value)
    /\ written' = [q \in Processes |->
                      IF StoreOf(q) = StoreOf(p) /\ Dropping(q)
                      THEN written[q] \cup {addNamespaceToKey(namespace, key)}
                      ELSE written[q]]
    /\ reply' = NoReply

Replied(namespace, key, value) == [namespace |-> namespace, key |-> key, value |-> value]

\* Mutant: a base URL is announced when there was none.
ReadBaseUrlAny(p) ==
    LET previous == Get(StoreOf(p), SetupNamespace, BaseUrlKey)
    IN /\ pc[p] = "read"
       /\ warned' = [warned EXCEPT ![p] = previous # job[p].baseUrl]
       /\ Goto(p, "record")
       /\ reply' = Replied(SetupNamespace, BaseUrlKey, previous)
       /\ UNCHANGED <<persistent, setup, job, walks, data, written, raced>>

\* BaseUrlVerifier reads the URL recorded before and warns ...
ReadBaseUrl(p) ==
    LET previous == Get(StoreOf(p), SetupNamespace, BaseUrlKey)
    IN /\ pc[p] = "read"
       /\ warned' = [warned EXCEPT ![p] = previous \notin {NoValue, job[p].baseUrl}]
       /\ Goto(p, "record")
       /\ reply' = Replied(SetupNamespace, BaseUrlKey, previous)
       /\ UNCHANGED <<persistent, setup, job, walks, data, written, raced>>

\* The verifiers that meet a change of the URL by p.
Raced(p) ==
    [q \in Processes |->
        raced[q] \/ (q # p /\ pc[q] = "record" /\ StoreOf(q) = StoreOf(p))]

\* ... and records its own.
RecordBaseUrl(p) ==
    /\ pc[p] = "record"
    /\ Put(p, SetupNamespace, BaseUrlKey, job[p].baseUrl)
    /\ Goto(p, IF Serves(p) THEN "listen" ELSE "version")
    /\ warned' = [warned EXCEPT ![p] = FALSE]
    /\ raced' = [Raced(p) EXCEPT ![p] = FALSE]
    /\ UNCHANGED <<persistent, setup, job, walks>>

\* The ServerInitializer; a port can be taken.
Listening(p) == pc[p] \in {"listening", "up"}

Listen(p) ==
    /\ pc[p] = "listen"
    /\ \A q \in Processes : Listening(q) => job[q].port # job[p].port
    /\ Goto(p, "listening")
    /\ reply' = NoReply
    /\ UNCHANGED <<persistent, setup, job, warned, walks, data, written, raced>>

\* ModuleVersionVerifier; then app.start() resolves.
WriteVersion(p) ==
    /\ pc[p] \in {"listening", "version"}
    /\ Put(p, SetupNamespace, VersionKey, Version)
    /\ Goto(p, IF Serves(p) THEN "up" ELSE "callback")
    /\ UNCHANGED <<persistent, setup, job, warned, walks, raced>>

---------------------------------------------------------------------------
(* Handlers of a server, seeds and tasks use namespaces of their own.      *)

\* A task is the file its operand names.
RunsTask(p) ==
    pc[p] = "callback" /\ job[p].command = "task" /\ job[p].operand \in Tasks

RunsApplication(p) ==
    \/ pc[p] = "up"
    \/ pc[p] = "callback" /\ job[p].command = "storages:seed"
    \/ RunsTask(p)

AppSet(p, n, k) ==
    /\ RunsApplication(p)
    /\ \E v \in AppValues : Put(p, n, k, v)
    /\ UNCHANGED <<persistent, pc, setup, job, warned, walks, raced>>

AppDelete(p, n, k) ==
    /\ RunsApplication(p)
    /\ Delete(StoreOf(p), n, k)
    /\ reply' = NoReply
    /\ UNCHANGED <<persistent, pc, setup, job, warned, walks, written, raced>>

\* Bound: one walk at a time.
BeginWalk(p, n) ==
    /\ RunsApplication(p) /\ \A q \in Processes : walking[q] = NoNamespace
    /\ walking' = [walking EXCEPT ![p] = n]
    /\ waiting' = [waiting EXCEPT ![p] = Present(StoreOf(p))]
    /\ reply' = NoReply
    /\ UNCHANGED <<persistent, pc, setup, job, warned, collected, data, written, raced>>

\* The source yields its entries in its own order, those that were added on
\* the way as well; foreign entries are skipped.
NextEntry(p, k) ==
    /\ walking[p] # NoNamespace
    /\ k \in Present(StoreOf(p))
    /\ waiting' = [waiting EXCEPT ![p] = @ \ {k}]
    /\ reply' = IF StartsWith(walking[p], k)
                THEN Replied(walking[p], removeNamespaceFromKey(walking[p], k),
                             data[StoreOf(p)][k])
                ELSE NoReply
    /\ UNCHANGED <<persistent, pc, setup, job, warned, walking, collected, data, written, raced>>

Walked(p) == waiting[p] \cap Present(StoreOf(p)) = {}

EndWalk(p) ==
    /\ walking[p] # NoNamespace /\ Walked(p)
    /\ walking' = [walking EXCEPT ![p] = NoNamespace]
    /\ waiting' = [waiting EXCEPT ![p] = {}]
    /\ reply' = NoReply
    /\ UNCHANGED <<persistent, pc, setup, job, warned, collected, data, written, raced>>

---------------------------------------------------------------------------
(* storages:drop works on the map itself: it collects the keys of a walk,  *)
(* then deletes them all at once.                                          *)

BeginDrop(p) ==
    /\ pc[p] = "callback" /\ job[p].command = "storages:drop"
    /\ waiting' = [waiting EXCEPT ![p] = Present(StoreOf(p))]
    /\ Goto(p, "collect")
    /\ reply' = NoReply
    /\ UNCHANGED <<persistent, setup, job, warned, walking, collected, data, written, raced>>

DropEntry(p, k) ==
    /\ pc[p] = "collect"
    /\ k \in Present(StoreOf(p))
    /\ waiting' = [waiting EXCEPT ![p] = @ \ {k}]
    /\ collected' = [collected EXCEPT ![p] = @ \cup {k}]
    /\ reply' = NoReply
    /\ UNCHANGED <<persistent, pc, setup, job, warned, walking, data, written, raced>>

\* Mutant: the walk is not waited for.
DropCollectedEarly(p) ==
    /\ pc[p] = "collect"
    /\ waiting' = [waiting EXCEPT ![p] = {}]
    /\ Goto(p, "delete")
    /\ reply' = NoReply
    /\ UNCHANGED <<persistent, setup, job, warned, walking, collected, data, written, raced>>

DropCollected(p) ==
    /\ pc[p] = "collect" /\ Walked(p)
    /\ waiting' = [waiting EXCEPT ![p] = {}]
    /\ Goto(p, "delete")
    /\ reply' = NoReply
    /\ UNCHANGED <<persistent, setup, job, warned, walking, collected, data, written, raced>>

DropDelete(p, k) ==
    /\ pc[p] = "delete" /\ k \in collected[p]
    /\ SetKey(StoreOf(p), k, NoValue)
    /\ collected' = [collected EXCEPT ![p] = @ \ {k}]
    /\ raced' = IF k = addNamespaceToKey(SetupNamespace, BaseUrlKey) THEN Raced(p) ELSE raced
    /\ reply' = NoReply
    /\ UNCHANGED <<persistent, pc, setup, job, warned, walking, waiting, written>>

Dropped(p) ==
    /\ pc[p] = "delete" /\ collected[p] = {}
    /\ Goto(p, "stop")
    /\ reply' = NoReply
    /\ UNCHANGED <<persistent, setup, job, warned, walks, data, written, raced>>

---------------------------------------------------------------------------
\* A process ends at any point: its work is done, the step it is at fails, it
\* is stopped, or it crashes.  What it kept in memory is gone.
Exit(p) ==
    /\ pc[p] # "off"
    /\ Goto(p, "off")
    /\ IF pc[p] \in {"setup", "instantiate"}
       THEN launch' = NoLaunch /\ params' = NoParams /\ variables' = NoVariables
       ELSE UNCHANGED setup
    /\ job' = [job EXCEPT ![p] = NoJob]
    /\ warned' = [warned EXCEPT ![p] = FALSE]
    /\ raced' = [raced EXCEPT ![p] = FALSE]
    /\ walking' = [walking EXCEPT ![p] = NoNamespace]
    /\ waiting' = [waiting EXCEPT ![p] = {}]
    /\ collected' = [collected EXCEPT ![p] = {}]
    /\ written' = [written EXCEPT ![p] = {}]
    /\ data' = IF persistent THEN data ELSE [data EXCEPT ![p] = Nothing]
    /\ reply' = NoReply
    /\ UNCHANGED persistent

Start(p) ==
    \/ Launch(p) \/ ResolveVariables(p) \/ Instantiate(p)
    \/ ReadBaseUrl(p) \/ RecordBaseUrl(p) \/ Listen(p) \/ WriteVersion(p)

Use(p) ==
    \/ \E n \in AppNamespaces, k \in AppKeys : AppSet(p, n, k) \/ AppDelete(p, n, k)
    \/ \E n \in AppNamespaces : BeginWalk(p, n)
    \/ \E k \in NamespacedKeys : NextEntry(p, k)
    \/ EndWalk(p)

Drop(p) ==
    \/ BeginDrop(p) \/ DropCollected(p) \/ Dropped(p)
    \/ \E k \in NamespacedKeys : DropEntry(p, k) \/ DropDelete(p, k)

Next == \E p \in Processes : Start(p) \/ Use(p) \/ Drop(p) \/ Exit(p)

Spec == Init /\ [][Next]_vars

---------------------------------------------------------------------------
(* Properties.                                                             *)

TypeOK ==
    /\ persistent \in BOOLEAN
    /\ pc \in [Processes -> {"off", "setup", "instantiate", "read", "record", "listen",
                             "listening", "version", "up", "callback", "collect", "delete",
                             "stop"}]
    /\ launch \in Launches \cup {NoLaunch}
    /\ job \in [Processes -> Jobs \cup {NoJob}]
    /\ warned \in [Processes -> BOOLEAN] /\ raced \in [Processes -> BOOLEAN]
    /\ DataOK
    /\ walking \in [Processes -> AppNamespaces \cup {NoNamespace}]
    /\ waiting \in [Processes -> SUBSET NamespacedKeys]
    /\ collected \in [Processes -> SUBSET NamespacedKeys]
    /\ written \in [Processes -> SUBSET NamespacedKeys]

\* After storages:drop a storage holds only what other processes have written
\* since it began.  (StorageAccessorRunner.dropStorages)
DropLeavesOnlyLater ==
    \A p \in Processes : pc[p] = "stop" => Present(StoreOf(p)) \subseteq written[p]

\* A start that replaces the base URL of another one has warned of it, and one
\* that does not has not, unless another process has changed the recorded URL
\* since the verifier read it.  (BaseUrlVerifier.handle)
MoveIsAnnounced ==
    \A p \in Processes :
        pc[p] = "record" /\ ~raced[p] =>
            (warned[p] <=> Get(StoreOf(p), SetupNamespace, BaseUrlKey)
                               \notin {NoValue, job[p].baseUrl})

\* Each namespace is a map of its own: the base URL and the version that the
\* setup keeps, and what an application keeps under the same keys, never
\* meet, and a walk yields the entries of its namespace.
\* (EncodingNamespaceStorage, MemoryMapStorage)
Maps == INSTANCE NamespaceMaps WITH
    Users   <- Processes,
    maps    <- [s \in Stores |-> [n \in Namespaces |-> [k \in Keys |->
                   Get(s, n, k)]]],
    waiting <- [p \in Processes |->
                   {k \in Keys : walking[p] # NoNamespace
                                 /\ addNamespaceToKey(walking[p], k) \in waiting[p]}]

MapsSpec == Maps!Spec

\* What the environment says of an option that the command line leaves open.
Added(argv, env, option) ==
    LET key == <<DefaultTo(ValueOf(argv, "-v"), ""), option>>
    IN IF Given(argv, option) # {} \/ key \notin DOMAIN env THEN <<>>
       ELSE IF option # "-t" THEN <<option, env[key]>>
       ELSE IF env[key] = "true" THEN <<option>> ELSE <<>>

\* The command line with what the environment says typed at its end.
Typed(argv, env) ==
    argv \o Added(argv, env, "-l") \o Added(argv, env, "-m") \o Added(argv, env, "-o")
         \o Added(argv, env, "-c") \o Added(argv, env, "-b") \o Added(argv, env, "-p")
         \o Added(argv, env, "-t") \o Added(argv, env, "--assets")
         \o Added(argv, env, "--mainModulePlaceholder")

\* The queues and tasks that are not named like a command or an option.
Known == (Queues \cup Tasks) \ (Operated \cup Options \cup {Help, Undefined})

\* The two parses of the command line agree: an environment variable with the
\* prefix of the command line stands for its option typed at the end, and no
\* other variable counts, unless the environment itself names a prefix.  A
\* command works on the second word of the command line or on nothing known.
\* (Cli.parseCliArgs, YargsCliExtractor, CombinedSettingsResolver)
CommandLineDecides ==
    variables # NoVariables =>
        LET argv  == launch.argv
            typed == Typed(argv, launch.env)
            core  == parseCliArgs(typed, <<>>)
        IN /\ ValueOf(argv, "-v") # Undefined \/ <<"", "-v">> \notin DOMAIN launch.env =>
                 /\ params = core
                 /\ variables = resolveVariables(typed, <<>>, core)
           /\ params.command = NthWord(argv, 1)
           /\ OperandOf(argv, params.command) \in Known =>
                 OperandOf(argv, params.command) = NthWord(argv, 2)
============================================================================
