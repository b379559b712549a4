# TLA+ models of Solid on Rails

This directory holds TLA+ models of the server in `src/`, TLC configurations that
check them on small instances, and TLAPS proofs of their main properties for every
value of their constants. Paths below are relative to the repository's `src/`.

Check a model with `tlc -config MCGuardedStream.cfg MCGuardedStream`, a proof with
`tlapm GuardedStream_proofs.tla`. `PROJECT.json` names every run, the lines each
definition models, the hazards of the code and the theorems.

## The system

Node runs one callback at a time. There are no threads: what interleaves are the
continuations after each `await`, the events of streams, timers, immediates, and the
outside world (clients, files, PostgreSQL, Redis).

| Component | State | Operations | What is hard | What makes it correct |
|---|---|---|---|---|
| Guarded streams (`util/GuardedStream.ts`) | listener array, stored errors, timer handle, pending immediates | guard, re-guard, `on`, `once`, `removeListener`, `emit`, timer | listeners come and go between storing and re-emitting | no error lost, copied or fatal; a captured error settles |
| Request pipeline (`server/configurator`, `server/middleware`, `http/handler`, `http/output`, `util/handlers`, `util/StreamUtil.ts`) | head sent, response open, body's source, error in flight | middleware, dispatch, parse, route, handler, error handler, writer, failsafes, pipes | errors after the head was sent, client gone, sources that break | one head, one end, right status, no truncated body passed off as complete, sources released |
| Request parsing and routing (`http/input`, `server/routing`, `util/PathUtil.ts`) | none (pure, but for the body stream) | asset or route, URL, body, route match, parameters | one path in several spellings, hosts behind proxies | every spelling reaches the route configured for its meaning, or none if there is none |
| Header utilities (`util/HeaderUtil.ts`) | none | parsers of Accept, Link, Content-Type, Forwarded | delimiters in quoted strings | elements mean what they mean alone |
| Application lifecycle (`init`, `cli`) | await chain, server, finalizers, exit code | start, parallel initializers, callback, stop | siblings of a failed initializer go on, stop beside requests, errors in `finally` | serve only when ready, stop releases, failures reach the exit code |
| Data mapper (`storage/data-mapper`) | the `dataSource` field and the DataSources made | initialize, finalize, getRepository, migrations | field overwritten, destroy before connect | what stop knows is what is connected |
| Logging (`logging`) | lazy factory, wrappers, bounded buffer, class cache | getLoggerFor, log, setGlobalLoggerFactory | limit of the buffer, order across the switch | in order, drops announced, nothing dropped after the switch |
| Settings and variables (`cli/Cli.ts`, `init/cli`, `init/variables`, `util/ComponentsJsUtil.ts`) | none (computed at start) | three parses of one command line, environment, variables, instantiation | an environment that is read under a prefix from the command line | command line before environment, in every parse |
| Command line accessors (`cli`) | their operand and their database connection | tasks, seeds, drop, migrations, queue commands | they run beside servers on one storage | a drop leaves only later writes |
| Job queues (`jobs`) | Bull queues in Redis, job options | performLater, scheduler, processor, remove, delete, removeCompleted | retries, repeats that outlive the process, concurrency per queue | options mean what they document; one job at a time; deletes reported |
| Key-value storage (`storage/keyvalue`) | a map, shared by namespaces | get, set, delete, entries, drop | keys of all namespaces mixed, changes during iteration | namespaces are independent maps |
| Base URL verifier (`init/initialize`) | a key in the setup storage | get, warn, set | restarts, crashes and other servers between get and set | a change is announced, and only a change |
| Templates, WebSockets | pure, or handed to the application | | | |

The `GuardedStream` wraps every request and every piped destination of the pipeline;
the lifecycle creates the server whose requests the pipeline handles, the queues and
the data mapper the handlers use; the logging component sits below all of them and
receives its factory from the first initializer. The settings decide what a process
is: a server, or a command that starts the same application, runs a callback and stops.
Both record their base URL in the setup namespace of the key-value storage, beside the
namespaces of the application.

## Modules

| Module | Models |
|---|---|
| `ErrorDelivery` | abstract: an error is raised, held, handed over at most once |
| `GuardedStream` | `util/GuardedStream.ts`, and Node's `EventEmitter` as it uses it |
| `GuardedStream_proofs` | its theorems |
| `HttpExchange` | abstract: one status and one end for a request |
| `RequestPipeline` | one request through the default configuration |
| `RequestPipeline_proofs` | its theorems |
| `AppLifecycle` | a process from its command line to its exit, with the data mapper |
| `AppLifecycle_proofs` | its theorems |
| `LazyLogger` | `logging/LazyLoggerFactory.ts`, `LogUtil.ts` |
| `LazyLogger_proofs` | its theorems |
| `HeaderUtil` | operators: `util/HeaderUtil.ts` |
| `RequestInput` | what is made of one request: asset or route, URL, body, parameters, headers |
| `RequestInput_proofs` | its theorems |
| `Settings` | operators: command line, environment, paths, variables |
| `KeyValueStorage` | operators: `MemoryMapStorage` under an `EncodingNamespaceStorage` |
| `NamespaceMaps` | abstract: independent maps, with walks over them |
| `Startup` | processes from their command lines to their steps on one storage |
| `Startup_proofs` | its theorems |
| `JobQueue` | `jobs/`: the Bull adapter, its scheduler and its processor, with what Bull and Redis do for them |
| `JobQueue_proofs` | its theorems |
| `FoldLemmas` | lemmas the proofs share: induction over numbers, maxima, folds |
| `MC...` | the constants of the TLC runs |

Operators marked `Mutant` above a definition are faulty variants of it. They take
part in no specification; replacing the definition by one of them must make TLC
report the property that `PROJECT.json` pairs with it.

### GuardedStream

`listeners` is what the listener array holds, the guarding listener (`Guard`) among the
others once the stream is guarded. Of their order the code asks one thing, whether the
guarding listener is last: `counted` are the listeners behind it. `Emit` is
`stream.emit('error')`: without any listener it throws (`crashed`); else all listeners
run, `once` listeners leave, and the guarding listener, when it is attached, stores the
error if it is last. Guarding again detaches the guarding listener and attaches it at
the end: `GuardedNeverCrashes` depends on what every step does to the array. `AddListener` runs the `newListener` hook
(`emitStoredErrors`): cancel the timer, capture the stored errors in a `setImmediate`.
`RunImmediate` and `ReEmit` are that callback; while it runs (`emitting` is not empty)
nothing else does, as in Node. `PrependListener` is the listener that `pipe()` puts in
front of a guarded destination. `raised`, `handed`, `logged` are history variables.
Each error is raised once, so that copies are visible. Listeners that attach
listeners while they are called are left out: `src/` has none. The order in which
errors arrive is not claimed: a re-emitted error may come after a newer one.

### RequestPipeline

`pc` is the place in the promise chain of `HandlerServerConfigurator`: headers, CORS,
then the static asset or the parsing handler with its parser, routes and parameters,
the route handler, the error handler, the writer, and the two failsafes.
`ReadParameters` awaits the client when the method has a JSON body (`AwaitsBody`). Stream and client events interleave with it.
`head` is the status sent (0 before), `resp` the state of the response, `source` and
`kind` the stream that feeds it, `watched` whether `pump` listened to the response
before it was closed. `writeHead` throws when the head was sent; where this happens
outside any `try`, the next step is `crashed`. Requests share no state, so one request
is enough. Parsers and routes are their outcomes: success or one of the error statuses
the code can produce. Route handlers are external: they may write the response
themselves, return a description, return nothing or throw; one that writes itself and
returns nothing is taken to end the response.

What a file error after the first byte does to the client is left open in the model
(`AssetBreaks`): the asset's own listener ends the response and `pump` destroys it.

### AppLifecycle

`mode` is the server or a command with its kind of callback; `pc` follows
`SequenceHandler`, `ParallelHandler`, `App.start`, the callback and the `finally` with
`App.stop`. `source` is the state of the two DataSources a run may create (the
initializer's and the callback's), `dataSource` the one field of the
`TypeOrmDataMapper`. `Promise.all` rejects with the first failure while the rest goes
on, so schedules and connections complete at any time, also after a stop. `destroy()`
rejects unless the source is connected (TypeORM). The `LoggerInitializer` and
`BaseUrlVerifier` cannot fail with the in-memory storage and are part of the first
step. A server is stopped only by a program that embeds it, as the integration tests
do.

### LazyLogger

Messages are numbered as they are logged. `buffer` and `bufferSpaces` are those of the
`TemporaryLoggerFactory`; `loggers` is the factory behind each class's cached logger.
`SetFactory` switches the wrappers and emits the buffer in one synchronous call.

### JobQueue

`store` is what Redis keeps: it outlives the worker process, whose own state is
`process`, `open` (queues not yet closed), `initialized` (schedules added since it
started) and `worker`, which maps a job to the loop that performs it. The name of a loop is
`<<queue, job>>`: `process(name, concurrency)` of Bull adds `concurrency` loops to the
queue, and the adapter asks for one loop with its first job and none with the others.
Calls of the adapter come from anywhere and at any time, as the queues are shared by
all processes; `FindJob` and `RemoveFound` are the two halves of `removeJob` (look up,
then remove), and of each job of `removeCompletedInQueue`, between which the job can start,
end or be replaced. `deleteQueue` obliterates with `force`: jobs that are performed
go too, and their results are lost. A call that rejects at once changes nothing and is
no action; every action that names a queue checks that it is configured.

Bull is external: a repetition adds its next job when the present one starts; a
stalled job goes back to the waiting jobs once; `close()` waits for the running jobs.
Options are functions over the names that are set, so that a missing option
stays apart from one that is set to nothing. Dates and delays are reduced to what is tested: whether they
are over. `removeOnFailAge` and `removeOnFailCount` reduce to "older failed jobs of the
queue may go when a job fails". `cut` remembers the schedules whose next job a caller
removed or deleted: such a schedule stops until it is added again, and no property
claims otherwise. One worker process is modelled.

### HeaderUtil and RequestInput

A header is a sequence of symbols: words and the delimiters the parsers split on.
White space is left out, since every parser trims it; what is inside a word (tokens,
media ranges, language tags, dates, q values) is decided by sets, the regular
expressions by which symbols they accept where. A parser returns a value or a refusal
(400). `transformQuotedStrings` cuts the quoted strings out and puts `"0"`, `"1"` in
their place; `parseParameter` finds them again by that number, through
`value in replacements`, which also finds the members every object has
(`ObjectMembers`, `Inherited`).

`RequestInput` takes one request through the steps of `StaticAssetHandler.canHandle`,
`OriginalUrlExtractor`, `RawBodyParser`, `findHandler` over the
`RouteMatchingRequestHandler`s, `BasicParameterExtractor`, and a handler that reads its
headers. A path is a sequence of characters, each as it is or percent-encoded; a
delimiter in its encoded form is not a delimiter. `Segments` is what `URL` makes of a
pathname, `MatchesPath` what `path-to-regexp` does with literal segments and
parameters: literals are compared without regard to case (`LowerCase` says which
characters are capitals), and one delimiter more at the end of a path is optional. The
route `/` has the pattern of one empty segment, and takes `//` as well. `AggregateStatus` is `createAggregateError`. `RequestPipeline` keeps the
order of effects for the same request and takes the outcomes of these steps as given.

`ServedIffConfigured` compares the route that is taken with the routes whose method,
host and path are those of the request, once every character is decoded, up to the case
of literals and one slash at the end (`MeansPath`): the definition (`WantedRoutes`)
uses neither the canonical path nor the waterfall.
`EntriesStandAlone` reads a header from its atoms, where a quoted string is one symbol
that carries its own text: it splits, reads each element alone, and never numbers or
puts back anything (`AcceptMeant`, `LinksMeant`). For the Accept headers without
parameters it compares the parser of the whole header with what it makes of each
element (`LanguagesMeant`, `CharsetsMeant`, `EncodingsMeant`). `AcceptEntry` and
`LinkEntry`, the rules within one element, are shared by both sides. What the code
does get wrong is left out by `Ordinary`: a quoted string in front of the parameters,
and a value that every object has as a member.

### Settings, KeyValueStorage, Startup

`Settings` is the way from a command line and an environment to the parameters
(`parseCliArgs`: two parses), the command and its operand, and the variables
(`resolveVariables`: a third parse, then one extractor per variable). yargs is external:
each option is typed at most once and by its letter, and an option takes the text behind
it unless that is an option too. `-t` is boolean for the third parse: it is on unless
`false` is behind it, and the environment counts only where it is not typed
(`ShowStackTrace`); the first two parses do not know it, and take the text behind it as
its value. Paths are sequences of words.

`KeyValueStorage` is one map per store whose keys are pairs of a namespace and an encoded
key. `StartsWith` is the code's test, which compares namespaces as texts without the
delimiter: `Longer` says which texts start with a namespace.

In `Startup` a process is launched with a command line and an environment, computes its
settings, is instantiated, runs its initializers (`ReadBaseUrl`, `RecordBaseUrl`,
`Listen`, `WriteVersion`), and then serves or executes its command; handlers, seeds and
tasks set, delete and walk over the namespaces of the application; `storages:drop` walks
over the map itself, collects the keys, then deletes them one by one. Every `await` is
a point where others step. `Exit` is possible at any point: the end of the work, a
failure, a stop or a crash. `persistent` says whether the storage is an application's
own, kept outside the processes, or the `MemoryMapStorage` of the default
configuration, which dies with its process. A walk may meet the entries in any order,
and those added on the way: more than the `Map` of the in-memory storage does, no more
than an external storage may do. `raced` remembers that another process changed the base URL between the
own get and set, `written` what was written since a drop began.

Bounds: a process is set up only while the others are off, wait at `read` or are up (with a storage in memory: off);
one walk at a time.

## Runs

| Run | Question | Bounds |
|---|---|---|
| `guarded_stream` | are errors lost, copied, fatal, or stuck? | 3 errors, so that a batch of two and a later error, or three batches of one, exist; 2 listeners, one attached with `once`, so that one stays while one leaves |
| `guarded_stream_logged` | are unheard errors logged? (no: finding) | same |
| `request_pipeline` | one head, one end, right status, never left hanging by the server, sources released? | OPTIONS, GET, HEAD, POST; two reply statuses, a plain error and a redirect: one of each sort the chain distinguishes |
| `missing_asset`, `unreadable_asset` | do static assets answer as their comments say? (no: findings) | same |
| `app_lifecycle` | ready before serving, complete stop, exit code, settles? | 2 schedules (one fails while one is on its way), 2 requests (one before, one during a stop), both kinds of command |
| `double_initialize` | does a database command disconnect? (no: finding) | same |
| `lazy_logger` | order, drops and the warning of the buffer? | 2 classes, 2 factories, buffers of 0, 1, 3, five messages: overruns each buffer before and after the switch |
| `job_queue` | one job at a time, delays, retries, schedules that survive, a `finalize()` that waits and settles? | 2 jobs that share a queue, one with two attempts; 2 queues and callers that name a third; one schedule; 2 jobs in storage: two on one queue, or a repetition beside its next job. Crashes and restarts are not bounded |
| `job_retries` | is a job retried `retryAttempts` times? (no: finding) | same |
| `request_input` | does every spelling reach the configured route? do quoted delimiters stay text? | six routes (with and without subdomain, parameter, several methods, a literal out of reach), assets: a file, a folder, a folder within; paths of a slash and up to three characters of eight, a capital among them, each plain or encoded; Forwarded and X-Forwarded headers; bodies of every kind; Accept, Accept-* and Link headers of two elements with up to two parameters each, so that strings of two elements can be mixed up; among them empty strings, strings that read like a number, at the place of a name or beside a token, escaped quotes and backslashes, control characters, quotes that stay open, `constructor`. Headers are at most 60 symbols long (`MaxHeader`), which none of them reaches |
| `startup` | command line before environment? moves announced? what does a drop leave? are namespaces independent? | 2 processes (one drops or starts while the other serves, one crashes while the other goes on), 2 namespaces and texts that start with them, the same key in both; 18 command lines with options at every place of the command and its operand, 5 environments |

Deadlock is not checked where the system may stop: a served request, an ended process,
a stream nobody uses. There are twelve runs: seven that pass and five that show a
finding.

## Fairness

- `GuardedStream`: immediates and timers that are due run. Nobody is obliged to attach
  a listener or to raise an error.
- `RequestPipeline`: continuations that are ready run, the file system answers an open,
  and `pump` and the request hear that the response closed. Nothing is assumed of the
  client, who may leave, stop sending a JSON body or stop reading, of the route
  handlers, of the streams they reply with, nor of a pipe into a response that was
  closed before `pump` listened. `src/` sets no timeout, so that a client, a handler or
  a source that stalls keeps its request open. `Answered` therefore says that a request
  which is not over waits for one of them (`WaitsForOthers`), again and again for as
  long as it is open: no path through middlewares, errors and failsafes leaves it
  without an end.
- `AppLifecycle`: continuations run; PostgreSQL, Redis and handlers answer in the end
  (with success or failure); a command calls `stop()` after its callback, which is its
  `finally`. Nobody has to stop a server.
- `JobQueue`: `perform()` settles, and a queue whose jobs are done closes (or fails to).
  Nobody has to start a job, to crash, to restart or to stop.
- `LazyLogger`, `RequestInput` and `Startup` need none: all their properties are safety.

## Proofs

The proofs hold for any sets of errors, listeners, methods, statuses, schedules,
requests, routes, headers, command kinds, jobs, queues, options and any number of stored jobs, under
the assumptions the modules name (`OnceAssumption`, `GuardAssumption`,
`PipelineAssumption`, `CallbacksAssumption`, `JobsAssumption`, `RoutesAssumption`, `CaseAssumption`, `RequestsAssumption`,
`WeightsAssumption`, `NumeralsAssumption`).

Inductive invariants:

- `GuardedStream_proofs`: that every error is in exactly one place is not inductive as
  it stands. The invariant adds that the elements of the three sequences and `handed`
  make up `raised`, that batches are not empty and repeat nothing, and that errors are
  stored only without counted listeners and with a timer. `GuardAttached` adds that the
  guarding listener is among the listeners exactly when the stream is guarded, and that
  until then all listeners count. From it follow `NothingLost`,
  `HeldOnce`, `TimerCoversStored`, `GuardedNeverCrashes`, and the refinement of
  `ErrorDelivery`. Lemmas about the elements of sequences carry the sequence reasoning.
- `RequestPipeline_proofs`: the invariant says what each `pc` implies: before the route
  handler nothing was sent and nothing thrown, a reply's body belongs to a chain that
  has nothing left to write, an error in flight has not been answered unless the
  handler wrote itself. From it follow all safety invariants and the refinement of
  `HttpExchange`.
- `AppLifecycle_proofs`: the invariant says what a run has behind it at each `pc`, that
  the field follows the callback's source once that connects, and that nothing changes
  the field after a run without errors begins to stop.

- `JobQueue_proofs`: each property follows from a conjunct of the invariant.
  `StoreOK`: every job was tried no more often than it asked, is due unless it was put
  off, and no two jobs are the next of the same repetition. `WorkersOK`: no loop has
  two jobs, a job that is performed is active, and while the process closes the
  loops at work belong to open queues. `Alive`: every schedule that is added and not cut
  has a job that waits. `OneAtATime` needs that the loops of a queue are one
  (`LoopsOfQueue`), which the concurrency of the adapter gives. Lemmas say what adding,
  changing and clearing jobs does to a store, and each action is one of these.

- `LazyLogger_proofs`: before the switch the buffer holds the first messages, one per
  place, with the warning in the last (`BeforeSwitch`); afterwards the same is said of the
  output, in which later messages only follow (`AfterSwitch`). The properties speak of
  buffer or output, whichever holds the log, and follow from these.
- `Startup_proofs`: `SetupOK` says that the settings of the process that is set up are
  those of its command line, so that a job has a known base URL (`JobOK`). `DropOK`
  says where what is in a storage during a drop can be: among the keys the walk has yet to meet,
  those collected, or those written since; it becomes `DropLeavesOnlyLater` when the
  first two are empty. `MoveIsAnnounced` is inductive, as every change of the URL by
  another process sets `raced`. The refinement `NamespacesAreMaps` rests on `KeysApart`
  (encoded keys of namespaces differ) and on `NamespaceAssumption`: no namespace begins
  with another. Without that assumption `entries()` yields foreign keys.

  `CommandLineDecides` compares three parses with those of a command line in which
  every setting is typed. `ResolvedOK` adds to the invariant that parameters and
  variables are those of the launch; the rest is lemmas about the operators of
  `Settings`. Typing one more option (`Added`) changes neither the options that are typed
  already nor the command and its operand, and an option that takes its value from the
  environment has the same value when it is typed with that text.
- `RequestInput_proofs`: `RoutedInv` says that the URL the routes see is the one of the
  request (`UrlRead`), and that there is no handler before the routing. With it
  `ServedIffConfigured` is a statement about operators: the routes that do not decline
  are those configured for the request (`TakingIsWanted`), of which the waterfall takes
  the first. A path goes through three spellings; `CanonicalSegments` shows that the
  canonical spelling and the segments of the URL commute, for a path of any length, so
  that `MatchesPath` sees the segments the path means (`PathMatched`). Both
  cases of a letter are encoded or neither (`CaseAssumption`), so that ignoring case
  brings no literal in or out of reach (`SameCaseUnreserved`).

  `EntriesStandAlone` needs of the state only that the request keeps its form and that
  `read` is `ReadAll` of its headers once it was handled (`ReadInv`, on top of
  `RoutedInv`). The rest is about operators. Lexing is a run (`LexRuns`), with the
  invariant that each string carries the number of its own text, and that nothing outside them reads
  like a placeholder, a quote with one symbol and a quote behind it (`LexedType`), which
  splitting keeps (`BarePieces`). A separator is
  written by one atom and by no string, so splitting the text with its placeholders
  and splitting the atoms commute (`SpellSplit`): the code's pieces are the spellings
  of the pieces that are meant. A word of a parameter then says which atoms it was spelled
  from (`WordTells`), so that the number found is that of its own string and nothing else
  looks like one (`ParameterTold`); `AcceptTold` and `LinksTold` put this together. For
  the other Accept headers, splitting a header and reading its parts is reading each part
  (`PartsAlone`), and the test of all ranges after the sort is the test of each
  (`ChosenTold`). `EntriesSorted` says that `SortedByWeight` is a stable sort by falling
  weight: the count of entries that are not after an entry is a bijection
  (`RankBijection`).

Three of these proofs are inductions over data. The induction theorems of the library take
an operator, which the provers cannot instantiate. `FoldLemmas` states induction over
sets of numbers instead, from the smallest counterexample (`WFMin`), and shows that the
function a fold stands for exists (`FoldExists`). A fold becomes a run: a function from
0..n to what was read so far, with one equation per element (`SplitRuns`,
`SegmentRuns`, `LexRuns`). A claim about the fold is then a set of places of the run (`UpTo`).

The proofs about `Startup` hold for any processes, namespaces, keys, values, command
lines and environments under `ValueAssumption`, `EncodingAssumption`,
`GarbledAssumption`, `NamespaceAssumption`, `StorageAssumption`, `LaunchAssumption`
and `LaunchForm`. `LaunchAssumption` says that the values hold the base URLs that the
command lines lead to. `LaunchForm` bounds what `CommandLineDecides` claims: a command
line is a sequence of words, an option that is not the server's own is followed by its
text (`requiresArg` refuses only the server's own options without one; another one is
then given, but without a value), and no text of the environment begins an option
(typed, it would be read as that option). The property itself leaves out queues and
tasks that are named like a command or an option: the operand is the text behind the
*first* place of the command's name (`TaskAccessorRunner.ts:24`), which for
`-c task task seed` is the second `task`. `RequestsAssumption` and
`RoutesAssumption` only give the form of the data: a path is a sequence of characters,
a host a sequence of labels or one of the broken ones, a configured subdomain has a
label, and a header is a text of at most `MaxHeader` symbols, as Node refuses longer
ones. `WeightsAssumption`: weights are thousandths up to one. `NumeralsAssumption`:
the decimal numerals up to `MaxHeader` differ, and none is a delimiter, a quote or a
backslash; it says of `ToString` what TLAPS does not know.

Only model-checked are the liveness properties (`CapturedSettles`, `Answered`,
`SourceReleased`, `FailureExits`, `RunSettles`, `FinalizeSettles`), which TLAPS does not
reach, and the disagreements below, each of which is a counterexample.

## Findings

1. `GuardedStream.ts:42`: only the first of several unheard errors is logged.
2. `StaticAssetHandler.ts:120`: a missing asset is answered with 500, not 404: no error
   handler stands above it in the default configuration.
3. `StaticAssetHandler.ts:124`: an asset that cannot be opened is an empty 200.
4. `StorageAccessorRunner.ts:37,55,65,75`: database commands initialize the data mapper
   again and leak the first DataSource.
5. `BullQueueAdapter.ts:153`: `retryAttempts` becomes Bull's `attempts`, which counts the
   first try: a job is retried one time less than `JobOptions.ts:22` says.

Met while modelling and kept in the model as the code has them, without a run of their own:

- `TaskAccessorRunner.ts:24`, `QueueAdapterAccessorRunner.ts:34`: the operand is the text
  behind the command's name. The scripts in `docs/guides/getting-started.md:160` put
  options there, so that `npm run task -- name` looks for a task `-c`.
- `ComponentsJsUtil.ts:57`: the placeholder of `-o` is overwritten by the default of
  `--mainModulePlaceholder` among the variables.
- `PathUtil.ts:92`: a route whose literal holds a character that is always encoded is out
  of reach; path parameters reach the handler encoded.
- `HttpErrorUtil.ts:30`: an unknown path is answered with 400 when the routes have several
  methods.
- `EncodingNamespaceStorage.ts:45`: a namespace that begins with another is seen through it.
- `HeaderUtil.ts:210`: `value in replacements` finds what every object inherits: the value
  of `level=constructor` is a function, not the text.
- `HeaderUtil.ts:146`: a quoted string in a media range or in a link target is never put
  back: `<"x">; rel=y` links to `"0"`.
- `LazyLoggerFactory.ts:82`: a second global factory does not reach existing loggers.

## Not modelled

- Templates render a page and keep no state. The WebSocket configurator hands a
  connection to a handler of the application, of which the default configuration has
  none.
- `matchesAuthorizationScheme`, `hasScheme`, `joinUrl` and `transformSafely` are used by
  applications only. `addHeader` is its one effect on the request chain: it throws when the head was sent.
- Of the job queues: several worker processes at once, and the ages and counts of the
  jobs that stay.
- Of the data mapper: schemas and migrations, which are calls of TypeORM.
- Of yargs: aliases, repeated options and its help text.
- Winston, TypeORM, Bull, `pump`, `cors`, `qs`, `path-to-regexp`, yargs, Components.js and Node
  itself are modelled from how `src/` uses them.

## Plan

1. Done: `GuardedStream`, `RequestPipeline`, `AppLifecycle`, `LazyLogger`, `JobQueue`,
   `RequestInput`, `Startup`, with runs, and proofs of all their type invariants and safety
   properties.
2. Open: composition. Requests of `RequestPipeline` inside `AppLifecycle`, so that a stop is
   seen from a request in progress; several worker processes on one Redis.
