------------------------------ MODULE Settings ------------------------------
(***************************************************************************)
(* From the command line and the environment to the parameters of a run    *)
(* and the values of the Components.js variables: Cli, YargsCliExtractor,  *)
(* CombinedSettingsResolver with its extractors, PlaceholderPathResolver.  *)
(*                                                                         *)
(* A command line is a sequence of texts.  An option is written in one way *)
(* (its letter) and at most once.  An environment maps pairs of a prefix   *)
(* and an option to a text: <<"APP_", "-b">> is APP_BASE_URL.  A path is a *)
(* sequence of words with the delimiter between them, a base URL is an     *)
(* address with a number of slashes at its end.                            *)
(***************************************************************************)
EXTENDS Naturals, Sequences, FiniteSets

CONSTANTS
    PathOf,     \* what a text is as a path: [words, delimiter]
    UrlOf,      \* what a text is as a base URL: [address, slashes]
    Numeric,    \* the texts yargs turns into numbers
    LogLevels

Undefined == "undefined"

DefaultTo(value, default) == IF value = Undefined THEN default ELSE value

---------------------------------------------------------------------------
(* Paths.                                                                  *)

windowsToPosixPath(path) == [path EXCEPT !.delimiter = "/"]

\* Only the base path is changed, not what is attached to it.
joinFilePath(base, path) == [path EXCEPT !.words = <<base>> \o @]

resolveModulePath(path) == joinFilePath("module", path)

absoluteFilePath(path) ==
    CASE Head(path.words) \in {"/", "module"} -> path
      [] Head(path.words) = "C:"              -> windowsToPosixPath(path)
      [] OTHER                                -> joinFilePath("cwd", path)

resolveAssetPath(text, placeholder) ==
    IF text = Undefined THEN resolveModulePath([words |-> <<>>, delimiter |-> "/"])
    ELSE LET path == PathOf[text]
         IN IF Head(path.words) = placeholder
            THEN resolveModulePath([path EXCEPT !.words = Tail(@)])
            ELSE absoluteFilePath(path)

---------------------------------------------------------------------------
(* What yargs reads.                                                       *)

Help        == "--help"
CoreOptions == {"-l", "-m", "-o", "-v", "-c"}
Options     == CoreOptions \cup {"-b", "-p", "-t", "--assets", "--mainModulePlaceholder"}

\* An option takes the text behind it unless that is an option as well.
Takes(argv, i) ==
    /\ argv[i] \in Options
    /\ i < Len(argv) /\ argv[i + 1] \notin Options \cup {Help}

Given(argv, option) == {i \in DOMAIN argv : argv[i] = option}

ValueOf(argv, option) ==
    IF \E i \in Given(argv, option) : Takes(argv, i)
    THEN argv[(CHOOSE i \in Given(argv, option) : Takes(argv, i)) + 1]
    ELSE Undefined

\* requiresArg
LacksArgument(argv, options) ==
    \E option \in options : \E i \in Given(argv, option) : ~Takes(argv, i)

\* The texts that are neither options nor taken by one.
Words(argv) ==
    {i \in DOMAIN argv :
        /\ argv[i] \notin Options \cup {Help}
        /\ i = 1 \/ ~Takes(argv, i - 1)}

\* The n-th word of the command line.
NthWord(argv, n) ==
    IF Cardinality(Words(argv)) < n THEN Undefined
    ELSE argv[CHOOSE i \in Words(argv) : Cardinality({j \in Words(argv) : j <= i}) = n]

\* Mutant: the environment overrides the command line.
SettingEnvFirst(argv, env, prefix, option) ==
    IF <<prefix, option>> \in DOMAIN env THEN env[<<prefix, option>>]
    ELSE ValueOf(argv, option)

\* yargs with env(prefix): the environment fills in what the command line
\* leaves open.
Setting(argv, env, prefix, option) ==
    IF ValueOf(argv, option) # Undefined THEN ValueOf(argv, option)
    ELSE IF <<prefix, option>> \in DOMAIN env THEN env[<<prefix, option>>]
    ELSE Undefined

\* A boolean option: -t, in the command line before the environment.  Of the
\* texts behind it yargs takes true and false only.
ShowStackTrace(argv, env, prefix) ==
    IF Given(argv, "-t") # {} THEN ValueOf(argv, "-t") # "false"
    ELSE <<prefix, "-t">> \in DOMAIN env /\ env[<<prefix, "-t">>] = "true"

---------------------------------------------------------------------------
(* Cli.                                                                    *)

\* The prefix is parsed first, from the command line alone.
parseCliArgs(argv, env) ==
    LET prefix == DefaultTo(ValueOf(argv, "-v"), "")
        Read(option, default) == DefaultTo(Setting(argv, env, prefix, option), default)
    IN [loggingLevel          |-> Read("-l", "info"),
        mainModulePath        |-> Read("-m", Undefined),
        modulePathPlaceholder |-> Read("-o", "@SoR:"),
        envVarPrefix          |-> Read("-v", ""),
        config                |-> Read("-c", "DEFAULT_CONFIG"),
        command               |-> NthWord(argv, 1),
        help                  |-> Given(argv, Help) # {},
        valid                 |-> ~LacksArgument(argv, CoreOptions)
                                  /\ Read("-l", "info") \in LogLevels]

Operated == {"queues:delete", "queues:removeCompleted", "task"}
Commands ==
    Operated \cup {"queues:deleteAll", "storages:seed", "storages:drop",
                   "db:setup", "db:migrate", "db:revert"}

\* getAsyncProcessForCommand: without a command the server runs; an unknown
\* one shows the help.
Runs(params) ==
    /\ params.valid /\ ~params.help
    /\ params.command \in Commands \cup {Undefined}

\* What the command works on: the text behind the first place of its name.
OperandOf(argv, command) ==
    LET places == Given(argv, command)
        first  == CHOOSE i \in places : \A j \in places : i <= j
    IN IF command \in Operated /\ places # {} /\ first < Len(argv) THEN argv[first + 1]
       ELSE Undefined

---------------------------------------------------------------------------
(* The variables.                                                          *)

ensureTrailingSlash(url) == [url EXCEPT !.slashes = 1]

BaseUrl(baseUrl, port) ==
    IF baseUrl # Undefined THEN ensureTrailingSlash(UrlOf[baseUrl])
    ELSE [address |-> <<"localhost", DefaultTo(port, "3000")>>, slashes |-> 1]

\* An application's AssetPathExtractor, which has a default; numbers are
\* refused.
AssetPath(path, placeholder) ==
    resolveAssetPath(DefaultTo(path, "DEFAULT_ASSETS"), placeholder)

\* CombinedSettingsResolver computes each variable from the values that were
\* read; the first one that fails ends the setup.  The paths of an
\* AssetPathExtractor use the placeholder of the parameters, the variable
\* modulePathPlaceholder has a key no parameter writes.
SettingsOf(values, stackTrace, placeholder) ==
    [valid                 |-> values["--assets"] \notin Numeric,
     modulePathPlaceholder |-> DefaultTo(values["--mainModulePlaceholder"], "@SoR:"),
     baseUrl               |-> BaseUrl(values["-b"], values["-p"]),
     loggingLevel          |-> DefaultTo(values["-l"], "info"),
     port                  |-> DefaultTo(values["-p"], "3000"),
     showStackTrace        |-> stackTrace,
     assets                |-> AssetPath(values["--assets"], placeholder)]

\* YargsCliExtractor reads the command line again, and the environment with
\* the prefix of the parameters; then the settings are computed.
resolveVariables(argv, env, params) ==
    LET prefix   == params.envVarPrefix
        values   == [o \in Options |-> Setting(argv, env, prefix, o)]
        settings == SettingsOf(values, ShowStackTrace(argv, env, prefix),
                               params.modulePathPlaceholder)
    IN [settings EXCEPT !.valid = @ /\ ~LacksArgument(argv, {"-b", "-p"})]

\* The paths Components.js is built from.
ComponentsPaths(params) ==
    [mainModulePath |-> resolveAssetPath(params.mainModulePath, params.modulePathPlaceholder),
     config         |-> resolveAssetPath(params.config, params.modulePathPlaceholder)]
============================================================================
