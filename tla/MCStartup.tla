----------------------------- MODULE MCStartup -----------------------------
EXTENDS Startup, TLC

CONSTANTS p1, p2, store, v, version

Symmetry == Permutations({p1, p2})

MCKeys == {"current-base-url", "current-server-version"}
MCBase64 == ("current-base-url" :> "Y3VycmVudC1iYXNlLXVybA==")
         @@ ("current-server-version" :> "Y3VycmVudC1zZXJ2ZXItdmVyc2lvbg==")
MCLonger == ("setup" :> {"setup", "setup2"}) @@ ("app" :> {"app", "apple"})

Url(host, port, slashes) == [address |-> <<host, port>>, slashes |-> slashes]
MCUrlOf ==
    ("https://a.org" :> Url("a.org", "443", 0)) @@ ("https://a.org//" :> Url("a.org", "443", 2))
MCUrls == {Url("a.org", "443", 1), Url("localhost", "3000", 1), Url("localhost", "8080", 1)}
MCValues == MCUrls \cup {version, v}

Path(words) == [words |-> words, delimiter |-> "/"]
MCPathOf ==
    ("DEFAULT_CONFIG" :> Path(<<"module", "config", "default.json">>))
    @@ ("DEFAULT_ASSETS" :> Path(<<"@SoR:", "assets">>))
    @@ ("." :> Path(<<".">>))
    @@ ("./app.json" :> Path(<<".", "app.json">>))
    @@ ("@My:app.json" :> Path(<<"@My:", "app.json">>))
    @@ ("C:\\app.json" :> [words |-> <<"C:", "app.json">>, delimiter |-> "\\"])
    @@ ("none.json" :> Path(<<"none.json">>)) @@ ("queues:delete" :> Path(<<"queues:delete">>))
    @@ ("@SoR:img" :> Path(<<"@SoR:", "img">>)) @@ ("5" :> Path(<<"5">>))
MCConfigFiles ==
    {Path(<<"module", "config", "default.json">>), Path(<<"cwd", ".", "app.json">>),
     Path(<<"module", "app.json">>), Path(<<"C:", "app.json">>)}

\* What is typed: nothing, options with and without a word between them, a
\* word that an option takes, options where the operand of a command belongs.
MCArgvs ==
    {<<>>,
     <<"-b", "https://a.org">>,
     <<"-p", "8080", "-l", "debug">>,
     <<"-v", "APP_", "-p", "3000">>,
     <<"-v", "APP_", "-b", "https://a.org//", "-t">>,
     <<"-o", "@My:", "-c", "@My:app.json", "--assets", "@SoR:img">>,
     <<"-c", "C:\\app.json", "-m", ".", "--mainModulePlaceholder", "@My:">>,
     <<"-c", "none.json">>,
     <<"-b", "-t">>,
     <<"-t", "false">>,
     <<"-l">>,
     <<"help">>,
     <<"-t", "storages:drop">>,
     <<"storages:drop", "-c", "./app.json", "-m", ".">>,
     <<"task", "-c", "./app.json", "seed">>,
     <<"-c", "./app.json", "task", "seed">>,
     <<"queues:delete", "mail", "--help">>,
     <<"-m", "queues:delete", "queues:delete", "mail">>}

\* What the environment says.
MCEnvs ==
    {<<>>,
     (<<"", "-b">> :> "https://a.org") @@ (<<"APP_", "-l">> :> "debug"),
     (<<"APP_", "-p">> :> "8080") @@ (<<"", "-t">> :> "true") @@ (<<"", "-l">> :> "loud"),
     (<<"", "-v">> :> "APP_") @@ (<<"APP_", "-b">> :> "https://a.org"),
     (<<"", "--assets">> :> "5") @@ (<<"APP_", "-t">> :> "false")
         @@ (<<"APP_", "-c">> :> "./app.json")}

MCLaunches == [argv : MCArgvs, env : MCEnvs]
============================================================================
