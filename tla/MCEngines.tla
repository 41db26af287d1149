------------------------------- MODULE MCEngines -------------------------------
(***************************************************************************)
(* An instance of Engines for TLC: two audits of servers made of nine      *)
(* registry entries and three pasted configs, and of the gateway itself.   *)
(* Two Python packages share an advisory, which a GHSA alias completes.    *)
(***************************************************************************)
EXTENDS Engines, TLC

CONSTANTS a1, a2

Named(flag, value, format) ==
    [type |-> "named", name |-> flag, value |-> value, isRequired |-> TRUE, format |-> format]
Option(flag, value) == Named(Flag(flag), Word(<<value>>), "string")
Missing(flag, format) == Named(Flag(flag), Blank, format)
Positional(value) ==
    [type |-> "positional", name |-> Blank, value |-> value, isRequired |-> FALSE,
     format |-> "string"]
Package(type, identifier, version, runtimeArgs, packageArgs) ==
    [registryType |-> type, identifier |-> <<identifier>>, version |-> version,
     transport |-> "stdio", environmentVariables |-> {"TOKEN", "node_options"},
     runtimeArguments |-> runtimeArgs, packageArguments |-> packageArgs]
PackageEntry(package) == [remotes |-> <<>>, packages |-> <<package>>]

MCEntries ==
    {PackageEntry(Package("npm", "left", "1",
                          <<Option("--loglevel", "warn")>>,
                          <<Positional(Blank), Missing("--port", "string")>>)),
     PackageEntry(Package("npm", "left", None, <<>>, <<Option("-p", "80")>>)),
     PackageEntry(Package("pypi", "flask", "2",
                          <<Option("--python", "3.12")>>,
                          <<Missing("--index-url", "string"), Named(Blank, Blank, "string")>>)),
     PackageEntry(Package("pypi", "click", None,
                          <<Positional(FlagIs("--cache-dir", <<"/c">>))>>,
                          <<Named(Flag("--port"), Flag("-1"), "string")>>)),
     PackageEntry(Package("npm", "left", None, <<Positional(Word(<<"right">>))>>, <<>>)),
     PackageEntry(Package("npm", "left", None, <<Option("--cache", "/c")>>, <<>>)),
     PackageEntry(Package("pypi", "flask", None,
                          <<Option("--with", "click")>>,
                          <<Positional(Flag("-p"))>>)),
     PackageEntry(Package("oci", "img", "3",
                          <<Option("-e", "TOKEN"), Missing("--init", "boolean"),
                            [Missing("--rm", "boolean") EXCEPT !.isRequired = FALSE],
                            Named(Flag("--mount"), Word(<<"bind", "/a", "/b">>), "string"),
                            Option("-v", "/c:/d"), Option("--network", "host")>>,
                          <<Positional(Word(<<"serve">>))>>)),
     [remotes |-> <<[type |-> "streamable", url |-> "u", headers |-> {"Authorization"}],
                    [type |-> "sse", url |-> "u", headers |-> {}],
                    [type |-> "sse", url |-> None, headers |-> {}]>>,
      packages |-> <<Package("nuget", "net", None, <<>>, <<>>),
                     [Package("npm", "left", None, <<>>, <<>>) EXCEPT !.transport = "sse"],
                     [Package("oci", "img", "3", <<>>, <<>>) EXCEPT
                          !.identifier = <<"img", ":", "4">>]>>]}

Raw(command, args) ==
    [object |-> TRUE, type |-> "stdio", command |-> command, args |-> args, env |-> {"TOKEN"},
     cwd |-> None, url |-> None, headers |-> {}]
MCTexts ==
    {[kind |-> "wrapper",
      entries |->
        <<Raw("uv", <<Word(<<"tool">>), Word(<<"run">>), FlagIs("--with", <<"click">>),
                      Dashes, Word(<<"flask">>)>>),
          Raw("uv", <<Word(<<"run">>), Flag("--with"), Word(<<"click">>), Word(<<"m.py">>)>>),
          Raw("uv", <<Word(<<"sync">>)>>),
          Raw("uvx", <<Flag("--from"), Word(<<"git+", "x">>), Blank, Word(<<"x">>)>>),
          Raw("uvx", <<FlagIs("--from", <<"flask">>), Word(<<"serve">>), Flag("--with"),
                       Word(<<"tea">>)>>),
          Raw("uvx", <<Flag("--with"), Word(<<"click">>), Flag("--python"), Word(<<"3.12">>),
                       Word(<<"flask">>), Word(<<"serve">>)>>),
          Raw("bunx", <<Flag("--bun"), Dashes, Word(<<"left">>)>>),
          Raw("npx", <<Flag("-p"), Word(<<"left">>), Word(<<"run">>), Flag("--port")>>),
          Raw("npx", <<Flag("-c"), Word(<<"left">>)>>),
          Raw("docker", <<Word(<<"run">>), Flag("--env"), Word(<<"A", "=">>),
                          FlagIs("--pull", <<"never">>), Flag("-w"), Word(<<"/w">>),
                          Flag("-t"), Flag("-l"), Word(<<"k=v">>), Flag("-u"), Word(<<"me">>),
                          Flag("--entrypoint"), Word(<<"sh">>), Dashes, Word(<<"img">>),
                          Flag("-d")>>),
          Raw("podman", <<Word(<<"run">>), Flag("-p"), Word(<<"80:80">>), Word(<<"img">>)>>),
          Raw("docker", <<Word(<<"compose">>)>>),
          Raw("deno", <<Word(<<"main">>)>>),
          [Raw("node", <<Word(<<"main.js">>)>>) EXCEPT !.cwd = "/app"],
          Raw("", <<>>),
          [Raw("", <<>>) EXCEPT !.object = FALSE]>>],
     [kind |-> "bare", entries |-> <<[Raw("", <<>>) EXCEPT !.url = "u", !.type = "sse"]>>],
     [kind |-> "map", entries |-> <<[Raw("", <<>>) EXCEPT !.url = Templated],
                                    [Raw("", <<>>) EXCEPT !.url = "u"]>>]}

MCVulns == [flask |-> <<"PYSEC-1", "PYSEC-0">>, werkzeug |-> <<"GHSA-2", "PYSEC-1">>,
            click |-> <<>>]
MCAdvisory ==
    ("PYSEC-1" :> [aliases |-> <<"CVE-1", "GHSA-1">>, severity |-> "unknown"]) @@
    ("PYSEC-0" :> [aliases |-> <<>>, severity |-> "low"]) @@
    ("GHSA-1" :> [aliases |-> <<"PYSEC-1">>, severity |-> "high"]) @@
    ("GHSA-2" :> [aliases |-> <<>>, severity |-> "critical"])
MCNpmAdvisories ==
    {[id |-> "NPM:1", package |-> "left", severity |-> "high", range |-> {"1"}],
     [id |-> "GHSA-3", package |-> "dev", severity |-> "low", range |-> {"1", "2"}]}
MCLock == {[package |-> "dev", version |-> "1"], [package |-> "left", version |-> "1"]}
MCStore == {[package |-> "left", version |-> "1"]}
At(package, version) == [package |-> package, version |-> version]

MCCompiled(specs) ==
    IF specs = {<<"flask", "==", "2">>} THEN <<"flask", "click", "werkzeug">>
    ELSE IF <<"flask">> \in specs THEN <<"click", "flask">>
    ELSE IF specs = {<<"click">>} THEN <<"click">> ELSE <<>>
MCInstalled(specs) ==
    (IF <<"left", "@", "1">> \in specs THEN {At("left", "1")} ELSE {At("left", "2")})
        \cup {At("dev", "2")}
================================================================================
