------------------------------ MODULE LaunchArgs ------------------------------
(***************************************************************************)
(* The arguments of an upstream server, from where they come to what is    *)
(* launched and what is audited: the drafts made of a registry entry       *)
(* (registry/install.ts) and of a pasted client config (mcpconfig.ts), the *)
(* check of what is saved (schema/server.ts), the process or container of  *)
(* a saved server (upstream/command.ts, upstream/registry.ts,              *)
(* schema/dockerargs.ts) and the packages an audit looks at                *)
(* (audit/spec.ts).                                                        *)
(*                                                                         *)
(* An argument is a flag, a flag with a value in it (--flag=value) or a    *)
(* word; a word is a sequence of parts, such as <<"pkg", "@", "1">>, and   *)
(* <<>> is the empty string.  Of an environment the names are kept, of a   *)
(* --mount its type, source and target; a cwd and a url are values, None   *)
(* where the code has null.  The wording of notes, labels and details,     *)
(* names of servers and what a human still has to fill in are left out.    *)
(***************************************************************************)
EXTENDS Naturals, SequencesExt

CONSTANTS
    None,            \* no version, url or directory
    LockedProjects   \* directories with a package.json and a bun.lock

\* A word has no flag.
NoFlag == ""
Flag(f) == [flag |-> f, value |-> <<>>]
FlagIs(f, v) == [flag |-> f, value |-> v]
Word(parts) == [flag |-> NoFlag, value |-> parts]
Blank == Word(<<>>)
Dashes == Flag("--")

IsWord(arg) == arg.flag = NoFlag
\* What an argument says when it is taken as the value of the flag before it.
Text(arg) == IF IsWord(arg) THEN arg.value ELSE <<arg.flag>> \o arg.value
Filled(args) ==
    FlattenSeq([i \in DOMAIN args |-> IF args[i] = Blank THEN <<>> ELSE <<args[i]>>])

-----------------------------------------------------------------------------
(* audit/spec.ts *)

RemotePrefixes == {"git+", "github:", "https://", "file:", "./", "/"}
ArchiveSuffixes == {".tgz", ".whl"}

isRemoteSpec(spec) ==
    \/ spec = <<>>
    \/ Head(spec) \in RemotePrefixes \/ Last(spec) \in ArchiveSuffixes
    \/ "@git+" \in Range(spec)

NPX_OPTIONS ==
    [value |-> {"-p", "--package", "-c", "--call", "--userconfig", "--loglevel",
                "--node-options", "--shell"},
     blocked |-> {"--registry", "--userconfig"}]
BUNX_OPTIONS == [value |-> {"-p", "--package"}, blocked |-> {"--registry"}]
\* Mutant: the table of uvx lacks two flags.
UVX_OPTIONSFew == [value |-> {"--from", "--with"}, blocked |-> {"--index-url"}]

UVX_OPTIONS ==
    [value |-> {"--from", "--with", "--with-editable", "--with-requirements",
                "--constraints", "-c", "--python", "-p", "--index", "--index-url",
                "--extra-index-url", "--index-strategy", "--python-preference",
                "--cache-dir", "--refresh-package", "--find-links", "-f"},
     blocked |-> {"--index", "--index-url", "--extra-index-url", "--find-links", "-f",
                  "--with-requirements", "--with-editable", "--constraints"}]

\* One turn of the loop of parseOptions; pending is the flag whose value comes next.
\* A flag the table does not know has no value of its own.
OptionStep(st, arg, spec) ==
    LET taken(flag, value) == st.collected \cup {[flag |-> flag, value |-> value]}
        blocked == st.blocked \/ arg.flag \in spec.blocked
    IN  CASE st.pending # NoFlag ->
               [st EXCEPT !.collected = taken(st.pending, Text(arg)), !.pending = NoFlag]
          [] st.pending = NoFlag /\ (st.terminated \/ IsWord(arg)) ->
               [st EXCEPT !.positionals = Append(@, Text(arg))]
          [] st.pending = NoFlag /\ ~st.terminated /\ arg = Dashes ->
               [st EXCEPT !.terminated = TRUE]
          [] OTHER ->
               IF arg.flag \notin spec.value THEN [st EXCEPT !.blocked = blocked]
               ELSE IF arg.value # <<>>
               THEN [st EXCEPT !.blocked = blocked, !.collected = taken(arg.flag, arg.value)]
               ELSE [st EXCEPT !.blocked = blocked, !.pending = arg.flag]

parseOptions(args, spec) ==
    LET start == [collected |-> {}, positionals |-> <<>>, blocked |-> FALSE,
                  terminated |-> FALSE, pending |-> NoFlag]
        after[i \in 0..Len(args)] ==
            IF i = 0 THEN start ELSE OptionStep(after[i - 1], args[i], spec)
    IN  after[Len(args)]

values(parsed, flags) == {c.value : c \in {d \in parsed.collected : d.flag \in flags}}

unsupported == [kind |-> "unsupported", specs |-> {}]

\* npmSpecs and pypiRequirements.
Target(kind, specs) ==
    LET cleaned == specs \ {<<>>}
    IN  IF cleaned = {} \/ \E spec \in cleaned : isRemoteSpec(spec) THEN unsupported
        ELSE [kind |-> kind, specs |-> cleaned]

First(parsed) == IF parsed.positionals = <<>> THEN {} ELSE {Head(parsed.positionals)}

parseNpxArgs(args) ==
    LET parsed == parseOptions(args, NPX_OPTIONS)
        packages == values(parsed, {"-p", "--package"})
    IN  IF parsed.blocked THEN unsupported
        ELSE IF packages # {} THEN Target("npm", packages)
        ELSE IF values(parsed, {"-c", "--call"}) # {} THEN unsupported
        ELSE Target("npm", First(parsed))

parseBunxArgs(args) ==
    LET parsed == parseOptions(args, BUNX_OPTIONS)
        packages == values(parsed, {"-p", "--package"})
    IN  IF parsed.blocked THEN unsupported
        ELSE Target("npm", IF packages # {} THEN packages ELSE First(parsed))

parseUvxArgs(args) ==
    LET parsed == parseOptions(args, UVX_OPTIONS)
        from == values(parsed, {"--from"})
    IN  IF parsed.blocked THEN unsupported
        ELSE Target("pypi", (IF from # {} THEN from ELSE First(parsed))
                                \cup values(parsed, {"--with"}))

parseUvArgs(args) ==
    IF IsPrefix(<<Word(<<"tool">>), Word(<<"run">>)>>, args)
    THEN parseUvxArgs(SubSeq(args, 3, Len(args)))
    ELSE IF IsPrefix(<<Word(<<"run">>)>>, args)
    THEN LET parsed == parseOptions(Tail(args), UVX_OPTIONS)
         IN  IF parsed.blocked THEN unsupported
             ELSE Target("pypi", values(parsed, {"--with"}))
    ELSE unsupported

auditTarget(row) ==
    LET args == Filled(row.args)
    IN  CASE row.transport # "stdio" -> unsupported
          [] row.transport = "stdio" /\ row.runtime = "npx" -> parseNpxArgs(args)
          [] row.transport = "stdio" /\ row.runtime = "bunx" -> parseBunxArgs(args)
          [] row.transport = "stdio" /\ row.runtime = "uvx" -> parseUvxArgs(args)
          [] row.transport = "stdio" /\ row.runtime = "uv" -> parseUvArgs(args)
          [] row.transport = "stdio" /\ row.runtime = "node" /\ row.cwd \in LockedProjects ->
               [kind |-> "node-project", specs |-> {<<row.cwd>>}]
          [] OTHER -> unsupported

-----------------------------------------------------------------------------
(* schema/dockerargs.ts *)

VALUE_FLAGS == {"-e", "--env", "--env-file", "-v", "--volume", "--mount", "--network",
                "--net", "-w", "--workdir", "-u", "--user", "--entrypoint", "--pull",
                "-l", "--label", "--name", "--platform"}
REFUSED == {"-d", "--detach", "-p", "--publish", "--privileged", "--cap-add", "--device",
            "--pid", "--ipc", "--gpus", "--env-file", "--restart"}
IGNORED == {"-t", "--tty", "--name", "--platform"}

ShortFlags == {"-d", "-e", "-i", "-l", "-p", "-t", "-u", "-v", "-w"}

\* Only a long flag is split at its "=".
splitFlag(arg) ==
    IF arg.value # <<>> /\ arg.flag \in ShortFlags THEN Flag("unknown") ELSE arg

parseMount(mount) ==
    LET type == mount[1]  source == mount[2]  target == mount[3]
    IN  IF type \in {"", "bind", "volume"} /\ target # "" /\ source # ""
        THEN {<<source, ":", target>>} ELSE {}

\* A setting of which the last one counts, such as the network.
Setting(st, name, value) ==
    [st EXCEPT !.options = {o \in @ : o[1] # name} \cup {<<name, value>>}]
Refuse(st, flag) == [st EXCEPT !.errors = @ \cup {flag}]

assignEnv(st, value, ambient) ==
    IF "=" \in Range(value) \/ Head(value) \in ambient
    THEN [st EXCEPT !.env = @ \cup {Head(value)}] ELSE Refuse(st, "-e")

ApplyFlag(st, flag, value, ambient) ==
    CASE flag \in REFUSED -> Refuse(st, flag)
      [] flag \in IGNORED \cup {"-i", "--interactive", "--rm"} -> st
      [] flag = "--init" -> Setting(st, "init", <<>>)
      [] flag \in {"-e", "--env"} -> assignEnv(st, value, ambient)
      [] flag \in {"-v", "--volume"} -> [st EXCEPT !.binds = @ \cup {value}]
      [] flag = "--mount" -> IF parseMount(value) = {} THEN Refuse(st, flag)
                             ELSE [st EXCEPT !.binds = @ \cup parseMount(value)]
      [] flag \in {"--network", "--net"} -> Setting(st, "network", value)
      [] flag \in {"-w", "--workdir"} -> Setting(st, "workdir", value)
      [] flag \in {"-u", "--user"} -> Setting(st, "user", value)
      [] flag = "--entrypoint" -> Setting(st, flag, value)
      [] flag = "--pull" -> IF Head(value) \in {"always", "missing", "never"}
                            THEN Setting(st, flag, value) ELSE Refuse(st, flag)
      [] flag \in {"-l", "--label"} -> [st EXCEPT !.labels = @ \cup {value}]
      [] OTHER -> Refuse(st, flag)

\* One turn of the loop of parseDockerRun; the loop ends at the first word.
DockerStep(st, arg, ambient) ==
    LET split == splitFlag(arg)
    IN  CASE st.reading /\ st.pending # NoFlag ->
               [ApplyFlag(st, st.pending, Text(arg), ambient) EXCEPT !.pending = NoFlag]
          [] st.reading /\ st.pending = NoFlag /\ ~IsWord(arg) /\ arg # Dashes ->
               IF split.flag \in VALUE_FLAGS /\ split.value = <<>>
               THEN [st EXCEPT !.pending = split.flag]
               ELSE ApplyFlag(st, split.flag, split.value, ambient)
          [] st.reading /\ st.pending = NoFlag /\ arg = Dashes -> [st EXCEPT !.reading = FALSE]
          [] OTHER -> [st EXCEPT !.reading = FALSE, !.rest = Append(@, Text(arg))]

NoRun == [image |-> <<>>, cmd |-> <<>>, env |-> {}, binds |-> {}, options |-> {},
          labels |-> {}, errors |-> {}]

parseDockerRun(args, ambient) ==
    LET parts == Filled(args)
        start == [reading |-> TRUE, pending |-> NoFlag, rest |-> <<>>, env |-> ambient,
                  binds |-> {}, options |-> {}, labels |-> {}, errors |-> {}]
        after[i \in 1..Len(parts)] ==
            IF i = 1 THEN start ELSE DockerStep(after[i - 1], parts[i], ambient)
        end == after[Len(parts)]
        errors == end.errors \cup (IF end.pending = NoFlag THEN {} ELSE {end.pending})
                             \cup (IF end.rest \in {<<>>, <<<<>>>>} THEN {"image"} ELSE {})
    IN  IF parts = <<>> \/ Head(parts) # Word(<<"run">>)
        THEN [NoRun EXCEPT !.errors = {"run"}]
        ELSE IF errors # {}
        THEN [NoRun EXCEPT !.errors = errors]
        ELSE [NoRun EXCEPT !.image = Head(end.rest), !.cmd = Tail(end.rest), !.env = end.env,
                           !.binds = end.binds, !.options = end.options, !.labels = end.labels]

-----------------------------------------------------------------------------
(* upstream/command.ts and upstream/registry.ts *)

buildArgv(runtime, args) ==
    IF runtime = "custom" THEN Filled(args) ELSE <<Word(<<runtime>>)>> \o Filled(args)

AUDITED_RUNTIMES == {"npx", "bunx", "uvx", "uv"}
REDIRECTING_ENV == {"npm_config_registry", "node_options", "uv_index_url", "pip_config_file"}
JUNCTIO_ENV == {"JUNCTIO_SECRET"}

\* buildChildEnv, of the names the configuration adds to the gateway's own.
buildChildEnv(env, runtime) ==
    (env \ JUNCTIO_ENV) \ (IF runtime \in AUDITED_RUNTIMES THEN REDIRECTING_ENV ELSE {})

\* ServerRegistry.spawnSpec; kind "refused" where it throws or there is nothing to spawn.
spawnSpec(row) ==
    LET parsed == parseDockerRun(row.args, row.env \ JUNCTIO_ENV)
        placed == row.cwd = None \/ \E o \in parsed.options : o[1] = "workdir"
        run == [parsed EXCEPT
                    !.options = IF placed THEN @ ELSE @ \cup {<<"workdir", <<row.cwd>>>>}]
        spawn(kind, argv, env, box) == [kind |-> kind, argv |-> argv, env |-> env, run |-> box]
    IN  CASE row.transport # "stdio" \/ (row.runtime = "docker" /\ run.errors # {}) ->
               spawn("refused", <<>>, {}, NoRun)
          [] row.transport = "stdio" /\ row.runtime = "docker" /\ run.errors = {} ->
               spawn("container", <<>>, {}, run)
          [] OTHER -> spawn("process", buildArgv(row.runtime, row.args),
                            buildChildEnv(row.env, row.runtime), NoRun)

\* The refinement of ServerInput, which a created server has passed.
ServerInput(row) ==
    IF row.transport # "stdio" THEN row.url # None
    ELSE /\ Filled(row.args) # <<>>
         /\ row.runtime = "docker" => parseDockerRun(row.args, row.env).errors = {}
         /\ row.authMode = "none"

-----------------------------------------------------------------------------
(* registry/install.ts *)

baseDraft == [transport |-> "stdio", runtime |-> "custom", args |-> <<>>, env |-> {},
              cwd |-> None, url |-> None, authMode |-> "none"]
NoDraft == [baseDraft EXCEPT !.transport = "none"]

STDIO_RUNTIMES == [npm |-> "npx", pypi |-> "uvx", oci |-> "docker"]
REMOTE_TRANSPORTS == [streamable |-> "http", sse |-> "sse"]

Placeholder == Word(<<"<value>">>)

\* arg.value stands for arg.value ?? arg.default ?? "".  A name and a value are arguments, Blank
\* where there is none: a value that begins with a dash is read as a flag later on.
argumentValues(args) ==
    FlattenSeq([i \in DOMAIN args |->
        LET arg == args[i]
        IN  CASE arg.type # "named" -> <<IF arg.value = Blank THEN Placeholder ELSE arg.value>>
              [] arg.type = "named" /\ arg.name = Blank -> <<>>
              [] arg.type = "named" /\ arg.name # Blank /\ arg.value # Blank ->
                   <<arg.name, arg.value>>
              [] OTHER ->
                   IF ~arg.isRequired THEN <<>>
                   ELSE IF arg.format = "boolean" THEN <<arg.name>>
                   ELSE <<arg.name, Placeholder>>])

packageIdentifier(entry) ==
    LET joined(mark) == entry.identifier \o <<mark, entry.version>>
    IN  CASE entry.version = None -> entry.identifier
          [] entry.version # None /\ entry.registryType = "npm" -> joined("@")
          [] entry.version # None /\ entry.registryType = "pypi" -> joined("==")
          [] entry.version # None /\ entry.registryType = "oci" ->
               IF ":" \in Range(entry.identifier) THEN entry.identifier ELSE joined(":")
          [] OTHER -> entry.identifier

\* The draft of an option, NoDraft for an option that is not supported.
packageOption(entry) ==
    LET type == entry.registryType
        runtime == STDIO_RUNTIMES[type]
        given == argumentValues(entry.runtimeArguments)
        rm == (IF Contains(given, Flag("--rm")) THEN <<>> ELSE <<Flag("--rm")>>) \o given
        interactive == IF Contains(rm, Flag("-i")) \/ Contains(rm, Flag("--interactive"))
                       THEN rm ELSE <<Flag("-i")>> \o rm
        runtimeArgs == CASE runtime = "docker" -> <<Word(<<"run">>)>> \o interactive
                         [] runtime = "npx" -> <<Flag("-y")>> \o given
                         [] OTHER -> given
    IN  IF type \notin DOMAIN STDIO_RUNTIMES \/ entry.transport # "stdio" THEN NoDraft
        ELSE [baseDraft EXCEPT
                  !.runtime = runtime, !.env = entry.environmentVariables,
                  !.args = Filled(runtimeArgs \o <<Word(packageIdentifier(entry))>>
                                      \o argumentValues(entry.packageArguments))]

Authorizes(headers) == headers \cap {"Authorization", "authorization"} # {}

\* Headers other than Authorization are dropped with their values.
remoteOption(remote) ==
    IF remote.type \notin DOMAIN REMOTE_TRANSPORTS \/ remote.url = None THEN NoDraft
    ELSE [baseDraft EXCEPT
              !.transport = REMOTE_TRANSPORTS[remote.type], !.url = remote.url,
              !.authMode = IF Authorizes(remote.headers) THEN "header" ELSE "none"]

installOptions(entry) ==
    [i \in DOMAIN entry.remotes |-> remoteOption(entry.remotes[i])]
        \o [i \in DOMAIN entry.packages |-> packageOption(entry.packages[i])]

-----------------------------------------------------------------------------
(* schema/mcpconfig.ts *)

RUNTIMES == {"npx", "bunx", "uvx", "uv", "node"}
CONTAINER == {"docker", "podman"}

looksLikeServer(raw) == raw.object /\ (raw.command # "" \/ raw.url # None)

\* The url is a placeholder to fill in by hand.
Templated == "${url}"

remoteDraft(raw, transport) ==
    [baseDraft EXCEPT !.transport = transport, !.url = raw.url,
        !.authMode = IF Authorizes(raw.headers) THEN "header" ELSE "none"]

stdioDraft(raw) ==
    LET known == raw.command \in RUNTIMES \cup CONTAINER
    IN  [baseDraft EXCEPT
            !.runtime = IF raw.command \in CONTAINER THEN "docker"
                        ELSE IF known THEN raw.command ELSE "custom",
            !.args = IF known THEN raw.args ELSE <<Word(<<raw.command>>)>> \o raw.args,
            !.env = raw.env, !.cwd = raw.cwd]

\* NoDraft for an entry that is refused.
convert(raw) ==
    LET legacySse == raw.type = "sse"
    IN  CASE ~raw.object -> NoDraft
          [] raw.object /\ raw.url # None ->
               IF raw.url = Templated THEN NoDraft
               ELSE remoteDraft(raw, IF legacySse THEN "sse" ELSE "http")
          [] raw.object /\ raw.url = None ->
               IF legacySse \/ raw.command = "" THEN NoDraft ELSE stdioDraft(raw)

\* A pasted text holds an object with a wrapper, a bare server or a map of servers.
entriesOf(root) ==
    CASE root.kind = "wrapper" -> root.entries
      [] root.kind \in {"bare", "map"} ->
           IF \A i \in DOMAIN root.entries : looksLikeServer(root.entries[i])
           THEN root.entries ELSE <<>>
      [] OTHER -> <<>>

parseMcpConfig(root) ==
    LET entries == entriesOf(root) IN [i \in DOMAIN entries |-> convert(entries[i])]
=============================================================================
