-------------------------------- MODULE Engines --------------------------------
(***************************************************************************)
(* The engines of the security audit (apps/gateway/src/audit/engines):     *)
(* what one audit does between the target it is given and its findings,    *)
(* while other audits run.  A Python target is resolved by uv in a         *)
(* temporary directory, looked up in osv.dev by batches, and the details   *)
(* of the advisories are fetched by a few workers; the promises of those   *)
(* fetches are shared by all audits and kept for a day.  An npm target is  *)
(* locked and audited by bun in a temporary directory, a project and the   *)
(* gateway itself where they are.                                          *)
(*                                                                         *)
(* The audited servers come from registry entries and pasted configs       *)
(* (module LaunchArgs).  What uv, bun and osv.dev answer is given by       *)
(* constants; each of their calls may fail.  Left out: titles, urls, CVSS  *)
(* scores, where the severity of an advisory does not follow from its      *)
(* database_specific entry.                                                *)
(*                                                                         *)
(* Bounds: every auditor audits once; MaxFaults (failed calls), MaxExpired *)
(* (details of which the day has passed), MaxAborts.                       *)
(***************************************************************************)
EXTENDS LaunchArgs

CONSTANTS
    Auditors,
    Entries, Texts,      \* registry entries and pasted configs
    Compiled(_),         \* requirements -> the packages uv pip compile lists
    Installed(_),        \* npm specs -> {[package, version]} that get locked
    Lock, Store,         \* the gateway's own lock file and what is installed of it
    Vulns,               \* package -> advisories that osv.dev lists, in its order
    Advisory,            \* advisory -> [aliases, severity]
    Ghsa,                \* the advisories whose id begins with GHSA-
    Withdrawn,           \* advisories for which osv.dev answers 404
    NpmAdvisories,       \* {[id, package, range]}: range is the affected versions
    BatchSize, Workers,  \* 1000 and 4 in the code
    MaxFaults, MaxExpired, MaxAborts

ASSUME EnginesAssumption ==
    /\ BatchSize \in Nat \ {0} /\ Workers \in Nat \ {0}
    /\ MaxFaults \in Nat /\ MaxExpired \in Nat /\ MaxAborts \in Nat
    /\ Withdrawn \subseteq DOMAIN Advisory /\ Ghsa \subseteq DOMAIN Advisory
    /\ \A package \in DOMAIN Vulns : Vulns[package] \in Seq(DOMAIN Advisory)
    /\ Store \subseteq Lock

\* What a registry entry and a pasted config may hold; None is what is missing.
CommandArgument == [flag : STRING, value : Seq(STRING)]
RegistryArgument == [type : STRING, name : CommandArgument, value : CommandArgument,
                     isRequired : BOOLEAN, format : STRING]
RegistryPackage == [registryType : STRING, identifier : Seq(STRING), version : STRING \cup {None},
                    transport : STRING, environmentVariables : SUBSET STRING,
                    runtimeArguments : Seq(RegistryArgument),
                    packageArguments : Seq(RegistryArgument)]
RegistryTransport == [type : STRING, url : STRING \cup {None}, headers : SUBSET STRING]
RawServer == [object : BOOLEAN, type : STRING, command : STRING,
              args : Seq(CommandArgument), env : SUBSET STRING,
              cwd : STRING \cup {None}, url : STRING \cup {None}, headers : SUBSET STRING]

ASSUME EntriesAssumption ==
    /\ Entries \subseteq [remotes : Seq(RegistryTransport), packages : Seq(RegistryPackage)]
    /\ Texts \subseteq [kind : STRING, entries : Seq(RawServer)]

VARIABLES
    server,    \* what is audited, chosen at first
    job,       \* the audits
    details,   \* OsvPypiEngine.details: the promises of the fetched advisories
    dirs,      \* audits with a temporary directory
    aborted,   \* audits whose signal has fired
    world,     \* faults and expirations so far
    hurt       \* history: audits one of whose calls, own or shared, has failed

vars == <<server, job, details, dirs, aborted, world, hurt>>

-----------------------------------------------------------------------------
(* The servers there are to audit.                                         *)

\* named: the package of a registry entry; given: the arguments before the name of the package,
\* for its runner; argv: those behind it, or all that was pasted.
Server(kind, named, given, argv, row) ==
    [kind |-> kind, named |-> named, given |-> given, argv |-> argv, row |-> row]
Self == Server("self", <<>>, <<>>, <<>>, NoDraft)

Registered(entry) ==
    LET options == installOptions(entry)
        remotes == Len(entry.remotes)
    IN  {Server("remote", <<>>, <<>>, <<>>, options[i]) : i \in 1..remotes} \cup
        {Server(entry.packages[i].registryType, packageIdentifier(entry.packages[i]),
                argumentValues(entry.packages[i].runtimeArguments),
                argumentValues(entry.packages[i].packageArguments), options[remotes + i]) :
            i \in DOMAIN entry.packages}

Pasted(root) ==
    LET raws == entriesOf(root)
    IN  {Server("pasted", <<>>, <<>>, <<Word(<<raws[i].command>>)>> \o Filled(raws[i].args),
                parseMcpConfig(root)[i]) : i \in DOMAIN raws}

\* Servers saved as they were drafted.
Saved ==
    {s \in UNION ({Registered(entry) : entry \in Entries} \cup {Pasted(t) : t \in Texts}) :
        s.row # NoDraft /\ ServerInput(s.row)}

TargetOf(s) ==
    IF s.kind = "self" THEN [kind |-> "self", specs |-> {}] ELSE auditTarget(s.row)

ASSUME CompiledAssumption ==
    \A s \in Saved : Compiled(TargetOf(s).specs) \in Seq(DOMAIN Vulns)

-----------------------------------------------------------------------------
Ids == DOMAIN Advisory
NoEntry == [state |-> "none", owner |-> {}]
Pending(a) == [state |-> "pending", owner |-> {a}]
Settled(state) == [state |-> state, owner |-> {}]

\* hits: the advisories of the packages looked up so far; queue: the advisories that no worker
\* has taken, in any order; waiting: those that a worker waits for; got, also: those that
\* came, and the ones among their aliases that did.
Idle == [pc |-> "idle", packages |-> <<>>, hits |-> <<>>, queue |-> {}, waiting |-> {},
         workers |-> Workers, got |-> {}, also |-> {}, findings |-> {}]
Ended == {"done", "failed", "unsupported"}
Running(a) == job[a].pc \notin Ended \cup {"idle"}

Init ==
    /\ server \in [Auditors -> Saved \cup {Self}]
    /\ job = [a \in Auditors |-> Idle]
    /\ details = [id \in Ids |-> NoEntry]
    /\ dirs = {} /\ aborted = {} /\ hurt = {}
    /\ world = [faults |-> 0, expired |-> 0]

-----------------------------------------------------------------------------
Kind(a) == TargetOf(server[a]).kind
Specs(a) == TargetOf(server[a]).specs
Go(a, pc) == job' = [job EXCEPT ![a].pc = pc]
Finish(a, findings) == job' = [job EXCEPT ![a].pc = "done", ![a].findings = findings]

\* A call of audit a fails: the audit throws, which removes its directory.
FailedCall(a) ==
    /\ a \in aborted \/ world.faults < MaxFaults
    /\ world' = IF a \in aborted THEN world ELSE [world EXCEPT !.faults = @ + 1]
    /\ Go(a, "failed")
    /\ hurt' = hurt \cup {a}
    /\ dirs' = dirs \ {a}
    /\ UNCHANGED <<server, details, aborted>>

Start(a) ==
    /\ job[a].pc = "idle"
    /\ CASE Kind(a) = "unsupported" -> Go(a, "unsupported") /\ UNCHANGED dirs
         [] Kind(a) \in {"npm", "pypi"} -> Go(a, "resolve") /\ dirs' = dirs \cup {a}
         [] Kind(a) \in {"node-project", "self"} -> Go(a, "audit") /\ UNCHANGED dirs
    /\ UNCHANGED <<server, details, aborted, world, hurt>>

\* bun install --lockfile-only.
Install(a) ==
    /\ job[a].pc = "resolve" /\ Kind(a) = "npm"
    /\ Go(a, "audit")
    /\ UNCHANGED <<server, details, dirs, aborted, world, hurt>>

Versions(a) ==
    CASE Kind(a) = "self" -> Store
      [] OTHER -> Installed(Specs(a))

\* bun audit; of what it says of the gateway's lock file, what concerns the packages that
\* are installed is kept.
NpmFindings(a) ==
    LET locked == IF Kind(a) = "self" THEN Lock ELSE Versions(a)
        hit(v, installed) == \E i \in installed : i.package = v.package /\ i.version \in v.range
        report == {v \in NpmAdvisories : hit(v, locked)}
    IN  {[package |-> v.package, id |-> v.id, severity |-> v.severity] :
            v \in {w \in report : hit(w, Versions(a))}}

Audit(a) ==
    /\ job[a].pc = "audit"
    /\ Finish(a, NpmFindings(a))
    /\ dirs' = dirs \ {a}
    /\ UNCHANGED <<server, details, aborted, world, hurt>>

\* The gateway's own directory is read-only: the manifests are copied to a temporary one.
AuditElsewhere(a) ==
    /\ job[a].pc = "audit" /\ Kind(a) = "self" /\ a \notin dirs
    /\ dirs' = dirs \cup {a}
    /\ UNCHANGED <<server, job, details, aborted, world, hurt>>

AuditFails(a) == job[a].pc \in {"resolve", "audit", "query"} /\ FailedCall(a)

-----------------------------------------------------------------------------
(* OsvPypiEngine *)

\* resolve: uv pip compile, after which the directory is removed.
Compile(a) ==
    LET packages == Compiled(Specs(a))
    IN  /\ job[a].pc = "resolve" /\ Kind(a) = "pypi"
        /\ job' = [job EXCEPT ![a].pc = IF packages = <<>> THEN "done" ELSE "query",
                              ![a].packages = packages]
        /\ dirs' = dirs \ {a}
        /\ UNCHANGED <<server, details, aborted, world, hurt>>

\* query: the answer to the next batch.
Query(a) ==
    LET packages == job[a].packages
        end == Len(job[a].hits) + BatchSize
        hits == [i \in 1..(IF end < Len(packages) THEN end ELSE Len(packages))
                    |-> Vulns[packages[i]]]
        ids == UNION {Range(hits[i]) : i \in DOMAIN hits}
        next == IF end < Len(packages) THEN "query" ELSE IF ids = {} THEN "done" ELSE "details"
    IN  /\ job[a].pc = "query"
        /\ job' = [job EXCEPT ![a].hits = hits, ![a].pc = next,
                              ![a].queue = IF next = "query" THEN {} ELSE ids]
        /\ UNCHANGED <<server, details, dirs, aborted, world, hurt>>

\* Mutant: a missing detail never fails the audit.
TolerantAlways(j) == TRUE
\* fetchDetails fails with the first detail that does, unless what it fetches are aliases.
Tolerant(j) == j.pc = "aliases"

\* Mutant: a failed fetch is remembered like any other.
FailedEntryKept == Settled("rejected")
\* value.catch(() => this.details.delete(id)).
FailedEntry == NoEntry

\* The jobs when the fetch of advisory id, for which some of them wait, has ended.  A worker
\* ends with its audit's failure, the others go on.
After(jobs, id, outcome) ==
    [b \in Auditors |->
        IF id \notin jobs[b].waiting THEN jobs[b]
        ELSE LET j == [jobs[b] EXCEPT !.waiting = @ \ {id}]
             IN  CASE outcome = "gone" -> j
                   [] outcome = "ok" /\ Tolerant(j) -> [j EXCEPT !.also = @ \cup {id}]
                   [] outcome = "ok" /\ ~Tolerant(j) -> [j EXCEPT !.got = @ \cup {id}]
                   [] outcome = "rejected" /\ Tolerant(j) -> j
                   [] OTHER -> [j EXCEPT !.pc = "failed", !.workers = @ - 1]]

\* A worker takes the next advisory: it starts the fetch, joins the one under way, or has
\* the answer.
Take(a, id) ==
    LET taken == [job EXCEPT ![a].queue = @ \ {id}, ![a].waiting = @ \cup {id}]
    IN  /\ job[a].pc \in {"details", "aliases", "failed"} /\ id \in job[a].queue
        /\ Cardinality(job[a].waiting) < job[a].workers
        /\ CASE details[id].state = "none" ->
                  /\ details' = [details EXCEPT ![id] = Pending(a)]
                  /\ job' = taken
             [] details[id].state = "pending" -> job' = taken /\ UNCHANGED details
             [] OTHER -> job' = After(taken, id, details[id].state) /\ UNCHANGED details
        /\ UNCHANGED <<server, dirs, aborted, world, hurt>>

\* The abort of the audit that began a fetch ends it, whoever else waits.
Cut(id) == details[id].owner \cap aborted # {}

\* osv.dev answers the fetch of an advisory.
Answer(id) ==
    LET outcome == IF id \in Withdrawn THEN "gone" ELSE "ok"
    IN  /\ details[id].state = "pending" /\ ~Cut(id)
        /\ details' = [details EXCEPT ![id] = Settled(outcome)]
        /\ job' = After(job, id, outcome)
        /\ UNCHANGED <<server, dirs, aborted, world, hurt>>

Reject(id) ==
    /\ details[id].state = "pending"
    /\ Cut(id) \/ world.faults < MaxFaults
    /\ world' = IF Cut(id) THEN world ELSE [world EXCEPT !.faults = @ + 1]
    /\ details' = [details EXCEPT ![id] = FailedEntry]
    /\ job' = After(job, id, "rejected")
    /\ hurt' = hurt \cup {b \in Auditors : id \in job[b].waiting}
    /\ UNCHANGED <<server, dirs, aborted>>

\* A day passes over a detail that has come.
Expire(id) ==
    /\ details[id].state \in {"ok", "gone"} /\ world.expired < MaxExpired
    /\ details' = [details EXCEPT ![id] = NoEntry]
    /\ world' = [world EXCEPT !.expired = @ + 1]
    /\ UNCHANGED <<server, job, dirs, aborted, hurt>>

Fetched(a) == job[a].queue = {} /\ job[a].waiting = {}
IsGhsa(id) == id \in Ghsa
AliasesOf(id) == Range(Advisory[id].aliases)

\* The details are there: the GHSA advisories they name and that are not among them are
\* fetched too.
DetailsDone(a) ==
    LET missing == (Ghsa \cap UNION {AliasesOf(v) : v \in job[a].got}) \ job[a].got
    IN  /\ job[a].pc = "details" /\ Fetched(a)
        /\ job' = [job EXCEPT ![a].pc = "aliases", ![a].queue = missing]
        /\ UNCHANGED <<server, details, dirs, aborted, world, hurt>>

canonicalId(id) ==
    LET ghsa == SelectSeq(Advisory[id].aliases, IsGhsa)
    IN  IF ghsa # <<>> /\ ~IsGhsa(id) THEN Head(ghsa) ELSE id

\* severityFromOsv: its own, or that of the first of its aliases that was fetched.
severityFromOsv(id, also) ==
    LET ghsa == SelectSeq(Advisory[id].aliases, LAMBDA alias : alias \in also)
    IN  IF Advisory[id].severity # "unknown" \/ ghsa = <<>> THEN Advisory[id].severity
        ELSE Advisory[Head(ghsa)].severity

\* Of advisories of a package with one canonical id the first is reported.
OsvFindings(a) ==
    LET hits == job[a].hits
        came(i) == {k \in DOMAIN hits[i] : hits[i][k] \in job[a].got}
        first(i) == {k \in came(i) : \A l \in came(i) :
                        l < k => canonicalId(hits[i][l]) # canonicalId(hits[i][k])}
    IN  UNION {{[package |-> job[a].packages[i], id |-> canonicalId(hits[i][k]),
                 severity |-> severityFromOsv(hits[i][k], job[a].also)] :
                   k \in first(i)} : i \in DOMAIN hits}

AliasesDone(a) ==
    /\ job[a].pc = "aliases" /\ Fetched(a)
    /\ Finish(a, OsvFindings(a))
    /\ UNCHANGED <<server, details, dirs, aborted, world, hurt>>

\* The audit is cancelled or has taken too long.
Abort(a) ==
    /\ Running(a) /\ a \notin aborted /\ Cardinality(aborted) < MaxAborts
    /\ aborted' = aborted \cup {a}
    /\ UNCHANGED <<server, job, details, dirs, world, hurt>>

-----------------------------------------------------------------------------
Next ==
    \/ \E a \in Auditors :
          \/ Start(a) \/ Install(a) \/ Audit(a) \/ AuditElsewhere(a) \/ AuditFails(a)
          \/ Compile(a) \/ Query(a) \/ (\E id \in Ids : Take(a, id))
          \/ DetailsDone(a) \/ AliasesDone(a) \/ Abort(a)
    \/ \E id \in Ids : Answer(id) \/ Reject(id) \/ Expire(id)

Spec == Init /\ [][Next]_vars

-----------------------------------------------------------------------------
(* Properties                                                              *)

\* The options that the runners take a value for, as their own references list them (npx takes
\* every setting of npm, of which these are the usual ones; any other option of docker run is
\* refused when the server is saved).
TakesValue ==
    [npx |-> {"-p", "--package", "-c", "--call", "--userconfig", "--loglevel",
              "--node-options", "--shell", "-w", "--workspace", "-n", "--node-arg",
              "--cache", "--prefix", "--registry", "--script-shell"},
     bunx |-> {"-p", "--package"},
     uvx |-> {"--from", "--with", "--with-editable", "--with-requirements", "--constraints",
              "-c", "--python", "-p", "--index", "--index-url", "--extra-index-url",
              "--index-strategy", "--python-preference", "--cache-dir", "--refresh-package",
              "--find-links", "-f", "-w", "--overrides", "--build-constraints", "-b",
              "--env-file", "--python-platform", "--default-index", "-i",
              "--upgrade-package", "-P", "--reinstall-package", "--keyring-provider",
              "--resolution", "--prerelease", "--exclude-newer", "--link-mode", "--color",
              "--directory", "--project", "--config-file", "--config-setting", "-C"},
     docker |-> {"-e", "--env", "--env-file", "-v", "--volume", "--mount", "--network",
                 "--net", "-w", "--workdir", "-u", "--user", "--entrypoint", "--pull",
                 "-l", "--label", "--name", "--platform"}]

\* Those of them that the audit does not know to have one.
Unlisted ==
    [npx |-> {"-w", "--workspace", "-n", "--node-arg", "--cache", "--prefix", "--registry",
              "--script-shell"},
     bunx |-> {},
     uvx |-> {"-w", "--overrides", "--build-constraints", "-b", "--env-file",
              "--python-platform", "--default-index", "-i", "--upgrade-package", "-P",
              "--reinstall-package", "--keyring-provider", "--resolution", "--prerelease",
              "--exclude-newer", "--link-mode", "--color", "--directory", "--project",
              "--config-file", "--config-setting", "-C"},
     docker |-> {}]

\* Options that name what to install in place of the command, or beside it.
Replaces == [npx |-> {"-p", "--package"}, bunx |-> {"-p", "--package"}, uvx |-> {"--from"}]
Adds == [npx |-> {}, bunx |-> {}, uvx |-> {"--with"}]
Registry == [npx |-> "npm", bunx |-> "npm", uvx |-> "pypi"]

Awaits(arg, options) == arg.flag \in options /\ arg.value = <<>>

\* The arguments before the command are options, and a word among them is the value of the
\* option before it; Dashes ends them.
OptionsOnly(runner, given) ==
    \A i \in DOMAIN given :
        /\ IsWord(given[i]) <=> i # 1 /\ Awaits(given[i - 1], TakesValue[runner])
        /\ Awaits(given[i], TakesValue[runner]) => i # Len(given)
        /\ given[i] = Dashes => i = Len(given)

ValuesOf(given, options) ==
    {IF given[i].value # <<>> THEN given[i].value ELSE given[i + 1].value :
        i \in {j \in DOMAIN given : given[j].flag \in options}}

\* The packages that a runner installs to run a command.
Installs(runner, given, command) ==
    LET packages == ValuesOf(given, Replaces[runner])
    IN  (IF packages = {} THEN {command} ELSE packages) \cup ValuesOf(given, Adds[runner])

\* The audit takes the value of an option that it does not know for the package.
UnlistedOption(runner, given) ==
    \E i \in DOMAIN given : Awaits(given[i], Unlisted[runner])
\* It takes an argument of the command, such as a port behind -p, for an option of the runner.
OwnFlagMisread(runner, own) ==
    \E i \in DOMAIN own : own[i].flag \in Replaces[runner] \cup Adds[runner]

\* The audit of a command, the first word behind the options, looks at the packages that its
\* runner installs, or at nothing.
LooksAt(target, runner, given, command, own) ==
    \/ ~OptionsOnly(runner, given)
    \/ UnlistedOption(runner, given) \/ OwnFlagMisread(runner, own)
    \/ target \in {unsupported, [kind |-> Registry[runner],
                                 specs |-> Installs(runner, given, command)]}

\* How a pasted command begins that starts a runner; uv tool run is uvx.
Begins ==
    [npx |-> {<<Word(<<"npx">>)>>}, bunx |-> {<<Word(<<"bunx">>)>>},
     uvx |-> {<<Word(<<"uvx">>)>>, <<Word(<<"uv">>), Word(<<"tool">>), Word(<<"run">>)>>}]
RunnerArgs(argv, runner) ==
    {SubSeq(argv, Len(begin) + 1, Len(argv)) : begin \in {b \in Begins[runner] : IsPrefix(b, argv)}}

\* A server saved as it was drafted runs what the registry entry or the pasted command
\* names, and the audit looks at what its runner then installs and at nothing else, or at nothing.
\* The flags of a registry entry stand before the package in the arguments that packageOption
\* builds, and auditTarget and parseDockerRun have to find it behind them; in a pasted command
\* any word may be the first that is no option's value.  Excepted are options that the audit's
\* tables lack, and arguments of the command itself that parseOptions takes for options of
\* its runner: it reads flags behind the package too.  A container that is to pass on a
\* secret of the gateway is saved, and refused when it is launched.
RunsWhatWasNamed ==
    \A a \in Auditors :
        LET s == server[a]
            target == TargetOf(s)
            spawned == spawnSpec(s.row)
        IN  /\ s.kind \in {"npm", "pypi"} /\ s.named # <<>> =>
                 /\ LooksAt(target, STDIO_RUNTIMES[s.kind], s.given, s.named, s.argv)
                 /\ spawned.kind = "process" /\ Contains(spawned.argv, Word(s.named))
                 /\ spawned.env \cap REDIRECTING_ENV = {}
            /\ s.kind = "oci" /\ s.named # <<>> =>
                 \/ spawned.kind = "container" /\ spawned.run.image = s.named
                 \/ ~OptionsOnly("docker", s.given)
                 \/ spawned.kind = "refused" /\ s.row.env \cap JUNCTIO_ENV # {}
            /\ s.kind = "remote" => spawned.kind = "refused" /\ target = unsupported
            /\ s.kind = "pasted" =>
                 \A runner \in DOMAIN Begins :
                     \A args \in RunnerArgs(s.argv, runner) : \A k \in DOMAIN args :
                         IsWord(args[k]) =>
                             LooksAt(target, runner, SubSeq(args, 1, k - 1), args[k].value,
                                     SubSeq(args, k + 1, Len(args)))
            /\ s.kind = "pasted" /\ spawned.kind = "process" => spawned.argv = s.argv
            /\ s.kind = "pasted" /\ spawned.kind = "container" =>
                 \E arg \in Range(s.argv) : spawned.run.image = Text(arg)

\* An audit that ends well reports every advisory of every package it resolved: one that
\* osv.dev does not answer for fails the audit, also where another audit began the fetch.
FindingsAreComplete ==
    \A a \in Auditors :
        job[a].pc = "done" =>
            /\ \A i \in DOMAIN job[a].packages :
                  \A id \in Range(Vulns[job[a].packages[i]]) \ Withdrawn :
                      \E f \in job[a].findings :
                          f.package = job[a].packages[i] /\ f.id = canonicalId(id)
            /\ Kind(a) \in {"npm", "node-project", "self"} =>
                  {f.id : f \in job[a].findings} =
                      {v.id : v \in {w \in NpmAdvisories : \E i \in Versions(a) :
                                        i.package = w.package /\ i.version \in w.range}}

\* A failed audit leaves no trace to the next one: its directory is gone, and a fetch that
\* failed before an audit joined it does not fail that audit.
FailuresAreForgotten ==
    /\ \A a \in Auditors : job[a].pc \in Ended => a \notin dirs
    /\ \A a \in Auditors : job[a].pc = "failed" => a \in hurt
=============================================================================
