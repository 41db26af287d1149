# A TLA+ model of the junctio gateway

junctio is an MCP gateway: clients connect to one endpoint, the gateway runs or reaches many
upstream MCP servers, aggregates their tools, keeps their credentials, audits what they launch,
authorises its clients, and is administered from a web console or by an agent. The gateway is one
JavaScript event loop, so the code between two awaits is atomic; the hard behaviours are calls
that are suspended while others change what they have read. Most modules here are about that.
Three are about data that passes through several conversions (names, arguments, findings), and
three about two programs that see one another only through requests (console, agent, gateway).

Paths are relative to `apps/gateway/src` unless they start with `docs`, `test`, `CHANGELOG` or
`web` (`apps/web/src`).

## Inventory

| part | state it keeps | operations | hard behaviours |
| --- | --- | --- | --- |
| Process supervisor, `upstream/supervisor.ts`, `process.ts`, `stdio.ts` | `running`, `starting`, `halting`, `info`, `backoffUntil`; one `Managed` per process | `acquire`, `spawn`, `watchExit`, `stop`, `reset`, `touch`, `sweepIdle`, `shutdown` | calls that join or wait for a spawn or a halt; crash, backoff, warm restart; a connection lost while the process lives; a sweep and a shutdown that walk snapshots across awaits |
| Connection pool, `upstream/pool.ts` | `entries`, `connecting`, `verdicts`, `backoff`, catalogs | `acquire`, `connect`, `withClient`, `invalidate`, `onProcessExit`, `catalog`, `shutdown` | an edit during a connect; an exit between connect and store; retries; list changes that race a fetch |
| Server registry and launch gate, `upstream/registry.ts`, `gate.ts` | cache of resolved servers | `resolve`, `invalidate`, `spawnSpec`, `assert` | a cache filled from a row read before the invalidation; a gate's answer older than the audit that changes it |
| Audit service, `audit/service.ts`, `policy.ts`, `store.ts` | queue, worker, run, results, ignores | `runAll`, `enqueue`, `drain`, `execute`, `apply`, `liftQuarantine`, `reevaluate`, `cancelPending`, `tick` | a verdict overtaken by an edit or a lift; sanction and launch racing; callers waiting for a job that is dropped |
| Audit engines, `audit/engines/*`, `audit/spec.ts` | shared promises of advisories, temporary directories | `auditTarget`, npm, PyPI and self engines | two audits that share a fetch; a fetch that fails or is aborted for one of them; batches |
| Upstream OAuth, `auth/upstream/*` | tokens, status, pending states; refreshes in flight | `start`, `complete`, `ensureFresh`, `runSweep`, `performRefresh`, `handleUnauthorized`, `clear` | a rotating refresh token; a refresh overtaken by a login or a logout; a 401 that races a refresh; a crash between exchange and save |
| Authorization server, `auth/downstream/as/*` | clients and their cache, requests, codes, token pairs | `authorize`, `approve`, `deny`, `exchangeAuthorizationCode`, `exchangeRefreshToken`, `verifyAccessToken`, `revokeToken`, `prune` | one use of a code and of a refresh token; a client that is revoked while a handler has it; expiry |
| Client authentication and rate limits, `auth/downstream/*`, `server/mcp.ts`, `server/ratelimit.ts` | endpoints, keys, issuer metadata, buckets | the way of a request to its endpoint | rows read before a verification and used after it; a bucket at its limit, forgotten and remade |
| Aggregator and naming, `aggregate/*`, `api/namespaces.ts` | memberships, overrides, separator | listing, resolving, renaming | two tools with one exposed name; a joined name that is split elsewhere; a rename that races another |
| Container launcher, `upstream/docker/*` | containers in the daemon, wait calls | `spawnContainer`, `terminate`, `kill`, `dispose`, the sweep of leftovers | a call that fails or has its effect all the same; an exit nobody waits for; a crash; a name in use |
| Arguments, `registry/install.ts`, `web/lib/mcpconfig.ts`, `schema/server.ts`, `schema/dockerargs.ts`, `upstream/command.ts`, `audit/spec.ts` | none | drafts, checks, launch specification, audit target | four parsers of one command line that must agree on what the package is |
| Server API and other routes, `api/*` | tables, sessions | create, edit, delete, settings, sessions | edits of many steps across the parts above |
| Admin MCP, `admin/*`, `server/admin.ts` | a switch, the request log | the agents' tools and resources | what an agent may not do, through ids it makes up |
| Web console, `web/*` | the session store, what each view has loaded | opening, polling and clicking, the router's guard | views that show an earlier state; a session that ends; polls that stop |
| Log buffer, response cache, configuration, database, cryptography, command line, documentation site, client snippets | | | not protocol logic |

## What makes each part correct

* Supervisor: a server has at most one live connected process; each is handed out by `acquire` or
  is being stopped; `stop` and `shutdown` return, and only when what they were called for is gone;
  what is reported names what runs.
* Pool: no connection is leaked; a connection to a process does not survive the edit of its
  server; a list change is lost at most by the fetch it raced; every request ends.
* Audit, registry and gate: a sanctioned server does not stay running, and only a human lifts the
  sanction; the cache follows the database; every audit asked for returns.
* Engines and arguments: what is launched and what is audited is what was named; an audit that
  ends well has every advisory; a failed one leaves nothing behind.
* Upstream OAuth: a refresh token is sent once; tokens are stored in the order of issue; a logout
  is final; an expiring token is noticed.
* Authorization server: a grant has one credential at a time, within what a human consented to,
  and none once its client is gone.
* Client authentication and limits: who is served was entitled since arriving, who was entitled
  throughout is served, and a limit holds however buckets come and go.
* Namespaces: what is listed resolves to where it was listed from.
* Containers: one container per server, none forgotten, none of another server killed; a stop
  returns.
* Administration: what is reserved for humans no agent changes; who clicked sees what the click
  did; what polls shows the gateway as it is.

## Modules

| module | models | composed with |
| --- | --- | --- |
| `Supervisor` | the process supervisor | |
| `UpstreamOAuth` | refresher, logins, 401 retry, scheduler | `TokenLedger`, the abstract specification it implements |
| `Audit` | audit service, store, policy, registry cache, launch gate, edits of servers and settings | |
| `Pool` | the connection pool | |
| `AuthServer` | the gateway's own authorization server | `GrantLedger`, the abstract specification it implements |
| `Namespaces` | memberships, names, overrides | |
| `Container` | the container launcher and the daemon | |
| `Endpoint` | the way of a request to its endpoint, rate limits | |
| `LaunchArgs` | pure functions on arguments | |
| `Engines` | the audit engines | `LaunchArgs` |
| `Management` | the management API as tables of routes | |
| `AdminMcp` | the agents' tools | `Management` |
| `Console` | the web console | `Management` |
| `Administration` | an agent, a console and the gateway beside one another | `AdminMcp`, `Console` |
| `SupervisorProofs`, `UpstreamOAuthProofs`, `AuditProofs`, `PoolProofs`, `ContainerProofs`, `EndpointProofs` | theorems about the module of that name | |
| `DelegationProofs` | theorems about `AuthServer` and `Administration`: what an administrator delegates | |
| `ConversionProofs` | theorems about `Engines` and `Namespaces` | |

`MC*` modules give the constants values and, where needed, the symmetry.

The plan behind this order was: first what owns processes and credentials, where a wrong
interleaving costs most, with proofs; then what decides who may run and connect (`Audit`, `Pool`,
`Container`), who may call (`AuthServer`, `Endpoint`), what a call reaches (`Namespaces`,
`LaunchArgs`, `Engines`), and at last how it is administered. What is left of the plan: one module
that composes `Pool`, `Audit` and `Supervisor`, each of which now keeps of the others only what it
needs (a process that is spawned, stopped or dies).

## Runs

| run | instance | shows |
| --- | --- | --- |
| `supervisor_sweep` | two servers, one caller of `acquire` and `stop`, one idle sweep, a shutdown; two launches, a failure is final | `OneProcessPerServer`, `InfoNamesTheProcess`, `ShutdownLeavesOnlyStopping`, `StopEndsEarlierProcesses` |
| `supervisor_live` | one warm server, two callers of `stop` of which one also calls `acquire`, a shutdown; two launches, two failures; fairness | `LiveProcessIsOwned`, `NothingDyingIsHandedOut`, `CallsReturn`, `ClosedProcessEnds` |
| `oauth` | one request, the scheduler, one forced refresh, one login with its callback delivered twice, disconnection, crashes; two token sets; fairness | `TradedInIsNeverPresented`, `RetryPresentsAnotherToken`, `CodeIsPresentedOnce`, `StoredOnceInOrder`, `RequestsEnd`, `ExpiringIsNoticed` |
| `oauth_disconnect` | one request, a forced refresh, one login, disconnection | a violation of `OnlyALoginChangesTheGrant`, see Findings |
| `audit` | one server with two configurations, one of them auditable, and two requests, runs or restarts; or two servers known to be vulnerable and one request; a critical advisory, three action maps, three patches; two administrators, one waiting caller; fairness | `WaitersAreServed`, `CacheIsFresh`, `NothingSanctionedRuns`, `OnlyHumansLift`, `AuditsEnd` |
| `pool` | two requests, four clients, four events from outside (edits, exits, dropped streams, list changes, rows read, shutdown); stdio and remote; fairness | `LiveClientsAreOwned`, `StdioRunsCurrent`, `OnlyARacedFetchIsStale`, `RequestsEnd` |
| `auth_server` | two clients, one grant, two resources, two scopes, two calls in flight, three token pairs; lifetimes of one and two ticks in four | `OneCredentialPerGrant`, `ConsentCovers`, `RevokedTokensDie`, `GrantsFollowTheLedger` |
| `namespaces` | two servers, one namespace, two requests in flight | `ListedNamesResolve` |
| `container` | two servers, three names, two containers, two renames, two failed calls and one crash, three of these in all; fairness | `OneContainerPerServer`, `NoneIsForgotten`, `OthersAreSpared`, `StopReturns` |
| `endpoint` | two endpoints and a third to create, two slugs, one key, one token, three requests, limits none and two, a window of two ticks in two, two edits, one failed request to the issuer | `WithinTheLimit`, `EntitlementDecides` |
| `packages` | two audits at a time of servers from registry entries and pasted configs; batches of two, two workers, two failed calls, one expired detail, one abort | `RunsWhatWasNamed`, `FindingsAreComplete`, `FailuresAreForgotten` |
| `management` | every page of the console, two links, and one thing that happens in it: a click, an outage or a change; or an agent with one call of any tool; fairness | `OwnChangesShow`, `ReservedForHumans`, `ViewsCatchUp` |

Deadlock is checked where something can always happen (`auth_server`, `namespaces` and the two
`oauth` runs). In the others a state without a step is one in which the bounds are used up and
everything has returned; that nothing is stuck before that is what their liveness properties say.

## Supervisor

`Supervisor.tla` has one action per stretch of code between two awaits.

| code | model |
| --- | --- |
| `running`, `halting` | server -> generation, 0 for no entry |
| `starting` | server -> where its `spawn` is suspended (`admit`, `spec`, `launch`) |
| `Managed`, the child, its connection | `procs[g]`: `life`, `open` (connection), `stopping`, `term` (terminate was called, so a SIGKILL timer runs), `grace` (the 100 ms timer runs), `warm` and `await` (the restart timer) |
| suspended `acquire` and `stop` calls | `task[t]` |
| a `sweepIdle` in flight | `sweep[w]`: what it is stopping, and the rest of its snapshot |
| `shutdown` | `shutdown.phase`, and the promises it awaits |
| `backoffUntil` | a flag that the clock lowers |

`life` runs unborn, launching, alive, exited (the operating system), closing (`watchExit` past
its first await), done. A connection may close at any time, before or after its process ends:
the client of the pool closes connections it gave up on, and a child may close its stdout.

The calls that await one promise resume in the microtasks in which it settles, in the order in
which they began to wait. The model keeps that order where it matters. A `watchExit` that is
between its two awaits finishes before a spawn begun meanwhile proceeds (`ExitsSettled`). The
`stop` calls that waited for a spawn resume before the server is acquired anew and before a
caller can close the connection (`SpawnsSettled`), and the calls that waited for a halt resume
before a spawn begun by one of them gets past its own first await (`HaltsSettled`). A call that
another chain of promises makes in exactly those microtasks is left out. After `shutdown`
returns the gateway process ends, and only children remain.

Bounds. Two launches are a process that is being stopped, or has lost its connection, and its
replacement; the proofs are for any number. A caller may follow one call by another. The failure
limit of two reaches both "backing off" and "failed". Two servers are enough for a sweep that is
stopping one while the other changes.

Fairness is weak and given to what the runtime does by itself: a promise that settled resumes
its awaiter, a timer fires, an exit is reported, and the awaited gate, specification and launcher
answer one way or the other. Nothing is assumed of callers, of children (a child may ignore
SIGTERM; only the SIGKILL timer forces an exit) or of connections. `ResetCall`, `TouchCall` and
the idle sweep are not forced to happen.

Left out: log lines, restart counters and error texts; exact delays (a timer may fire at any
later time, a backoff end at any time). What shutdown misses is excluded by the properties and
listed under Observations.

## Upstream OAuth

`UpstreamOAuth.tla` models the credentials of one upstream server. Servers share nothing but the
scheduler's loop, which visits them one after the other.

| code | model |
| --- | --- |
| the `upstream_oauth` row | `row`: whether it exists, the registered client, the token set, the status |
| `oauth_states` | `pending`, the logins whose state row is unused |
| the `inFlight` map | `inFlight`, the caller whose refresh it holds |
| a `performRefresh` in progress | `flight[t]`: the row it read, and what the authorization server answered |
| suspended requests, sweeps, logins and callbacks | `task[t]`: where it waits, the token set it read, the rejected one (`bad`), the attempt (`try`) |
| the authorization server | `granted[i]`: the client a login was made for, how many token sets were issued, the refresh token it would accept |
| time | `aging`, the stored access tokens inside their refresh window |
| nothing, for the properties | `stored`, `rejected`, `presented` |

A token set is a record of its grant and of two numbers: the access token and the refresh token
as issued within the grant. An answer without a new refresh token keeps the old number, as
`performRefresh` keeps the old token. A login, its grant and the client registered for it share
one number.

`TokenStore.read` takes the row at once and then decrypts it, so what a reader gets is a
snapshot. `saveTokens` encrypts and then writes one transaction: a writer holds what it will
write. When a refresh settles, all that wait for it resume in the same turn of the event loop, so
`Settle` releases the map entry, resumes them and takes the snapshots they read next in one step.
`start` writes the client and then the state row; nothing reads what only the first write has
changed, so `SaveDiscovery` is both.

The authorization server rotates or keeps the refresh token, refuses any but the current one,
may revoke a grant at any time, and its answers, or the requests, may be lost. The upstream may
answer any request with a 401. An administrator may force a refresh, start logins and disconnect
the server; a callback may be delivered again; the gateway may be killed.

`TokenLedger.tla` is the abstract specification: a cell that holds a token set, into which a set
is stored only if it is newer than all sets of its grant stored before, or that is emptied.
`StoredOnceInOrder` says that the row implements it, whatever interleaves.

Bounds. Two token sets of a grant let a refresh be overtaken by another; more, and more callers,
are the proofs'. Where the bound is reached the authorization server no longer redeems, which its
losing every answer already allows.

Fairness. Weak fairness of `RefresherStep`, `RequestStep` and `SweepStep` is the event loop; of
`ServerAnswer`, the 15 s timeout of the refresher's fetch, which makes every exchange end,
answered or not; of `UpstreamAnswer`, the protocol client's request timeout; of `BeginSweep`, the
scheduler's interval. Nothing is assumed of logins, whose exchange has no timeout, and nothing
makes a token age or an answer arrive.

Left out: rows that cannot be decrypted, discovery and its metadata, PKCE and the matching of
redirect URIs, a client configured by hand, the pool's invalidation after a status change, a
server that is disabled or deleted, and the tokens a session of the protocol client may cache.

## Audit

| code | model |
| --- | --- |
| a row of `servers` | `rows[s]`: switch, `disabledFor`, quarantine and reason, and `cfg`, which stands for the columns that say what is launched |
| `audit_results`, `audit_ignores`, settings | `results`, `ignores`, `actions`, `auditOn` |
| `ServerRegistry.cache` | `cache`; a row with `secret` takes an await to resolve, during which it may be written: `overtaken` remembers that |
| `queue`, `drain`, the job | `queue`, `worker` (with the gap between the end of the loop and its `finally`), `job` with the row it read |
| `runAll`, callers of `runServer` | `run`, `callers` |
| a spawn: resolve, gate, resolve, launch | `launch[s]` |
| `stopInstance` | `stops[x]`, which waits for a launch in flight |
| requests of administrators | `admin[a]`: where it awaits, the row it has read, the row it has resolved; `outdated` remembers a PATCH that switched off what it had read switched off |

An engine answers with any set of `Reports` or fails. `decide` and `apply` are translated in
full, with the difference between the row seen before the engine ran and the row written.
`overtaken` and `outdated` only record: no guard reads them. `CacheIsFresh` and
`NothingSanctionedRuns` leave out the servers they name, for the reasons under Observations (TLC
finds both violated otherwise); `OnlyHumansLift` leaves out verdicts decided on a row that a human has changed
since, which the code applies.

Bounds. One server mostly, since servers share only the queue, in which `Self`, the gateway's own
dependencies, is a second job; two for a re-evaluation that stops the one before it looks at the
other. Two operations reach an edit during an audit, a lift during a
sanction, a run during a shutdown. Fairness is the event loop, the timeout of the engines, and
that launches and stops end, which `Supervisor` shows.

## Pool

`entry` is `entries.get(id)` with its client, configuration and catalog; `conn` the connect in
flight, through admission, probe, fallback and storing; `calls[r]` a `withClient` or `catalog`
call; `editor` an edit or a stop with the awaits between dropping the connection and stopping the
process; `proc` the process as the supervisor has it, `exits` an exit seen whose `onProcessExit`
is still to run. A configuration is current or old, a catalog fresh or stale; an event from
outside makes what was current old. `registry` is the registry's cached row and the rows that
calls of `resolve` have read and are decrypting: such a row is cached when the decryption ends,
also after an edit that invalidated the cache meanwhile (`registry.ts:33-39`), and what is opened
from it is `raced`.

`StdioRunsCurrent` says that no connection is left to a process started before an edit once the
edit has returned. It excepts what was started after the edit from a raced row, so it does not
say that the process runs the edited configuration when the server has headers or an environment:
that is not true of the code, as the Observations say.

Bounds. Two requests share a connect, retry and outrun one another; four clients and four events
are more than the two can use up in one retry each. The pool keeps nothing two servers share.
Fairness is the event loop and the request timeout of the protocol client.

## Authorization server

`AuthServer.tla` keeps the three tables in `rows`: a request, a code and a token pair of one
grant are rows with a lifetime. `clients` are the registrations, `cache` the cache of clients,
`calls` the handlers in flight with the client they have and the code they have challenged.
Redeeming is three steps, as the library calls it: the challenge is read, the verifier compared,
the code read again and exchanged. A crash may fall between the deletion of a code and the issue
of its tokens.

`GrantLedger.tla` is the abstract specification: a grant is asked for, approved once, redeemed
once and then passed from one pair to the next, with no more scopes and no younger, and never
comes back after it lapsed. `GrantsFollowTheLedger` is the refinement: the stage of a grant is
read from the table its row is in. `ConsentCovers` relates what a code or token is good for to
what the administrator approved, in resource, client, scopes and time.

Bounds. One grant, as rows of different grants are independent but for pruning and revocation,
which two clients show; three token pairs let a rotation race a rotation; the ticks are chosen so
that each lifetime can end before and after every other. The proofs are for any number of all.

## Namespaces

Names are sequences of characters in this module only, because its property is about joining a
prefix, a separator and a tool's name and splitting them again. `members` has the prefix of each
server in each namespace, `hidden` the disabled overrides, `ops` the creations and edits that are
between their check and their write. Catalogs are constants, chosen so that one server's tool
name begins where another's prefix ends, and one tool has
no name. `overtaken` notes the one case the code gets wrong
without noticing, a PATCH that writes back a name another PATCH has changed; a namespace that it
leaves ambiguous is excluded, and listed under Observations.

## Container

`box[i]` is a container in the daemon, `wait[i]` the wait call whose answer is `handle.exited`,
`open` its attach stream, `orders` the stop and the kill call (under way or lost), `spawn[s]` the launch (list and
remove leftovers, create, attach, wait, start), `held` and `halting` the supervisor's maps, `boot`
the gateway that is down or sweeping. Every call may fail, and a failed create or start may have
had its effect. What a failed call leaves in place is in `missed`, and the first two properties
except it: a container whose creation was not heard of waits for the next launch of its server.
`OthersAreSpared` names all that may remove a running container; the one case of another server's
is a name given away by a renaming. `StopReturns` excepts the two stops that hang in the code: the
container had exited before the wait call arrived, or both the stop and the kill call were lost.

Bounds. Two containers, since a launch and what it replaces are all there is at a time; two
renames let two servers exchange a name; two failed calls are what it takes to lose the stop and
the kill. `MaxTroubles` keeps renames, failed calls and crashes to three in one behaviour. Fairness: the daemon answers
the calls it has and reports an exit; nothing is assumed of the containers.

## Endpoint and rate limits

`req[q]` is a request: the endpoint and key rows it read on arrival, and whether it awaits a hash
or the issuer. `limiters[e]` is the limiter of an endpoint with its buckets, which are pruned as
the code prunes them; `granted`, `ever` and `always` are
history: how many requests were let through before each time, and whether a request was entitled
ever and always since it arrived. `WithinTheLimit` allows what a
window that begins with the first request allows: less than twice the limit in any window, the
limit when nothing came shortly before. A token whose issuer has to be asked is verified after
two fetches, of the issuer's metadata, kept when it fails, and of its keys; either may fail. A
request that was entitled throughout is refused only after one of them did.

Bounds. Three requests are one more than the limit of two; two ticks are a window and its end.

## Arguments and engines

`LaunchArgs.tla` translates the parsers and builders of command lines as functions of sequences:
drafts from a registry entry, the import of a client's configuration, the checks of what is
saved, the docker arguments, the launch specification and the audit target. An argument is a
flag, a flag with a value, or a word of parts; wording is left out. `Engines.tla` takes a server
through all of them and audits it: `job[a]` is where an audit is, `details` the promises of
advisories that all audits share, `dirs` the temporary directories, `aborted` those whose signal
fired. A fetch may fail for one audit that another waits for.

`RunsWhatWasNamed` relates the ends of that chain: what was named in the registry entry or in the
pasted text, what is launched, and what is audited. What a runner installs (`Installs`) is stated
from the options of npx, bunx, uvx (and uv tool run) and docker run as their own references list
them (`TakesValue`, `Replaces`, `Adds`; of the settings of npm, all of which npx takes, the usual
ones), not from the tables of `audit/spec.ts`; registry entries and pasted commands are held to
it alike, a pasted command at every word that may be the one to run. Excepted are, see
Observations: `UnlistedOption`, an option before the command whose value the audit takes for the
package, since its tables lack the option; `OwnFlagMisread`, an argument of the server that is
read as an option of the runner naming a package; arguments before a package that are not options
(`OptionsOnly`), which the entry itself gives as another command; an entry that names nothing; and
a secret of the gateway in the environment of a container, which is refused when it is launched.
Of `uv run` nothing is claimed but that it is launched as pasted. Bounds: nine registry entries
and the texts were chosen to meet each branch of the parsers (every kind of registry, runtime and
flag position, values that begin with a dash) and both exceptions; batches of two and two workers
split three packages.

## Management, agents and the console

`Management.tla` describes every route of the REST API as the cells its answer is made of, the
cells it changes and those it may change; a cell is a version. Two programs use it.
`AdminMcp.tla` has every tool and resource an agent has, the request each makes and the schema of
its input; ids are sequences of path segments, so that an input that is not an id shows where it
would lead. `Console.tla` has every view of the console as the scripts of requests it makes when
opened, when it polls and after a click, with the session store, the router's guard and the
visibility of the page. An answer carries the versions of its cells, so that showing an earlier
state is a difference of versions.

`OwnChangesShow` says that the reloads each view makes after a click are enough: all it has
loaded agrees with the gateway, but for the two items that the code leaves as they were
(`LeftAlone`: the report when the quarantine is lifted above it, the gateway's own report when the
policy is saved). The header of a server's page is offered on each of its tabs. `ViewsCatchUp` says that what polls agrees in the end, whatever
failed, was hidden or logged out on the way. `ReservedForHumans` says that no call of an agent
changes API keys, OAuth clients, ignored advisories, lifted quarantines or the settings reserved
for humans, except where a row goes with one the agent may delete. `Administration.tla` puts the
two beside one another: neither learns what the other did but from the gateway.

Bounds. One click, link, outage or change in a page that may be any page: what a view loads does
not depend on more than the last. Fairness: requests that were sent are handled, and timers fire,
in each script of the view (`Fair`), the gateway comes back and the page is shown again.

## Proofs

All theorems hold for every value of the constants that the named assumptions allow.

`SupervisorProofs.tla` (from `ConstantsAssumption`: callers and sweepers are distinct, bounds are
naturals, `Warm` and `IdleServers` are servers) proves `TypeCorrect`, `OneProcess`, `Owned`,
`HandsOutLiving`, `Informs`, `ShutsDown` and `StopEnds`: all safety properties of the module.
None is inductive. For the first three `IInv` adds what they rest on: a spawn replaces only a
process that lost its connection (`SpawnReplacesClosed`); while a connected process is halted its
server runs and starts nothing, because `acquire` waits for the `halting` map
(`HaltedHoldsSlot`); the running map and the spawns in flight hold processes of their own server
(`RunningIsOwn`, `LaunchingIsOwn`); generations are fresh (`NewbornClean`); and everything that
may be acted on has a server (`HasServer`). Most actions only let processes fade: `StepKinds`
sorts every action into fading, launching, stopping or shutting down, and one lemma per kind
shows that the invariant survives it. The others add to it:

* `HandsOutLiving` follows from `Marks`: a process under SIGTERM whose connection is open is
  marked as stopping, and what `acquire` hands out is connected and not marked.
* Until the shutdown a server is never starting and halting at once, a process nobody stops is in
  the running map or was replaced after its connection closed, and one being stopped is in the
  halting map until it is gone (`InTurn`: `Slot`, `Place`); a stop that has awaited a spawn finds
  none in flight, and one that has awaited a halt finds nothing running (`Waiting`), which is
  where the order of microtasks matters.
* `Informs` is an action property: every step leaves a server's report and the processes it may
  name as they are (`Quiet`), clears it together with what could be handed out, or is the end of
  a replaced process (`LateEnd`).
* `ShutsDown`: a wait for a halt is a stop's or shutdown's own (`WindsDown`), and what the three
  snapshots have emptied stays empty, since the flag `shuttingDown` keeps spawns away.
* `StopEnds` follows a stop through its waits: when it begins to wait for a halt of its own, what
  is left from before the call is the process it halts and what was replaced (`Settled`; `Ages`
  says that no process comes back to life or changes servers, `ReplacedStays` that what was
  replaced stays so).

`UpstreamOAuthProofs.tla` (from `OAuthAssumption`: the kinds of callers are distinct, the bounds
are numbers) proves, for any number of callers, logins and token sets, `TypeCorrect`,
`OneRefresh`, `NoReplay`, `RetryIsAnother`, `CodeOnce` and `Refinement` (`Spec =>
StoredOnceInOrder`). None is inductive, types included: that a refresh saves a token set at all
depends on what it was given. `IInv` adds:

* a caller is in the `inFlight` map exactly while its refresh runs (`FlightIsRegistered`), and a
  refresh that reached the authorization server has a refresh token (`SentHasToken`);
* the row, and the row a refresh has read, hold the newest stored set of their grant
  (`RowIsNewest`, `FlightIsNewest`); this is where the single flight matters, since no other
  refresh can store a set of that grant meanwhile;
* what a refresh is about to store was issued after every stored set of its grant
  (`GotIsLater`, with `StoredWasIssued`), and what a login is about to store is the first of a
  grant that nobody has stored and no other callback holds (`LoginIsLater`);
* requests hold sets that have been stored (`RequestHoldsStored`), so the fresh set a retry
  gets differs from the rejected one (`RetryHoldsAnother`);
* a code about to be sent belongs to a login whose state row is gone and which no other callback
  holds (`CodeInv`, `LoginIsKnown`).

Most actions keep all token sets where they are: `KeptStep` shows once that such a step preserves
the invariant. The four that issue or store a set (`Redeem`, `RefreshSaved`, `ExchangeGranted`,
`LoginSaved`) have a lemma each. `LedgerStep` maps the two stores to `Store`, a disconnection to
`Forget` and everything else to a stutter.

`DelegationProofs.tla` is about what an administrator delegates, to clients and to agents.

Of `AuthServer` (from `AuthServerAssumption`: the lifetimes and bounds are naturals, `Nobody` is
no client) it proves, for any number of clients, grants, scopes and calls, `OneCredential`,
`RevokedDie`, `Covered` and `Refinement` (`Spec => GrantsFollowTheLedger`). `IInv` adds to the
types that a handler that has begun has a client (`HandlersKnow`), that a grant has one row over
all three tables (`OnePerGrant`, which is what makes redemption and rotation exclusive, because
the row itself is the lock), that turns are counted from the redemption (`Unredeemed`), and that
an approval stands behind each code and token (`RowsApproved`, by `Backs`). Steps are of three
kinds: rows go away (`Shrinks`), a request of a new grant is written (`Asks`), or one row takes
the place of another of its grant (`Replaces`). `LedgerKeeps` and `EntryOfRow` read a grant's
entry in the ledger from its one row.

Of `Administration` (from `ManagementAssumption`: ids are strings, there is one; and
`AdminMcpAssumption`: an agent may send any sequences of segments, the ids among them) it proves
`Reserves`, for any inputs of an agent and whatever the console and the gateway do meanwhile. The
argument is about shapes of requests. `Harmless` is a shape that each tool's request has
(`ToolsAreHarmless`) and keeps when it is filled in: what passes for an id is one segment, so the
segments the tool wrote stay in their places (`SplicedKeeps`, `CallsAreHarmless`); a path may have
a second input only beside the first (`Fillable`). `Parted` sorts the routes of the API into those
that spare what is reserved, the two deletions that take it away with the row it belongs to, and
those for an administrator alone, which no harmless request matches (`HarmlessMatches`). That a
deletion which changes the cells does take the row away needs the types of the gateway
(`GatewayIs`), which are inductive over all three who administer it.

`AuditProofs.tla` (from `AuditAssumption`: `Self` and `Nobody` are nobody else, the policy maps
severities to sanctions) proves, for any number of servers, configurations, callers and requests,
`ShapeHolds`, `Waiters`, `Fresh`, `HumansLift` and `SanctionsBite`.

* `Shape` has the types and what is known of what is suspended: a job and a launch have the row
  they are about, a request has read one, and nobody stops a server before deciding to. Types alone are not inductive, since a step
  that resumes uses the row it holds.
* `Served` says that a job in the queue or in hand waits for every caller and for the run; with
  `Shape`, that the worker is there while the queue is not empty.
* `Coherent` says of every resolve that decrypts, of a launch or a PATCH, that it holds the row
  there is (`Follows`), and that a server to come has no row. It rests on two facts of every step:
  such a resolve starts from the table (`ReadsNow`), and a write that overtakes it is written down
  (`Remembers`).
* `HumansLift` needs `Shape` only: a step that leaves the requests alone writes a row by a verdict
  or a result without findings.
* `Bites` follows a sanction through a launch: whoever bars a server stops it and awaits the spawn
  the gate let through, and the gate let it through on the row there was (`Coherent`). A PATCH
  that bars a server switches it off, so it stops it unless it read it switched off, which then
  another request has changed since (`outdated`). Without that exception the property is false, as
  the Observations say.

`PoolProofs.tla` (from `PoolAssumption`: `Nobody` is no client, the bound is a natural) proves
`OwnedHolds`, `Leaks`, `Edits` and `Races`, for any number of requests, clients and events.

* `Holding` is `LiveClientsAreOwned` with what makes it inductive: while a connect is in flight
  there is no entry, its client is open from the probe on, and once stored it is the entry's.
* `Edits` needs the process beside it (`RunsCurrent`): no process outlives an edit but while the
  editor is about to stop it, and every other was started from a row that the registry gave after
  the edit, current or raced (`Current`), and whoever has a connection whose end it has not seen
  has it to the process there is, with that process' configuration (`Known`).
* `Races` is an action property that needs `Owned` only: what has changed, has for the entry's
  client, so the fetch that ends after it began before it.

`ContainerProofs.tla` (from `ContainerAssumption`: servers are finitely many and their names
differ) proves `Single`, `Remembered` and `Spares`, for any number of servers, containers,
renames, failed calls and crashes. `Inv` is in parts: what the daemon has (`Daemon`, with its
promise that names are unique), what the gateway has (`Gateway`), what each container is to its
server (`Boxed`), what a launch has in hand (`Launching`), that a server has one container at
most, none when a launch creates one (`Alone`), and that somebody knows of each (`Guarded`). What
a failed call leaves in place is in `missed`, as the properties have it. `Spares` is about every
step; it needs besides that what is held or halted for a server is a container of it (`Holding`).

`EndpointProofs.tla` (from `EndpointAssumption`: `Nothing` is no endpoint, key or token, keys are
not tokens, the first slugs differ, bounds are naturals) proves `Entitlement` and `RateLimit`, for
any endpoints, credentials, requests, windows, limits and prunings.

* `Inv` keeps, for each suspended request, what it read against what has been true since it
  arrived: what it has read cannot let it in unless it was entitled once (`MayPass`), and
  one entitled throughout still has in hand what is true now (`Steady`), unless a fetch from the
  issuer failed.
* `Meters` relates a bucket to the history of its key: nothing was let through, or the last
  window began at some `s`, the limit holds since, everything let through lies before its end,
  and the bucket counts what came after `s` (`Last`, `Counting`). A bucket that was pruned is one
  whose window is over. That a window elsewhere overlaps two of them is where the factor of two
  comes from (`LastBounds`, `Opening`).

`ConversionProofs.tla` is about the two modules in which what is named is converted on its
way, and extends both; their names are chosen apart for that.

Of `Engines` (from `EnginesAssumption` and `CompiledAssumption`: osv.dev lists advisories it has,
what is installed is in the lock file, uv resolves to packages osv.dev is asked about) it proves
`Complete` and `Forgotten`, for any audits, batches, workers, faults and aborts. `Accounted` says
where each advisory of each package is between the lookup and the findings: to be fetched, being
fetched, there or withdrawn. That the duplicates which `OsvFindings` drops cost no advisory its
finding is shown with the least index of each, by well-founded induction on the naturals
(`LeastNat`). `Remembered` says that the shared map keeps no failed fetch, `Traces` that whoever
failed had a call that did.

It also proves `RunsNamed` (`Spec => []RunsWhatWasNamed`), for any registry entries and pasted texts
of the shapes the schemas accept (`EntriesAssumption`), with any number of arguments, for what
the entry or text has its runner install and not for what the parsers find. The parsers
are loops over the arguments, written as recursive functions of the position. That such a function
exists, and that its values keep what one step keeps, is an induction over a set of positions
(`Turns`, from `LeastNat`), because the library's induction theorems take an operator. Arguments
before the command that are options for its runner (`OptionsOnly`) are `Regular` for the audit's
table too unless an `UnlistedOption` is among them: each word is the value of the flag before it,
and each flag that takes a value has one. `OptionsRead` and `RunRead` go through such arguments:
before the command there is no positional (no rest, for `docker run`) and what is collected is
what the options read so far say (`UpTo`), the command becomes the first positional, and nothing
behind it changes either unless it is read as an option that names a package (`OwnFlagMisread`).
So what is audited is `Installs` (`NpxTarget`, `BunxTarget`, `UvxTarget`). A pasted command is
taken apart at each of its words (`SplitAt`, `TextAudited`). `SavedAre` says where a saved server comes from (a remote, a package, a pasted
text), and the rest follows each of them to what is launched and to what is audited. That `Filled`
and the arguments of an entry may be taken apart at the package (`FilledCons`, `RegularCons`) is
proved from the folds of the library.

Of `Namespaces` (from `NamespacesAssumption`: names, prefixes and separators are not empty) it
proves `NamesResolve`, for any servers, namespaces, names, tools and requests. `NamesInv` has two
steps in it. No two members of a namespace have prefixes that are equal in URIs, unless a PATCH
was overtaken (`Apart`); for a rename that collides is undone, and undone to a name that is still
free, because the server has it while nobody else wrote one; and whoever is creating a server is
alone with it, so the insertion finds no membership (`Asking`). And a name that was joined is
split where it was joined: an occurrence of the separator that begins before its place lies within
prefix and separator, so that it would be the first one there too (`SplitJoined`).

Model-checked only:

* liveness under fairness, which the prover does not do: `CallsReturn`, `ClosedProcessEnds`,
  `RequestsEnd` (of two modules), `ExpiringIsNoticed`, `AuditsEnd`, `StopReturns`, `ViewsCatchUp`;
* `OwnChangesShow`, which is about the scripts of every view against the table of routes: every
  case is in them, and TLC goes through all of them.

## Findings

* `oauth_disconnect`: a refresh in flight brings tokens back after the administrator deleted
  them; in the same way it overwrites the tokens of a login that completed meanwhile.

## Observations

Behaviours of the code met while modelling it. Where one would break a property, the property
excepts it by name; none has a run of its own.

Supervisor and pool

* Shutdown misses a process that was replaced after its connection closed (`supervisor.ts:398`),
  and one that the idle sweep moves between the two snapshots it takes (`supervisor.ts:427`);
  `test/supervisor.test.ts:231` says that shutdown terminates every child.
* A process that was replaced after its connection closed is out of `stop`'s sight and may live on
  (`supervisor.ts:397`); its late exit overwrites the state and the pid of its successor
  (`supervisor.ts:343`), which then reads as stopped or failed.
* The idle sweep may stop the fresh replacement of an idle process (`supervisor.ts:417`).
* An edit or a stop during the protocol probe leaves a verdict for a day (`pool.ts:284`; compare
  `docs/endpoints.md:35`). A remote connect in flight during an edit stores an entry of the old
  configuration. A retry drops by server id, and so another request's connection. A
  `list_changed` during a fetch is lost (`pool.ts:374`); a catalog of a closing client goes into
  the new entry (`pool.ts:373`).

Upstream OAuth

* A 401 whose refresh fails on the network sets `needs_reauth` (`http.ts:33`), as if the refresh
  token had been rejected, and the scheduler does not try again.
* Two requests may refresh twice in a row (`refresher.ts:124`; compare
  `docs/upstream-servers.md:66`).

Audit

* A PATCH that read the row before an audit disabled the server switches it on again and keeps
  `disabledFor` (compare `docs/security-audit.md:23`); an agent's `update_server` with `enabled`
  may do so when the last audit is ok or the audit is off.
* A resolve that awaits decryption may cache the row it read before a sanction or before an edit
  (`registry.ts:39`), and let a launch through, or launch the old configuration and audit it,
  until the next invalidation (`raced` in `Pool`).
* A changed command keeps the old result and launches before its audit; a quarantine may be kept
  or lost through a stale row (`service.ts:412`); an enqueue of the server under audit is dropped
  (`service.ts:230`); switching the audit off does not end the run that is pushing.
* A failed audit refuses launches (`gate.ts:35`), which `docs/security-audit.md:27` does not say;
  advisories without a severity count as high (`policy.ts:48`) where `docs/security-audit.md:25`
  says moderate.
* Two PATCHes of one server: the one was decided on the row read before the other wrote, so
  `affectsConnection` (`api/servers.ts:186`) compares with a row that is gone, and a server may be
  disabled without its process being stopped. TLC finds it, unless the servers in
  `outdated` are left out.
* A delete that races an acquire leaves a process (`api/servers.ts:206`).

Engines and arguments

* `parseOptions` (`audit/spec.ts:72-107`) reads flags behind the package too, so `npx -y server
  -p 80` audits `80`. Options of npx and uvx that take a separate value and that its tables lack,
  such as `npx --cache dir server` or `uvx --env-file f server`, make that value the package
  (`Unlisted` names them).
* Runtime arguments of an entry stand before its package (`install.ts:158-166`): one that is a
  word or an unknown flag with a value is launched or audited in the package's place, and what a
  value with a dash says is read as a flag. The schema lets an entry come without an
  identifier, which makes an empty argument. A `JUNCTIO_` secret in the environment of a container
  is saved and refused only at its launch.
* A boolean registry argument with an explicit value makes the value the image or package; an OCI
  identifier with a registry port and no tag loses its version; drafts of remote servers drop
  headers other than Authorization.
* A shared advisory fetch carries the abort signal of its first caller; failures of aliases are
  swallowed, and with them the severity; temporary directories are swept only at boot.
* In the form of a server, `seedArgs` fires on loading, so `uv tool run x` gets `run tool run x`;
  `ServerPatch` has no refinement, so a PATCH saves docker flags that a POST refuses (compare
  `docs/upstream-servers.md:52`); `applyErrors` reads `details.issues`, but `details` is the array.

Authorization and endpoints

* A client that was pruned, or removed during a cache fill, stays in the cache
  (`clients.ts:39-42`, `provider.ts:63`): its requests then fail on the foreign key. A request
  that waits for consent is pruned with a client unused for a day. A lost answer to a refresh
  costs the grant. A crash between deleting a code and issuing tokens costs the code.
* `jwt.ts:58` keeps a rejected promise of the issuer's metadata. A good token is answered with 401
  while that is so, and also when the fetch of the issuer's keys fails (`jwt.ts:60,71`).
* A fixed window lets less than twice the limit through; a changed limit begins a new window;
  limiters of deleted endpoints are never removed. A token is for a slug, and stays good for the
  next endpoint with it.

Namespaces

* `docs/endpoints.md:5` says collisions are rejected on saving; `a` + `__` + `_t` and `a_` + `__`
  + `t` are found only when listing, where the later is skipped. A changed separator is not
  checked against the names there are. A renamed tool changes its title only.
* A tool whose upstream gives it the empty name is listed, and its name does not split
  (`naming.ts:12`).
* Two PATCHes of one server may overtake one another and write a name back; a rename that is
  refused with 409 keeps its other changes without the restart and audit they need
  (`api/servers.ts:181`).

Containers

* The wait call is not awaited before the start (`launcher.ts:84-94`): a container that exits
  first is never reported, and stop and shutdown hang. A create that conflicts removes by name,
  which may be another server's container after renames. Failed removals and lists are swallowed;
  a failed wait counts as an exit; when both the stop and the kill call fail (`launcher.ts:111-116`)
  the failures are swallowed too and the stop waits for ever; a container whose creation succeeded
  without an answer stays until the next launch of its server.

Administration

* `delete_endpoint` and `delete_namespace` of an agent take the API keys with them
  (`db/schema.ts:119,136`), although `docs/management-mcp.md:19` says agents cannot revoke keys.
  The description of `update_settings` (`misc.ts:88`) names settings the schema refuses.
* Two concurrent POSTs of the setup both succeed, and the later password wins
  (`api/index.ts:69-78`). A settings PATCH awaits between its rows and the invalidation
  (`settings.ts:67-69`).
* Loads of the console have no sequence guard, so a late answer may show another selection
  (`EndpointsView`, `NamespacesView`, `OfficialRegistry`, `ServerDetailView`), and
  `NamespacesView.saveOverride` may write an override for a tool of another namespace;
  `useResource`, which has the guard, is used nowhere. `ServerDetailView.toggleEnabled` uses the
  earlier server's flag right after a change of route. A late 404 pulls the user to `/servers`.
* `SecurityView` sets its interval after two awaits, so leaving early leaks a poller, which asks
  for `/audit` until the page is closed (`leaked` in `Console`); `liftQuarantine` and saving the policy leave parts of the page as they were; settings cards save
  all their keys.

## Not modelled

Configuration, database schema and migrations (in the models the database is atomic reads and
writes), cryptography (an await, and a secret nobody guesses), logging and the log stream, the
ring of log lines, the framing of container streams, the command line, the response cache of the
registry client, CVSS arithmetic, the MCP protocol itself, which is the library's, signatures of
external tokens, client snippets, formats and the documentation site: pure functions of one value
or pure input and output. The installation of packages by npx, uv and docker is outside the
repository. Of the console, what is drawn, forms and filters are left out.
