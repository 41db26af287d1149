--------------------------------- MODULE Audit ---------------------------------
(***************************************************************************)
(* The security audit and what it decides about: AuditService              *)
(* (apps/gateway/src/audit/service.ts) with its store and policy, the      *)
(* server rows and the registry's cache of them (upstream/registry.ts),    *)
(* the launch gate (upstream/gate.ts) and the administrator's operations   *)
(* on servers, advisories and settings (api/servers.ts, api/settings.ts).  *)
(*                                                                         *)
(* An action is the code between two awaits.  A configuration stands for   *)
(* the columns of a row that say what is launched, an advisory for a       *)
(* finding, and the reason of a sanction, a text composed from the active  *)
(* findings, for the set of them.  Of the pool and the supervisor only     *)
(* what a launch and a stop do to the one process of a server is kept; the *)
(* module Supervisor has the rest.  Of the encrypted headers and variables *)
(* of a row only whether there are any is kept: they make a resolve wait.  *)
(***************************************************************************)
EXTENDS Naturals, Sequences

CONSTANTS
    Servers,      \* server ids
    Self,         \* SELF_ID, the gateway's own dependencies
    Configs,      \* configurations a row may have
    Auditable,    \* those targetFor finds a target for
    Reports,      \* the sets of advisories an engine may find
    Severity,     \* advisory -> its severity
    ActionMaps,   \* the values of the setting audit_actions
    Admins,       \* administrators' requests that may be in flight at once
    Callers,      \* requests that wait for an audit of their own
    Nobody,       \* neither of them; no row, no result, no process
    Patches,      \* the bodies a PATCH of a server may have
    MaxOps        \* bound: requests, periodic runs and restarts in a behaviour

Advisories == UNION Reports
Severities == {"critical", "high", "moderate", "low"}
Sanctions == {"ignore", "report", "quarantine", "disable"}

ASSUME AuditAssumption ==
    /\ Auditable \subseteq Configs
    /\ Severity \in [Advisories -> Severities \cup {"unknown"}]
    /\ ActionMaps \subseteq [Severities -> Sanctions]
    /\ Patches \subseteq [enabled : {"keep", "on", "off"}, cfg : Configs \cup {Nobody},
                          secret : {"keep", "new", "none"}]
    /\ Self \notin Servers \cup Admins \cup Callers
    /\ Nobody \notin Servers \cup Configs \cup Callers \cup {Self}
    /\ MaxOps \in Nat

VARIABLES
    fresh,      \* server ids not drawn yet
    rows,       \* server -> its row in the database
    results,    \* server -> its row in audit_results (Self's is only shown)
    ignores,    \* server -> its ignored advisories
    actions,    \* the setting audit_actions
    auditOn,    \* the setting audit_enabled
    overtaken,  \* history: servers written while a resolve decrypted their old row
    outdated,   \* history: servers a PATCH switched off that read them switched off
    cache,      \* server -> the row ServerRegistry.cache has of it
    queue,      \* jobs that wait
    worker,     \* the drain loop
    job,        \* the job it executes
    run,        \* the runAll in flight
    callers,    \* requests that wait for an audit
    stopped,    \* AuditService.stopped
    launch,     \* server -> the spawn in flight
    live,       \* server -> the configuration its process runs
    stops,      \* stopInstance calls in flight
    admin,      \* administrators' requests in flight
    ops         \* how many of them there were

settings == <<actions, auditOn>>
known == <<fresh, overtaken, outdated>>
service == <<queue, worker, job, run, callers, stopped>>
process == <<launch, live>>
vars == <<rows, results, ignores, settings, known, cache, service, process, stops, admin, ops>>

-----------------------------------------------------------------------------
(***************************************************************************)
(* Types.                                                                  *)
(***************************************************************************)
Ids == Servers \cup {Self}
Stoppers == Admins \cup {Self}        \* Self stands for the worker here

Row == [enabled : BOOLEAN, disabledFor : SUBSET Advisories,
        quarantined : BOOLEAN, reason : SUBSET Advisories, cfg : Configs, secret : BOOLEAN]
Result == [status : {"ok", "vulnerable", "error", "unsupported"},
           findings : SUBSET Advisories, cfg : Configs]
Waiting == [id : Ids, by : Callers \cup {Self, Nobody}]     \* Self: the run
Patch == [enabled : {"keep", "on", "off"}, cfg : Configs \cup {Nobody},
          secret : {"keep", "new", "none"}]

NewRow(cfg, secret) ==
    [enabled |-> TRUE, disabledFor |-> {}, quarantined |-> FALSE, reason |-> {}, cfg |-> cfg,
     secret |-> secret]
NoJob == [id |-> Nobody, by |-> Nobody, at |-> "none", row |-> Nobody]
NoRun == [at |-> "none", todo |-> {}]
NoLaunch == [at |-> "no", row |-> Nobody]
NoStop == [at |-> "no", srv |-> Nobody]
NoPatch == [enabled |-> "keep", cfg |-> Nobody, secret |-> "keep"]
NoAdmin == [at |-> "none", srv |-> Nobody, row |-> Nobody, fill |-> Nobody,
            patch |-> NoPatch, todo |-> {}]

TypeOK ==
    /\ fresh \subseteq Servers
    /\ rows \in [Servers -> Row \cup {Nobody}]
    /\ results \in [Servers -> Result \cup {Nobody}]
    /\ ignores \in [Servers -> SUBSET Advisories]
    /\ actions \in ActionMaps /\ auditOn \in BOOLEAN
    /\ overtaken \subseteq Servers /\ outdated \subseteq Servers
    /\ cache \in [Servers -> Row \cup {Nobody}]
    /\ queue \in Seq(Waiting)
    /\ worker \in {"none", "loop", "ending"}
    /\ job \in [id : Ids \cup {Nobody}, by : Callers \cup {Self, Nobody},
                at : {"none", "engine", "stopping", "done"}, row : Row \cup {Nobody}]
    /\ run \in [at : {"none", "next", "waiting"}, todo : SUBSET Ids]
    /\ callers \subseteq Callers /\ stopped \in BOOLEAN
    /\ launch \in [Servers -> [at : {"no", "admitFill", "admit", "specFill", "launch"},
                               row : Row \cup {Nobody}]]
    /\ live \in [Servers -> Configs \cup {Nobody}]
    /\ stops \in [Stoppers -> [at : {"no", "close", "spawn", "halt", "done"},
                               srv : Servers \cup {Nobody}]]
    /\ admin \in [Admins ->
           [at : {"none", "patchBody", "patchFill", "patch", "patchStop", "deleteStop",
                  "ignore", "settings"},
            srv : Servers \cup {Nobody}, row : Row \cup {Nobody}, fill : Row \cup {Nobody},
            patch : Patch, todo : SUBSET Servers]]
    /\ ops \in 0..MaxOps

\* A resolve of the server waits for its secrets to be decrypted, with a row it has read.
Decrypting(s) ==
    \/ launch[s].at \in {"admitFill", "specFill"}
    \/ \E a \in Admins : admin[a].at = "patchFill" /\ admin[a].srv = s

Overtakes == overtaken' = overtaken \cup {s \in Servers : Decrypting(s) /\ rows'[s] # rows[s]}

-----------------------------------------------------------------------------
(***************************************************************************)
(* The policy (audit/policy.ts).                                           *)
(***************************************************************************)
Rank == [ignore |-> 0, report |-> 1, quarantine |-> 2, disable |-> 3]

SanctionSeverity(a) == IF Severity[a] = "unknown" THEN "high" ELSE Severity[a]

\* decide: the strongest of the sanctions of the active findings.
Verdict(active, map) ==
    IF active = {} THEN "none"
    ELSE CHOOSE act \in Sanctions :
            /\ \E a \in active : act = map[SanctionSeverity(a)]
            /\ \A a \in active : Rank[map[SanctionSeverity(a)]] <= Rank[act]

Status(active) == IF active = {} THEN "ok" ELSE "vulnerable"

(***************************************************************************)
(* apply: what a verdict writes, decided from the row seen (read before    *)
(* the engine ran) and written over the row there is.                      *)
(***************************************************************************)
NewSanctionOnce(seen, act) ==        \* Mutant: asks for the reason, not the switch
    \/ act = "disable" /\ seen.disabledFor = {}
    \/ act = "quarantine" /\ ~seen.quarantined

NewSanction(seen, act) ==
    \/ act = "disable" /\ seen.enabled
    \/ act = "quarantine" /\ ~seen.quarantined
Renames(seen, active, act) == act = "quarantine" /\ seen.quarantined /\ seen.reason # active
Lifts(now, seen, act) ==
    act \in {"none", "ignore", "report"} /\ seen.quarantined /\ now.quarantined

Sanctioned(now, seen, active, act) ==
    IF now = Nobody THEN Nobody
    ELSE IF NewSanction(seen, act) /\ act = "disable"
         THEN [now EXCEPT !.enabled = FALSE, !.disabledFor = active]
    ELSE IF NewSanction(seen, act) THEN [now EXCEPT !.quarantined = TRUE, !.reason = active]
    ELSE IF Renames(seen, active, act) THEN [now EXCEPT !.reason = active]
    ELSE IF Lifts(now, seen, act) THEN [now EXCEPT !.quarantined = FALSE, !.reason = {}]
    ELSE now

ApplyKeepsCache(x, s, seen, active, act) ==     \* Mutant: invalidates only if it stops
    /\ rows' = [rows EXCEPT ![s] = Sanctioned(@, seen, active, act)]
    /\ cache' = IF NewSanction(seen, act) THEN [cache EXCEPT ![s] = Nobody] ELSE cache
    /\ stops' = IF NewSanction(seen, act)
                THEN [stops EXCEPT ![x] = [at |-> "close", srv |-> s]] ELSE stops

Apply(x, s, seen, active, act) ==
    /\ rows' = [rows EXCEPT ![s] = Sanctioned(@, seen, active, act)]
    /\ cache' = [cache EXCEPT ![s] =
           IF \/ NewSanction(seen, act) \/ Renames(seen, active, act)
              \/ rows[s] # Nobody /\ Lifts(rows[s], seen, act)
           THEN Nobody ELSE @]
    /\ stops' = IF NewSanction(seen, act)
                THEN [stops EXCEPT ![x] = [at |-> "close", srv |-> s]] ELSE stops

-----------------------------------------------------------------------------
(***************************************************************************)
(* The queue and its one worker.                                           *)
(***************************************************************************)
Takes(w, row) ==        \* execute, up to the engine
    /\ worker' = "loop"
    /\ LET audited == w.id = Self \/ (row # Nobody /\ row.cfg \in Auditable)
       IN  /\ job' = [id |-> w.id, by |-> w.by, at |-> IF audited THEN "engine" ELSE "done",
                      row |-> IF w.id = Self THEN Nobody ELSE row]
           /\ results' = IF audited \/ row = Nobody THEN results
                         ELSE [results EXCEPT ![w.id] =
                                  [status |-> "unsupported", findings |-> {}, cfg |-> row.cfg]]

Counted == ops < MaxOps /\ ops' = ops + 1

RowOf(id) == IF id = Self THEN Nobody ELSE rows[id]

Push(w, row) ==         \* runServer and drain
    IF worker = "none"
    THEN Takes(w, row) /\ UNCHANGED queue
    ELSE queue' = Append(queue, w) /\ UNCHANGED <<worker, job, results>>

Enqueue(s, row) ==
    IF ~auditOn \/ stopped \/ job.id = s \/ \E i \in DOMAIN queue : queue[i].id = s
    THEN UNCHANGED <<queue, worker, job, results>>
    ELSE Push([id |-> s, by |-> Nobody], row)

\* Of Self the findings are saved and logged.
EngineAnswers(f) ==
    LET s == job.id
        active == f \ ignores[s]
        act == Verdict(active, actions)
    IN  /\ job.at = "engine"
        /\ IF s = Self
           THEN job' = [job EXCEPT !.at = "done"] /\ UNCHANGED <<results, rows, cache, stops>>
           ELSE /\ results' = [results EXCEPT ![s] =
                       [status |-> Status(active), findings |-> f, cfg |-> job.row.cfg]]
                /\ Apply(Self, s, job.row, active, act)
                /\ job' = [job EXCEPT !.at = IF NewSanction(job.row, act) THEN "stopping" ELSE "done"]
        /\ Overtakes
        /\ UNCHANGED <<ignores, settings, fresh, outdated, queue, worker, run, callers, stopped, process,
                       admin, ops>>

\* An error of the engine, its timeout, or the abort of stop().
EngineFails ==
    /\ job.at = "engine"
    /\ results' = IF job.id = Self THEN results
                  ELSE [results EXCEPT ![job.id] =
                           [status |-> "error", findings |-> {}, cfg |-> job.row.cfg]]
    /\ job' = [job EXCEPT !.at = "done"]
    /\ UNCHANGED <<rows, ignores, settings, known, cache, queue, worker, run, callers, stopped,
                   process, stops, admin, ops>>

\* The waiter of the job resumes, and the loop takes the next one or ends.
JobEnds ==
    /\ job.at = "done" \/ (job.at = "stopping" /\ stops[Self].at = "done")
    /\ callers' = callers \ {job.by}
    /\ run' = IF job.by = Self THEN [run EXCEPT !.at = "next"] ELSE run
    /\ stops' = [stops EXCEPT ![Self] = NoStop]
    /\ IF queue # <<>>
       THEN Takes(Head(queue), RowOf(Head(queue).id)) /\ queue' = Tail(queue)
       ELSE worker' = "ending" /\ job' = NoJob /\ UNCHANGED <<queue, results>>
    /\ UNCHANGED <<rows, ignores, settings, known, cache, stopped, process, admin, ops>>

WorkerEndsPlain ==      \* Mutant: does not look at the queue again
    /\ worker = "ending"
    /\ worker' = "none"
    /\ UNCHANGED <<rows, results, ignores, settings, known, cache, queue, job, run, callers, stopped,
                   process, stops, admin, ops>>

WorkerEnds ==           \* the finally of drain
    /\ worker = "ending"
    /\ IF queue # <<>>
       THEN Takes(Head(queue), RowOf(Head(queue).id)) /\ queue' = Tail(queue)
       ELSE worker' = "none" /\ UNCHANGED <<queue, job, results>>
    /\ UNCHANGED <<rows, ignores, settings, known, cache, run, callers, stopped, process,
                   stops, admin, ops>>

CancelSilently ==       \* Mutant: drops the jobs, rejects nobody
    queue' = <<>> /\ UNCHANGED <<callers, run>>

\* cancelPending rejects the jobs that wait: their callers return, the run goes on.
Cancel ==
    LET waiters == {queue[i].by : i \in DOMAIN queue}
    IN  /\ queue' = <<>>
        /\ callers' = callers \ waiters
        /\ run' = IF Self \in waiters THEN [run EXCEPT !.at = "next"] ELSE run

(***************************************************************************)
(* Who asks for audits: a caller of its own, and the run over all servers. *)
(***************************************************************************)
ManualAudit(c, id) ==
    /\ Counted /\ auditOn /\ c \notin callers
    /\ id \in Servers => rows[id] # Nobody
    /\ callers' = callers \cup {c}
    /\ Push([id |-> id, by |-> c], RowOf(id))
    /\ UNCHANGED <<rows, ignores, settings, known, cache, run, stopped, process, stops, admin>>

RunServer(id, todo) ==
    /\ id = Self => todo = {Self}      \* the gateway itself comes last
    /\ run' = [at |-> "waiting", todo |-> todo \ {id}]
    /\ Push([id |-> id, by |-> Self], RowOf(id))

RunStart ==
    /\ Counted /\ auditOn /\ ~stopped /\ run.at = "none"
    /\ LET todo == {s \in Servers : rows[s] # Nobody} \cup {Self}
       IN \E id \in todo : RunServer(id, todo)
    /\ UNCHANGED <<rows, ignores, settings, known, cache, callers, stopped, process, stops,
                   admin>>

RunStep ==
    /\ run.at = "next"
    /\ IF stopped \/ run.todo = {}
       THEN run' = NoRun /\ UNCHANGED <<queue, worker, job, results>>
       ELSE \E id \in run.todo : RunServer(id, run.todo)
    /\ UNCHANGED <<rows, ignores, settings, known, cache, callers, stopped, process, stops,
                   admin, ops>>

-----------------------------------------------------------------------------
(***************************************************************************)
(* A launch: ServerRegistry.resolve, the gate, resolve again, the process. *)
(***************************************************************************)
Settle(s) ==            \* the stop calls that await the spawn go on
    /\ launch' = [launch EXCEPT ![s] = NoLaunch]
    /\ stops' = [x \in Stoppers |-> IF stops[x] = [at |-> "spawn", srv |-> s]
                                    THEN [stops[x] EXCEPT !.at = "halt"] ELSE stops[x]]

\* resolve: from the cache, or from the row, at once unless it has to decrypt.
Resolve(s, filling, next) ==
    LET row == IF cache[s] # Nobody THEN cache[s] ELSE rows[s]
        fills == cache[s] = Nobody /\ row.secret
    IN  /\ launch' = [launch EXCEPT ![s] = [at |-> IF fills THEN filling ELSE next, row |-> row]]
        /\ cache' = IF fills THEN cache ELSE [cache EXCEPT ![s] = row]

Known(s) == cache[s] # Nobody \/ rows[s] # Nobody

Acquire(s) ==
    /\ launch[s].at = "no" /\ live[s] = Nobody /\ Known(s)
    /\ Resolve(s, "admitFill", "admit")
    /\ UNCHANGED <<rows, results, ignores, settings, known, service, live, stops, admin, ops>>

Fill(s, filling, next) ==
    /\ launch[s].at = filling
    /\ cache' = [cache EXCEPT ![s] = launch[s].row]
    /\ launch' = [launch EXCEPT ![s].at = next]
    /\ UNCHANGED <<rows, results, ignores, settings, known, service, live, stops, admin, ops>>

AdmitFill(s) == Fill(s, "admitFill", "admit")
SpecFill(s) == Fill(s, "specFill", "launch")

Allowed(row) == row.enabled /\ ~row.quarantined
Unchecked(s) == results[s] # Nobody => results[s].status \in {"unsupported", "error"}

AdmitOk(s) ==
    /\ launch[s].at = "admit" /\ Allowed(launch[s].row)
    /\ auditOn /\ launch[s].row.cfg \in Auditable => ~Unchecked(s)
    /\ Known(s)
    /\ Resolve(s, "specFill", "launch")
    /\ UNCHANGED <<rows, results, ignores, settings, known, service, live, stops, admin, ops>>

\* The gate refuses, or asks for an audit first; or the row is gone.
AdmitRefused(s) ==
    LET row == launch[s].row
        unchecked == Allowed(row) /\ auditOn /\ row.cfg \in Auditable /\ Unchecked(s)
    IN  /\ launch[s].at = "admit"
        /\ ~Allowed(row) \/ unchecked \/ ~Known(s)
        /\ IF unchecked THEN Enqueue(s, rows[s]) ELSE UNCHANGED <<queue, worker, job, results>>
        /\ Settle(s)
        /\ UNCHANGED <<rows, ignores, settings, known, cache, run, callers, stopped, live,
                       admin, ops>>

Launch(s) ==
    /\ launch[s].at = "launch"
    /\ live' = [live EXCEPT ![s] = launch[s].row.cfg]
    /\ Settle(s)
    /\ UNCHANGED <<rows, results, ignores, settings, known, cache, service, admin, ops>>

LaunchFails(s) ==
    /\ launch[s].at = "launch"
    /\ Settle(s)
    /\ UNCHANGED <<rows, results, ignores, settings, known, cache, service, live, admin, ops>>

ProcessEnds(s) ==
    /\ live[s] # Nobody
    /\ live' = [live EXCEPT ![s] = Nobody]
    /\ UNCHANGED <<rows, results, ignores, settings, known, cache, service, launch, stops, admin, ops>>

\* stopInstance: the pool's connection is closed, then supervisor.stop.
StopClosedAtOnce(x) ==  \* Mutant: does not await the spawn in flight
    /\ stops[x].at = "close"
    /\ stops' = [stops EXCEPT ![x].at = "halt"]
    /\ UNCHANGED <<rows, results, ignores, settings, known, cache, service, process, admin, ops>>

StopClosed(x) ==
    /\ stops[x].at = "close"
    /\ stops' = [stops EXCEPT ![x].at = IF launch[stops[x].srv].at # "no" THEN "spawn" ELSE "halt"]
    /\ UNCHANGED <<rows, results, ignores, settings, known, cache, service, process, admin, ops>>

StopHalted(x) ==
    /\ stops[x].at = "halt"
    /\ stops' = [stops EXCEPT ![x].at = "done"]
    /\ live' = [live EXCEPT ![stops[x].srv] = Nobody]
    /\ UNCHANGED <<rows, results, ignores, settings, known, cache, service, launch, admin, ops>>

-----------------------------------------------------------------------------
(***************************************************************************)
(* Administrators: api/servers.ts and api/settings.ts.                     *)
(***************************************************************************)
Asks(a) == admin[a].at = "none" /\ Counted

Create(a, s, cfg, secret) ==
    /\ Asks(a) /\ s \in fresh
    /\ fresh' = fresh \ {s}
    /\ rows' = [rows EXCEPT ![s] = NewRow(cfg, secret)]
    /\ Overtakes
    /\ Enqueue(s, NewRow(cfg, secret))
    /\ UNCHANGED <<ignores, settings, outdated, cache, run, callers, stopped, process, stops, admin>>

\* PATCH: the row is read, then the body arrives.
PatchBegin(a, s, patch) ==
    /\ Asks(a) /\ rows[s] # Nobody
    /\ admin' = [admin EXCEPT ![a] = [NoAdmin EXCEPT !.at = "patchBody", !.srv = s,
                                                     !.row = rows[s], !.patch = patch]]
    /\ UNCHANGED <<rows, results, ignores, settings, known, cache, service, process, stops>>

\* The audit has the server disabled, and does not say that it is well now.
PatchConflict(a) ==
    LET row == admin[a].row
        result == results[admin[a].srv]
    IN  /\ admin[a].patch.enabled = "on" /\ ~row.enabled /\ row.disabledFor # {}
        /\ auditOn /\ row.cfg \in Auditable
        /\ result # Nobody => result.status # "ok"

PatchRefused(a) ==
    /\ admin[a].at = "patchBody" /\ PatchConflict(a)
    /\ admin' = [admin EXCEPT ![a] = NoAdmin]
    /\ Enqueue(admin[a].srv, RowOf(admin[a].srv))
    /\ UNCHANGED <<rows, ignores, settings, known, cache, run, callers, stopped, process, stops, ops>>

\* It resolves the server, for the secrets it has, as a launch does.
PatchResolve(a) ==
    LET s == admin[a].srv
        row == IF cache[s] # Nobody THEN cache[s] ELSE rows[s]
        fills == cache[s] = Nobody /\ row # Nobody /\ row.secret
    IN  /\ admin[a].at = "patchBody" /\ ~PatchConflict(a)
        /\ admin' = [admin EXCEPT ![a].at = IF fills THEN "patchFill" ELSE "patch", ![a].fill = row]
        /\ cache' = IF fills THEN cache ELSE [cache EXCEPT ![s] = row]
        /\ UNCHANGED <<rows, results, ignores, settings, known, service, process, stops, ops>>

PatchFill(a) ==
    /\ admin[a].at = "patchFill"
    /\ cache' = [cache EXCEPT ![admin[a].srv] = admin[a].fill]
    /\ admin' = [admin EXCEPT ![a].at = "patch"]
    /\ UNCHANGED <<rows, results, ignores, settings, known, service, process, stops, ops>>

Patched(now, seen, patch) ==
    [now EXCEPT !.enabled = IF patch.enabled = "keep" THEN @ ELSE patch.enabled = "on",
                !.disabledFor = IF patch.enabled = "on" /\ seen.disabledFor # {} THEN {} ELSE @,
                !.cfg = IF patch.cfg = Nobody THEN @ ELSE patch.cfg,
                !.secret = IF patch.secret = "keep" THEN @ ELSE patch.secret = "new"]

\* affectsConnection: the new row beside the one read first, the secrets beside those resolved.
Affects(new, seen, held, patch) ==
    \/ new.enabled # seen.enabled \/ new.cfg # seen.cfg
    \/ patch.secret = "new"
    \/ patch.secret = "none" /\ held # Nobody /\ held.secret

\* Another request has switched the server on since this one read it.
SwitchedOn(now, seen) == now # Nobody /\ now.enabled /\ ~seen.enabled

PatchWrite(a) ==
    LET s == admin[a].srv
        seen == admin[a].row
        new == IF rows[s] = Nobody THEN Nobody ELSE Patched(rows[s], seen, admin[a].patch)
        affects == new # Nobody /\ Affects(new, seen, admin[a].fill, admin[a].patch)
    IN  /\ admin[a].at = "patch"
        /\ rows' = [rows EXCEPT ![s] = new]
        /\ Overtakes
        /\ outdated' = IF admin[a].patch.enabled = "off" /\ SwitchedOn(rows[s], seen)
                       THEN outdated \cup {s} ELSE outdated
        /\ cache' = [cache EXCEPT ![s] = Nobody]
        /\ IF affects
           THEN /\ stops' = [stops EXCEPT ![a] = [at |-> "close", srv |-> s]]
                /\ admin' = [admin EXCEPT ![a] = [NoAdmin EXCEPT !.at = "patchStop", !.srv = s]]
           ELSE /\ stops' = stops
                /\ admin' = [admin EXCEPT ![a] = NoAdmin]
        /\ UNCHANGED <<results, ignores, settings, fresh, service, process, ops>>

PatchStopped(a) ==
    /\ admin[a].at = "patchStop" /\ stops[a].at = "done"
    /\ Enqueue(admin[a].srv, RowOf(admin[a].srv))
    /\ admin' = [admin EXCEPT ![a] = NoAdmin]
    /\ stops' = [stops EXCEPT ![a] = NoStop]
    /\ UNCHANGED <<rows, ignores, settings, known, cache, run, callers, stopped, process, ops>>

Delete(a, s) ==
    /\ Asks(a) /\ rows[s] # Nobody
    /\ stops' = [stops EXCEPT ![a] = [at |-> "close", srv |-> s]]
    /\ admin' = [admin EXCEPT ![a] = [NoAdmin EXCEPT !.at = "deleteStop", !.srv = s]]
    /\ UNCHANGED <<rows, results, ignores, settings, known, cache, service, process>>

\* The ignores of the server go with its row (onDelete: "cascade").
DeleteStopped(a) ==
    LET s == admin[a].srv
    IN  /\ admin[a].at = "deleteStop" /\ stops[a].at = "done"
        /\ rows' = [rows EXCEPT ![s] = Nobody]
        /\ Overtakes
        /\ ignores' = [ignores EXCEPT ![s] = {}]
        /\ cache' = [cache EXCEPT ![s] = Nobody]
        /\ results' = [results EXCEPT ![s] = Nobody]
        /\ admin' = [admin EXCEPT ![a] = NoAdmin]
        /\ stops' = [stops EXCEPT ![a] = NoStop]
        /\ UNCHANGED <<settings, fresh, outdated, service, process, ops>>

\* reevaluate, for the ignores and the setting given; the request stays at `at` with `rest` to do.
Reevaluate(a, s, ig, map, at, rest) ==
    LET seen == results[s]
        active == seen.findings \ ig
    IN  /\ admin' = [admin EXCEPT ![a] = [NoAdmin EXCEPT !.at = at, !.srv = s, !.todo = rest]]
        /\ IF rows[s] # Nobody /\ seen # Nobody /\ seen.status \in {"ok", "vulnerable"}
           THEN /\ results' = [results EXCEPT ![s].status = Status(active)]
                /\ Apply(a, s, rows[s], active, Verdict(active, map))
           ELSE UNCHANGED <<results, rows, cache, stops>>

Ignore(a, s, adv) ==
    LET ig == IF adv \in ignores[s] THEN ignores[s] \ {adv} ELSE ignores[s] \cup {adv}
    IN  /\ Asks(a) /\ rows[s] # Nobody
        /\ ignores' = [ignores EXCEPT ![s] = ig]
        /\ Reevaluate(a, s, ig, actions, "ignore", {})
        /\ Overtakes
        /\ UNCHANGED <<settings, fresh, outdated, service, process>>

SetActions(a, map) ==
    LET all == {s \in Servers : rows[s] # Nobody}
    IN  /\ Asks(a) /\ map # actions
        /\ actions' = map
        /\ IF all = {}
           THEN /\ admin' = [admin EXCEPT ![a] = [NoAdmin EXCEPT !.at = "settings"]]
                /\ UNCHANGED <<results, rows, cache, stops>>
           ELSE \E s \in all : Reevaluate(a, s, ignores[s], map, "settings", all \ {s})
        /\ Overtakes
        /\ UNCHANGED <<ignores, auditOn, fresh, outdated, service, process>>

Settled(a) == stops[a].at \in {"no", "done"}

ReevaluateNext(a) ==
    /\ admin[a].at = "settings" /\ Settled(a)
    /\ \E s \in admin[a].todo : Reevaluate(a, s, ignores[s], actions, "settings", admin[a].todo \ {s})
    /\ Overtakes
    /\ UNCHANGED <<ignores, settings, fresh, outdated, service, process, ops>>

ReevaluateEnds(a) ==
    /\ admin[a].at \in {"ignore", "settings"} /\ Settled(a) /\ admin[a].todo = {}
    /\ cache' = IF admin[a].at = "settings" THEN [s \in Servers |-> Nobody] ELSE cache
    /\ admin' = [admin EXCEPT ![a] = NoAdmin]
    /\ stops' = [stops EXCEPT ![a] = NoStop]
    /\ UNCHANGED <<rows, results, ignores, settings, known, service, process, ops>>

SwitchAudit(a) ==
    /\ Asks(a)
    /\ auditOn' = ~auditOn
    /\ IF auditOn THEN Cancel ELSE UNCHANGED <<queue, callers, run>>
    /\ cache' = [s \in Servers |-> Nobody]
    /\ UNCHANGED <<rows, results, ignores, actions, known, worker, job, stopped, process, stops, admin>>

LiftByHand(a, s) ==
    /\ Asks(a) /\ rows[s] # Nobody /\ rows[s].quarantined
    /\ rows' = [rows EXCEPT ![s].quarantined = FALSE, ![s].reason = {}]
    /\ cache' = [cache EXCEPT ![s] = Nobody]
    /\ Overtakes
    /\ UNCHANGED <<results, ignores, settings, fresh, outdated, service, process, stops, admin>>

(***************************************************************************)
(* Shutdown, and a restart: what is in memory is lost, the database stays. *)
(***************************************************************************)
Stop ==
    /\ ~stopped /\ Counted
    /\ stopped' = TRUE
    /\ Cancel
    /\ UNCHANGED <<rows, results, ignores, settings, known, cache, worker, job, process, stops, admin>>

Restart ==
    /\ Counted
    /\ results' = [s \in Servers |-> IF rows[s] = Nobody THEN Nobody ELSE results[s]]   \* pruneOrphans
    /\ cache' = [s \in Servers |-> Nobody]
    /\ queue' = <<>> /\ worker' = "none" /\ job' = NoJob /\ run' = NoRun /\ callers' = {}
    /\ stopped' = FALSE
    /\ launch' = [s \in Servers |-> NoLaunch] /\ live' = [s \in Servers |-> Nobody]
    /\ stops' = [x \in Stoppers |-> NoStop] /\ admin' = [a \in Admins |-> NoAdmin]
    /\ overtaken' = {} /\ outdated' = {}
    /\ UNCHANGED <<rows, ignores, settings, fresh>>

-----------------------------------------------------------------------------
\* A database with servers that are switched on or off, not audited yet or with nothing found
\* that calls for more than a report; of a server that was deleted nothing is left.
Init ==
    /\ fresh \in SUBSET Servers
    /\ rows \in [Servers -> {[NewRow(c, b) EXCEPT !.enabled = on] : c \in Configs, b, on \in BOOLEAN}
                            \cup {Nobody}]
    /\ \A s \in fresh : rows[s] = Nobody
    /\ actions \in ActionMaps
    /\ results \in [Servers -> Result \cup {Nobody}]
    /\ \A s \in Servers : results[s] # Nobody =>
           /\ rows[s] # Nobody /\ results[s].cfg = rows[s].cfg
           /\ results[s].findings \in Reports /\ results[s].status = Status(results[s].findings)
           /\ Verdict(results[s].findings, actions) \notin {"quarantine", "disable"}
    /\ ignores = [s \in Servers |-> {}] /\ auditOn \in BOOLEAN
    /\ overtaken = {} /\ outdated = {}
    /\ cache = [s \in Servers |-> Nobody]
    /\ queue = <<>> /\ worker = "none" /\ job = NoJob /\ run = NoRun /\ callers = {}
    /\ stopped = FALSE
    /\ launch = [s \in Servers |-> NoLaunch] /\ live = [s \in Servers |-> Nobody]
    /\ stops = [x \in Stoppers |-> NoStop] /\ admin = [a \in Admins |-> NoAdmin]
    /\ ops \in 0..MaxOps

EngineStep == EngineFails \/ \E f \in Reports : EngineAnswers(f)

LaunchStep(s) == \/ AdmitFill(s) \/ SpecFill(s) \/ AdmitOk(s) \/ AdmitRefused(s)
                 \/ Launch(s) \/ LaunchFails(s)

AdminStep(a) ==
    \/ PatchRefused(a) \/ PatchResolve(a) \/ PatchFill(a) \/ PatchWrite(a) \/ PatchStopped(a)
    \/ DeleteStopped(a) \/ ReevaluateNext(a) \/ ReevaluateEnds(a)

AdminCall(a) ==
    \/ \E s \in Servers :
          \/ \E c \in Configs, secret \in BOOLEAN : Create(a, s, c, secret)
          \/ \E p \in Patches : PatchBegin(a, s, p)
          \/ \E v \in Advisories : Ignore(a, s, v)
          \/ Delete(a, s) \/ LiftByHand(a, s)
    \/ \E map \in ActionMaps : SetActions(a, map)
    \/ SwitchAudit(a)

Next ==
    \/ EngineStep \/ JobEnds \/ WorkerEnds \/ RunStart \/ RunStep
    \/ Stop \/ Restart
    \/ \E c \in Callers, id \in Ids : ManualAudit(c, id)
    \/ \E s \in Servers : Acquire(s) \/ LaunchStep(s) \/ ProcessEnds(s)
    \/ \E x \in Stoppers : StopClosed(x) \/ StopHalted(x)
    \/ \E a \in Admins : AdminCall(a) \/ AdminStep(a)

Spec == Init /\ [][Next]_vars

(***************************************************************************)
(* The event loop runs what can run; the engine answers or its timeout     *)
(* fires (serverTimeoutMs), a launch and a stop end (module Supervisor).   *)
(***************************************************************************)
Fairness ==
    /\ WF_vars(EngineStep) /\ WF_vars(JobEnds) /\ WF_vars(WorkerEnds) /\ WF_vars(RunStep)
    /\ \A s \in Servers : WF_vars(LaunchStep(s))
    /\ \A x \in Stoppers : WF_vars(StopClosed(x)) /\ WF_vars(StopHalted(x))
    /\ \A a \in Admins : WF_vars(AdminStep(a))

FairSpec == Spec /\ Fairness

-----------------------------------------------------------------------------
(***************************************************************************)
(* Properties.                                                             *)
(***************************************************************************)
\* Every job that waits has a worker to take it, whatever the gap between the
\* end of the drain loop and its finally; and whoever waits for an audit (a
\* request, the run) has a job in the queue or in the worker's hands.
JobsOf(w) == {i \in DOMAIN queue : queue[i].by = w}
WaitersAreServed ==
    /\ queue # <<>> => worker # "none"
    /\ \A c \in callers : JobsOf(c) # {} \/ job.by = c
    /\ run.at = "waiting" => JobsOf(Self) # {} \/ job.by = Self

\* The registry never holds a row older than the database, nor a resolve that
\* decrypts one that it will put there: every write is followed by the
\* invalidation before anything else runs.  Left out is, until the next restart,
\* a server whose row was written while a resolve was decrypting the old one:
\* that resolve caches it after the invalidation.
CacheIsFresh ==
    TypeOK /\ \A s \in Servers \ overtaken :
        /\ cache[s] \in {Nobody, rows[s]}
        /\ launch[s].at \in {"admitFill", "specFill"} => launch[s].row = rows[s]

\* A process of a server that is disabled or quarantined is about to be
\* stopped: whoever disabled it has a stop call under way, however many
\* administrators and audits write at once.  Left out are the servers whose row
\* was written while a resolve was decrypting the old one, which the gate may
\* admit on the old row, and those that a PATCH switched off over another that
\* had switched them on since it read them, and which it therefore does not stop.
BeingStopped(s) == \E x \in Stoppers : stops[x].srv = s /\ stops[x].at \in {"close", "spawn", "halt"}
NothingSanctionedRuns ==
    \A s \in Servers \ (overtaken \cup outdated) :
        live[s] # Nobody /\ rows[s] # Nobody /\ ~Allowed(rows[s]) => BeingStopped(s)

\* What the stored findings call for is what the row says.
Enforced(s) ==
    LET act == Verdict(results[s].findings \ ignores[s], actions)
    IN  /\ act = "disable" => ~rows[s].enabled
        /\ act = "quarantine" => rows[s].quarantined \/ ~rows[s].enabled
InForce(s) == rows[s] # Nobody /\ results[s] # Nobody => Enforced(s)

\* The sanction of a server that has one called for is only ever lost to a human:
\* by a step of an administrator's request, or by a verdict decided on a row
\* that an administrator has changed since the audit began.
OnlyHumansLift ==
    [][\A s \in Servers :
        InForce(s) /\ ~InForce(s)' =>
            admin' # admin \/ ops' # ops \/ (job.id = s /\ job.row # rows[s])]_vars

\* Every request for an audit returns, and every run over all servers ends.
AuditsEnd ==
    /\ \A c \in Callers : c \in callers ~> c \notin callers
    /\ run.at # "none" ~> run.at = "none"
=============================================================================
