----------------------------- MODULE Supervisor -----------------------------
(***************************************************************************)
(* ProcessSupervisor (apps/gateway/src/upstream/supervisor.ts): starts,    *)
(* shares, watches, idles out and stops one child process per MCP server.  *)
(*                                                                         *)
(* The gateway is one JavaScript event loop, so the code between two       *)
(* awaits is atomic: every action below is such a stretch of code, and a   *)
(* suspended call is a record that says what it awaits.  A process is      *)
(* named by its generation; the maps running and halting hold generations, *)
(* 0 meaning "no entry".  Wall-clock time is abstracted to the events that *)
(* depend on it: a backoff ends, a grace timer fires, a process turns out  *)
(* to be idle.                                                             *)
(***************************************************************************)
EXTENDS Naturals, FiniteSets

CONSTANTS
    Servers,      \* server ids
    NoServer,     \* the absence of one
    Acquirers,    \* concurrent requests that call acquire
    Stoppers,     \* concurrent requests that call stop; a request may do both in turn
    Sweepers,     \* activations of the idle timer that may be in flight at once
    Warm,         \* the servers configured to be restarted after a crash
    IdleServers,  \* the servers with idleTimeoutSec > 0
    MaxFailures,  \* maxConsecutiveFailures
    MaxGen        \* bound: processes launched in a behaviour

ASSUME ConstantsAssumption ==
    /\ MaxFailures \in Nat \ {0}
    /\ MaxGen \in Nat
    /\ Warm \subseteq Servers
    /\ IdleServers \subseteq Servers
    /\ (Acquirers \cup Stoppers) \cap Sweepers = {}
    /\ NoServer \notin Servers

VARIABLES
    running,        \* server -> generation in the running map
    starting,       \* server -> the spawn in flight and the await it is at
    halting,        \* server -> generation whose halt is in the halting map
    halts,          \* generations with a halt() call in flight
    info,           \* server -> ProcessInfo
    backoff,        \* server -> is backoffUntil in the future
    procs,          \* generation -> Managed and its operating-system process
    generationSeq,
    task,           \* suspended acquire and stop calls
    sweep,          \* sweeper -> the process it is stopping and those it has yet to stop
    shutdown        \* where the shutdown() call is

slots == <<running, starting, halting, halts>>
health == <<info, backoff>>
children == <<procs, generationSeq>>
calls == <<task, sweep, shutdown>>
vars == <<slots, health, children, calls>>

Gens == 1..MaxGen
Tasks == Acquirers \cup Stoppers \cup Sweepers
NotStarting == [at |-> "no", gen |-> 0]
NoTask == [op |-> "none", at |-> "none", srv |-> NoServer, gen |-> 0, seen |-> 0]
NoProcess == [srv |-> NoServer, life |-> "unborn", open |-> FALSE,
              stopping |-> FALSE, term |-> FALSE, grace |-> FALSE, warm |-> "no",
              await |-> 0]

Lives == {"unborn", "launching", "failed", "alive", "exited", "closing", "done"}
States == {"stopped", "starting", "running", "idle", "failed"}
Phases == {"no", "starting", "halting", "halt", "done"}

Spawn == [at : {"no", "admit", "spec", "launch"}, gen : 0..MaxGen]
ProcessInfo == [state : States, failures : Nat, pid : 0..MaxGen]
Managed == [srv : Servers \cup {NoServer}, life : Lives, open : BOOLEAN,
            stopping : BOOLEAN, term : BOOLEAN, grace : BOOLEAN,
            warm : {"no", "armed", "halting"}, await : Nat]
Call == [op : {"none", "acquire", "stop"},
         at : {"none", "starting", "started", "halting", "halt"},
         srv : Servers \cup {NoServer}, gen : 0..MaxGen, seen : 0..MaxGen]
Sweep == [cur : 0..MaxGen, due : SUBSET Gens]

TypeOK ==
    /\ running \in [Servers -> 0..MaxGen]
    /\ starting \in [Servers -> Spawn]
    /\ halting \in [Servers -> 0..MaxGen]
    /\ halts \in SUBSET Gens
    /\ info \in [Servers -> ProcessInfo]
    /\ backoff \in [Servers -> BOOLEAN]
    /\ procs \in [Gens -> Managed]
    /\ generationSeq \in 0..MaxGen
    /\ task \in [Tasks -> Call]
    /\ sweep \in [Sweepers -> Sweep]
    /\ shutdown \in [phase : Phases, awaits : SUBSET Gens]

Init ==
    /\ running = [s \in Servers |-> 0]
    /\ starting = [s \in Servers |-> NotStarting]
    /\ halting = [s \in Servers |-> 0]
    /\ halts = {}
    /\ info = [s \in Servers |-> [state |-> "stopped", failures |-> 0, pid |-> 0]]
    /\ backoff = [s \in Servers |-> FALSE]
    /\ procs = [g \in Gens |-> NoProcess]
    /\ generationSeq = 0
    /\ task = [t \in Tasks |-> NoTask]
    /\ sweep = [w \in Sweepers |-> [cur |-> 0, due |-> {}]]
    /\ shutdown = [phase |-> "no", awaits |-> {}]

Up == shutdown.phase # "done"     \* index.ts ends the process once shutdown() resolves
ShuttingDown == shutdown.phase # "no"

-----------------------------------------------------------------------------
(***************************************************************************)
(* Parts shared by the actions.                                            *)
(***************************************************************************)

\* Mutant: recordFailure forgets to clear the pid.
FailedKeepsPid(inf) ==
    LET n == inf.failures + 1
    IN  [inf EXCEPT !.state = IF n >= MaxFailures THEN "failed" ELSE "stopped",
                    !.failures = n]

\* recordFailure: the new ProcessInfo, then the backoff that goes with it.
Failed(inf) ==
    LET n == inf.failures + 1
    IN  [state |-> IF n >= MaxFailures THEN "failed" ELSE "stopped",
         failures |-> n, pid |-> 0]

RecordFailure(s, inf) ==
    /\ info' = [info EXCEPT ![s] = Failed(inf)]
    /\ backoff' = [backoff EXCEPT ![s] = Failed(inf).state # "failed"]

\* The spawn promise settles: acquire calls that joined it return, stop calls wake.
Settle(s) ==
    /\ starting' = [starting EXCEPT ![s] = NotStarting]
    /\ task' = [t \in Tasks |->
           IF task[t].srv = s /\ task[t].at = "starting"
           THEN IF task[t].op = "acquire" THEN NoTask
                                          ELSE [task[t] EXCEPT !.at = "started"]
           ELSE task[t]]

\* Mutant: acquire does not look at transport.closed.
ReusableClosed(s) == running[s] # 0 /\ ~procs[running[s]].stopping

\* What the synchronous part of acquire(s) decides.
Reusable(s) == running[s] # 0 /\ ~procs[running[s]].stopping /\ procs[running[s]].open
Joins(s) == ~Reusable(s) /\ starting[s].at # "no"
Waits(s) == ~Reusable(s) /\ starting[s].at = "no" /\ halting[s] # 0

\* Mutant: acquire does not wait for a halt in flight.
FreshIgnoresHalting(s) == ~Reusable(s) /\ starting[s].at = "no"

Fresh(s) == ~Reusable(s) /\ starting[s].at = "no" /\ halting[s] = 0
Refused(s) == ShuttingDown \/ (Fresh(s) /\ (info[s].state = "failed" \/ backoff[s]))
Spawns(s) == ~ShuttingDown /\ Fresh(s) /\ info[s].state # "failed" /\ ~backoff[s]

BeginSpawn(s) ==
    starting' = IF Spawns(s) THEN [starting EXCEPT ![s] = [at |-> "admit", gen |-> 0]]
                             ELSE starting

\* Calls that awaited a promise resume in the microtasks in which it settles: who waited for
\* a spawn before the server is acquired anew, who waited for a halt before a spawn begun by
\* one of them gets further than its own first await.
SpawnsSettled(s) == \A t \in Tasks : task[t].srv = s => task[t].at # "started"
HaltsSettled(s) ==
    \A t \in Tasks : task[t].srv = s /\ task[t].at = "halting" => task[t].gen \in halts

Touch(s) ==
    sweep' = [w \in Sweepers |-> IF Reusable(s) /\ ~ShuttingDown
                                 THEN [sweep[w] EXCEPT !.due = @ \ {running[s]}]
                                 ELSE sweep[w]]

-----------------------------------------------------------------------------
(***************************************************************************)
(* acquire                                                                 *)
(***************************************************************************)

\* Where acquire(s), run now for caller t, leaves the caller.
AcquireTask(s) ==
    LET at(a, g) == [op |-> "acquire", at |-> a, srv |-> s, gen |-> g, seen |-> 0]
    IN  IF Refused(s) \/ Reusable(s) THEN NoTask
        ELSE IF Waits(s) THEN at("halting", halting[s])
        ELSE at("starting", 0)

Acquire(t, s) ==
    /\ SpawnsSettled(s)
    /\ task' = [task EXCEPT ![t] = AcquireTask(s)]
    /\ BeginSpawn(s)
    /\ Touch(s)
    /\ UNCHANGED <<running, halting, halts, health, children, shutdown>>

AcquireCall(t, s) == task[t].op = "none" /\ Acquire(t, s)

\* `await halting; return this.acquire(serverId)`
AcquireRetry(t) ==
    /\ task[t].op = "acquire" /\ task[t].at = "halting" /\ task[t].gen \notin halts
    /\ Acquire(t, task[t].srv)

\* The warm-restart timer of an exited process calls acquire and only logs an error.
WarmAcquire(g) ==
    LET s == procs[g].srv
        waits == ~ShuttingDown /\ Waits(s)
    IN  /\ SpawnsSettled(s)
        /\ procs' = [procs EXCEPT ![g] = [@ EXCEPT
               !.warm = IF waits THEN "halting" ELSE "no",
               !.await = IF waits THEN halting[s] ELSE 0]]
        /\ BeginSpawn(s)
        /\ Touch(s)
        /\ UNCHANGED <<running, halting, halts, health, generationSeq, task, shutdown>>

\* The timer was set to the end of the backoff of its day; a later failure, which
\* moves the failure count, may have put the end of the backoff off since.
WarmRestart(g) ==
    /\ \/ /\ procs[g].warm = "armed"
          /\ backoff[procs[g].srv] => info[procs[g].srv].failures # procs[g].await
       \/ procs[g].warm = "halting" /\ procs[g].await \notin halts
    /\ WarmAcquire(g)

-----------------------------------------------------------------------------
(***************************************************************************)
(* spawn, between its awaits: admit, readSpec, launcher.                   *)
(***************************************************************************)

\* Microtasks run in order: an exit already past its first await finishes before an
\* acquire it let through gets further than its own first await.
ExitsSettled(s) == \A g \in Gens : procs[g].srv = s => procs[g].life # "closing"

AdmitOk(s) ==
    /\ starting[s].at = "admit" /\ ExitsSettled(s) /\ HaltsSettled(s)
    /\ starting' = [starting EXCEPT ![s].at = "spec"]
    /\ UNCHANGED <<running, halting, halts, health, children, calls>>

AdmitRefused(s) ==
    /\ starting[s].at = "admit" /\ ExitsSettled(s) /\ HaltsSettled(s)
    /\ info' = [info EXCEPT ![s] = [@ EXCEPT !.state = "stopped", !.pid = 0]]
    /\ Settle(s)
    /\ UNCHANGED <<running, halting, halts, backoff, children, sweep, shutdown>>

\* getSpec threw (a failure) or found no stdio server (not a failure).
SpecError(s) ==
    /\ starting[s].at = "spec"
    /\ RecordFailure(s, info[s])
    /\ Settle(s)
    /\ UNCHANGED <<running, halting, halts, children, sweep, shutdown>>

SpecMissing(s) ==
    /\ starting[s].at = "spec"
    /\ Settle(s)
    /\ UNCHANGED <<running, halting, halts, health, children, sweep, shutdown>>

\* readSpec returned: the launcher is called.  The guard on generationSeq is the bound.
SpecOk(s) ==
    /\ starting[s].at = "spec" /\ generationSeq < MaxGen
    /\ LET g == generationSeq + 1
       IN  /\ generationSeq' = g
           /\ starting' = [starting EXCEPT ![s] = [at |-> "launch", gen |-> g]]
           /\ procs' = [procs EXCEPT ![g] = [@ EXCEPT !.srv = s, !.life = "launching"]]
    /\ info' = [info EXCEPT ![s].state = "starting"]
    /\ UNCHANGED <<running, halting, halts, backoff, calls>>

LaunchOk(s) ==
    /\ starting[s].at = "launch"
    /\ LET g == starting[s].gen
       IN  /\ procs' = [procs EXCEPT ![g] = [@ EXCEPT !.life = "alive", !.open = TRUE]]
           /\ running' = [running EXCEPT ![s] = g]
           /\ info' = [info EXCEPT ![s] = [@ EXCEPT !.state = "running", !.pid = g]]
    /\ Settle(s)
    /\ UNCHANGED <<halting, halts, backoff, generationSeq, sweep, shutdown>>

LaunchError(s) ==
    /\ starting[s].at = "launch"
    /\ procs' = [procs EXCEPT ![starting[s].gen].life = "failed"]
    /\ RecordFailure(s, info[s])
    /\ Settle(s)
    /\ UNCHANGED <<running, halting, halts, generationSeq, sweep, shutdown>>

-----------------------------------------------------------------------------
(***************************************************************************)
(* The process, its connection and its timers.                             *)
(***************************************************************************)

\* The process ends: by itself, or obeying SIGTERM.
Exit(g) ==
    /\ procs[g].life = "alive"
    /\ procs' = [procs EXCEPT ![g].life = "exited"]
    /\ UNCHANGED <<slots, health, generationSeq, calls>>

\* The timer armed beside every terminate() sends SIGKILL.
KillTimer(g) == Up /\ procs[g].term /\ Exit(g)

\* The process is still the one in the running map, and nobody is stopping it.
InUse(g) == ~procs[g].stopping /\ running[procs[g].srv] = g

\* handleClose and onTransportClosed before watchExit ran: the client closed the
\* connection, or stdout reached its end.  The connection reaches its clients through the
\* acquire calls that awaited the spawn, and stop calls that awaited it resume before them.
TransportClosed(g) ==
    /\ SpawnsSettled(procs[g].srv)
    /\ procs[g].life \in {"alive", "exited"} /\ procs[g].open
    /\ procs' = [procs EXCEPT ![g] = [@ EXCEPT !.open = FALSE, !.grace = ~ShuttingDown /\ InUse(g)]]
    /\ UNCHANGED <<slots, health, generationSeq, calls>>

\* Mutant: the grace timer forgets to terminate.
GraceTimerIdle(g) ==
    /\ procs[g].grace
    /\ procs' = [procs EXCEPT ![g].grace = FALSE]
    /\ UNCHANGED <<slots, health, generationSeq, calls>>

GraceTimer(g) ==
    /\ procs[g].grace
    /\ procs' = [procs EXCEPT ![g] = [@ EXCEPT !.grace = FALSE,
                                             !.term = procs[g].term \/ InUse(g)]]
    /\ UNCHANGED <<slots, health, generationSeq, calls>>

\* watchExit up to `await managed.transport.close()`.
ExitSeen(g) ==
    /\ procs[g].life = "exited"
    /\ LET s == procs[g].srv
       IN  running' = IF running[s] = g THEN [running EXCEPT ![s] = 0] ELSE running
    /\ procs' = [procs EXCEPT ![g] = [@ EXCEPT !.life = "closing", !.open = FALSE]]
    /\ UNCHANGED <<starting, halting, halts, health, generationSeq, calls>>

\* The rest of watchExit for an exit the supervisor asked for.
ExitExpected(g) ==
    /\ procs[g].life = "closing"
    /\ procs[g].stopping \/ ShuttingDown
    /\ LET s == procs[g].srv
       IN  info' = IF ~ShuttingDown /\ info[s].state # "idle"
                   THEN [info EXCEPT ![s] = [@ EXCEPT !.state = "stopped", !.pid = 0]]
                   ELSE info
    /\ procs' = [procs EXCEPT ![g].life = "done"]
    /\ UNCHANGED <<slots, backoff, generationSeq, calls>>

\* The rest of watchExit for a crash; healthy: it had lived HEALTHY_AFTER_MS.
ExitCrash(g, healthy) ==
    /\ procs[g].life = "closing"
    /\ ~procs[g].stopping /\ ~ShuttingDown
    /\ LET s == procs[g].srv
           before == IF healthy THEN [info[s] EXCEPT !.failures = 0] ELSE info[s]
           after == Failed(before)
       IN  /\ RecordFailure(s, before)
           /\ procs' = [procs EXCEPT ![g] = [@ EXCEPT
                  !.life = "done",
                  !.warm = IF s \in Warm /\ after.state # "failed" THEN "armed" ELSE "no",
                  !.await = after.failures]]
    /\ UNCHANGED <<slots, generationSeq, calls>>

BackoffEnds(s) ==
    /\ backoff[s]
    /\ backoff' = [backoff EXCEPT ![s] = FALSE]
    /\ UNCHANGED <<slots, info, children, calls>>

-----------------------------------------------------------------------------
(***************************************************************************)
(* stop, reset, touch, sweepIdle                                           *)
(***************************************************************************)

\* The state stop leaves behind: sweepIdle passes "idle".
Target(t) == IF t \in Sweepers THEN "idle" ELSE "stopped"

\* stop(s) past its awaits, for caller t; seen: the launches before the call.
StopNow(t, s, seen) ==
    LET g == running[s]
    IN  IF g = 0
        THEN /\ info' = IF info[s].state # "failed"
                        THEN [info EXCEPT ![s] = [@ EXCEPT !.state = Target(t), !.pid = 0]]
                        ELSE info
             /\ task' = [task EXCEPT ![t] = NoTask]
             /\ UNCHANGED <<running, halting, halts, procs>>
        ELSE /\ info' = [info EXCEPT ![s] = [@ EXCEPT !.state = Target(t), !.pid = 0]]
             /\ running' = [running EXCEPT ![s] = 0]
             /\ halting' = [halting EXCEPT ![s] = g]
             /\ halts' = halts \cup {g}
             /\ procs' = [procs EXCEPT ![g] = [@ EXCEPT !.stopping = TRUE, !.term = TRUE]]
             /\ task' = [task EXCEPT ![t] = [op |-> "stop", at |-> "halt", srv |-> s,
                                             gen |-> g, seen |-> seen]]

\* Mutant: stop does not wait for a halt in flight.
StopSettledAtOnce(t, s, seen) ==
    StopNow(t, s, seen) /\ UNCHANGED <<starting, backoff, generationSeq, shutdown>>

\* stop waits for a halt in flight, if there is one.
StopSettled(t, s, seen) ==
    /\ IF halting[s] # 0
       THEN /\ task' = [task EXCEPT ![t] = [op |-> "stop", at |-> "halting", srv |-> s,
                                            gen |-> halting[s], seen |-> seen]]
            /\ UNCHANGED <<running, halting, halts, info, procs>>
       ELSE StopNow(t, s, seen)
    /\ UNCHANGED <<starting, backoff, generationSeq, shutdown>>

Stop(t, s) ==
    /\ task[t].op = "none"
    /\ IF starting[s].at # "no"
       THEN /\ task' = [task EXCEPT ![t] = [op |-> "stop", at |-> "starting", srv |-> s,
                                            gen |-> 0, seen |-> generationSeq]]
            /\ UNCHANGED <<slots, health, children, shutdown>>
       ELSE StopSettled(t, s, generationSeq)

StopCall(t, s) == Stop(t, s) /\ UNCHANGED sweep

StopStarted(t) ==
    /\ task[t].op = "stop" /\ task[t].at = "started"
    /\ StopSettled(t, task[t].srv, task[t].seen)
    /\ UNCHANGED sweep

StopHalted(t) ==
    /\ task[t].op = "stop" /\ task[t].at = "halting" /\ task[t].gen \notin halts
    /\ StopNow(t, task[t].srv, task[t].seen)
    /\ UNCHANGED <<starting, backoff, generationSeq, sweep, shutdown>>

StopDone(t) ==
    /\ task[t].op = "stop" /\ task[t].at = "halt" /\ task[t].gen \notin halts
    /\ task' = [task EXCEPT ![t] = NoTask]
    /\ UNCHANGED <<slots, health, children, sweep, shutdown>>

\* Mutants: halt does not await the exit; halt leaves its entry in the halting map.
HaltDoneEarly(g) ==
    /\ g \in halts
    /\ halts' = halts \ {g}
    /\ halting' = [s \in Servers |-> IF halting[s] = g THEN 0 ELSE halting[s]]
    /\ UNCHANGED <<running, starting, health, children, calls>>

HaltDoneKeepsEntry(g) ==
    /\ g \in halts /\ procs[g].life = "done"
    /\ halts' = halts \ {g}
    /\ UNCHANGED <<running, starting, halting, health, children, calls>>

\* halt() past `await managed.exited`, and the entry it leaves in the halting map.
HaltDone(g) ==
    /\ g \in halts /\ procs[g].life = "done"
    /\ halts' = halts \ {g}
    /\ halting' = [s \in Servers |-> IF halting[s] = g THEN 0 ELSE halting[s]]
    /\ UNCHANGED <<running, starting, health, children, calls>>

ResetCall(s) ==
    /\ backoff' = [backoff EXCEPT ![s] = FALSE]
    /\ info' = [info EXCEPT ![s] = [@ EXCEPT !.state = "stopped", !.failures = 0]]
    /\ UNCHANGED <<slots, children, calls>>

TouchCall(s) ==
    /\ running[s] # 0
    /\ sweep' = [w \in Sweepers |-> [sweep[w] EXCEPT !.due = @ \ {running[s]}]]
    /\ UNCHANGED <<slots, health, children, task, shutdown>>

\* One turn of sweepIdle's loop: the snapshot, or what a touch has left of it, is due.
SweepTurn(w, due) ==
    \E g \in due :
        /\ Stop(w, procs[g].srv)
        /\ sweep' = [sweep EXCEPT ![w] = [cur |-> g, due |-> due \ {g}]]

\* The timer fires: due holds the running processes past their timeout at the `now` it
\* read, and the loop runs to its first await at once.
SweepStart(w) ==
    /\ ~ShuttingDown /\ task[w].op = "none" /\ sweep[w] = [cur |-> 0, due |-> {}]
    /\ \E due \in SUBSET {running[s] : s \in IdleServers} : 0 \notin due /\ SweepTurn(w, due)

\* The stop it awaited returned: the rest of the snapshot, however old, follows.
SweepNext(w) ==
    /\ task[w].op = "none"
    /\ SweepTurn(w, {g \in sweep[w].due : ~procs[g].stopping})

SweepEnd(w) ==
    /\ task[w].op = "none" /\ sweep[w] # [cur |-> 0, due |-> {}]
    /\ \A g \in sweep[w].due : procs[g].stopping
    /\ sweep' = [sweep EXCEPT ![w] = [cur |-> 0, due |-> {}]]
    /\ UNCHANGED <<slots, health, children, task, shutdown>>

-----------------------------------------------------------------------------
(***************************************************************************)
(* shutdown                                                                *)
(***************************************************************************)

\* Starts are refused from here on, so the spawns to await are those still in flight.
ShutdownCall ==
    /\ ~ShuttingDown
    /\ shutdown' = [phase |-> "starting", awaits |-> {}]
    /\ UNCHANGED <<slots, health, children, task, sweep>>

\* Mutant: shutdown does not wait for the spawns in flight.
ShutdownStartedAtOnce ==
    /\ shutdown.phase = "starting"
    /\ shutdown' = [phase |-> "halting", awaits |-> {halting[s] : s \in Servers} \ {0}]
    /\ UNCHANGED <<slots, health, children, task, sweep>>

ShutdownStarted ==
    /\ shutdown.phase = "starting" /\ \A s \in Servers : starting[s].at = "no"
    /\ shutdown' = [phase |-> "halting", awaits |-> {halting[s] : s \in Servers} \ {0}]
    /\ UNCHANGED <<slots, health, children, task, sweep>>

ShutdownHalted ==
    /\ shutdown.phase = "halting" /\ shutdown.awaits \cap halts = {}
    /\ LET all == {running[s] : s \in Servers} \ {0}
       IN  /\ shutdown' = [phase |-> "halt", awaits |-> all]
           /\ halts' = halts \cup all
           /\ procs' = [g \in Gens |-> IF g \in all
                   THEN [procs[g] EXCEPT !.stopping = TRUE, !.term = TRUE] ELSE procs[g]]
    /\ running' = [s \in Servers |-> 0]
    /\ UNCHANGED <<starting, halting, health, generationSeq, task, sweep>>

ShutdownDone ==
    /\ shutdown.phase = "halt" /\ shutdown.awaits \cap halts = {}
    /\ shutdown' = [phase |-> "done", awaits |-> {}]
    /\ UNCHANGED <<slots, health, children, task, sweep>>

-----------------------------------------------------------------------------
SpawnStep(s) ==
    AdmitOk(s) \/ AdmitRefused(s) \/ SpecError(s) \/ SpecMissing(s) \/ SpecOk(s)
        \/ LaunchOk(s) \/ LaunchError(s)

ExitStep(g) == ExitSeen(g) \/ ExitExpected(g) \/ \E healthy \in BOOLEAN : ExitCrash(g, healthy)

ProcStep(g) == TransportClosed(g) \/ GraceTimer(g) \/ ExitStep(g) \/ WarmRestart(g) \/ HaltDone(g)

Resume(t) == AcquireRetry(t) \/ StopStarted(t) \/ StopHalted(t) \/ StopDone(t)

SweepStep(w) == SweepStart(w) \/ SweepNext(w) \/ SweepEnd(w)

ShutdownStep == ShutdownStarted \/ ShutdownHalted \/ ShutdownDone

Loop ==
    \/ \E s \in Servers : SpawnStep(s) \/ BackoffEnds(s) \/ ResetCall(s) \/ TouchCall(s)
    \/ \E g \in Gens : ProcStep(g)
    \/ \E t \in Tasks : Resume(t)
    \/ \E s \in Servers : \/ \E t \in Acquirers : AcquireCall(t, s)
                          \/ \E t \in Stoppers : StopCall(t, s)
    \/ \E w \in Sweepers : SweepStep(w)
    \/ ShutdownCall
    \/ ShutdownStep

Next == (Up /\ Loop) \/ \E g \in Gens : Exit(g)

Spec == Init /\ [][Next]_vars

\* The event loop runs what is due, an awaited launcher, gate and spec answer, and a
\* timer fires; callers, crashes and closed connections are not forced to happen.
Fairness ==
    /\ \A s \in Servers : WF_vars(Up /\ SpawnStep(s))
    /\ \A g \in Gens : /\ WF_vars(Up /\ (ExitStep(g) \/ HaltDone(g)))
                       /\ WF_vars(KillTimer(g)) /\ WF_vars(Up /\ GraceTimer(g))
    /\ \A t \in Tasks : WF_vars(Up /\ Resume(t))
    /\ WF_vars(Up /\ ShutdownStep)

FairSpec == Spec /\ Fairness

-----------------------------------------------------------------------------
(***************************************************************************)
(* Properties.                                                             *)
(***************************************************************************)

Connected(g) == procs[g].life = "alive" /\ procs[g].open

\* A stop and an acquire in flight never overlap: a server never has two live
\* processes with an open connection, whatever starts, stops and crashes interleave.
OneProcessPerServer ==
    \A g, h \in Gens :
        Connected(g) /\ Connected(h) /\ procs[g].srv = procs[h].srv => g = h

\* No leak: a live connected process is the one acquire hands out, or some stop or
\* shutdown is waiting for its death.
LiveProcessIsOwned ==
    \A g \in Gens : Connected(g) => running[procs[g].srv] = g \/ g \in halts

\* getInfo names the process that acquire hands out; a pid outlives its process only until
\* watchExit has run, and a server reported idle or failed has none.
Told(s) ==
    /\ Reusable(s) => info[s].pid = running[s]
    /\ info[s].pid # 0 =>
          /\ procs[info[s].pid].srv = s
          /\ running[s] = info[s].pid \/ procs[info[s].pid].life = "closing"
    /\ info[s].state \in {"idle", "failed"} => info[s].pid = 0 /\ ~Reusable(s)

\* One thing only makes a true report false, whatever spawns, stops, crashes and sweeps do:
\* watchExit of a process that was replaced after it had lost its connection, and that
\* exits under its successor.  (A shutdown no longer maintains the reports.)
InfoNamesTheProcess ==
    [][\A s \in Servers :
          Told(s) /\ ~ShuttingDown' =>
          \/ Told(s)'
          \/ \E g \in Gens :
                /\ procs[g].srv = s /\ procs[g].life = "closing" /\ procs'[g].life = "done"
                /\ running[s] \notin {0, g}]_vars

\* What shutdown leaves alive and connected is what a concurrent stop still waits for.
ShutdownLeavesOnlyStopping ==
    ~Up => \A g \in Gens : Connected(g) =>
              \E t \in Tasks : task[t].at = "halt" /\ task[t].gen = g

\* acquire never hands out a process that has a SIGTERM, and a SIGKILL to come, on it.
NothingDyingIsHandedOut ==
    \A s \in Servers : Reusable(s) => ~procs[running[s]].term

\* A process that lost its connection, and whose server has launched another since.
Replaced(g) ==
    /\ ~procs[g].open
    /\ \E h \in Gens :
          /\ h > g /\ procs[h].srv = procs[g].srv
          /\ procs[h].life \notin {"unborn", "launching", "failed"}

\* When stop returns, no process its server had when stop was called is left, spawns in
\* flight included, but one that was replaced, which is out of stop's sight.
StopEndsEarlierProcesses ==
    [][\A t \in Tasks :
          task[t].op = "stop" /\ task'[t].op = "none" /\ ~ShuttingDown =>
          \A g \in Gens :
              g <= task[t].seen /\ procs[g].srv = task[t].srv
              => procs'[g].life \notin {"launching", "alive"} \/ Replaced(g)']_vars

\* Every call comes back: stop although the process ignores SIGTERM, acquire with a
\* process or an error however many stops it has to wait for, and shutdown whatever was
\* in flight when it was called.
CallsReturn ==
    /\ \A t \in Tasks : task[t].op # "none" ~> (task[t].op = "none" \/ ~Up)
    /\ ShuttingDown ~> ~Up

\* A process that lost its connection dies, unless a replacement was started meanwhile.
ClosedProcessEnds ==
    \A g \in Gens :
        procs[g].life = "alive" /\ ~procs[g].open
            ~> (procs[g].life # "alive" \/ running[procs[g].srv] # g \/ ~Up)
=============================================================================
