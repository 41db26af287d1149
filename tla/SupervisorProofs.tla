-------------------------- MODULE SupervisorProofs --------------------------
(***************************************************************************)
(* Proofs about Supervisor, for every value of its constants: its type     *)
(* invariant; that no live connected process is leaked or doubled, and     *)
(* none is handed out with a SIGTERM on it; what can make getInfo's report *)
(* false; what shutdown leaves; and what a stop leaves of all that was     *)
(* there when it was called.                                               *)
(***************************************************************************)
EXTENDS Supervisor, TLAPS

\* Generations above the counter are unborn, and only a launched process is open, stopping
\* or being halted.
NewbornClean ==
    \A g \in Gens :
        /\ g > generationSeq => procs[g].life = "unborn"
        /\ procs[g].life \in {"unborn", "launching", "failed"}
              => ~procs[g].open /\ ~procs[g].stopping /\ g \notin halts

\* The generation a spawn launches belongs to that server.
LaunchingIsOwn ==
    \A s \in Servers : starting[s].at = "launch" =>
        /\ starting[s].gen \in Gens
        /\ procs[starting[s].gen].srv = s
        /\ procs[starting[s].gen].life = "launching"

\* The running map holds launched processes of that server that nobody is stopping.
RunningIsOwn ==
    \A s \in Servers : running[s] # 0 =>
        /\ procs[running[s]].srv = s
        /\ procs[running[s]].life \notin {"unborn", "launching", "failed"}
        /\ ~procs[running[s]].stopping

\* While a spawn is in flight, what the running map still holds has lost its connection.
SpawnReplacesClosed ==
    \A s \in Servers : starting[s].at # "no" /\ running[s] # 0 => ~procs[running[s]].open

\* While a connected process is halted, its server runs and starts nothing else.
HaltedHoldsSlot ==
    \A g \in Gens : g \in halts /\ Connected(g) =>
        /\ running[procs[g].srv] = 0
        /\ starting[procs[g].srv].at = "no"
        /\ halting[procs[g].srv] = g \/ ShuttingDown

\* Whatever the supervisor may act on was launched for some server.
Launched(g) == procs[g].srv \in Servers

HasServer ==
    /\ \A g \in Gens : procs[g].life # "unborn" \/ procs[g].warm # "no" => Launched(g)
    /\ \A t \in Tasks : task[t].op # "none" => task[t].srv \in Servers
    /\ \A w \in Sweepers : \A g \in sweep[w].due : Launched(g)

IInv ==
    /\ TypeOK
    /\ NewbornClean
    /\ HasServer
    /\ LaunchingIsOwn
    /\ RunningIsOwn
    /\ SpawnReplacesClosed
    /\ HaltedHoldsSlot
    /\ LiveProcessIsOwned
    /\ OneProcessPerServer

-----------------------------------------------------------------------------
(***************************************************************************)
(* Type correctness.  The shared parts of the actions first.               *)
(***************************************************************************)

LEMMA NoGeneration == 0 \in 0..MaxGen /\ MaxGen \in Nat
BY ConstantsAssumption

LEMMA ManagedFields ==
    ASSUME NEW p \in Managed, NEW b \in BOOLEAN, NEW c \in BOOLEAN
    PROVE  /\ [p EXCEPT !.stopping = b, !.term = c] \in Managed
           /\ [p EXCEPT !.grace = b, !.term = c] \in Managed
           /\ [p EXCEPT !.open = b, !.grace = c] \in Managed
           /\ \A x \in Lives : [p EXCEPT !.life = x] \in Managed
           /\ \A x \in Lives : [p EXCEPT !.life = x, !.open = b] \in Managed
           /\ \A x \in Lives, s \in Servers : [p EXCEPT !.srv = s, !.life = x] \in Managed
<1>1. [p EXCEPT !.stopping = b, !.term = c] \in Managed
  BY DEF Managed
<1>2. [p EXCEPT !.grace = b, !.term = c] \in Managed
  BY DEF Managed
<1>3. [p EXCEPT !.open = b, !.grace = c] \in Managed
  BY DEF Managed
<1>4. ASSUME NEW x \in Lives PROVE [p EXCEPT !.life = x] \in Managed
  BY DEF Managed
<1>5. ASSUME NEW x \in Lives PROVE [p EXCEPT !.life = x, !.open = b] \in Managed
  BY DEF Managed
<1>6. ASSUME NEW x \in Lives, NEW s \in Servers
      PROVE  [p EXCEPT !.srv = s, !.life = x] \in Managed
  BY DEF Managed
<1> QED
  BY <1>1, <1>2, <1>3, <1>4, <1>5, <1>6

LEMMA ProcsUpdateType ==
    ASSUME TypeOK, NEW g, NEW r, g \in Gens => r \in Managed
    PROVE  [procs EXCEPT ![g] = r] \in [Gens -> Managed]
BY DEF TypeOK

LEMMA SettleType ==
    ASSUME TypeOK, NEW s \in Servers, Settle(s)
    PROVE  starting' \in [Servers -> Spawn] /\ task' \in [Tasks -> Call]
<1>1. starting' \in [Servers -> Spawn]
  BY NoGeneration DEF TypeOK, Settle, Spawn, NotStarting
<1>2. task' \in [Tasks -> Call]
  BY NoGeneration DEF TypeOK, Settle, Call, NoTask
<1> QED
  BY <1>1, <1>2

LEMMA RecordFailureType ==
    ASSUME TypeOK, NEW s \in Servers, NEW inf \in ProcessInfo, RecordFailure(s, inf)
    PROVE  info' \in [Servers -> ProcessInfo] /\ backoff' \in [Servers -> BOOLEAN]
<1>1. Failed(inf) \in ProcessInfo
  BY NoGeneration DEF Failed, ProcessInfo, States
<1>2. info' \in [Servers -> ProcessInfo]
  BY <1>1 DEF TypeOK, RecordFailure
<1>3. backoff' \in [Servers -> BOOLEAN]
  BY DEF TypeOK, RecordFailure
<1> QED
  BY <1>2, <1>3

LEMMA BeginSpawnType ==
    ASSUME TypeOK, NEW s \in Servers, BeginSpawn(s), Touch(s)
    PROVE  starting' \in [Servers -> Spawn] /\ sweep' \in [Sweepers -> Sweep]
<1>1. starting' \in [Servers -> Spawn]
  BY NoGeneration DEF TypeOK, BeginSpawn, Spawn
<1>2. sweep' \in [Sweepers -> Sweep]
  BY DEF TypeOK, Touch, Sweep
<1> QED
  BY <1>1, <1>2

LEMMA AcquireType ==
    ASSUME TypeOK, NEW t \in Tasks, NEW s \in Servers, Acquire(t, s)
    PROVE  TypeOK'
<1>1. AcquireTask(s) \in Call
  BY NoGeneration DEF TypeOK, AcquireTask, Call, NoTask
<1>2. starting' \in [Servers -> Spawn] /\ sweep' \in [Sweepers -> Sweep]
  BY BeginSpawnType DEF Acquire
<1>3. task' \in [Tasks -> Call]
  BY <1>1 DEF TypeOK, Acquire
<1> QED
  BY <1>2, <1>3 DEF TypeOK, Acquire, health, children

LEMMA StopNowType ==
    ASSUME TypeOK, NEW t \in Tasks, NEW s \in Servers, NEW seen \in 0..MaxGen,
           StopNow(t, s, seen)
    PROVE  /\ running' \in [Servers -> 0..MaxGen] /\ halting' \in [Servers -> 0..MaxGen]
           /\ halts' \in SUBSET Gens /\ info' \in [Servers -> ProcessInfo]
           /\ procs' \in [Gens -> Managed] /\ task' \in [Tasks -> Call]
<1>1. running' \in [Servers -> 0..MaxGen] /\ halting' \in [Servers -> 0..MaxGen]
  BY NoGeneration DEF TypeOK, StopNow
<1>2. halts' \in SUBSET Gens
  BY NoGeneration DEF TypeOK, StopNow, Gens
<1>3. Target(t) \in States
  BY DEF Target, States
<1>4. info' \in [Servers -> ProcessInfo]
  <2>1. info[s] \in ProcessInfo
    BY DEF TypeOK
  <2>2. [info[s] EXCEPT !.state = Target(t), !.pid = 0] \in ProcessInfo
    BY <1>3, <2>1, NoGeneration DEF ProcessInfo
  <2> QED
    BY <2>2 DEF TypeOK, StopNow
<1>5. procs' \in [Gens -> Managed]
  <2>1. CASE running[s] = 0
    BY <2>1 DEF TypeOK, StopNow
  <2>2. CASE running[s] # 0
    <3>1. running[s] \in Gens
      BY <2>2, NoGeneration DEF TypeOK, Gens
    <3>2. procs[running[s]] \in Managed
      BY <3>1 DEF TypeOK
    <3>3. [procs[running[s]] EXCEPT !.stopping = TRUE, !.term = TRUE] \in Managed
      BY <3>2, ManagedFields
    <3> QED
      BY <2>2, <3>3, ProcsUpdateType DEF StopNow
  <2> QED
    BY <2>1, <2>2
<1>6. task' \in [Tasks -> Call]
  BY NoGeneration DEF TypeOK, StopNow, Call, NoTask
<1> QED
  BY <1>1, <1>2, <1>4, <1>5, <1>6

LEMMA StopSettledType ==
    ASSUME TypeOK, NEW t \in Tasks, NEW s \in Servers, NEW seen \in 0..MaxGen,
           StopSettled(t, s, seen), sweep' \in [Sweepers -> Sweep]
    PROVE  TypeOK'
<1>1. CASE halting[s] # 0
  <2>1. task' \in [Tasks -> Call]
    BY <1>1 DEF TypeOK, StopSettled, Call
  <2> QED
    BY <1>1, <2>1 DEF TypeOK, StopSettled
<1>2. CASE halting[s] = 0
  BY <1>2, StopNowType DEF TypeOK, StopSettled
<1> QED
  BY <1>1, <1>2

LEMMA StopType ==
    ASSUME TypeOK, NEW t \in Tasks, NEW s \in Servers, Stop(t, s),
           sweep' \in [Sweepers -> Sweep]
    PROVE  TypeOK'
<1>1. CASE starting[s].at # "no"
  <2>1. task' \in [Tasks -> Call]
    BY <1>1, NoGeneration DEF TypeOK, Stop, Call
  <2> QED
    BY <1>1, <2>1 DEF TypeOK, Stop, slots, health, children
<1>2. CASE starting[s].at = "no"
  BY <1>2, StopSettledType DEF TypeOK, Stop
<1> QED
  BY <1>1, <1>2

\* The type invariant survives every step of the event loop.
LEMMA TypeStep == TypeOK /\ HasServer /\ RunningIsOwn /\ [Next]_vars => TypeOK'
<1> SUFFICES ASSUME TypeOK, HasServer, RunningIsOwn, [Next]_vars PROVE TypeOK'
  OBVIOUS
<1> USE NoGeneration
<1>1. ASSUME NEW s \in Servers, SpawnStep(s) PROVE TypeOK'
  <2>1. CASE AdmitOk(s)
    <3>1. starting' \in [Servers -> Spawn]
      BY <2>1 DEF AdmitOk, TypeOK, Spawn
    <3> QED
      BY <2>1, <3>1 DEF AdmitOk, TypeOK, health, children, calls
  <2>2. CASE AdmitRefused(s)
    <3>1. info' \in [Servers -> ProcessInfo]
      BY <2>2 DEF AdmitRefused, TypeOK, ProcessInfo, States
    <3> QED
      BY <2>2, <3>1, SettleType DEF AdmitRefused, TypeOK, children
  <2>3. CASE SpecError(s)
    BY <2>3, SettleType, RecordFailureType DEF SpecError, TypeOK, children
  <2>4. CASE SpecMissing(s)
    BY <2>4, SettleType DEF SpecMissing, TypeOK, health, children
  <2>5. CASE SpecOk(s)
    <3>1. generationSeq + 1 \in Gens /\ generationSeq + 1 \in 0..MaxGen
      BY <2>5 DEF SpecOk, TypeOK, Gens
    <3>2. procs' \in [Gens -> Managed]
      <4> DEFINE g == generationSeq + 1
      <4>1. [procs[g] EXCEPT !.srv = s, !.life = "launching"] \in Managed
        BY <3>1, ManagedFields DEF TypeOK, Lives
      <4> QED
        BY <2>5, <4>1, ProcsUpdateType DEF SpecOk
    <3>3. starting' \in [Servers -> Spawn]
      BY <2>5, <3>1 DEF SpecOk, TypeOK, Spawn
    <3>4. info' \in [Servers -> ProcessInfo]
      BY <2>5 DEF SpecOk, TypeOK, ProcessInfo, States
    <3> QED
      BY <2>5, <3>1, <3>2, <3>3, <3>4 DEF SpecOk, TypeOK, calls
  <2>6. CASE LaunchOk(s)
    <3>1. starting[s].gen \in 0..MaxGen
      BY DEF TypeOK, Spawn
    <3>2. procs' \in [Gens -> Managed]
      <4> DEFINE g == starting[s].gen
      <4>1. g \in Gens => [procs[g] EXCEPT !.life = "alive", !.open = TRUE] \in Managed
        BY ManagedFields DEF TypeOK, Lives
      <4> QED
        BY <2>6, <4>1, ProcsUpdateType DEF LaunchOk
    <3>3. info' \in [Servers -> ProcessInfo]
      BY <2>6, <3>1 DEF LaunchOk, TypeOK, ProcessInfo, States
    <3>4. running' \in [Servers -> 0..MaxGen]
      BY <2>6, <3>1 DEF LaunchOk, TypeOK
    <3> QED
      BY <2>6, <3>2, <3>3, <3>4, SettleType DEF LaunchOk, TypeOK
  <2>7. CASE LaunchError(s)
    <3>1. procs' \in [Gens -> Managed]
      <4> DEFINE g == starting[s].gen
      <4>1. ASSUME g \in Gens PROVE [procs[g] EXCEPT !.life = "failed"] \in Managed
        <5>1. procs[g] \in Managed /\ "failed" \in Lives
          BY <4>1 DEF TypeOK, Lives
        <5> QED
          BY <5>1, ManagedFields
      <4> QED
        BY <2>7, <4>1, ProcsUpdateType DEF LaunchError
    <3> QED
      BY <2>7, <3>1, SettleType, RecordFailureType DEF LaunchError, TypeOK
  <2> QED
    BY <1>1, <2>1, <2>2, <2>3, <2>4, <2>5, <2>6, <2>7 DEF SpawnStep
<1>2. ASSUME NEW s \in Servers, BackoffEnds(s) \/ ResetCall(s) \/ TouchCall(s) PROVE TypeOK'
  <2>1. CASE BackoffEnds(s)
    BY <2>1 DEF BackoffEnds, TypeOK, slots, children, calls
  <2>2. CASE ResetCall(s)
    <3>1. info' \in [Servers -> ProcessInfo]
      BY <2>2 DEF ResetCall, TypeOK, ProcessInfo, States
    <3> QED
      BY <2>2, <3>1 DEF ResetCall, TypeOK, slots, children, calls
  <2>3. CASE TouchCall(s)
    <3>1. sweep' \in [Sweepers -> Sweep]
      BY <2>3 DEF TouchCall, TypeOK, Sweep
    <3> QED
      BY <2>3, <3>1 DEF TouchCall, TypeOK, slots, health, children
  <2> QED
    BY <1>2, <2>1, <2>2, <2>3
<1>3. ASSUME NEW g \in Gens, TransportClosed(g) \/ GraceTimer(g) \/ Exit(g) \/ HaltDone(g)
      PROVE  TypeOK'
  <2>1. CASE TransportClosed(g)
    <3>1. procs' \in [Gens -> Managed]
      <4>1. (~ShuttingDown /\ InUse(g)) \in BOOLEAN
        OBVIOUS
      <4>2. [procs[g] EXCEPT !.open = FALSE, !.grace = ~ShuttingDown /\ InUse(g)] \in Managed
        BY <4>1, ManagedFields DEF TypeOK
      <4> QED
        BY <2>1, <4>2, ProcsUpdateType DEF TransportClosed
    <3> QED
      BY <2>1, <3>1 DEF TransportClosed, TypeOK, slots, health, calls
  <2>2. CASE GraceTimer(g)
    <3>1. procs' \in [Gens -> Managed]
      <4> DEFINE term == procs[g].term \/ InUse(g)
      <4>1. procs[g] \in Managed /\ term \in BOOLEAN
        BY DEF TypeOK
      <4>2. procs' = [procs EXCEPT ![g] = [procs[g] EXCEPT !.grace = FALSE, !.term = term]]
        BY <2>2 DEF GraceTimer
      <4> HIDE DEF term
      <4>3. [procs[g] EXCEPT !.grace = FALSE, !.term = term] \in Managed
        BY <4>1, ManagedFields
      <4> QED
        BY <4>2, <4>3, ProcsUpdateType
    <3> QED
      BY <2>2, <3>1 DEF GraceTimer, TypeOK, slots, health, calls
  <2>3. CASE Exit(g)
    <3>1. procs' \in [Gens -> Managed]
      BY <2>3 DEF Exit, TypeOK, Managed, Lives
    <3> QED
      BY <2>3, <3>1 DEF Exit, TypeOK, slots, health, calls
  <2>4. CASE HaltDone(g)
    BY <2>4 DEF HaltDone, TypeOK, health, children, calls
  <2> QED
    BY <1>3, <2>1, <2>2, <2>3, <2>4
<1>4. ASSUME NEW g \in Gens, ExitStep(g) PROVE TypeOK'
  <2>1. CASE ExitSeen(g)
    <3>1. procs' \in [Gens -> Managed]
      <4>1. [procs[g] EXCEPT !.life = "closing", !.open = FALSE] \in Managed
        BY ManagedFields DEF TypeOK, Lives
      <4> QED
        BY <2>1, <4>1, ProcsUpdateType DEF ExitSeen
    <3>2. running' \in [Servers -> 0..MaxGen]
      BY <2>1 DEF ExitSeen, TypeOK
    <3> QED
      BY <2>1, <3>1, <3>2 DEF ExitSeen, TypeOK, health, calls
  <2>2. CASE ExitExpected(g)
    <3>1. procs' \in [Gens -> Managed]
      BY <2>2 DEF ExitExpected, TypeOK, Managed, Lives
    <3>2. info' \in [Servers -> ProcessInfo]
      BY <2>2 DEF ExitExpected, TypeOK, ProcessInfo, States
    <3> QED
      BY <2>2, <3>1, <3>2 DEF ExitExpected, TypeOK, slots, calls
  <2>3. ASSUME NEW healthy \in BOOLEAN, ExitCrash(g, healthy) PROVE TypeOK'
    <3> DEFINE s == procs[g].srv
               before == IF healthy THEN [info[s] EXCEPT !.failures = 0] ELSE info[s]
    <3>0. s \in Servers
      BY <2>3 DEF ExitCrash, HasServer, Launched
    <3>1. before \in ProcessInfo
      BY <3>0 DEF TypeOK, ProcessInfo
    <3>2. RecordFailure(s, before)
      BY <2>3 DEF ExitCrash, RecordFailure
    <3>3. info' \in [Servers -> ProcessInfo] /\ backoff' \in [Servers -> BOOLEAN]
      BY <3>0, <3>1, <3>2, RecordFailureType
    <3>4. Failed(before).failures \in Nat
      BY <3>1 DEF Failed, ProcessInfo
    <3>5. procs' \in [Gens -> Managed]
      <4> DEFINE w == IF s \in Warm /\ Failed(before).state # "failed" THEN "armed" ELSE "no"
                 n == Failed(before).failures
      <4>1. procs' = [procs EXCEPT ![g] =
                         [procs[g] EXCEPT !.life = "done", !.warm = w, !.await = n]]
        BY <2>3 DEF ExitCrash
      <4>2. procs[g] \in Managed /\ w \in {"no", "armed", "halting"} /\ n \in Nat
        BY <3>4 DEF TypeOK
      <4> HIDE DEF w, n
      <4>3. [procs[g] EXCEPT !.life = "done", !.warm = w, !.await = n] \in Managed
        BY <4>2 DEF Managed, Lives
      <4> QED
        BY <4>1, <4>3, ProcsUpdateType
    <3> HIDE DEF s, before
    <3> QED
      BY <2>3, <3>3, <3>5 DEF ExitCrash, TypeOK, slots, calls
  <2> QED
    BY <1>4, <2>1, <2>2, <2>3 DEF ExitStep
<1>5. ASSUME NEW g \in Gens, WarmRestart(g) PROVE TypeOK'
  <2> DEFINE s == procs[g].srv
             waits == ~ShuttingDown /\ Waits(s)
  <2>0. s \in Servers
    BY <1>5 DEF WarmRestart, HasServer, Launched
  <2>1. starting' \in [Servers -> Spawn] /\ sweep' \in [Sweepers -> Sweep]
    BY <1>5, <2>0, BeginSpawnType DEF WarmRestart, WarmAcquire
  <2>2. procs' \in [Gens -> Managed]
    <3> DEFINE w == IF waits THEN "halting" ELSE "no"
               a == IF waits THEN halting[s] ELSE 0
    <3>1. procs' = [procs EXCEPT ![g] = [procs[g] EXCEPT !.warm = w, !.await = a]]
      BY <1>5 DEF WarmRestart, WarmAcquire
    <3>2. procs[g] \in Managed /\ w \in {"no", "armed", "halting"} /\ a \in Nat
      BY <2>0 DEF TypeOK
    <3> HIDE DEF w, a
    <3>3. [procs[g] EXCEPT !.warm = w, !.await = a] \in Managed
      BY <3>2 DEF Managed
    <3> QED
      BY <3>1, <3>3, ProcsUpdateType
  <2> QED
    BY <1>5, <2>1, <2>2 DEF WarmRestart, WarmAcquire, TypeOK, health
<1>6. ASSUME NEW t \in Tasks, Resume(t) PROVE TypeOK'
  <2>1. task[t].seen \in 0..MaxGen /\ (task[t].op # "none" => task[t].srv \in Servers)
    BY DEF TypeOK, Call, HasServer
  <2>2. CASE AcquireRetry(t)
    BY <2>1, <2>2, AcquireType DEF AcquireRetry
  <2>3. CASE StopStarted(t)
    <3>1. sweep' \in [Sweepers -> Sweep]
      BY <2>3 DEF StopStarted, TypeOK
    <3> QED
      BY <2>1, <2>3, <3>1, StopSettledType DEF StopStarted
  <2>4. CASE StopHalted(t)
    BY <2>1, <2>4, StopNowType DEF StopHalted, TypeOK
  <2>5. CASE StopDone(t)
    <3>1. task' \in [Tasks -> Call]
      BY <2>5 DEF StopDone, TypeOK, Call, NoTask
    <3> QED
      BY <2>5, <3>1 DEF StopDone, TypeOK, slots, health, children
  <2> QED
    BY <1>6, <2>2, <2>3, <2>4, <2>5 DEF Resume
<1>7. ASSUME NEW s \in Servers, NEW t \in Acquirers, AcquireCall(t, s) PROVE TypeOK'
  BY <1>7, AcquireType DEF AcquireCall, Tasks
<1>8. ASSUME NEW s \in Servers, NEW t \in Stoppers, StopCall(t, s) PROVE TypeOK'
  BY <1>8, StopType DEF StopCall, Tasks, TypeOK
<1>9. ASSUME NEW w \in Sweepers, SweepStep(w) PROVE TypeOK'
  <2> w \in Tasks
    BY DEF Tasks
  <2>1. ASSUME NEW due \in SUBSET Gens, \A g \in due : Launched(g), SweepTurn(w, due)
        PROVE  TypeOK'
    <3>1. PICK g \in due : /\ Stop(w, procs[g].srv)
                           /\ sweep' = [sweep EXCEPT ![w] = [cur |-> g, due |-> due \ {g}]]
      BY <2>1 DEF SweepTurn
    <3>2. sweep' \in [Sweepers -> Sweep]
      BY <3>1 DEF TypeOK, Sweep, Gens
    <3> QED
      BY <2>1, <3>1, <3>2, StopType DEF Launched
  <2>2. CASE SweepStart(w)
    <3>1. PICK due \in SUBSET {running[s] : s \in IdleServers} : 0 \notin due /\ SweepTurn(w, due)
      BY <2>2 DEF SweepStart
    <3>2. \A s \in Servers : running[s] # 0 => running[s] \in Gens /\ Launched(running[s])
      BY DEF TypeOK, Gens, Launched, RunningIsOwn
    <3>3. IdleServers \subseteq Servers
      BY ConstantsAssumption
    <3>4. \A g \in due : g \in Gens /\ Launched(g)
      BY <3>1, <3>2, <3>3
    <3> QED
      BY <2>1, <3>1, <3>4
  <2>3. CASE SweepNext(w)
    <3>1. \A g \in sweep[w].due : g \in Gens /\ Launched(g)
      BY DEF TypeOK, Sweep, HasServer
    <3> QED
      BY <2>1, <2>3, <3>1 DEF SweepNext
  <2>4. CASE SweepEnd(w)
    <3>1. sweep' \in [Sweepers -> Sweep]
      BY <2>4 DEF SweepEnd, TypeOK, Sweep
    <3> QED
      BY <2>4, <3>1 DEF SweepEnd, TypeOK, slots, health, children
  <2> QED
    BY <1>9, <2>2, <2>3, <2>4 DEF SweepStep
<1>10. ASSUME ShutdownCall \/ ShutdownStep PROVE TypeOK'
  <2>1. CASE ShutdownCall
    BY <2>1 DEF ShutdownCall, TypeOK, Phases, slots, health, children
  <2>2. CASE ShutdownStarted
    BY <2>2 DEF ShutdownStarted, TypeOK, Phases, Gens, slots, health, children
  <2>3. CASE ShutdownHalted
    <3> DEFINE all == {running[s] : s \in Servers} \ {0}
    <3>1. all \in SUBSET Gens
      BY DEF TypeOK, Gens
    <3>2. procs' \in [Gens -> Managed]
      <4>1. ASSUME NEW g \in Gens
            PROVE  [procs[g] EXCEPT !.stopping = TRUE, !.term = TRUE] \in Managed
        BY ManagedFields DEF TypeOK
      <4> QED
        BY <2>3, <4>1 DEF ShutdownHalted, TypeOK
    <3>3. shutdown' \in [phase : Phases, awaits : SUBSET Gens]
      BY <2>3, <3>1 DEF ShutdownHalted, Phases
    <3>4. running' \in [Servers -> 0..MaxGen] /\ halts' \in SUBSET Gens
      BY <2>3, <3>1 DEF ShutdownHalted, TypeOK
    <3> QED
      BY <2>3, <3>2, <3>3, <3>4 DEF ShutdownHalted, TypeOK, health
  <2>4. CASE ShutdownDone
    BY <2>4 DEF ShutdownDone, TypeOK, Phases, slots, health, children
  <2> QED
    BY <1>10, <2>1, <2>2, <2>3, <2>4 DEF ShutdownStep
<1>11. CASE UNCHANGED vars
  BY <1>11 DEF vars, slots, health, children, calls, TypeOK
<1> QED
  BY <1>1, <1>2, <1>3, <1>4, <1>5, <1>6, <1>7, <1>8, <1>9, <1>10, <1>11 DEF Next, Loop, ProcStep

-----------------------------------------------------------------------------
(***************************************************************************)
(* Most steps only let processes fade: they neither launch one, nor put    *)
(* one in a map, nor reopen a connection.  One argument serves them all.   *)
(***************************************************************************)

Born == {"alive", "exited", "closing", "done"}

\* The process as far as the invariants see it, or what is left of it after this step.
Fades(g) ==
    /\ procs'[g].srv = procs[g].srv
    /\ procs'[g].stopping = procs[g].stopping
    /\ procs'[g].open => procs[g].open
    /\ \/ procs'[g].life = procs[g].life
       \/ procs[g].life \in Born /\ procs'[g].life \in Born \ {"alive"}
    /\ procs'[g].warm # "no" => procs[g].warm # "no" \/ procs[g].life # "unborn"

Dead(g) == procs'[g].life # "alive"

Fade ==
    /\ \A g \in Gens : Fades(g)
    /\ \A s \in Servers : \/ running'[s] = running[s]
                          \/ running'[s] = 0 /\ running[s] # 0 /\ Dead(running[s])
    /\ \A s \in Servers : \/ halting'[s] = halting[s]
                          \/ halting[s] \in Gens /\ Dead(halting[s])
    /\ halts' \subseteq halts
    /\ \A g \in Gens : g \in halts => g \in halts' \/ Dead(g)
    /\ generationSeq' = generationSeq
    /\ ShuttingDown => ShuttingDown'
    /\ \A s \in Servers :
           /\ starting'[s].at # "no" => starting[s].at # "no" \/ Spawns(s)
           /\ starting'[s].at = "launch" => starting'[s] = starting[s]

Slots == /\ NewbornClean /\ LaunchingIsOwn /\ RunningIsOwn /\ SpawnReplacesClosed
         /\ HaltedHoldsSlot /\ LiveProcessIsOwned /\ OneProcessPerServer

LEMMA FadeKeepsSlots ==
    ASSUME TypeOK, HasServer, Slots, Fade
    PROVE  Slots'
<1> USE DEF Slots, Fade, Fades, Dead, Born
<1>0. /\ \A s \in Servers : running[s] # 0 => running[s] \in Gens
      /\ \A g \in Gens : g # 0
      /\ \A g \in Gens : Connected(g)' => Connected(g)
      /\ \A g \in Gens : Connected(g) => procs[g].srv \in Servers
  BY NoGeneration DEF TypeOK, Gens, Connected, HasServer, Launched
<1>1. NewbornClean'
  BY DEF NewbornClean
<1>2. LaunchingIsOwn'
  BY DEF LaunchingIsOwn
<1>3. RunningIsOwn'
  BY <1>0 DEF RunningIsOwn
<1>4. SpawnReplacesClosed'
  <2> SUFFICES ASSUME NEW s \in Servers, starting'[s].at # "no", running'[s] # 0
               PROVE  ~procs'[running[s]].open /\ running'[s] = running[s]
    BY DEF SpawnReplacesClosed
  <2>1. running'[s] = running[s] /\ running[s] \in Gens
    BY <1>0
  <2>2. ~procs[running[s]].open
    BY <2>1, <1>0 DEF SpawnReplacesClosed, Spawns, Fresh, Reusable, RunningIsOwn
  <2> QED
    BY <2>1, <2>2
<1>5. HaltedHoldsSlot'
  <2> SUFFICES ASSUME NEW g \in Gens, g \in halts', Connected(g)'
               PROVE  /\ running'[procs'[g].srv] = 0
                      /\ starting'[procs'[g].srv].at = "no"
                      /\ halting'[procs'[g].srv] = g \/ ShuttingDown'
    BY DEF HaltedHoldsSlot
  <2> DEFINE s == procs[g].srv
  <2>1. s \in Servers /\ procs'[g].srv = s /\ procs'[g].life = "alive"
    BY <1>0 DEF Connected
  <2>2. running[s] = 0 /\ starting[s].at = "no" /\ (halting[s] = g \/ ShuttingDown)
    BY <1>0 DEF HaltedHoldsSlot
  <2>3. ~Spawns(s)
    BY <2>2, <1>0 DEF Spawns, Fresh
  <2> QED
    BY <2>1, <2>2, <2>3
<1>6. LiveProcessIsOwned'
  BY <1>0 DEF LiveProcessIsOwned, Connected
<1>7. OneProcessPerServer'
  BY <1>0 DEF OneProcessPerServer
<1> QED
  BY <1>1, <1>2, <1>3, <1>4, <1>5, <1>6, <1>7

\* What a step does to one process, read off the record update it makes.
LEMMA ProcsUpdate ==
    ASSUME TypeOK, NEW g \in Gens, NEW r, procs' = [procs EXCEPT ![g] = r]
    PROVE  \A h \in Gens : procs'[h] = IF h = g THEN r ELSE procs[h]
BY DEF TypeOK

LEMMA ProcsKept ==
    ASSUME procs' = procs
    PROVE  \A g \in Gens : Fades(g)
BY DEF Fades

LEMMA FadeOne ==
    ASSUME TypeOK, NEW g \in Gens, NEW r \in Managed, procs' = [procs EXCEPT ![g] = r],
           r.srv = procs[g].srv, r.stopping = procs[g].stopping,
           r.open => procs[g].open,
           r.life = procs[g].life
              \/ (procs[g].life \in Born /\ r.life \in Born \ {"alive"}),
           r.warm # "no" => procs[g].warm # "no" \/ procs[g].life # "unborn"
    PROVE  \A h \in Gens : Fades(h)
BY ProcsUpdate DEF Fades

\* The steps that start nothing new and stop nothing.
LEMMA SpawnFades ==
    ASSUME TypeOK, NEW s \in Servers,
           AdmitOk(s) \/ AdmitRefused(s) \/ SpecError(s) \/ SpecMissing(s)
    PROVE  Fade
<1>1. /\ running' = running /\ halting' = halting /\ halts' = halts
      /\ generationSeq' = generationSeq /\ procs' = procs /\ shutdown' = shutdown
  BY DEF AdmitOk, AdmitRefused, SpecError, SpecMissing, children, calls
<1>2. \A g \in Gens : Fades(g)
  BY <1>1, ProcsKept
<1>3. \A z \in Servers :
         /\ starting'[z].at # "no" => starting[z].at # "no"
         /\ starting'[z].at = "launch" => starting'[z] = starting[z]
  <2>1. CASE AdmitOk(s)
    BY <2>1 DEF AdmitOk, TypeOK, Spawn
  <2>2. CASE Settle(s)
    BY <2>2 DEF Settle, NotStarting, TypeOK
  <2> QED
    BY <2>1, <2>2 DEF AdmitRefused, SpecError, SpecMissing
<1> QED
  BY <1>1, <1>2, <1>3 DEF Fade, ShuttingDown

\* An acquire, or a warm restart, may begin a spawn.
LEMMA BeginSpawnFades ==
    ASSUME TypeOK, NEW s \in Servers, BeginSpawn(s), \A g \in Gens : Fades(g),
           running' = running, halting' = halting, halts' = halts,
           generationSeq' = generationSeq, shutdown' = shutdown
    PROVE  Fade
<1>1. \A z \in Servers :
         /\ starting'[z].at # "no" => starting[z].at # "no" \/ Spawns(z)
         /\ starting'[z].at = "launch" => starting'[z] = starting[z]
  BY DEF BeginSpawn, TypeOK
<1> QED
  BY <1>1 DEF Fade, ShuttingDown

LEMMA AcquireFades ==
    ASSUME TypeOK, NEW s \in Servers, NEW t, Acquire(t, s)
    PROVE  Fade
<1>1. \A g \in Gens : Fades(g)
  BY ProcsKept DEF Acquire, children
<1> QED
  BY <1>1, BeginSpawnFades DEF Acquire, children

LEMMA WarmFades ==
    ASSUME TypeOK, HasServer, NEW g \in Gens, WarmRestart(g)
    PROVE  Fade
<1> DEFINE s == procs[g].srv
           waits == ~ShuttingDown /\ Waits(s)
           w == IF waits THEN "halting" ELSE "no"
           a == IF waits THEN halting[s] ELSE 0
           r == [procs[g] EXCEPT !.warm = w, !.await = a]
<1>1. s \in Servers /\ procs[g].warm # "no" /\ procs[g] \in Managed
  BY DEF WarmRestart, HasServer, Launched, TypeOK
<1>2. procs' = [procs EXCEPT ![g] = r]
  BY DEF WarmRestart, WarmAcquire
<1>3. w \in {"no", "armed", "halting"} /\ a \in Nat
  BY <1>1, NoGeneration DEF TypeOK
<1>4. r \in Managed /\ r.srv = procs[g].srv /\ r.stopping = procs[g].stopping
      /\ r.open = procs[g].open /\ r.life = procs[g].life
  <2> HIDE DEF w, a
  <2> QED
    BY <1>1, <1>3 DEF Managed
<1>5. \A h \in Gens : Fades(h)
  <2> HIDE DEF r, w, a
  <2> QED
    BY <1>1, <1>2, <1>4, FadeOne
<1> QED
  BY <1>1, <1>5, BeginSpawnFades DEF WarmRestart, WarmAcquire

\* What happens to a process: it exits, is seen to have exited, loses its connection.
LEMMA ProcessFades ==
    ASSUME TypeOK, HasServer, Slots, NEW g \in Gens,
           TransportClosed(g) \/ GraceTimer(g) \/ Exit(g) \/ ExitStep(g)
    PROVE  Fade
<1>1. procs[g] \in Managed
  BY DEF TypeOK
<1>2. ASSUME \A h \in Gens : Fades(h),
             running' = running, starting' = starting, halting' = halting, halts' = halts,
             generationSeq' = generationSeq, shutdown' = shutdown
      PROVE  Fade
  BY <1>2 DEF Fade, ShuttingDown
<1>3. CASE TransportClosed(g)
  <2> DEFINE b == ~ShuttingDown /\ InUse(g)
             r == [procs[g] EXCEPT !.open = FALSE, !.grace = b]
  <2>1. procs' = [procs EXCEPT ![g] = r]
    BY <1>3 DEF TransportClosed
  <2>2. r \in Managed /\ r.srv = procs[g].srv /\ r.stopping = procs[g].stopping
        /\ r.open = FALSE /\ r.life = procs[g].life /\ r.warm = procs[g].warm
    <3>1. b \in BOOLEAN
      OBVIOUS
    <3> HIDE DEF b
    <3> QED
      BY <1>1, <3>1 DEF Managed
  <2>3. \A h \in Gens : Fades(h)
    <3> HIDE DEF r
    <3> QED
      BY <2>1, <2>2, FadeOne
  <2> QED
    BY <1>2, <1>3, <2>3 DEF TransportClosed, slots, calls
<1>4. CASE GraceTimer(g)
  <2> DEFINE b == procs[g].term \/ InUse(g)
             r == [procs[g] EXCEPT !.grace = FALSE, !.term = b]
  <2>1. procs' = [procs EXCEPT ![g] = r]
    BY <1>4 DEF GraceTimer
  <2>2. r \in Managed /\ r.srv = procs[g].srv /\ r.stopping = procs[g].stopping
        /\ r.open = procs[g].open /\ r.life = procs[g].life /\ r.warm = procs[g].warm
    <3>1. b \in BOOLEAN
      OBVIOUS
    <3> HIDE DEF b
    <3> QED
      BY <1>1, <3>1 DEF Managed
  <2>3. \A h \in Gens : Fades(h)
    <3> HIDE DEF r
    <3> QED
      BY <2>1, <2>2, FadeOne
  <2> QED
    BY <1>2, <1>4, <2>3 DEF GraceTimer, slots, calls
<1>5. CASE Exit(g)
  <2> DEFINE r == [procs[g] EXCEPT !.life = "exited"]
  <2>1. procs' = [procs EXCEPT ![g] = r]
    BY <1>5 DEF Exit
  <2>2. r \in Managed /\ r.srv = procs[g].srv /\ r.stopping = procs[g].stopping
        /\ r.open = procs[g].open /\ r.life = "exited" /\ r.warm = procs[g].warm
    BY <1>1 DEF Managed, Lives
  <2>3. \A h \in Gens : Fades(h)
    <3> HIDE DEF r
    <3> QED
      BY <1>5, <2>1, <2>2, FadeOne DEF Exit, Born
  <2> QED
    BY <1>2, <1>5, <2>3 DEF Exit, slots, calls
<1>6. CASE ExitSeen(g)
  <2> DEFINE r == [procs[g] EXCEPT !.life = "closing", !.open = FALSE]
  <2>1. procs' = [procs EXCEPT ![g] = r] /\ procs[g].life = "exited"
    BY <1>6 DEF ExitSeen
  <2>2. r \in Managed /\ r.srv = procs[g].srv /\ r.stopping = procs[g].stopping
        /\ r.open = FALSE /\ r.life = "closing" /\ r.warm = procs[g].warm
    BY <1>1 DEF Managed, Lives
  <2> HIDE DEF r
  <2>3. \A h \in Gens : Fades(h)
    BY <2>1, <2>2, FadeOne DEF Born
  <2>4. procs'[g].life = "closing" /\ g # 0
    <3>1. procs'[g].life = "closing"
      BY <2>1, <2>2 DEF TypeOK
    <3> QED
      BY <3>1, NoGeneration DEF Gens
  <2>5. \A s \in Servers : \/ running'[s] = running[s]
                           \/ running'[s] = 0 /\ running[s] # 0 /\ Dead(running[s])
    <3>1. running \in [Servers -> 0..MaxGen]
      BY DEF TypeOK
    <3>2. CASE running' = running
      BY <3>2
    <3>3. CASE running[procs[g].srv] = g /\ running' = [running EXCEPT ![procs[g].srv] = 0]
      <4> SUFFICES ASSUME NEW s \in Servers
                   PROVE  IF s = procs[g].srv THEN running'[s] = 0 /\ running[s] = g
                                              ELSE running'[s] = running[s]
        BY <2>4 DEF Dead
      <4> QED
        BY <3>1, <3>3
    <3> QED
      BY <1>6, <3>2, <3>3 DEF ExitSeen
  <2> QED
    BY <1>6, <2>3, <2>5 DEF ExitSeen, Fade, calls, ShuttingDown
<1>7. CASE ExitExpected(g)
  <2> DEFINE r == [procs[g] EXCEPT !.life = "done"]
  <2>1. procs' = [procs EXCEPT ![g] = r] /\ procs[g].life = "closing"
    BY <1>7 DEF ExitExpected
  <2>2. r \in Managed /\ r.srv = procs[g].srv /\ r.stopping = procs[g].stopping
        /\ r.open = procs[g].open /\ r.life = "done" /\ r.warm = procs[g].warm
    BY <1>1 DEF Managed, Lives
  <2> HIDE DEF r
  <2>3. \A h \in Gens : Fades(h)
    BY <2>1, <2>2, FadeOne DEF Born
  <2> QED
    BY <1>2, <1>7, <2>3 DEF ExitExpected, slots, calls
<1>8. ASSUME NEW healthy \in BOOLEAN, ExitCrash(g, healthy) PROVE Fade
  <2> PICK w, n : procs' = [procs EXCEPT ![g] =
              [procs[g] EXCEPT !.life = "done", !.warm = w, !.await = n]]
    BY <1>8 DEF ExitCrash
  <2>1. procs[g].life = "closing"
    BY <1>8 DEF ExitCrash
  <2> DEFINE r == [procs[g] EXCEPT !.life = "done", !.warm = w, !.await = n]
  <2>2. r.srv = procs[g].srv /\ r.stopping = procs[g].stopping
        /\ r.open = procs[g].open /\ r.life = "done"
    BY <1>1 DEF Managed
  <2> HIDE DEF r
  <2>3. \A h \in Gens : procs'[h] = IF h = g THEN r ELSE procs[h]
    BY ProcsUpdate DEF r
  <2>4. \A h \in Gens : Fades(h)
    BY <2>1, <2>2, <2>3 DEF Fades, Born
  <2> QED
    BY <1>2, <1>8, <2>4 DEF ExitCrash, slots, calls
<1> QED
  BY <1>3, <1>4, <1>5, <1>6, <1>7, <1>8 DEF ExitStep

\* A halt is over only when its process is.
LEMMA HaltDoneFades ==
    ASSUME TypeOK, NEW g \in Gens, HaltDone(g)
    PROVE  Fade
<1>1. /\ \A h \in Gens : Fades(h)
      /\ running' = running /\ starting' = starting /\ generationSeq' = generationSeq
      /\ shutdown' = shutdown /\ halts' = halts \ {g}
  BY ProcsKept DEF HaltDone, children, calls
<1>2. Dead(g)
  BY DEF HaltDone, Dead, children
<1>3. \A s \in Servers : halting'[s] = IF halting[s] = g THEN 0 ELSE halting[s]
  BY DEF HaltDone
<1> QED
  BY <1>1, <1>2, <1>3 DEF Fade, ShuttingDown

\* The steps that only move calls, timers and the reported state.
LEMMA CallsFade ==
    ASSUME UNCHANGED <<slots, children>>, ShuttingDown => ShuttingDown'
    PROVE  Fade
BY ProcsKept DEF Fade, slots, children

-----------------------------------------------------------------------------
(***************************************************************************)
(* The steps that launch a process, and those that stop one.               *)
(***************************************************************************)

LEMMA GenFacts ==
    ASSUME TypeOK
    PROVE  /\ \A s \in Servers : running[s] # 0 => running[s] \in Gens
           /\ \A g \in Gens : g # 0 /\ g \in Nat
           /\ generationSeq \in Nat
           /\ \A g \in Gens : procs[g] \in Managed
BY NoGeneration DEF TypeOK, Gens

\* A new generation is unborn, so nothing refers to it yet.
LEMMA SpecOkKeepsSlots ==
    ASSUME TypeOK, HasServer, Slots, NEW s \in Servers, SpecOk(s)
    PROVE  Slots'
<1> DEFINE g == generationSeq + 1
           r == [procs[g] EXCEPT !.srv = s, !.life = "launching"]
<1> USE GenFacts DEF Slots
<1>1. g \in Gens /\ procs[g].life = "unborn" /\ generationSeq' = g
  <2>1. generationSeq < MaxGen /\ generationSeq' = g
    BY DEF SpecOk
  <2>2. g \in Gens /\ g > generationSeq
    BY <2>1, NoGeneration DEF TypeOK, Gens
  <2> QED
    BY <2>1, <2>2 DEF NewbornClean
<1>2. /\ running' = running /\ halting' = halting /\ halts' = halts /\ shutdown' = shutdown
      /\ starting[s].at = "spec"
      /\ \A z \in Servers : starting'[z] = IF z = s THEN [at |-> "launch", gen |-> g]
                                                 ELSE starting[z]
      /\ \A h \in Gens : procs'[h] = IF h = g THEN r ELSE procs[h]
  BY DEF SpecOk, TypeOK, calls
<1>3. r.srv = s /\ r.life = "launching" /\ r.open = procs[g].open
      /\ r.stopping = procs[g].stopping
  BY <1>1 DEF Managed
<1> HIDE DEF g, r
<1>4. NewbornClean'
  BY <1>1, <1>2, <1>3 DEF NewbornClean, g
<1>5. LaunchingIsOwn'
  BY <1>1, <1>2, <1>3 DEF LaunchingIsOwn
<1>6. RunningIsOwn'
  BY <1>1, <1>2, <1>3 DEF RunningIsOwn
<1>7. SpawnReplacesClosed'
  BY <1>1, <1>2, <1>3 DEF SpawnReplacesClosed, RunningIsOwn
<1>8. \A h \in Gens : /\ Connected(h)' <=> Connected(h)
                      /\ h # g => procs'[h].srv = procs[h].srv
                      /\ h = g => ~Connected(h)
  BY <1>1, <1>2, <1>3 DEF Connected
<1>9. HaltedHoldsSlot'
  BY <1>2, <1>8 DEF HaltedHoldsSlot, ShuttingDown, Connected, HasServer, Launched
<1>10. LiveProcessIsOwned'
  BY <1>2, <1>8 DEF LiveProcessIsOwned
<1>11. OneProcessPerServer'
  BY <1>8 DEF OneProcessPerServer
<1> QED
  BY <1>4, <1>5, <1>6, <1>7, <1>9, <1>10, <1>11

\* What the launched process replaces in the running map has lost its connection.
LEMMA LaunchOkKeepsSlots ==
    ASSUME TypeOK, HasServer, Slots, NEW s \in Servers, LaunchOk(s)
    PROVE  Slots'
<1> DEFINE g == starting[s].gen
           r == [procs[g] EXCEPT !.life = "alive", !.open = TRUE]
<1> USE GenFacts DEF Slots
<1>1. /\ starting[s].at = "launch" /\ g \in Gens /\ procs[g].srv = s
      /\ procs[g].life = "launching" /\ ~procs[g].stopping /\ g \notin halts
  BY DEF LaunchOk, LaunchingIsOwn, NewbornClean
<1>2. /\ halting' = halting /\ halts' = halts /\ shutdown' = shutdown
      /\ generationSeq' = generationSeq
      /\ \A z \in Servers : running'[z] = IF z = s THEN g ELSE running[z]
      /\ \A z \in Servers : starting'[z] = IF z = s THEN NotStarting ELSE starting[z]
      /\ \A h \in Gens : procs'[h] = IF h = g THEN r ELSE procs[h]
  BY DEF LaunchOk, Settle, TypeOK
<1>3. r.srv = s /\ r.life = "alive" /\ r.open = TRUE /\ r.stopping = procs[g].stopping
  BY <1>1 DEF Managed
<1> HIDE DEF g, r
<1>4. NewbornClean'
  BY <1>1, <1>2, <1>3 DEF NewbornClean
<1>5. LaunchingIsOwn'
  <2> SUFFICES ASSUME NEW z \in Servers, starting'[z].at = "launch"
               PROVE  /\ starting'[z].gen \in Gens
                      /\ procs'[starting'[z].gen].srv = z
                      /\ procs'[starting'[z].gen].life = "launching"
    BY DEF LaunchingIsOwn
  <2>1. z # s /\ starting'[z] = starting[z]
    BY <1>2 DEF NotStarting
  <2> QED
    BY <1>1, <1>2, <2>1 DEF LaunchingIsOwn
<1>6. RunningIsOwn'
  BY <1>1, <1>2, <1>3 DEF RunningIsOwn
<1>7. SpawnReplacesClosed'
  BY <1>1, <1>2, <1>3 DEF SpawnReplacesClosed, RunningIsOwn, NotStarting
<1>8. \A h \in Gens : h # g => /\ Connected(h)' <=> Connected(h)
                               /\ procs'[h].srv = procs[h].srv
  BY <1>2 DEF Connected
<1>9. \A h \in Gens : Connected(h) => procs[h].srv # s
  BY <1>1 DEF LiveProcessIsOwned, SpawnReplacesClosed, HaltedHoldsSlot, Connected
<1>10. HaltedHoldsSlot'
  BY <1>1, <1>2, <1>8, <1>9
     DEF HaltedHoldsSlot, ShuttingDown, Connected, HasServer, Launched
<1>11. LiveProcessIsOwned'
  BY <1>1, <1>2, <1>3, <1>8, <1>9 DEF LiveProcessIsOwned, Connected, HasServer, Launched
<1>12. OneProcessPerServer'
  BY <1>1, <1>2, <1>3, <1>8, <1>9 DEF OneProcessPerServer
<1> QED
  BY <1>4, <1>5, <1>6, <1>7, <1>10, <1>11, <1>12

LEMMA LaunchErrorKeepsSlots ==
    ASSUME TypeOK, HasServer, Slots, NEW s \in Servers, LaunchError(s)
    PROVE  Slots'
<1> DEFINE g == starting[s].gen
           r == [procs[g] EXCEPT !.life = "failed"]
<1> USE GenFacts DEF Slots
<1>1. g \in Gens /\ procs[g].srv = s /\ procs[g].life = "launching"
  BY DEF LaunchError, LaunchingIsOwn
<1>2. /\ running' = running /\ halting' = halting /\ halts' = halts /\ shutdown' = shutdown
      /\ generationSeq' = generationSeq
      /\ \A z \in Servers : starting'[z] = IF z = s THEN NotStarting ELSE starting[z]
      /\ \A h \in Gens : procs'[h] = IF h = g THEN r ELSE procs[h]
  BY DEF LaunchError, Settle, TypeOK
<1>3. r.srv = s /\ r.life = "failed" /\ r.open = procs[g].open
      /\ r.stopping = procs[g].stopping
  BY <1>1 DEF Managed
<1> HIDE DEF g, r
<1>4. NewbornClean'
  BY <1>1, <1>2, <1>3 DEF NewbornClean
<1>5. LaunchingIsOwn'
  <2> SUFFICES ASSUME NEW z \in Servers, starting'[z].at = "launch"
               PROVE  /\ starting'[z].gen \in Gens
                      /\ procs'[starting'[z].gen].srv = z
                      /\ procs'[starting'[z].gen].life = "launching"
    BY DEF LaunchingIsOwn
  <2>1. z # s /\ starting'[z] = starting[z]
    BY <1>2 DEF NotStarting
  <2> QED
    BY <1>1, <1>2, <2>1 DEF LaunchingIsOwn
<1>6. RunningIsOwn'
  BY <1>1, <1>2, <1>3 DEF RunningIsOwn
<1>7. SpawnReplacesClosed'
  BY <1>1, <1>2, <1>3 DEF SpawnReplacesClosed, RunningIsOwn, NotStarting
<1>8. \A h \in Gens : /\ Connected(h)' <=> Connected(h)
                      /\ procs'[h].srv = procs[h].srv
  BY <1>1, <1>2, <1>3 DEF Connected
<1>9. HaltedHoldsSlot'
  BY <1>2, <1>8 DEF HaltedHoldsSlot, ShuttingDown, Connected, HasServer, Launched, NotStarting
<1>10. LiveProcessIsOwned'
  BY <1>2, <1>8 DEF LiveProcessIsOwned
<1>11. OneProcessPerServer'
  BY <1>8 DEF OneProcessPerServer
<1> QED
  BY <1>4, <1>5, <1>6, <1>7, <1>9, <1>10, <1>11

\* stop moves the running process to the halting map: no other is halted and connected.
LEMMA StopNowKeepsSlots ==
    ASSUME TypeOK, HasServer, Slots, NEW t \in Tasks, NEW s \in Servers, NEW seen,
           StopNow(t, s, seen), UNCHANGED <<starting, generationSeq, shutdown>>
    PROVE  Slots'
<1> DEFINE g == running[s]
           r == [procs[g] EXCEPT !.stopping = TRUE, !.term = TRUE]
<1> USE GenFacts DEF Slots
<1>1. CASE g = 0
  <2>1. UNCHANGED <<slots, children>>
    BY <1>1 DEF StopNow, slots, children
  <2> QED
    BY <2>1, CallsFade, FadeKeepsSlots DEF ShuttingDown
<1>2. CASE g # 0
  <2>1. /\ g \in Gens /\ procs[g].srv = s /\ procs[g].life \in Born
        /\ starting[s].at # "no" => ~procs[g].open
    <3>1. g \in Gens
      BY <1>2
    <3>2. procs[g].life \in Lives
      BY <3>1 DEF Managed
    <3> QED
      BY <1>2, <3>1, <3>2 DEF RunningIsOwn, SpawnReplacesClosed, Born, Lives
  <2>2. /\ halts' = halts \cup {g}
        /\ \A z \in Servers : running'[z] = IF z = s THEN 0 ELSE running[z]
        /\ \A z \in Servers : halting'[z] = IF z = s THEN g ELSE halting[z]
        /\ \A h \in Gens : procs'[h] = IF h = g THEN r ELSE procs[h]
    BY <1>2 DEF StopNow, TypeOK
  <2>3. /\ r.srv = s /\ r.life = procs[g].life /\ r.open = procs[g].open
        /\ r.stopping = TRUE
    BY <2>1 DEF Managed
  <2> HIDE DEF g, r
  <2>4. NewbornClean'
    BY <2>1, <2>2, <2>3 DEF NewbornClean, Born
  <2>5. LaunchingIsOwn'
    BY <2>1, <2>2, <2>3 DEF LaunchingIsOwn, Born
  <2>6. RunningIsOwn'
    BY <2>1, <2>2, <2>3 DEF RunningIsOwn
  <2>7. SpawnReplacesClosed'
    BY <2>1, <2>2, <2>3 DEF SpawnReplacesClosed, RunningIsOwn
  <2>8. \A h \in Gens : /\ Connected(h)' <=> Connected(h)
                        /\ procs'[h].srv = procs[h].srv
    BY <2>1, <2>2, <2>3 DEF Connected
  <2>9. \A h \in Gens : h \in halts /\ Connected(h) => procs[h].srv # s
    BY <1>2 DEF HaltedHoldsSlot, g
  <2>10. HaltedHoldsSlot'
    <3> SUFFICES ASSUME NEW h \in Gens, h \in halts', Connected(h)
                 PROVE  /\ running'[procs[h].srv] = 0
                        /\ starting[procs[h].srv].at = "no"
                        /\ halting'[procs[h].srv] = h \/ ShuttingDown
      BY <2>8 DEF HaltedHoldsSlot, ShuttingDown
    <3>1. CASE h = g
      BY <2>1, <2>2, <3>1 DEF Connected
    <3>2. CASE h # g
      <4>1. h \in halts /\ procs[h].srv # s /\ procs[h].srv \in Servers
        BY <2>2, <2>9, <3>2 DEF HasServer, Launched, Connected
      <4> QED
        BY <2>2, <4>1 DEF HaltedHoldsSlot
    <3> QED
      BY <3>1, <3>2
  <2>11. LiveProcessIsOwned'
    BY <2>1, <2>2, <2>8 DEF LiveProcessIsOwned, Connected, HasServer, Launched, g
  <2>12. OneProcessPerServer'
    BY <2>8 DEF OneProcessPerServer
  <2> QED
    BY <2>4, <2>5, <2>6, <2>7, <2>10, <2>11, <2>12
<1> QED
  BY <1>1, <1>2

\* shutdown halts whatever the running map holds at its last snapshot.
LEMMA ShutdownHaltedKeepsSlots ==
    ASSUME TypeOK, HasServer, Slots, ShutdownHalted
    PROVE  Slots'
<1> DEFINE all == {running[s] : s \in Servers} \ {0}
           r(g) == [procs[g] EXCEPT !.stopping = TRUE, !.term = TRUE]
<1> USE GenFacts DEF Slots
<1>1. /\ halting' = halting /\ starting' = starting /\ generationSeq' = generationSeq
      /\ halts' = halts \cup all
      /\ \A s \in Servers : running'[s] = 0
      /\ \A g \in Gens : procs'[g] = IF g \in all THEN r(g) ELSE procs[g]
      /\ ShuttingDown'
  BY DEF ShutdownHalted, ShuttingDown
<1>2. \A g \in Gens : /\ r(g).srv = procs[g].srv /\ r(g).life = procs[g].life
                      /\ r(g).open = procs[g].open /\ r(g).stopping = TRUE
  BY DEF Managed
<1>3. ASSUME NEW g \in all
      PROVE  /\ g \in Gens /\ procs[g].srv \in Servers /\ running[procs[g].srv] = g
             /\ procs[g].life \notin {"unborn", "launching", "failed"}
             /\ starting[procs[g].srv].at # "no" => ~procs[g].open
  BY <1>3 DEF RunningIsOwn, SpawnReplacesClosed
<1> HIDE DEF all, r
<1>4. NewbornClean'
  BY <1>1, <1>2, <1>3 DEF NewbornClean
<1>5. LaunchingIsOwn'
  BY <1>1, <1>2, <1>3 DEF LaunchingIsOwn
<1>6. RunningIsOwn' /\ SpawnReplacesClosed'
  BY <1>1 DEF RunningIsOwn, SpawnReplacesClosed
<1>7. \A h \in Gens : /\ Connected(h)' <=> Connected(h)
                      /\ procs'[h].srv = procs[h].srv
  BY <1>1, <1>2 DEF Connected
<1>8. HaltedHoldsSlot'
  BY <1>1, <1>3, <1>7 DEF HaltedHoldsSlot, Connected, HasServer, Launched
<1>9. LiveProcessIsOwned'
  <2>1. \A h \in Gens : Connected(h) => procs[h].srv \in Servers
    BY DEF Connected, HasServer, Launched
  <2>2. \A h \in Gens : running[procs[h].srv] = h /\ procs[h].srv \in Servers => h \in all
    BY DEF all
  <2> QED
    BY <1>1, <1>7, <2>1, <2>2 DEF LiveProcessIsOwned
<1>10. OneProcessPerServer'
  BY <1>7 DEF OneProcessPerServer
<1> QED
  BY <1>4, <1>5, <1>6, <1>8, <1>9, <1>10

-----------------------------------------------------------------------------
(***************************************************************************)
(* Every step, and the theorems.                                           *)
(***************************************************************************)

\* Where a stop of server s is when it reads the running map.
Clear(t, s) ==
    \/ task[t].op = "none" /\ starting[s].at = "no" /\ halting[s] = 0
    \/ /\ task[t].op = "stop" /\ task[t].srv = s
       /\ \/ task[t].at = "started" /\ halting[s] = 0
          \/ task[t].at = "halting" /\ task[t].gen \notin halts

StopsNow ==
    \E t \in Tasks, s \in Servers, seen \in 0..MaxGen :
        StopNow(t, s, seen) /\ Clear(t, s) /\ UNCHANGED <<starting, generationSeq, shutdown>>

\* A stop of server s that an earlier wait has let go on.
Starts(t, s) == task[t].op = "stop" /\ task[t].srv = s /\ task[t].at = "started"

Kinds == \/ Fade
         \/ \E s \in Servers : SpecOk(s) \/ LaunchOk(s) \/ LaunchError(s)
         \/ StopsNow
         \/ ShutdownHalted

LEMMA StopKinds ==
    ASSUME TypeOK, NEW t \in Tasks, NEW s \in Servers,
           \/ Stop(t, s)
           \/ Starts(t, s) /\ \E seen \in 0..MaxGen : StopSettled(t, s, seen)
    PROVE  Kinds
<1>1. CASE UNCHANGED <<slots, children, shutdown>>
  BY <1>1, CallsFade DEF ShuttingDown, Kinds
<1>2. ASSUME NEW seen \in 0..MaxGen, StopSettled(t, s, seen),
             Starts(t, s) \/ (task[t].op = "none" /\ starting[s].at = "no")
      PROVE  Kinds
  <2>1. CASE halting[s] # 0
    BY <1>1, <1>2, <2>1 DEF StopSettled, slots, children
  <2>2. CASE halting[s] = 0
    BY <1>2, <2>2 DEF StopSettled, StopsNow, Clear, Starts, Kinds
  <2> QED
    BY <2>1, <2>2
<1>3. generationSeq \in 0..MaxGen
  BY DEF TypeOK
<1> QED
  BY <1>1, <1>2, <1>3 DEF Stop, slots, children

\* A step fades, launches, stops or shuts down.
LEMMA StepKinds == TypeOK /\ HasServer /\ Slots /\ [Next]_vars => Kinds
<1> SUFFICES ASSUME TypeOK, HasServer, Slots, [Next]_vars PROVE Kinds
  OBVIOUS
<1> USE DEF Kinds
<1>2. CASE UNCHANGED <<slots, children>> /\ (ShuttingDown => ShuttingDown')
  BY <1>2, CallsFade
<1>3. ASSUME NEW s \in Servers, SpawnStep(s) PROVE Kinds
  BY <1>3, SpawnFades DEF SpawnStep
<1>4. ASSUME NEW s \in Servers, BackoffEnds(s) \/ ResetCall(s) \/ TouchCall(s) PROVE Kinds
  BY <1>2, <1>4 DEF BackoffEnds, ResetCall, TouchCall, calls, ShuttingDown
<1>5. ASSUME NEW g \in Gens, ProcStep(g) \/ Exit(g) PROVE Kinds
  BY <1>5, ProcessFades, WarmFades, HaltDoneFades DEF ProcStep
<1>6. ASSUME NEW t \in Tasks, Resume(t) PROVE Kinds
  <2>1. task[t].seen \in 0..MaxGen /\ (task[t].op # "none" => task[t].srv \in Servers)
    BY DEF HasServer, TypeOK, Call
  <2>2. CASE AcquireRetry(t)
    BY <2>1, <2>2, AcquireFades DEF AcquireRetry
  <2>3. CASE StopStarted(t)
    BY <2>1, <2>3, StopKinds DEF StopStarted, Starts
  <2>4. CASE StopHalted(t)
    BY <2>1, <2>4 DEF StopHalted, StopsNow, Clear
  <2>5. CASE StopDone(t)
    BY <1>2, <2>5 DEF StopDone, ShuttingDown
  <2> QED
    BY <1>6, <2>2, <2>3, <2>4, <2>5 DEF Resume
<1>7. ASSUME NEW s \in Servers, NEW t \in Acquirers, AcquireCall(t, s) PROVE Kinds
  BY <1>7, AcquireFades DEF AcquireCall
<1>8. ASSUME NEW s \in Servers, NEW t \in Stoppers, StopCall(t, s) PROVE Kinds
  BY <1>8, StopKinds DEF StopCall, Tasks
<1>9. ASSUME NEW w \in Sweepers, SweepStep(w) PROVE Kinds
  <2>0. w \in Tasks /\ IdleServers \subseteq Servers
    BY ConstantsAssumption DEF Tasks
  <2>1. ASSUME NEW due, \A g \in due : Launched(g), SweepTurn(w, due) PROVE Kinds
    BY <2>0, <2>1, StopKinds DEF SweepTurn, Launched
  <2>2. CASE SweepStart(w)
    <3>1. \A s \in Servers : running[s] # 0 => Launched(running[s])
      BY DEF Slots, RunningIsOwn, Launched
    <3> QED
      BY <2>0, <2>1, <2>2, <3>1 DEF SweepStart
  <2>3. CASE SweepNext(w)
    BY <2>1, <2>3 DEF SweepNext, HasServer
  <2>4. CASE SweepEnd(w)
    BY <1>2, <2>4 DEF SweepEnd, ShuttingDown
  <2> QED
    BY <1>9, <2>2, <2>3, <2>4 DEF SweepStep
<1>10. ASSUME ShutdownCall \/ ShutdownStep PROVE Kinds
  <2>1. CASE ShutdownCall \/ ShutdownStarted \/ ShutdownDone
    BY <1>2, <2>1 DEF ShutdownCall, ShutdownStarted, ShutdownDone, ShuttingDown
  <2> QED
    BY <1>10, <2>1 DEF ShutdownStep
<1>11. CASE UNCHANGED vars
  BY <1>2, <1>11 DEF vars, calls, ShuttingDown
<1> QED
  BY <1>3, <1>4, <1>5, <1>6, <1>7, <1>8, <1>9, <1>10, <1>11 DEF Next, Loop

LEMMA SlotsStep == TypeOK /\ HasServer /\ Slots /\ [Next]_vars => Slots'
BY StepKinds, FadeKeepsSlots, SpecOkKeepsSlots, LaunchOkKeepsSlots, LaunchErrorKeepsSlots,
   StopNowKeepsSlots, ShutdownHaltedKeepsSlots DEF Kinds, StopsNow

\* A process keeps its server, and gets one when it is launched.
LEMMA LaunchedStep ==
    ASSUME TypeOK, HasServer, Slots, Kinds, NEW g \in Gens
    PROVE  /\ Launched(g) => Launched(g)'
           /\ procs'[g].life # "unborn" \/ procs'[g].warm # "no" => Launched(g)'
<1> USE GenFacts DEF Launched, HasServer
<1>1. CASE Fade
  BY <1>1 DEF Fade, Fades, Born
<1>2. ASSUME NEW s \in Servers, SpecOk(s) PROVE Launched(g)' \/ procs'[g] = procs[g]
  <2> DEFINE n == generationSeq + 1
             r == [procs[n] EXCEPT !.srv = s, !.life = "launching"]
  <2>1. procs'[g] = IF g = n THEN r ELSE procs[g]
    BY <1>2 DEF SpecOk, TypeOK
  <2>2. g = n => r.srv = s
    BY DEF Managed
  <2> QED
    BY <2>1, <2>2
<1>3. ASSUME NEW s \in Servers, LaunchOk(s) PROVE Launched(g)' \/ procs'[g] = procs[g]
  <2> DEFINE n == starting[s].gen
             r == [procs[n] EXCEPT !.life = "alive", !.open = TRUE]
  <2>1. procs'[g] = IF g = n THEN r ELSE procs[g]
    BY <1>3 DEF LaunchOk, TypeOK
  <2>2. g = n => procs[g].srv = s /\ r.srv = procs[n].srv
    BY <1>3 DEF LaunchOk, Slots, LaunchingIsOwn, Managed
  <2> QED
    BY <2>1, <2>2
<1>4. ASSUME NEW s \in Servers, LaunchError(s) PROVE Launched(g)' \/ procs'[g] = procs[g]
  <2> DEFINE n == starting[s].gen
             r == [procs[n] EXCEPT !.life = "failed"]
  <2>1. procs'[g] = IF g = n THEN r ELSE procs[g]
    BY <1>4 DEF LaunchError, TypeOK
  <2>2. g = n => procs[g].srv = s /\ r.srv = procs[n].srv
    BY <1>4 DEF LaunchError, Slots, LaunchingIsOwn, Managed
  <2> QED
    BY <2>1, <2>2
<1>5. ASSUME procs'[g] = procs[g]
              \/ procs'[g] = [procs[g] EXCEPT !.stopping = TRUE, !.term = TRUE]
      PROVE  /\ procs'[g].srv = procs[g].srv /\ procs'[g].life = procs[g].life
             /\ procs'[g].warm = procs[g].warm
  BY <1>5 DEF Managed
<1>6. CASE StopsNow
  <2>1. PICK t \in Tasks, s \in Servers, seen \in 0..MaxGen : StopNow(t, s, seen)
    BY <1>6 DEF StopsNow
  <2>2. CASE running[s] = 0
    BY <2>1, <2>2 DEF StopNow
  <2>3. CASE running[s] # 0
    BY <1>5, <2>1, <2>3 DEF StopNow, TypeOK
  <2> QED
    BY <2>2, <2>3
<1>7. CASE ShutdownHalted
  BY <1>5, <1>7 DEF ShutdownHalted
<1> QED
  BY <1>1, <1>2, <1>3, <1>4, <1>6, <1>7 DEF Kinds

LEMMA SnapshotLaunched ==
    ASSUME Slots
    PROVE  \A due \in SUBSET {running[s] : s \in IdleServers} :
              0 \notin due => \A g \in due : Launched(g)
<1>1. \A s \in Servers : running[s] # 0 => Launched(running[s])
  BY DEF Slots, RunningIsOwn, Launched
<1> QED
  BY <1>1, ConstantsAssumption

\* A suspended call names a server that exists.
LEMMA CallsStep ==
    ASSUME TypeOK, HasServer, Slots, [Next]_vars
    PROVE  \A t \in Tasks : task'[t].op # "none" => task'[t].srv \in Servers
<1> DEFINE Goal == \A t \in Tasks : task'[t].op # "none" => task'[t].srv \in Servers
<1> USE DEF HasServer
<1>1. CASE task' = task
  BY <1>1
<1>2. ASSUME NEW s \in Servers, Settle(s) PROVE Goal
  BY <1>2 DEF Settle, NoTask, TypeOK, Call
<1>3. ASSUME NEW t \in Tasks, NEW c, task' = [task EXCEPT ![t] = c],
             c.op # "none" => c.srv \in Servers
      PROVE  Goal
  BY <1>3 DEF TypeOK
<1>4. ASSUME NEW s \in Servers, SpawnStep(s) PROVE Goal
  BY <1>1, <1>2, <1>4 DEF SpawnStep, AdmitOk, AdmitRefused, SpecError, SpecMissing, SpecOk,
                          LaunchOk, LaunchError, calls
<1>5. ASSUME NEW s \in Servers, NEW t \in Tasks, Acquire(t, s) PROVE Goal
  BY <1>3, <1>5 DEF Acquire, AcquireTask, NoTask
<1>6. ASSUME NEW s \in Servers, NEW t \in Tasks, NEW seen,
             StopNow(t, s, seen) \/ StopSettled(t, s, seen) \/ Stop(t, s)
      PROVE  Goal
  <2>1. ASSUME NEW c, task' = [task EXCEPT ![t] = c], c = NoTask \/ c.srv = s PROVE Goal
    BY <1>3, <2>1 DEF NoTask
  <2> QED
    BY <1>6, <2>1 DEF Stop, StopSettled, StopNow
<1>7. ASSUME NEW t \in Tasks, Resume(t) PROVE Goal
  <2>1. task[t].op # "none" => task[t].srv \in Servers
    OBVIOUS
  <2>2. CASE StopDone(t)
    BY <1>3, <2>2 DEF StopDone, NoTask
  <2> QED
    BY <1>5, <1>6, <1>7, <2>1, <2>2 DEF Resume, AcquireRetry, StopStarted, StopHalted
<1>8. ASSUME NEW w \in Sweepers, NEW due, \A g \in due : Launched(g), SweepTurn(w, due)
      PROVE  Goal
  BY <1>6, <1>8 DEF SweepTurn, Launched, Tasks
<1>9. ASSUME NEW w \in Sweepers, SweepStep(w) PROVE Goal
  BY <1>1, <1>8, <1>9, SnapshotLaunched DEF SweepStep, SweepStart, SweepNext, SweepEnd
<1>10. CASE \E g \in Gens : ProcStep(g) \/ Exit(g)
  BY <1>1, <1>10 DEF ProcStep, TransportClosed, GraceTimer, ExitStep, ExitSeen, ExitExpected,
                     ExitCrash, WarmRestart, WarmAcquire, HaltDone, Exit, calls
<1>11. CASE \E s \in Servers : BackoffEnds(s) \/ ResetCall(s) \/ TouchCall(s)
  BY <1>1, <1>11 DEF BackoffEnds, ResetCall, TouchCall, calls
<1>12. CASE ShutdownCall \/ ShutdownStep
  BY <1>1, <1>12 DEF ShutdownCall, ShutdownStep, ShutdownStarted, ShutdownHalted, ShutdownDone
<1>13. CASE \E s \in Servers : \/ \E t \in Acquirers : AcquireCall(t, s)
                               \/ \E t \in Stoppers : StopCall(t, s)
  BY <1>5, <1>6, <1>13 DEF AcquireCall, StopCall, Tasks
<1>14. CASE UNCHANGED vars
  BY <1>1, <1>14 DEF vars, calls
<1> QED
  BY <1>4, <1>7, <1>9, <1>10, <1>11, <1>12, <1>13, <1>14 DEF Next, Loop

\* A sweep has only launched processes to stop.
LEMMA DueStep ==
    ASSUME TypeOK, HasServer, Slots, [Next]_vars
    PROVE  \A w \in Sweepers : \A g \in sweep'[w].due : Launched(g)
<1> DEFINE Goal == \A w \in Sweepers : \A g \in sweep'[w].due : Launched(g)
<1> USE DEF HasServer
<1>1. CASE sweep' = sweep
  BY <1>1
<1>2. ASSUME NEW s \in Servers, Touch(s) PROVE Goal
  BY <1>2 DEF Touch, TypeOK, Sweep
<1>3. ASSUME NEW s \in Servers, TouchCall(s) PROVE Goal
  BY <1>3 DEF TouchCall, TypeOK, Sweep
<1>4. ASSUME NEW w \in Sweepers, NEW c, NEW due, \A g \in due : Launched(g),
             sweep' = [sweep EXCEPT ![w] = [cur |-> c, due |-> due]]
      PROVE  Goal
  BY <1>4 DEF TypeOK
<1>5. ASSUME NEW w \in Sweepers, NEW due, \A g \in due : Launched(g), SweepTurn(w, due)
      PROVE  Goal
  BY <1>4, <1>5 DEF SweepTurn
<1>6. ASSUME NEW w \in Sweepers, SweepStep(w) PROVE Goal
  <2>1. CASE SweepEnd(w)
    BY <1>4, <2>1 DEF SweepEnd
  <2>2. CASE SweepStart(w) \/ SweepNext(w)
    BY <1>5, <2>2, SnapshotLaunched DEF SweepStart, SweepNext
  <2> QED
    BY <1>6, <2>1, <2>2 DEF SweepStep
<1>7. CASE \E s \in Servers : SpawnStep(s) \/ BackoffEnds(s) \/ ResetCall(s) \/ TouchCall(s)
  BY <1>1, <1>3, <1>7 DEF SpawnStep, AdmitOk, AdmitRefused, SpecError, SpecMissing, SpecOk,
                          LaunchOk, LaunchError, BackoffEnds, ResetCall, calls
<1>8. CASE \E g \in Gens : ProcStep(g) \/ Exit(g)
  BY <1>1, <1>2, <1>8 DEF ProcStep, TransportClosed, GraceTimer, ExitStep, ExitSeen,
       ExitExpected, ExitCrash, WarmRestart, WarmAcquire, HaltDone, Exit, calls, Launched
<1>9. CASE \E t \in Tasks : Resume(t)
  BY <1>1, <1>2, <1>9 DEF Resume, AcquireRetry, Acquire, StopStarted, StopHalted, StopDone
<1>10. CASE \E s \in Servers : \/ \E t \in Acquirers : AcquireCall(t, s)
                               \/ \E t \in Stoppers : StopCall(t, s)
  BY <1>1, <1>2, <1>10 DEF AcquireCall, Acquire, StopCall
<1>11. CASE ShutdownCall \/ ShutdownStep
  BY <1>1, <1>11 DEF ShutdownCall, ShutdownStep, ShutdownStarted, ShutdownHalted, ShutdownDone
<1>12. CASE UNCHANGED vars
  BY <1>1, <1>12 DEF vars, calls
<1> QED
  BY <1>6, <1>7, <1>8, <1>9, <1>10, <1>11, <1>12 DEF Next, Loop

\* Calls and sweeps name servers that exist, in every step.
LEMMA ServersStep == TypeOK /\ HasServer /\ Slots /\ [Next]_vars => HasServer'
<1> SUFFICES ASSUME TypeOK, HasServer, Slots, [Next]_vars PROVE HasServer'
  OBVIOUS
<1>1. Kinds
  BY StepKinds
<1>2. \A w \in Sweepers : \A g \in sweep'[w].due : g \in Gens
  BY TypeStep DEF Slots, TypeOK, Sweep
<1> QED
  BY <1>1, <1>2, LaunchedStep, CallsStep, DueStep DEF HasServer

THEOREM InvariantInit == Init => IInv
<1> SUFFICES ASSUME Init PROVE IInv
  OBVIOUS
<1> USE NoGeneration
<1>1. TypeOK
  <2>1. NoProcess \in Managed
    BY DEF NoProcess, Managed, Lives
  <2>2. NotStarting \in Spawn /\ NoTask \in Call
    BY DEF NotStarting, Spawn, NoTask, Call
  <2>3. [state |-> "stopped", failures |-> 0, pid |-> 0] \in ProcessInfo
    BY DEF ProcessInfo, States
  <2>4. [cur |-> 0, due |-> {}] \in Sweep
    BY DEF Sweep
  <2>5. [phase |-> "no", awaits |-> {}] \in [phase : Phases, awaits : SUBSET Gens]
    BY DEF Phases
  <2> QED
    BY <2>1, <2>2, <2>3, <2>4, <2>5 DEF Init, TypeOK
<1>2. NewbornClean /\ LiveProcessIsOwned /\ OneProcessPerServer /\ HaltedHoldsSlot
  BY DEF Init, NoProcess, NewbornClean, LiveProcessIsOwned, OneProcessPerServer,
         HaltedHoldsSlot, Connected
<1>3. LaunchingIsOwn /\ RunningIsOwn /\ SpawnReplacesClosed
  BY DEF Init, NotStarting, LaunchingIsOwn, RunningIsOwn, SpawnReplacesClosed
<1>4. HasServer
  BY DEF Init, NoProcess, NoTask, HasServer
<1> QED
  BY <1>1, <1>2, <1>3, <1>4 DEF IInv

\* The inductive invariant holds in every reachable state, for any number of servers,
\* callers and launches.
THEOREM Invariant == Spec => []IInv
<1>1. Init => IInv
  BY InvariantInit
<1>2. IInv /\ [Next]_vars => IInv'
  BY TypeStep, SlotsStep, ServersStep DEF IInv, Slots
<1> QED
  BY <1>1, <1>2, PTL DEF Spec

\* The supervisor's maps, calls and records keep their types.
THEOREM TypeCorrect == Spec => []TypeOK
BY Invariant, PTL DEF IInv

\* However starts, stops, crashes, restarts, sweeps and shutdowns interleave, a server never
\* has two live processes with an open connection.
THEOREM OneProcess == Spec => []OneProcessPerServer
BY Invariant, PTL DEF IInv

\* A live process with an open connection is never leaked.
THEOREM Owned == Spec => []LiveProcessIsOwned
BY Invariant, PTL DEF IInv
-----------------------------------------------------------------------------
(***************************************************************************)
(* The marks on a process.  A SIGTERM is due only on one that is stopping  *)
(* or has lost its connection, and who has seen its exit has closed that.  *)
(***************************************************************************)
Unlaunched == {"unborn", "launching", "failed"}

Marked(p) ==
    /\ p.life \in Unlaunched => ~p.term /\ ~p.grace
    /\ p.grace => ~p.open
    /\ p.term /\ p.open => p.stopping
    /\ p.life \in {"closing", "done"} => ~p.open

Marks == \A g \in Gens : Marked(procs[g])

LEMMA OneMarked ==
    ASSUME TypeOK, Marks, NEW g \in Gens, NEW r, procs' = [procs EXCEPT ![g] = r], Marked(r)
    PROVE  Marks'
BY ProcsUpdate DEF Marks, Marked

\* A process that is asked to stop has been launched.
LEMMA HaltMarked ==
    ASSUME NEW p \in Managed, Marked(p), p.life \notin Unlaunched
    PROVE  Marked([p EXCEPT !.stopping = TRUE, !.term = TRUE])
BY DEF Marked, Managed

LEMMA MarksStep == IInv /\ Marks /\ [Next]_vars => Marks'
<1> SUFFICES ASSUME IInv, Marks, [Next]_vars PROVE Marks'
  OBVIOUS
<1> USE DEF Unlaunched
<1>0. /\ TypeOK /\ \A g \in Gens : procs[g] \in Managed /\ Marked(procs[g])
      /\ \A s \in Servers : running[s] # 0 =>
            running[s] \in Gens /\ procs[running[s]].life \notin Unlaunched
  BY GenFacts DEF IInv, Marks, RunningIsOwn
<1>1. CASE procs' = procs
  BY <1>1 DEF Marks
<1>2. ASSUME NEW s \in Servers, SpecOk(s) PROVE Marks'
  <2> DEFINE g == generationSeq + 1
             r == [procs[g] EXCEPT !.srv = s, !.life = "launching"]
  <2>1. g \in Gens /\ procs[g].life = "unborn"
    <3>1. g \in Gens /\ g > generationSeq
      BY <1>0, <1>2, NoGeneration DEF SpecOk, TypeOK, Gens
    <3> QED
      BY <3>1 DEF IInv, NewbornClean
  <2>2. procs' = [procs EXCEPT ![g] = r]
    BY <1>2 DEF SpecOk
  <2>3. Marked(r)
    BY <1>0, <2>1 DEF Marked, Managed
  <2> HIDE DEF g, r
  <2> QED
    BY <1>0, <2>1, <2>2, <2>3, OneMarked
<1>3. ASSUME NEW s \in Servers, LaunchOk(s) \/ LaunchError(s) PROVE Marks'
  <2> DEFINE g == starting[s].gen
             p == [procs[g] EXCEPT !.life = "alive", !.open = TRUE]
             q == [procs[g] EXCEPT !.life = "failed"]
  <2>1. g \in Gens /\ procs[g].life = "launching"
    BY <1>0, <1>3 DEF LaunchOk, LaunchError, IInv, LaunchingIsOwn
  <2>2. procs' = [procs EXCEPT ![g] = p] \/ procs' = [procs EXCEPT ![g] = q]
    BY <1>3 DEF LaunchOk, LaunchError
  <2>3. Marked(p) /\ Marked(q)
    BY <1>0, <2>1 DEF Marked, Managed
  <2> HIDE DEF g, p, q
  <2> QED
    BY <1>0, <2>1, <2>2, <2>3, OneMarked
<1>4. ASSUME NEW g \in Gens, TransportClosed(g) PROVE Marks'
  <2> DEFINE b == ~ShuttingDown /\ InUse(g)
             r == [procs[g] EXCEPT !.open = FALSE, !.grace = b]
  <2>1. procs' = [procs EXCEPT ![g] = r] /\ procs[g].life \in {"alive", "exited"}
    BY <1>4 DEF TransportClosed
  <2>2. Marked(r)
    <3> HIDE DEF b
    <3> QED
      BY <1>0, <2>1 DEF Marked, Managed
  <2> HIDE DEF r
  <2> QED
    BY <1>0, <2>1, <2>2, OneMarked
<1>5. ASSUME NEW g \in Gens, GraceTimer(g) PROVE Marks'
  <2> DEFINE b == procs[g].term \/ InUse(g)
             r == [procs[g] EXCEPT !.grace = FALSE, !.term = b]
  <2>1. procs' = [procs EXCEPT ![g] = r] /\ procs[g].grace
    BY <1>5 DEF GraceTimer
  <2>2. Marked(r)
    <3> HIDE DEF b
    <3> QED
      BY <1>0, <2>1 DEF Marked, Managed
  <2> HIDE DEF r
  <2> QED
    BY <1>0, <2>1, <2>2, OneMarked
<1>6. ASSUME NEW g \in Gens, Exit(g) \/ ExitSeen(g) \/ ExitExpected(g) PROVE Marks'
  <2> DEFINE p == [procs[g] EXCEPT !.life = "exited"]
             q == [procs[g] EXCEPT !.life = "closing", !.open = FALSE]
             r == [procs[g] EXCEPT !.life = "done"]
  <2>1. \/ procs' = [procs EXCEPT ![g] = p] /\ procs[g].life = "alive"
        \/ procs' = [procs EXCEPT ![g] = q] /\ procs[g].life = "exited"
        \/ procs' = [procs EXCEPT ![g] = r] /\ procs[g].life = "closing"
    BY <1>6 DEF Exit, ExitSeen, ExitExpected
  <2>2. /\ procs[g].life = "alive" => Marked(p)
        /\ procs[g].life = "exited" => Marked(q)
        /\ procs[g].life = "closing" => Marked(r)
    BY <1>0 DEF Marked, Managed
  <2> HIDE DEF p, q, r
  <2> QED
    BY <1>0, <2>1, <2>2, OneMarked
<1>7. ASSUME NEW g \in Gens, NEW healthy \in BOOLEAN, ExitCrash(g, healthy) PROVE Marks'
  <2> PICK w, n : procs' = [procs EXCEPT ![g] =
              [procs[g] EXCEPT !.life = "done", !.warm = w, !.await = n]]
    BY <1>7 DEF ExitCrash
  <2> DEFINE r == [procs[g] EXCEPT !.life = "done", !.warm = w, !.await = n]
  <2>1. Marked(r)
    BY <1>0, <1>7 DEF Marked, Managed, ExitCrash
  <2> HIDE DEF r
  <2> QED
    BY <1>0, <2>1, OneMarked DEF r
<1>8. ASSUME NEW g \in Gens, WarmRestart(g) PROVE Marks'
  <2> PICK w, n : procs' = [procs EXCEPT ![g] = [procs[g] EXCEPT !.warm = w, !.await = n]]
    BY <1>8 DEF WarmRestart, WarmAcquire
  <2> DEFINE r == [procs[g] EXCEPT !.warm = w, !.await = n]
  <2>1. Marked(r)
    BY <1>0 DEF Marked, Managed
  <2> HIDE DEF r
  <2> QED
    BY <1>0, <2>1, OneMarked DEF r
<1>9. ASSUME NEW t, NEW s \in Servers, NEW seen, StopNow(t, s, seen) PROVE Marks'
  <2> DEFINE r == [procs[running[s]] EXCEPT !.stopping = TRUE, !.term = TRUE]
  <2>1. running[s] = 0 => procs' = procs
    BY <1>9 DEF StopNow
  <2>2. running[s] # 0 => procs' = [procs EXCEPT ![running[s]] = r]
    BY <1>9 DEF StopNow
  <2>3. running[s] # 0 => Marked(r)
    BY <1>0, HaltMarked
  <2> HIDE DEF r
  <2> QED
    BY <1>0, <1>1, <2>1, <2>2, <2>3, OneMarked
<1>10. ASSUME NEW t, NEW s \in Servers, NEW seen, StopSettled(t, s, seen) \/ Stop(t, s)
       PROVE  Marks'
  BY <1>1, <1>9, <1>10 DEF Stop, StopSettled, children
<1>11. CASE ShutdownHalted
  <2> DEFINE all == {running[s] : s \in Servers} \ {0}
  <2>1. \A g \in Gens : procs'[g] = IF g \in all
            THEN [procs[g] EXCEPT !.stopping = TRUE, !.term = TRUE] ELSE procs[g]
    BY <1>11 DEF ShutdownHalted
  <2>2. \A g \in all : g \in Gens /\ procs[g].life \notin Unlaunched
    BY <1>0
  <2> HIDE DEF all
  <2>3. \A g \in Gens : Marked(procs'[g])
    BY <1>0, <2>1, <2>2, HaltMarked
  <2> QED
    BY <2>3 DEF Marks, Marked
<1>12. ASSUME NEW s \in Servers, SpawnStep(s) PROVE Marks'
  BY <1>1, <1>2, <1>3, <1>12
     DEF SpawnStep, AdmitOk, AdmitRefused, SpecError, SpecMissing, children
<1>13. ASSUME NEW t \in Tasks, Resume(t) PROVE Marks'
  <2>1. task[t].op # "none" => task[t].srv \in Servers
    BY DEF IInv, HasServer
  <2> QED
    BY <1>1, <1>9, <1>10, <1>13, <2>1
       DEF Resume, AcquireRetry, Acquire, StopStarted, StopHalted, StopDone, children
<1>14. ASSUME NEW w \in Sweepers, SweepStep(w) PROVE Marks'
  <2>1. ASSUME NEW due, \A g \in due : Launched(g), SweepTurn(w, due) PROVE Marks'
    BY <1>10, <2>1 DEF SweepTurn, Launched
  <2> QED
    BY <1>1, <1>14, <2>1, SnapshotLaunched
       DEF SweepStep, SweepStart, SweepNext, SweepEnd, IInv, Slots, HasServer, children
<1>15. CASE \E s \in Servers : \/ BackoffEnds(s) \/ ResetCall(s) \/ TouchCall(s)
                               \/ \E t \in Acquirers : AcquireCall(t, s)
                               \/ \E t \in Stoppers : StopCall(t, s)
  BY <1>1, <1>10, <1>15
     DEF BackoffEnds, ResetCall, TouchCall, AcquireCall, Acquire, StopCall, children
<1>16. CASE ShutdownCall \/ ShutdownStep \/ UNCHANGED vars
  BY <1>1, <1>11, <1>16
     DEF ShutdownCall, ShutdownStep, ShutdownStarted, ShutdownDone, vars, children
<1>17. ASSUME NEW g \in Gens, ProcStep(g) \/ Exit(g) PROVE Marks'
  BY <1>1, <1>4, <1>5, <1>6, <1>7, <1>8, <1>17 DEF ProcStep, ExitStep, HaltDone, children
<1> QED
  BY <1>12, <1>13, <1>14, <1>15, <1>16, <1>17 DEF Next, Loop

\* Every process carries only marks that fit, in every reachable state.
THEOREM MarksHold == Spec => []Marks
<1>1. Init => Marks
  BY DEF Init, Marks, Marked, NoProcess, Unlaunched
<1> QED
  BY <1>1, MarksStep, Invariant, PTL DEF Spec

\* acquire hands out no process with a SIGTERM on it, also while a lost connection and its
\* grace timer, a stop or a shutdown are under way.
THEOREM HandsOutLiving == Spec => []NothingDyingIsHandedOut
<1>1. IInv /\ Marks => NothingDyingIsHandedOut
  BY GenFacts DEF IInv, Marks, Marked, RunningIsOwn, NothingDyingIsHandedOut, Reusable
<1> QED
  BY <1>1, MarksHold, Invariant, PTL
-----------------------------------------------------------------------------
(***************************************************************************)
(* The calls.  A call does not move, waits for a spawn, a halt in flight   *)
(* or a halt of its own, or returns.                                       *)
(***************************************************************************)
\* A stop that is told that the spawn it awaited is over.
Woken(t) ==
    /\ task[t].op = "stop" /\ task[t].at = "starting" /\ starting'[task[t].srv].at = "no"
    /\ task'[t].op = "stop" /\ task'[t].at = "started"
    /\ task'[t].srv = task[t].srv /\ task'[t].seen = task[t].seen

\* A stop that begins to wait.
StopAwaits(t) ==
    /\ task'[t].op = "stop" /\ task'[t].srv \in Servers
    /\ task'[t].seen <= generationSeq
    /\ ~(task[t].op = "stop" /\ task[t].at = "halt")
    /\ \/ task'[t].at = "starting"
       \/ /\ task'[t].at = "halting" /\ UNCHANGED <<slots, procs>>
          /\ halting[task'[t].srv] # 0 /\ task'[t].gen = halting[task'[t].srv]
       \/ /\ StopNow(t, task'[t].srv, task'[t].seen) /\ running[task'[t].srv] # 0
          /\ Clear(t, task'[t].srv) /\ UNCHANGED <<starting, generationSeq, shutdown>>
          /\ task'[t].at = "halt" /\ task'[t].gen = running[task'[t].srv]

\* A stop that returns.
StopReturns(t) ==
    /\ task[t].op = "stop" /\ task'[t].op = "none" /\ procs' = procs
    /\ \/ task[t].at = "started" /\ halting[task[t].srv] = 0 /\ running[task[t].srv] = 0
       \/ task[t].at = "halting" /\ task[t].gen \notin halts /\ running[task[t].srv] = 0
       \/ task[t].at = "halt" /\ task[t].gen \notin halts

Turn(t) ==
    \/ task'[t] = task[t]
    \/ task[t].op # "stop" /\ task'[t].op # "stop"
    \/ Woken(t)
    \/ StopAwaits(t)
    \/ StopReturns(t)

Turns == \A t \in Tasks : Turn(t)

\* Every stop looked at the launches before its call.
Looked == \A t \in Tasks : task[t].op = "stop" => task[t].seen <= generationSeq

LEMMA OneTurn ==
    ASSUME TypeOK, NEW t \in Tasks, NEW c, task' = [task EXCEPT ![t] = c], Turn(t)
    PROVE  Turns
BY DEF TypeOK, Turns, Turn

\* A stop that runs on from where nothing, or another wait, has held it up.
LEMMA StopNowTurns ==
    ASSUME TypeOK, NEW t \in Tasks, NEW s \in Servers, NEW seen \in 0..MaxGen,
           StopNow(t, s, seen), Clear(t, s), seen <= generationSeq,
           UNCHANGED <<starting, generationSeq, shutdown>>
    PROVE  Turns
<1>1. CASE running[s] = 0
  <2>1. task' = [task EXCEPT ![t] = NoTask] /\ procs' = procs
    BY <1>1 DEF StopNow
  <2>2. task'[t] = NoTask
    BY <2>1 DEF TypeOK
  <2>3. Turn(t)
    BY <1>1, <2>1, <2>2 DEF Turn, StopReturns, Clear, NoTask
  <2> QED
    BY <2>1, <2>3, OneTurn
<1>2. CASE running[s] # 0
  <2> DEFINE c == [op |-> "stop", at |-> "halt", srv |-> s, gen |-> running[s], seen |-> seen]
  <2>1. task' = [task EXCEPT ![t] = c]
    BY <1>2 DEF StopNow
  <2>2. task'[t] = c
    BY <2>1 DEF TypeOK
  <2>3. /\ task'[t].op = "stop" /\ task'[t].at = "halt" /\ task'[t].srv = s
        /\ task'[t].gen = running[s] /\ task'[t].seen = seen
    BY <2>2
  <2> HIDE DEF c
  <2>4. Turn(t)
    BY <1>2, <2>3 DEF Turn, StopAwaits, Clear
  <2> QED
    BY <2>1, <2>4, OneTurn
<1> QED
  BY <1>1, <1>2

LEMMA StopSettledTurns ==
    ASSUME TypeOK, NEW t \in Tasks, NEW s \in Servers, NEW seen \in 0..MaxGen,
           StopSettled(t, s, seen), seen <= generationSeq,
           Starts(t, s) \/ (task[t].op = "none" /\ starting[s].at = "no")
    PROVE  Turns
<1>1. CASE halting[s] = 0
  BY <1>1, StopNowTurns DEF StopSettled, Clear, Starts
<1>2. CASE halting[s] # 0
  <2> DEFINE c == [op |-> "stop", at |-> "halting", srv |-> s, gen |-> halting[s], seen |-> seen]
  <2>1. task' = [task EXCEPT ![t] = c] /\ UNCHANGED <<slots, procs>>
    BY <1>2 DEF StopSettled, slots
  <2>2. task'[t] = c
    BY <2>1 DEF TypeOK
  <2>3. /\ task'[t].op = "stop" /\ task'[t].at = "halting" /\ task'[t].srv = s
        /\ task'[t].gen = halting[s] /\ task'[t].seen = seen
    BY <2>2
  <2> HIDE DEF c
  <2>4. Turn(t)
    BY <1>2, <2>1, <2>3 DEF Turn, StopAwaits, Starts
  <2> QED
    BY <2>1, <2>4, OneTurn
<1> QED
  BY <1>1, <1>2

LEMMA StopTurns ==
    ASSUME TypeOK, NEW t \in Tasks, NEW s \in Servers, Stop(t, s)
    PROVE  Turns
<1>0. generationSeq \in 0..MaxGen /\ task[t].op = "none" /\ generationSeq <= generationSeq
  BY NoGeneration DEF TypeOK, Stop
<1>1. CASE starting[s].at = "no"
  BY <1>0, <1>1, StopSettledTurns DEF Stop
<1>2. CASE starting[s].at # "no"
  <2> DEFINE c == [op |-> "stop", at |-> "starting", srv |-> s, gen |-> 0,
                   seen |-> generationSeq]
  <2>1. task' = [task EXCEPT ![t] = c]
    BY <1>2 DEF Stop
  <2>2. task'[t] = c
    BY <2>1 DEF TypeOK
  <2>3. /\ task'[t].op = "stop" /\ task'[t].at = "starting" /\ task'[t].srv = s
        /\ task'[t].seen = generationSeq
    BY <2>2
  <2> HIDE DEF c
  <2>4. Turn(t)
    BY <1>0, <2>3 DEF Turn, StopAwaits
  <2> QED
    BY <2>1, <2>4, OneTurn
<1> QED
  BY <1>1, <1>2

LEMMA StepTurns == IInv /\ Looked /\ [Next]_vars => Turns
<1> SUFFICES ASSUME IInv, Looked, [Next]_vars PROVE Turns
  OBVIOUS
<1>0. TypeOK /\ HasServer
  BY DEF IInv
<1>1. CASE task' = task
  BY <1>1 DEF Turns, Turn
<1>2. ASSUME NEW s \in Servers, Settle(s) PROVE Turns
  <2> SUFFICES ASSUME NEW t \in Tasks PROVE Turn(t)
    BY DEF Turns
  <2>1. starting'[s].at = "no" /\ task[t] \in Call
    BY <1>0, <1>2 DEF Settle, NotStarting, TypeOK
  <2>2. task'[t] = IF task[t].srv = s /\ task[t].at = "starting"
                   THEN IF task[t].op = "acquire" THEN NoTask
                                                  ELSE [task[t] EXCEPT !.at = "started"]
                   ELSE task[t]
    BY <1>2 DEF Settle
  <2> DEFINE c == [task[t] EXCEPT !.at = "started"]
  <2>3. c.op = task[t].op /\ c.at = "started" /\ c.srv = task[t].srv /\ c.seen = task[t].seen
    BY <2>1 DEF Call
  <2> HIDE DEF c
  <2>4. task'[t] = task[t] \/ (task[t].op = "acquire" /\ task'[t] = NoTask)
           \/ (task[t].srv = s /\ task[t].at = "starting" /\ task'[t] = c)
    BY <2>2 DEF c
  <2> QED
    BY <2>1, <2>3, <2>4 DEF Turn, Woken, NoTask
<1>3. ASSUME NEW s \in Servers, NEW t \in Tasks, Acquire(t, s), task[t].op # "stop"
      PROVE  Turns
  <2>1. task' = [task EXCEPT ![t] = AcquireTask(s)] /\ AcquireTask(s).op # "stop"
    BY <1>3 DEF Acquire, AcquireTask, NoTask
  <2>2. Turn(t)
    BY <1>0, <1>3, <2>1 DEF Turn, TypeOK
  <2> QED
    BY <1>0, <2>1, <2>2, OneTurn
<1>4. ASSUME NEW s \in Servers, SpawnStep(s) PROVE Turns
  BY <1>1, <1>2, <1>4 DEF SpawnStep, AdmitOk, AdmitRefused, SpecError, SpecMissing, SpecOk,
                          LaunchOk, LaunchError, calls
<1>5. ASSUME NEW t \in Tasks, Resume(t) PROVE Turns
  <2>1. /\ task[t].seen \in 0..MaxGen /\ (task[t].op # "none" => task[t].srv \in Servers)
        /\ task[t].op = "stop" => task[t].seen <= generationSeq
    BY <1>0 DEF HasServer, TypeOK, Call, Looked
  <2>2. CASE AcquireRetry(t)
    BY <1>3, <2>1, <2>2 DEF AcquireRetry
  <2>3. CASE StopStarted(t)
    BY <1>0, <2>1, <2>3, StopSettledTurns DEF StopStarted, Starts
  <2>4. CASE StopHalted(t)
    BY <1>0, <2>1, <2>4, StopNowTurns DEF StopHalted, Clear
  <2>5. CASE StopDone(t)
    <3>1. task' = [task EXCEPT ![t] = NoTask] /\ procs' = procs
      BY <2>5 DEF StopDone, children
    <3>2. Turn(t)
      BY <1>0, <2>5, <3>1 DEF StopDone, Turn, StopReturns, NoTask, TypeOK
    <3> QED
      BY <1>0, <3>1, <3>2, OneTurn
  <2> QED
    BY <1>5, <2>2, <2>3, <2>4, <2>5 DEF Resume
<1>6. CASE \E s \in Servers : \/ \E t \in Acquirers : AcquireCall(t, s)
                              \/ \E t \in Stoppers : StopCall(t, s)
  BY <1>0, <1>3, <1>6, StopTurns DEF AcquireCall, StopCall, Tasks
<1>7. ASSUME NEW w \in Sweepers, SweepStep(w) PROVE Turns
  <2>1. ASSUME NEW due, \A g \in due : Launched(g), SweepTurn(w, due) PROVE Turns
    BY <1>0, <2>1, StopTurns DEF SweepTurn, Launched, Tasks
  <2>2. CASE SweepEnd(w)
    BY <1>1, <2>2 DEF SweepEnd
  <2> QED
    BY <1>0, <1>7, <2>1, <2>2, SnapshotLaunched
       DEF SweepStep, SweepStart, SweepNext, IInv, Slots, HasServer
<1>8. CASE \E g \in Gens : ProcStep(g) \/ Exit(g)
  BY <1>1, <1>8 DEF ProcStep, TransportClosed, GraceTimer, ExitStep, ExitSeen, ExitExpected,
                    ExitCrash, WarmRestart, WarmAcquire, HaltDone, Exit, calls
<1>9. CASE \E s \in Servers : BackoffEnds(s) \/ ResetCall(s) \/ TouchCall(s)
  BY <1>1, <1>9 DEF BackoffEnds, ResetCall, TouchCall, calls
<1>10. CASE ShutdownCall \/ ShutdownStep \/ UNCHANGED vars
  BY <1>1, <1>10 DEF ShutdownCall, ShutdownStep, ShutdownStarted, ShutdownHalted,
                     ShutdownDone, vars, calls
<1> QED
  BY <1>4, <1>5, <1>6, <1>7, <1>8, <1>9, <1>10 DEF Next, Loop

LEMMA LookedStep == IInv /\ Looked /\ [Next]_vars => Looked'
<1> SUFFICES ASSUME IInv, Looked, [Next]_vars, NEW t \in Tasks, task'[t].op = "stop"
             PROVE  task'[t].seen <= generationSeq'
  BY DEF Looked
<1>1. generationSeq \in Nat /\ generationSeq' \in Nat /\ generationSeq <= generationSeq'
  <2>1. generationSeq \in Nat /\ Kinds
    BY StepKinds, GenFacts DEF IInv, Slots
  <2>2. generationSeq' = generationSeq \/ generationSeq' = generationSeq + 1
    BY <2>1 DEF Kinds, Fade, SpecOk, LaunchOk, LaunchError, StopsNow, ShutdownHalted
  <2> HIDE DEF Kinds
  <2> QED
    BY <2>1, <2>2
<1>2. task'[t].seen <= generationSeq /\ task'[t].seen \in Nat
  <2>1. Turn(t)
    BY StepTurns DEF Turns
  <2>2. task'[t].seen \in Nat
    BY TypeStep, NoGeneration DEF IInv, TypeOK, Call
  <2> QED
    BY <2>1, <2>2 DEF Turn, Woken, StopAwaits, StopReturns, Looked
<1> QED
  BY <1>1, <1>2

\* Every stop in flight looked at the launches before its call.
THEOREM LookedHolds == Spec => []Looked
<1>1. Init => Looked
  BY DEF Init, Looked, NoTask
<1> QED
  BY <1>1, LookedStep, Invariant, PTL DEF Spec
-----------------------------------------------------------------------------
(***************************************************************************)
(* The place of a process.  Until the shutdown a server is starting or     *)
(* halting, never both; what it neither runs nor halts was replaced; and a *)
(* stop that has waited finds the server as the wait left it.              *)
(***************************************************************************)
Slot(s) ==
    /\ starting[s].at # "no" => halting[s] = 0
    /\ halting[s] # 0 => running[s] = 0 /\ halting[s] \in halts
    /\ starting[s].at = "launch" =>
          \A g \in Gens : procs[g].srv = s /\ procs[g].life # "unborn" => g <= starting[s].gen

Place(g) ==
    /\ procs[g].life = "alive" /\ ~procs[g].stopping
          => running[procs[g].srv] = g \/ Replaced(g)
    /\ procs[g].life = "launching"
          => starting[procs[g].srv].at = "launch" /\ starting[procs[g].srv].gen = g
    /\ procs[g].stopping /\ procs[g].life # "done" => halting[procs[g].srv] = g
    /\ g \in halts => procs[g].stopping

\* A stop that awaited a spawn, or the halt of another.
Waiting(t) ==
    task[t].op = "stop" =>
        /\ task[t].at = "started" => starting[task[t].srv].at = "no"
        /\ task[t].at = "halting" =>
              /\ task[t].gen \in Gens /\ procs[task[t].gen].stopping
              /\ task[t].gen \in halts => halting[task[t].srv] = task[t].gen
              /\ task[t].gen \notin halts =>
                    /\ halting[task[t].srv] = 0 /\ running[task[t].srv] = 0
                    /\ starting[task[t].srv].at \in {"no", "admit"}

Orderly == /\ \A s \in Servers : Slot(s)
           /\ \A g \in Gens : Place(g)
           /\ \A t \in Tasks : Waiting(t)

InTurn == ShuttingDown \/ Orderly

\* A process that is left where it is; its connection may close.
Alike(g) ==
    /\ procs'[g].srv = procs[g].srv /\ procs'[g].life = procs[g].life
    /\ (procs'[g].open => procs[g].open) /\ procs'[g].stopping = procs[g].stopping

\* The steps that leave every process where it is.
Lull ==
    /\ \A g \in Gens : Alike(g)
    /\ running' = running /\ halting' = halting /\ halts' = halts
    /\ ShuttingDown => ShuttingDown'
    /\ \A s \in Servers :
          \/ starting'[s] = starting[s]
          \/ starting[s].at # "launch" /\ starting'[s].at = "no"
          \/ /\ starting[s].at = "no" /\ starting'[s].at = "admit"
             /\ Fresh(s) /\ SpawnsSettled(s)
          \/ starting[s].at = "admit" /\ starting'[s].at = "spec" /\ HaltsSettled(s)

\* And those that move one.
Move ==
    \/ \E s \in Servers : SpecOk(s) \/ LaunchOk(s) \/ LaunchError(s)
    \/ \E g \in Gens : Exit(g) \/ ExitStep(g) \/ HaltDone(g)
    \/ StopsNow
    \/ ShutdownHalted

LEMMA OneAlike ==
    ASSUME TypeOK, NEW g \in Gens, NEW r, procs' = [procs EXCEPT ![g] = r],
           r.srv = procs[g].srv, r.life = procs[g].life,
           r.open => procs[g].open, r.stopping = procs[g].stopping
    PROVE  \A h \in Gens : Alike(h)
BY ProcsUpdate DEF Alike

LEMMA BeginSpawnLull ==
    ASSUME TypeOK, NEW s \in Servers, BeginSpawn(s), SpawnsSettled(s), \A g \in Gens : Alike(g),
           running' = running, halting' = halting, halts' = halts, shutdown' = shutdown
    PROVE  Lull
BY DEF Lull, BeginSpawn, Spawns, Fresh, TypeOK, ShuttingDown

LEMMA StepMoves == IInv /\ [Next]_vars => Lull \/ Move
<1> SUFFICES ASSUME IInv, [Next]_vars PROVE Lull \/ Move
  OBVIOUS
<1>0. TypeOK /\ HasServer /\ \A g \in Gens : procs[g] \in Managed
  BY GenFacts DEF IInv
<1>1. CASE UNCHANGED <<slots, procs>> /\ (ShuttingDown => ShuttingDown')
  BY <1>1 DEF Lull, Alike, slots
<1>2. ASSUME NEW s \in Servers, AdmitOk(s) \/ AdmitRefused(s) \/ SpecError(s) \/ SpecMissing(s)
      PROVE  Lull
  <2>1. /\ running' = running /\ halting' = halting /\ halts' = halts
        /\ procs' = procs /\ shutdown' = shutdown
    BY <1>2 DEF AdmitOk, AdmitRefused, SpecError, SpecMissing, children, calls
  <2>2. \A z \in Servers :
           \/ starting'[z] = starting[z]
           \/ starting[z].at # "launch" /\ starting'[z].at = "no"
           \/ starting[z].at = "admit" /\ starting'[z].at = "spec" /\ HaltsSettled(z)
    <3>1. CASE AdmitOk(s)
      BY <1>0, <3>1 DEF AdmitOk, TypeOK, Spawn
    <3>2. CASE Settle(s) /\ starting[s].at # "launch"
      BY <1>0, <3>2 DEF Settle, NotStarting, TypeOK
    <3> QED
      BY <1>2, <3>1, <3>2 DEF AdmitRefused, SpecError, SpecMissing
  <2> QED
    BY <2>1, <2>2 DEF Lull, Alike, ShuttingDown
<1>3. ASSUME NEW s \in Servers, NEW t, Acquire(t, s) PROVE Lull
  BY <1>0, <1>3, BeginSpawnLull DEF Acquire, children, Alike
<1>4. ASSUME NEW g \in Gens, WarmRestart(g) PROVE Lull
  <2> PICK w, n : procs' = [procs EXCEPT ![g] = [procs[g] EXCEPT !.warm = w, !.await = n]]
    BY <1>4 DEF WarmRestart, WarmAcquire
  <2> DEFINE r == [procs[g] EXCEPT !.warm = w, !.await = n]
  <2>1. r.srv = procs[g].srv /\ r.life = procs[g].life /\ r.open = procs[g].open
        /\ r.stopping = procs[g].stopping /\ procs' = [procs EXCEPT ![g] = r]
    BY <1>0 DEF Managed
  <2>2. procs[g].srv \in Servers
    BY <1>0, <1>4 DEF WarmRestart, HasServer, Launched
  <2> HIDE DEF r
  <2>3. \A h \in Gens : Alike(h)
    BY <1>0, <2>1, OneAlike
  <2> QED
    BY <1>0, <1>4, <2>2, <2>3, BeginSpawnLull DEF WarmRestart, WarmAcquire
<1>5. ASSUME NEW g \in Gens, GraceTimer(g) PROVE Lull
  <2> PICK b : procs' = [procs EXCEPT ![g] = [procs[g] EXCEPT !.grace = FALSE, !.term = b]]
    BY <1>5 DEF GraceTimer
  <2> DEFINE r == [procs[g] EXCEPT !.grace = FALSE, !.term = b]
  <2>1. r.srv = procs[g].srv /\ r.life = procs[g].life /\ r.open = procs[g].open
        /\ r.stopping = procs[g].stopping /\ procs' = [procs EXCEPT ![g] = r]
    BY <1>0 DEF Managed
  <2> HIDE DEF r
  <2>2. \A h \in Gens : Alike(h)
    BY <1>0, <2>1, OneAlike
  <2> QED
    BY <1>5, <2>2 DEF GraceTimer, Lull, slots, calls, ShuttingDown
<1>14. ASSUME NEW g \in Gens, TransportClosed(g) PROVE Lull
  <2> PICK b : procs' = [procs EXCEPT ![g] = [procs[g] EXCEPT !.open = FALSE, !.grace = b]]
    BY <1>14 DEF TransportClosed
  <2> DEFINE r == [procs[g] EXCEPT !.open = FALSE, !.grace = b]
  <2>1. r.srv = procs[g].srv /\ r.life = procs[g].life /\ r.open = FALSE
        /\ r.stopping = procs[g].stopping /\ procs' = [procs EXCEPT ![g] = r]
    BY <1>0 DEF Managed
  <2> HIDE DEF r
  <2>2. \A h \in Gens : Alike(h)
    BY <1>0, <2>1, OneAlike
  <2> QED
    BY <1>14, <2>2 DEF TransportClosed, Lull, slots, calls, ShuttingDown
<1>6. ASSUME NEW t \in Tasks, NEW s \in Servers,
             \/ Stop(t, s)
             \/ Starts(t, s) /\ \E seen \in 0..MaxGen : StopSettled(t, s, seen)
      PROVE  Lull \/ Move
  <2>1. ASSUME NEW seen \in 0..MaxGen, StopSettled(t, s, seen),
               Starts(t, s) \/ (task[t].op = "none" /\ starting[s].at = "no")
        PROVE  Lull \/ Move
    BY <1>1, <1>6, <2>1 DEF StopSettled, StopsNow, Clear, Starts, Move, slots, ShuttingDown
  <2>2. generationSeq \in 0..MaxGen
    BY <1>0 DEF TypeOK
  <2> QED
    BY <1>1, <1>6, <2>1, <2>2 DEF Stop, children, ShuttingDown
<1>7. ASSUME NEW s \in Servers, SpawnStep(s) PROVE Lull \/ Move
  BY <1>2, <1>7 DEF SpawnStep, Move
<1>8. ASSUME NEW s \in Servers, BackoffEnds(s) \/ ResetCall(s) \/ TouchCall(s)
      PROVE  Lull \/ Move
  BY <1>1, <1>8 DEF BackoffEnds, ResetCall, TouchCall, calls, children, ShuttingDown
<1>9. ASSUME NEW g \in Gens, ProcStep(g) \/ Exit(g) PROVE Lull \/ Move
  BY <1>4, <1>5, <1>9, <1>14 DEF ProcStep, Move
<1>10. ASSUME NEW t \in Tasks, Resume(t) PROVE Lull \/ Move
  <2>1. task[t].seen \in 0..MaxGen /\ (task[t].op # "none" => task[t].srv \in Servers)
    BY <1>0 DEF HasServer, TypeOK, Call
  <2>2. CASE AcquireRetry(t)
    BY <1>3, <2>1, <2>2 DEF AcquireRetry
  <2>3. CASE StopStarted(t)
    BY <1>6, <2>1, <2>3 DEF StopStarted, Starts
  <2>4. CASE StopHalted(t)
    BY <2>1, <2>4 DEF StopHalted, StopsNow, Clear, Move
  <2>5. CASE StopDone(t)
    BY <1>1, <2>5 DEF StopDone, ShuttingDown, children
  <2> QED
    BY <1>10, <2>2, <2>3, <2>4, <2>5 DEF Resume
<1>11. CASE \E s \in Servers : \/ \E t \in Acquirers : AcquireCall(t, s)
                               \/ \E t \in Stoppers : StopCall(t, s)
  BY <1>3, <1>6, <1>11 DEF AcquireCall, StopCall, Tasks
<1>12. ASSUME NEW w \in Sweepers, SweepStep(w) PROVE Lull \/ Move
  <2>1. ASSUME NEW due, \A g \in due : Launched(g), SweepTurn(w, due) PROVE Lull \/ Move
    BY <1>6, <2>1 DEF SweepTurn, Launched, Tasks
  <2>2. CASE SweepEnd(w)
    BY <1>1, <2>2 DEF SweepEnd, ShuttingDown, children
  <2> QED
    BY <1>0, <1>12, <2>1, <2>2, SnapshotLaunched
       DEF SweepStep, SweepStart, SweepNext, IInv, Slots, HasServer
<1>13. CASE ShutdownCall \/ ShutdownStep \/ UNCHANGED vars
  BY <1>1, <1>13 DEF ShutdownCall, ShutdownStep, ShutdownStarted, ShutdownDone, ShuttingDown,
                     Move, vars, calls, children
<1> QED
  BY <1>7, <1>8, <1>9, <1>10, <1>11, <1>12, <1>13 DEF Next, Loop

\* What each of these steps does, read off the record updates it makes.
Others(g) == \A h \in Gens : h # g => procs'[h] = procs[h]

LEMMA SpecOkDoes ==
    ASSUME IInv, NEW s \in Servers, SpecOk(s)
    PROVE  LET g == generationSeq + 1
           IN  /\ g \in Gens /\ procs[g].life = "unborn" /\ ~procs[g].stopping /\ g \notin halts
               /\ Others(g) /\ procs'[g].srv = s /\ procs'[g].life = "launching"
               /\ ~procs'[g].stopping
               /\ starting[s].at = "spec"
               /\ \A z \in Servers : starting'[z] = IF z = s THEN [at |-> "launch", gen |-> g]
                                                          ELSE starting[z]
               /\ running' = running /\ halting' = halting /\ halts' = halts
               /\ shutdown' = shutdown /\ generationSeq' = g /\ task' = task
<1> DEFINE g == generationSeq + 1
           r == [procs[g] EXCEPT !.srv = s, !.life = "launching"]
<1>0. TypeOK
  BY DEF IInv
<1>1. g \in Gens /\ g > generationSeq
  BY <1>0, NoGeneration DEF SpecOk, TypeOK, Gens
<1>2. procs[g].life = "unborn" /\ ~procs[g].stopping /\ g \notin halts
  BY <1>1 DEF IInv, NewbornClean
<1>3. \A h \in Gens : procs'[h] = IF h = g THEN r ELSE procs[h]
  BY <1>0, <1>1, ProcsUpdate DEF SpecOk
<1>4. r.srv = s /\ r.life = "launching" /\ r.stopping = procs[g].stopping
  BY <1>0, <1>1, GenFacts DEF Managed
<1>5. \A z \in Servers : starting'[z] = IF z = s THEN [at |-> "launch", gen |-> g]
                                              ELSE starting[z]
  BY <1>0 DEF SpecOk, TypeOK
<1>6. /\ starting[s].at = "spec" /\ running' = running /\ halting' = halting /\ halts' = halts
      /\ shutdown' = shutdown /\ generationSeq' = g /\ task' = task
  BY DEF SpecOk, calls
<1> HIDE DEF g, r
<1>7. Others(g) /\ procs'[g].srv = s /\ procs'[g].life = "launching" /\ ~procs'[g].stopping
  BY <1>1, <1>2, <1>3, <1>4 DEF Others
<1> QED
  BY <1>1, <1>2, <1>5, <1>6, <1>7 DEF g

LEMMA LaunchDoes ==
    ASSUME IInv, NEW s \in Servers, LaunchOk(s) \/ LaunchError(s)
    PROVE  LET g == starting[s].gen
           IN  /\ g \in Gens /\ procs[g].srv = s /\ procs[g].life = "launching"
               /\ g \notin halts /\ starting[s].at = "launch"
               /\ Others(g) /\ procs'[g].srv = s /\ ~procs'[g].stopping
               /\ procs'[g].life = IF LaunchOk(s) THEN "alive" ELSE "failed"
               /\ ~procs[g].open
               /\ \A z \in Servers : starting'[z] = IF z = s THEN NotStarting ELSE starting[z]
               /\ \A z \in Servers : running'[z] = IF z = s /\ LaunchOk(s) THEN g
                                                                           ELSE running[z]
               /\ halting' = halting /\ halts' = halts
               /\ shutdown' = shutdown /\ generationSeq' = generationSeq
<1> DEFINE g == starting[s].gen
           p == [procs[g] EXCEPT !.life = "alive", !.open = TRUE]
           q == [procs[g] EXCEPT !.life = "failed"]
<1>0. TypeOK
  BY DEF IInv
<1>1. /\ g \in Gens /\ procs[g].srv = s /\ procs[g].life = "launching"
      /\ starting[s].at = "launch"
  BY DEF LaunchOk, LaunchError, IInv, LaunchingIsOwn
<1>2. g \notin halts /\ ~procs[g].stopping /\ ~procs[g].open /\ procs[g] \in Managed
  BY <1>0, <1>1, GenFacts DEF IInv, NewbornClean
<1>3. /\ LaunchOk(s) => procs' = [procs EXCEPT ![g] = p]
      /\ LaunchError(s) => procs' = [procs EXCEPT ![g] = q]
  BY DEF LaunchOk, LaunchError
<1>4. /\ p.srv = s /\ p.life = "alive" /\ ~p.stopping
      /\ q.srv = s /\ q.life = "failed" /\ ~q.stopping
  BY <1>1, <1>2 DEF Managed
<1>5. \A z \in Servers : starting'[z] = IF z = s THEN NotStarting ELSE starting[z]
  BY <1>0 DEF LaunchOk, LaunchError, Settle, TypeOK
<1>6. \A z \in Servers : running'[z] = IF z = s /\ LaunchOk(s) THEN g ELSE running[z]
  <2>1. LaunchOk(s) => running' = [running EXCEPT ![s] = g]
    BY DEF LaunchOk
  <2>2. ~LaunchOk(s) => running' = running
    BY DEF LaunchError
  <2> QED
    BY <1>0, <2>1, <2>2 DEF TypeOK
<1>7. halting' = halting /\ halts' = halts /\ shutdown' = shutdown
      /\ generationSeq' = generationSeq
  BY DEF LaunchOk, LaunchError
<1> HIDE DEF g, p, q
<1>8. \/ LaunchOk(s) /\ \A h \in Gens : procs'[h] = IF h = g THEN p ELSE procs[h]
      \/ ~LaunchOk(s) /\ \A h \in Gens : procs'[h] = IF h = g THEN q ELSE procs[h]
  BY <1>0, <1>1, <1>3, ProcsUpdate
<1>9. /\ Others(g) /\ procs'[g].srv = s /\ ~procs'[g].stopping
      /\ procs'[g].life = IF LaunchOk(s) THEN "alive" ELSE "failed"
  BY <1>1, <1>4, <1>8 DEF Others
<1> QED
  BY <1>1, <1>2, <1>5, <1>6, <1>7, <1>9 DEF g

\* A process ends in three steps; the second takes it from the running map.
LEMMA EndDoes ==
    ASSUME IInv, NEW g \in Gens, Exit(g) \/ ExitStep(g)
    PROVE  /\ Others(g) /\ procs'[g].srv = procs[g].srv
           /\ procs'[g].stopping = procs[g].stopping
           /\ procs'[g].open => procs[g].open
           /\ \/ procs[g].life = "alive" /\ procs'[g].life = "exited" /\ ~ExitSeen(g)
              \/ procs[g].life = "exited" /\ procs'[g].life = "closing" /\ ExitSeen(g)
              \/ procs[g].life = "closing" /\ procs'[g].life = "done" /\ ~ExitSeen(g)
           /\ \A s \in Servers :
                 running'[s] = IF ExitSeen(g) /\ s = procs[g].srv /\ running[s] = g
                               THEN 0 ELSE running[s]
           /\ starting' = starting /\ halting' = halting /\ halts' = halts
           /\ shutdown' = shutdown /\ generationSeq' = generationSeq /\ task' = task
<1> DEFINE p == [procs[g] EXCEPT !.life = "exited"]
           q == [procs[g] EXCEPT !.life = "closing", !.open = FALSE]
           r == [procs[g] EXCEPT !.life = "done"]
<1>0. TypeOK /\ procs[g] \in Managed
  BY GenFacts DEF IInv
<1>1. /\ starting' = starting /\ halting' = halting /\ halts' = halts
      /\ shutdown' = shutdown /\ generationSeq' = generationSeq /\ task' = task
  BY DEF Exit, ExitStep, ExitSeen, ExitExpected, ExitCrash, slots, calls
<1>2. \A s \in Servers :
         running'[s] = IF ExitSeen(g) /\ s = procs[g].srv /\ running[s] = g
                       THEN 0 ELSE running[s]
  <2>1. ~ExitSeen(g) => running' = running
    BY DEF Exit, ExitStep, ExitExpected, ExitCrash, slots
  <2>2. ExitSeen(g) => running' = IF running[procs[g].srv] = g
                                  THEN [running EXCEPT ![procs[g].srv] = 0] ELSE running
    BY DEF ExitSeen
  <2> QED
    BY <1>0, <2>1, <2>2 DEF TypeOK
<1>3. /\ \A f \in {p, q, r} : f.srv = procs[g].srv /\ f.stopping = procs[g].stopping
      /\ (p.open => procs[g].open) /\ (q.open => procs[g].open) /\ (r.open => procs[g].open)
      /\ p.life = "exited" /\ q.life = "closing" /\ r.life = "done"
  BY <1>0 DEF Managed
<1>4. CASE Exit(g)
  <2>1. procs' = [procs EXCEPT ![g] = p]
    BY <1>4 DEF Exit
  <2> HIDE DEF p, q, r
  <2>2. \A h \in Gens : procs'[h] = IF h = g THEN p ELSE procs[h]
    BY <1>0, <2>1, ProcsUpdate
  <2> QED
    BY <1>1, <1>2, <1>3, <1>4, <2>2 DEF Exit, ExitSeen, Others
<1>5. CASE ExitSeen(g)
  <2>1. procs' = [procs EXCEPT ![g] = q]
    BY <1>5 DEF ExitSeen
  <2> HIDE DEF p, q, r
  <2>2. \A h \in Gens : procs'[h] = IF h = g THEN q ELSE procs[h]
    BY <1>0, <2>1, ProcsUpdate
  <2> QED
    BY <1>1, <1>2, <1>3, <1>5, <2>2 DEF ExitSeen, Others
<1>6. CASE procs[g].life = "closing" /\ (ExitExpected(g) \/ \E b \in BOOLEAN : ExitCrash(g, b))
  <2>1. PICK w, n : procs' = [procs EXCEPT ![g] = r]
           \/ procs' = [procs EXCEPT ![g] =
                           [procs[g] EXCEPT !.life = "done", !.warm = w, !.await = n]]
    BY <1>6 DEF ExitExpected, ExitCrash
  <2> DEFINE c == [procs[g] EXCEPT !.life = "done", !.warm = w, !.await = n]
  <2>2. /\ c.srv = procs[g].srv /\ c.stopping = procs[g].stopping /\ c.life = "done"
        /\ c.open => procs[g].open
    BY <1>0 DEF Managed
  <2> HIDE DEF c, p, q, r
  <2>3. Others(g) /\ (procs'[g] = r \/ procs'[g] = c)
    BY <1>0, <2>1, ProcsUpdate DEF Others, c
  <2>4. ~ExitSeen(g)
    BY <1>6 DEF ExitSeen
  <2>5. /\ procs'[g].srv = procs[g].srv /\ procs'[g].stopping = procs[g].stopping
        /\ procs'[g].life = "done" /\ (procs'[g].open => procs[g].open)
    <3>1. CASE procs'[g] = r
      BY <1>3, <3>1
    <3>2. CASE procs'[g] = c
      BY <2>2, <3>2
    <3> QED
      BY <2>3, <3>1, <3>2
  <2> QED
    BY <1>1, <1>2, <1>6, <2>3, <2>4, <2>5
<1>7. ExitExpected(g) \/ (\E b \in BOOLEAN : ExitCrash(g, b)) => procs[g].life = "closing"
  BY DEF ExitExpected, ExitCrash
<1> QED
  BY <1>4, <1>5, <1>6, <1>7 DEF ExitStep

LEMMA StopDoes ==
    ASSUME IInv, NEW t, NEW s \in Servers, NEW seen, StopNow(t, s, seen), running[s] # 0
    PROVE  LET g == running[s]
           IN  /\ g \in Gens /\ procs[g].srv = s
               /\ Others(g) /\ procs'[g].srv = s /\ procs'[g].stopping
               /\ procs'[g].life = procs[g].life /\ procs'[g].open = procs[g].open
               /\ \A z \in Servers : running'[z] = IF z = s THEN 0 ELSE running[z]
               /\ \A z \in Servers : halting'[z] = IF z = s THEN g ELSE halting[z]
               /\ halts' = halts \cup {g}
<1> DEFINE g == running[s]
           r == [procs[g] EXCEPT !.stopping = TRUE, !.term = TRUE]
<1>0. TypeOK
  BY DEF IInv
<1>1. g \in Gens /\ procs[g].srv = s /\ procs[g] \in Managed
  BY <1>0, GenFacts DEF IInv, RunningIsOwn
<1>2. r.srv = s /\ r.stopping = TRUE /\ r.life = procs[g].life /\ r.open = procs[g].open
  BY <1>1 DEF Managed
<1>3. /\ \A z \in Servers : running'[z] = IF z = s THEN 0 ELSE running[z]
      /\ \A z \in Servers : halting'[z] = IF z = s THEN g ELSE halting[z]
      /\ halts' = halts \cup {g}
  BY <1>0 DEF StopNow, TypeOK
<1>4. \A h \in Gens : procs'[h] = IF h = g THEN r ELSE procs[h]
  <2>1. procs' = [procs EXCEPT ![g] = r]
    BY DEF StopNow
  <2> HIDE DEF g, r
  <2> QED
    BY <1>0, <1>1, <2>1, ProcsUpdate
<1> HIDE DEF g, r
<1> QED
  BY <1>1, <1>2, <1>3, <1>4 DEF g, Others

LEMMA HaltsDoes ==
    ASSUME IInv, ShutdownHalted
    PROVE  /\ \A s \in Servers : running'[s] = 0
           /\ \A g \in Gens :
                 /\ procs'[g].srv = procs[g].srv /\ procs'[g].life = procs[g].life
                 /\ procs[g].stopping => procs'[g].stopping
                 /\ g \in halts' => g \in halts \/ procs'[g].stopping
                 /\ \A s \in Servers : running[s] = g => procs'[g].stopping
           /\ halts \subseteq halts' /\ starting' = starting /\ halting' = halting
           /\ task' = task /\ generationSeq' = generationSeq /\ ShuttingDown /\ ShuttingDown'
<1> DEFINE all == {running[s] : s \in Servers} \ {0}
           r(g) == [procs[g] EXCEPT !.stopping = TRUE, !.term = TRUE]
<1>0. \A g \in Gens : procs[g] \in Managed /\ g # 0
  BY GenFacts DEF IInv
<1>1. /\ halting' = halting /\ starting' = starting /\ generationSeq' = generationSeq
      /\ task' = task /\ halts' = halts \cup all /\ ShuttingDown /\ ShuttingDown'
      /\ \A s \in Servers : running'[s] = 0
      /\ \A g \in Gens : procs'[g] = IF g \in all THEN r(g) ELSE procs[g]
  BY DEF ShutdownHalted, ShuttingDown
<1>2. \A g \in Gens : /\ r(g).srv = procs[g].srv /\ r(g).life = procs[g].life
                      /\ r(g).stopping = TRUE
  BY <1>0 DEF Managed
<1>3. \A g \in Gens, s \in Servers : running[s] = g => g \in all
  BY <1>0
<1> HIDE DEF all, r
<1> QED
  BY <1>1, <1>2, <1>3

\* What a server's slots hold, from the invariants so far.
LEMMA SlotFacts ==
    ASSUME IInv
    PROVE  /\ TypeOK
           /\ \A s \in Servers : running[s] # 0 =>
                 running[s] \in Gens /\ procs[running[s]].srv = s
                 /\ ~procs[running[s]].stopping
           /\ \A s \in Servers : halting[s] \in 0..MaxGen /\ halting[s] # 0 => halting[s] \in Gens
           /\ \A g \in Gens : g # 0 /\ procs[g].life \in Lives
           /\ \A g \in Gens : procs[g].life # "unborn" => procs[g].srv \in Servers
           /\ \A g \in Gens : procs[g].stopping \/ g \in halts
                 => procs[g].life \notin {"unborn", "launching", "failed"}
<1>1. TypeOK /\ \A g \in Gens : g # 0 /\ procs[g] \in Managed
  BY GenFacts DEF IInv
<1>2. \A g \in Gens : procs[g].life \in Lives
  BY <1>1 DEF Managed
<1>3. \A s \in Servers : running[s] # 0 =>
         running[s] \in Gens /\ procs[running[s]].srv = s /\ ~procs[running[s]].stopping
  BY <1>1, GenFacts DEF IInv, RunningIsOwn
<1>4. \A s \in Servers : halting[s] \in 0..MaxGen /\ halting[s] # 0 => halting[s] \in Gens
  BY NoGeneration DEF Gens
<1> QED
  BY <1>1, <1>2, <1>3, <1>4 DEF IInv, HasServer, Launched, NewbornClean

\* A process that was replaced stays so: no connection reopens, and no successor is unmade.
LEMMA StaysReplaced ==
    ASSUME NEW g \in Gens, Replaced(g),
           \A h \in Gens :
              /\ procs[h].life \notin Unlaunched =>
                    procs'[h].srv = procs[h].srv /\ procs'[h].life \notin Unlaunched
              /\ procs'[h].open => procs[h].open \/ procs[h].life \in Unlaunched,
           procs[g].life \notin Unlaunched
    PROVE  Replaced(g)'
BY DEF Replaced, Unlaunched

LEMMA LullOrderly ==
    ASSUME IInv, Orderly, Lull
    PROVE  (\A s \in Servers : Slot(s)') /\ (\A g \in Gens : Place(g)')
<1>0. /\ running' = running /\ halting' = halting /\ halts' = halts
      /\ \A g \in Gens : Alike(g)
      /\ \A s \in Servers : starting'[s].at # "no" => starting[s].at # "no" \/ halting[s] = 0
  BY DEF Lull, Fresh
<1>1. ASSUME NEW s \in Servers PROVE Slot(s)'
  <2>1. starting'[s].at = "launch" => starting'[s] = starting[s]
    BY DEF Lull
  <2> QED
    BY <1>0, <2>1 DEF Slot, Orderly, Alike
<1>2. ASSUME NEW g \in Gens PROVE Place(g)'
  <2>1. Replaced(g) => Replaced(g)'
    BY <1>0 DEF Replaced, Alike
  <2>2. procs[g].life = "launching" => starting'[procs[g].srv] = starting[procs[g].srv]
    BY SlotFacts DEF Place, Orderly, Lull
  <2> QED
    BY <1>0, <2>1, <2>2 DEF Place, Orderly, Alike
<1> QED
  BY <1>1, <1>2

LEMMA SpecOrderly ==
    ASSUME IInv, Orderly, NEW s \in Servers, SpecOk(s)
    PROVE  (\A z \in Servers : Slot(z)') /\ (\A h \in Gens : Place(h)')
<1> DEFINE g == generationSeq + 1
<1>1. /\ g \in Gens /\ procs[g].life = "unborn" /\ ~procs[g].stopping /\ g \notin halts
      /\ Others(g) /\ procs'[g].srv = s /\ procs'[g].life = "launching" /\ ~procs'[g].stopping
      /\ starting[s].at = "spec"
      /\ \A z \in Servers : starting'[z] = IF z = s THEN [at |-> "launch", gen |-> g]
                                                 ELSE starting[z]
      /\ running' = running /\ halting' = halting /\ halts' = halts
  BY SpecOkDoes
<1>2. \A h \in Gens : procs[h].life # "unborn" => h < g
  <2>1. \A h \in Gens : h \in Nat /\ generationSeq \in Nat
    BY GenFacts, NoGeneration DEF IInv, TypeOK, Gens
  <2> QED
    BY <2>1 DEF IInv, NewbornClean
<1>3. \A h \in Gens : h <= h
  BY NoGeneration DEF Gens
<1> HIDE DEF g
<1>4. ASSUME NEW z \in Servers PROVE Slot(z)'
  <2>1. CASE z = s
    <3>1. \A h \in Gens : procs'[h].life # "unborn" => h <= g
      <4>1. \A h \in Gens : h < g => h <= g
        BY <1>1, NoGeneration DEF Gens
      <4> QED
        BY <1>1, <1>2, <1>3, <4>1 DEF Others
    <3> QED
      BY <1>1, <2>1, <3>1 DEF Slot, Orderly
  <2>2. CASE z # s
    BY <1>1, <2>2 DEF Slot, Orderly, Others
  <2> QED
    BY <2>1, <2>2
<1>5. ASSUME NEW h \in Gens PROVE Place(h)'
  <2>1. CASE h = g
    BY <1>1, <2>1 DEF Place
  <2>2. CASE h # g
    <3>1. procs'[h] = procs[h]
      BY <1>1, <2>2 DEF Others
    <3>2. procs[h].life = "launching" => procs[h].srv # s /\ procs[h].srv \in Servers
      BY <1>1, SlotFacts DEF Orderly, Place
    <3>3. Replaced(h) => Replaced(h)'
      BY <1>1, <3>1 DEF Replaced, Others
    <3> QED
      BY <1>1, <3>1, <3>2, <3>3 DEF Place, Orderly
  <2> QED
    BY <2>1, <2>2
<1> QED
  BY <1>4, <1>5

LEMMA LaunchOrderly ==
    ASSUME IInv, Orderly, NEW s \in Servers, LaunchOk(s) \/ LaunchError(s)
    PROVE  (\A z \in Servers : Slot(z)') /\ (\A h \in Gens : Place(h)')
<1> DEFINE g == starting[s].gen
<1>1. /\ g \in Gens /\ procs[g].srv = s /\ procs[g].life = "launching"
      /\ g \notin halts /\ starting[s].at = "launch"
      /\ Others(g) /\ procs'[g].srv = s /\ ~procs'[g].stopping
      /\ procs'[g].life = IF LaunchOk(s) THEN "alive" ELSE "failed"
      /\ \A z \in Servers : starting'[z] = IF z = s THEN NotStarting ELSE starting[z]
      /\ \A z \in Servers : running'[z] = IF z = s /\ LaunchOk(s) THEN g ELSE running[z]
      /\ halting' = halting /\ halts' = halts
  BY LaunchDoes
<1>2. \A h \in Gens : procs[h].srv = s /\ procs[h].life # "unborn" /\ h # g => g > h
  <2>1. \A h \in Gens : procs[h].srv = s /\ procs[h].life # "unborn" => h <= g
    BY <1>1 DEF Orderly, Slot
  <2>2. g \in Nat /\ \A h \in Gens : h \in Nat
    BY <1>1, NoGeneration DEF Gens
  <2> HIDE DEF g
  <2> QED
    BY <2>1, <2>2
<1>3. g = starting[s].gen
  OBVIOUS
<1> HIDE DEF g
<1>4. ASSUME NEW z \in Servers PROVE Slot(z)'
  <2>1. halting[z] # 0 => running'[z] = 0
    BY <1>1 DEF Slot, Orderly
  <2>2. CASE z = s
    BY <1>1, <2>1, <2>2 DEF Slot, Orderly, NotStarting
  <2>3. CASE z # s
    BY <1>1, <2>1, <2>3 DEF Slot, Orderly, Others
  <2> QED
    BY <2>2, <2>3
<1>5. ASSUME NEW h \in Gens PROVE Place(h)'
  <2>1. CASE h = g
    BY <1>1, <2>1, SlotFacts DEF Place
  <2>2. CASE h # g
    <3>1. procs'[h] = procs[h]
      BY <1>1, <2>2 DEF Others
    <3>2. procs[h].life = "launching" => procs[h].srv # s /\ procs[h].srv \in Servers
      BY <1>1, <1>3, <2>2, SlotFacts DEF Orderly, Place
    <3>3. Replaced(h) => Replaced(h)'
      BY <1>1, <3>1 DEF Replaced, Others
    <3>4. ASSUME procs[h].life = "alive", running[procs[h].srv] = h, LaunchOk(s), procs[h].srv = s
          PROVE  Replaced(h)'
      <4>1. ~procs[h].open
        BY <1>1, <3>4, SlotFacts DEF IInv, SpawnReplacesClosed
      <4> QED
        BY <1>1, <1>2, <2>2, <3>1, <3>4, <4>1 DEF Replaced
    <3>5. procs[h].life = "alive" => procs[h].srv \in Servers
      BY SlotFacts
    <3>6. procs'[h].life = "alive" /\ ~procs'[h].stopping
             => running'[procs'[h].srv] = h \/ Replaced(h)'
      BY <1>1, <3>1, <3>3, <3>4, <3>5 DEF Place, Orderly
    <3> QED
      BY <1>1, <3>1, <3>2, <3>6 DEF Place, Orderly
  <2> QED
    BY <2>1, <2>2
<1> QED
  BY <1>4, <1>5

LEMMA EndOrderly ==
    ASSUME IInv, Orderly, NEW g \in Gens, Exit(g) \/ ExitStep(g)
    PROVE  (\A z \in Servers : Slot(z)') /\ (\A h \in Gens : Place(h)')
<1>1. /\ Others(g) /\ procs'[g].srv = procs[g].srv
      /\ procs'[g].stopping = procs[g].stopping
      /\ procs'[g].open => procs[g].open
      /\ procs[g].life \in {"alive", "exited", "closing"}
      /\ procs'[g].life \in {"exited", "closing", "done"}
      /\ procs'[g].life = "exited" => procs[g].life # "done"
      /\ \A s \in Servers : running'[s] = running[s] \/ (running[s] = g /\ running'[s] = 0)
      /\ starting' = starting /\ halting' = halting /\ halts' = halts
  BY EndDoes
<1>2. ASSUME NEW z \in Servers PROVE Slot(z)'
  BY <1>1 DEF Slot, Orderly, Others
<1>3. ASSUME NEW h \in Gens PROVE Place(h)'
  <2>1. Replaced(h) => Replaced(h)'
    BY <1>1 DEF Replaced, Others
  <2>2. CASE h = g
    BY <1>1, <2>2 DEF Place, Orderly
  <2>3. CASE h # g
    <3>1. procs'[h] = procs[h] /\ (procs[h].life # "unborn" => procs[h].srv \in Servers)
      BY <1>1, <2>3, SlotFacts DEF Others
    <3> QED
      BY <1>1, <2>1, <2>3, <3>1 DEF Place, Orderly
  <2> QED
    BY <2>2, <2>3
<1> QED
  BY <1>2, <1>3

LEMMA HaltDoneOrderly ==
    ASSUME IInv, Orderly, NEW g \in Gens, HaltDone(g)
    PROVE  (\A z \in Servers : Slot(z)') /\ (\A h \in Gens : Place(h)')
<1>1. /\ procs' = procs /\ running' = running /\ starting' = starting
      /\ halts' = halts \ {g} /\ procs[g].life = "done"
      /\ \A s \in Servers : halting'[s] = IF halting[s] = g THEN 0 ELSE halting[s]
  BY DEF HaltDone, children
<1>2. ASSUME NEW z \in Servers PROVE Slot(z)'
  BY <1>1 DEF Slot, Orderly
<1>3. ASSUME NEW h \in Gens PROVE Place(h)'
  <2>1. procs[h].stopping => procs[h].srv \in Servers
    BY SlotFacts
  <2>2. Replaced(h) => Replaced(h)'
    BY <1>1 DEF Replaced
  <2> QED
    BY <1>1, <2>1, <2>2 DEF Place, Orderly
<1> QED
  BY <1>2, <1>3

\* A stop that finds a process in the running map finds the server neither starting one
\* nor halting one.
LEMMA ClearSlot ==
    ASSUME Orderly, NEW t \in Tasks, NEW s \in Servers, Clear(t, s), running[s] # 0
    PROVE  starting[s].at = "no" /\ halting[s] = 0
BY DEF Clear, Orderly, Waiting

LEMMA StopOrderly ==
    ASSUME IInv, Orderly, StopsNow
    PROVE  (\A z \in Servers : Slot(z)') /\ (\A h \in Gens : Place(h)')
<1> PICK t \in Tasks, s \in Servers, seen \in 0..MaxGen :
        StopNow(t, s, seen) /\ Clear(t, s) /\ UNCHANGED <<starting, generationSeq, shutdown>>
  BY DEF StopsNow
<1> DEFINE g == running[s]
<1>1. CASE g = 0
  <2>1. UNCHANGED <<running, halting, halts, procs, starting>>
    BY <1>1 DEF StopNow
  <2>2. \A h \in Gens : Replaced(h) => Replaced(h)'
    BY <2>1 DEF Replaced
  <2> QED
    BY <2>1, <2>2 DEF Orderly, Slot, Place
<1>2. CASE g # 0
  <2>1. /\ g \in Gens /\ procs[g].srv = s
        /\ Others(g) /\ procs'[g].srv = s /\ procs'[g].stopping
        /\ procs'[g].life = procs[g].life /\ procs'[g].open = procs[g].open
        /\ \A z \in Servers : running'[z] = IF z = s THEN 0 ELSE running[z]
        /\ \A z \in Servers : halting'[z] = IF z = s THEN g ELSE halting[z]
        /\ halts' = halts \cup {g}
    BY <1>2, StopDoes
  <2>2. starting' = starting /\ starting[s].at = "no" /\ halting[s] = 0 /\ g = running[s]
    BY <1>2, ClearSlot
  <2>3. g # 0 /\ procs[g].life # "launching"
    BY <1>2 DEF IInv, RunningIsOwn
  <2> HIDE DEF g
  <2>4. ASSUME NEW z \in Servers PROVE Slot(z)'
    BY <2>1, <2>2 DEF Slot, Orderly, Others
  <2>5. ASSUME NEW h \in Gens PROVE Place(h)'
    <3>1. CASE h = g
      BY <2>1, <2>3, <3>1 DEF Place
    <3>2. CASE h # g
      <4>1. procs'[h] = procs[h] /\ h # 0
        BY <2>1, <3>2, SlotFacts DEF Others
      <4>2. procs[h].life # "unborn" => procs[h].srv \in Servers
        BY SlotFacts
      <4>3. procs[h].life = "unborn" => ~procs[h].stopping /\ h \notin halts
        BY DEF IInv, NewbornClean
      <4>4. Replaced(h) => Replaced(h)'
        BY <2>1 DEF Replaced, Others
      <4> QED
        BY <2>1, <2>2, <3>2, <4>1, <4>2, <4>3, <4>4 DEF Place, Orderly
    <3> QED
      BY <3>1, <3>2
  <2> QED
    BY <2>4, <2>5
<1> QED
  BY <1>1, <1>2

\* What the other steps leave as a stop that waits has found it.
LEMMA WaitingLull ==
    ASSUME IInv, Orderly, Lull, NEW t \in Tasks, task'[t] = task[t]
    PROVE  Waiting(t)'
<1> SUFFICES ASSUME task[t].op = "stop" PROVE Waiting(t)'
  BY DEF Waiting
<1> PICK s \in Servers : s = task[t].srv
  BY DEF IInv, HasServer
<1>1. /\ Waiting(t) /\ running' = running /\ halting' = halting /\ halts' = halts
      /\ \A g \in Gens : procs'[g].stopping = procs[g].stopping
  BY DEF Orderly, Lull, Alike
<1>2. task[t].at = "started" => starting'[s].at = "no"
  BY <1>1 DEF Waiting, Lull, SpawnsSettled
<1>3. task[t].at = "halting" /\ task[t].gen \notin halts => starting'[s].at \in {"no", "admit"}
  BY <1>1 DEF Waiting, Lull, HaltsSettled
<1> QED
  BY <1>1, <1>2, <1>3 DEF Waiting

LEMMA WaitingMove ==
    ASSUME IInv, Orderly, Move, ~ShutdownHalted, NEW t \in Tasks, task'[t] = task[t]
    PROVE  Waiting(t)'
<1> SUFFICES ASSUME task[t].op = "stop" PROVE Waiting(t)'
  BY DEF Waiting
<1> PICK s \in Servers : s = task[t].srv
  BY DEF IInv, HasServer
<1> DEFINE x == task[t].gen
<1>1. Waiting(t) /\ Slot(s) /\ \A g \in Gens : g # 0
  BY SlotFacts DEF Orderly
<1>2. ASSUME NEW z \in Servers, SpecOk(z) \/ LaunchOk(z) \/ LaunchError(z) PROVE Waiting(t)'
  <2>1. PICK g \in Gens :
           /\ Others(g) /\ procs[g].life \in {"unborn", "launching"}
           /\ \A y \in Servers : y # z => starting'[y] = starting[y] /\ running'[y] = running[y]
           /\ LaunchOk(z) \/ LaunchError(z) => starting'[z].at = "no"
           /\ SpecOk(z) => running'[z] = running[z]
           /\ starting[z].at \in {"spec", "launch"} /\ (SpecOk(z) => starting[z].at = "spec")
           /\ halting' = halting /\ halts' = halts
    BY <1>2, SpecOkDoes, LaunchDoes DEF NotStarting
  <2>2. ~procs[g].stopping
    BY <2>1, SlotFacts
  <2>3. procs[x].stopping => procs'[x].stopping \/ x \notin Gens
    BY <2>1, <2>2 DEF Others
  <2>4. task[t].at = "started" \/ (task[t].at = "halting" /\ x \notin halts) => s # z
    BY <1>1, <2>1 DEF Waiting
  <2> QED
    BY <1>1, <2>1, <2>3, <2>4 DEF Waiting
<1>3. ASSUME NEW g \in Gens, Exit(g) \/ ExitStep(g) PROVE Waiting(t)'
  <2>1. /\ Others(g) /\ procs'[g].stopping = procs[g].stopping
        /\ running[s] = 0 => running'[s] = 0
        /\ starting' = starting /\ halting' = halting /\ halts' = halts
    BY <1>3, EndDoes
  <2> QED
    BY <1>1, <2>1 DEF Waiting, Others
<1>4. ASSUME NEW g \in Gens, HaltDone(g) PROVE Waiting(t)'
  <2>1. /\ procs' = procs /\ running' = running /\ starting' = starting
        /\ halts' = halts \ {g}
        /\ halting'[s] = IF halting[s] = g THEN 0 ELSE halting[s]
    BY <1>4 DEF HaltDone, children
  <2> QED
    BY <1>1, <2>1 DEF Waiting, Slot
<1>5. ASSUME StopsNow PROVE Waiting(t)'
  <2> PICK u \in Tasks, z \in Servers, seen \in 0..MaxGen :
          StopNow(u, z, seen) /\ Clear(u, z) /\ UNCHANGED <<starting, generationSeq, shutdown>>
    BY <1>5 DEF StopsNow
  <2>1. CASE running[z] = 0
    BY <1>1, <2>1 DEF StopNow, Waiting
  <2>2. CASE running[z] # 0
    <3>1. /\ Others(running[z]) /\ running[z] \in Gens /\ procs'[running[z]].stopping
          /\ \A y \in Servers : running'[y] = IF y = z THEN 0 ELSE running[y]
          /\ \A y \in Servers : halting'[y] = IF y = z THEN running[z] ELSE halting[y]
          /\ halts' = halts \cup {running[z]} /\ ~procs[running[z]].stopping
      BY <2>2, StopDoes, SlotFacts
    <3>2. procs[x].stopping => x # running[z] /\ (procs'[x].stopping \/ x \notin Gens)
      BY <3>1 DEF Others
    <3>3. task[t].at = "halting" => s # z
      BY <1>1, <2>2 DEF Waiting, Slot
    <3> QED
      BY <1>1, <3>1, <3>2, <3>3 DEF Waiting
  <2> QED
    BY <2>1, <2>2
<1> QED
  BY <1>2, <1>3, <1>4, <1>5 DEF Move

LEMMA WaitingStep ==
    ASSUME IInv, Orderly, Lull \/ Move, ~ShutdownHalted, NEW t \in Tasks, Turn(t)
    PROVE  Waiting(t)'
<1>1. CASE task'[t] = task[t]
  BY <1>1, WaitingLull, WaitingMove
<1>2. CASE task'[t].op # "stop"
  BY <1>2 DEF Waiting
<1>3. CASE Woken(t)
  BY <1>3 DEF Woken, Waiting
<1>4. CASE StopAwaits(t) /\ task'[t].at = "halting"
  <2>1. /\ UNCHANGED <<slots, procs>> /\ task'[t].srv \in Servers
        /\ halting[task'[t].srv] # 0 /\ task'[t].gen = halting[task'[t].srv]
    BY <1>4 DEF StopAwaits
  <2>2. halting[task'[t].srv] \in halts /\ halting[task'[t].srv] \in Gens
    BY <2>1, SlotFacts DEF Orderly, Slot, TypeOK
  <2>3. procs[halting[task'[t].srv]].stopping
    BY <2>2 DEF Orderly, Place
  <2> QED
    BY <1>4, <2>1, <2>2, <2>3 DEF Waiting, slots
<1>5. CASE StopAwaits(t) /\ task'[t].at # "halting"
  BY <1>5 DEF StopAwaits, Waiting
<1> QED
  BY <1>1, <1>2, <1>3, <1>4, <1>5 DEF Turn, StopReturns

LEMMA ShutdownSteps ==
    ASSUME IInv, [Next]_vars
    PROVE  shutdown' = shutdown \/ ShutdownCall \/ ShutdownStep
<1>1. ASSUME NEW t, NEW s \in Servers,
             Stop(t, s) \/ \E seen \in 0..MaxGen : StopSettled(t, s, seen)
      PROVE  shutdown' = shutdown
  BY <1>1 DEF Stop, StopSettled
<1>2. CASE \E w \in Sweepers : SweepStep(w)
  <2>1. ASSUME NEW w \in Sweepers, NEW due, \A g \in due : Launched(g), SweepTurn(w, due)
        PROVE  shutdown' = shutdown
    BY <1>1, <2>1, NoGeneration DEF SweepTurn, Launched
  <2> QED
    BY <1>2, <2>1, SnapshotLaunched
       DEF SweepStep, SweepStart, SweepNext, SweepEnd, IInv, Slots, HasServer
<1>3. ASSUME NEW t \in Tasks, Resume(t) PROVE shutdown' = shutdown
  BY <1>3 DEF Resume, AcquireRetry, Acquire, StopStarted, StopSettled, StopHalted, StopDone
<1>4. CASE \E s \in Servers : SpawnStep(s) \/ BackoffEnds(s) \/ ResetCall(s) \/ TouchCall(s)
  BY <1>4 DEF SpawnStep, AdmitOk, AdmitRefused, SpecError, SpecMissing, SpecOk, LaunchOk,
              LaunchError, BackoffEnds, ResetCall, TouchCall, calls
<1>5. CASE \E g \in Gens : ProcStep(g) \/ Exit(g)
  BY <1>5 DEF ProcStep, TransportClosed, GraceTimer, ExitStep, ExitSeen, ExitExpected,
              ExitCrash, WarmRestart, WarmAcquire, HaltDone, Exit, calls
<1>6. CASE \E s \in Servers : \/ \E t \in Acquirers : AcquireCall(t, s)
                              \/ \E t \in Stoppers : StopCall(t, s)
  BY <1>6 DEF AcquireCall, Acquire, StopCall, Stop, StopSettled
<1>7. CASE UNCHANGED vars
  BY <1>7 DEF vars, calls
<1> QED
  BY <1>2, <1>3, <1>4, <1>5, <1>6, <1>7 DEF Next, Loop

LEMMA StaysDown == IInv /\ [Next]_vars /\ ShuttingDown => ShuttingDown'
<1> SUFFICES ASSUME IInv, [Next]_vars, ShuttingDown PROVE ShuttingDown'
  OBVIOUS
<1>1. CASE shutdown' = shutdown
  BY <1>1 DEF ShuttingDown
<1>2. CASE ShutdownCall \/ ShutdownStep
  <2>1. CASE ShutdownCall
    BY <2>1 DEF ShutdownCall
  <2>2. CASE ShutdownStarted
    BY <2>2 DEF ShutdownStarted, ShuttingDown
  <2>3. CASE ShutdownHalted
    BY <2>3 DEF ShutdownHalted, ShuttingDown
  <2>4. CASE ShutdownDone
    BY <2>4 DEF ShutdownDone, ShuttingDown
  <2> QED
    BY <1>2, <2>1, <2>2, <2>3, <2>4 DEF ShutdownStep
<1> QED
  BY <1>1, <1>2, ShutdownSteps

LEMMA InTurnStep == IInv /\ Looked /\ InTurn /\ [Next]_vars => InTurn'
<1> SUFFICES ASSUME IInv, Looked, Orderly, [Next]_vars, ~ShuttingDown'
             PROVE  Orderly'
  BY StaysDown DEF InTurn
<1>1. ~ShutdownHalted
  BY HaltsDoes
<1>2. \A t \in Tasks : Turn(t)
  BY StepTurns DEF Turns
<1>3. Lull \/ Move
  BY StepMoves
<1>4. (\A s \in Servers : Slot(s)') /\ (\A g \in Gens : Place(g)')
  BY <1>1, <1>3, LullOrderly, SpecOrderly, LaunchOrderly, EndOrderly, HaltDoneOrderly,
     StopOrderly DEF Move
<1>5. \A t \in Tasks : Waiting(t)'
  BY <1>1, <1>2, <1>3, WaitingStep
<1> QED
  BY <1>4, <1>5 DEF Orderly

LEMMA InTurnInit == Init => InTurn
BY DEF Init, InTurn, Orderly, Slot, Place, Waiting, NotStarting, NoProcess, NoTask

\* Starting and halting take turns, and what a server has neither running nor halting was
\* replaced, in every reachable state until a shutdown begins.
THEOREM InTurnHolds == Spec => []InTurn
BY InTurnInit, InTurnStep, LookedHolds, Invariant, PTL DEF Spec

-----------------------------------------------------------------------------
(***************************************************************************)
(* What is reported.  A step leaves the server's report and what it names  *)
(* as they are, clears it together with the process, or is the late end of *)
(* a process that was replaced.                                            *)
(***************************************************************************)
\* What a step leaves of a process as far as the reports see it.
Quiet(g) ==
    /\ procs'[g].srv = procs[g].srv
    /\ procs[g].stopping => procs'[g].stopping
    /\ procs'[g].open => procs[g].open
    /\ procs[g].life = "closing" => procs'[g].life = "closing"

LateEnd(s) ==
    \E g \in Gens :
        /\ procs[g].srv = s /\ procs[g].life = "closing" /\ procs'[g].life = "done"
        /\ running[s] \notin {0, g}

LEMMA PidFacts ==
    ASSUME TypeOK
    PROVE  \A s \in Servers : info[s] \in ProcessInfo /\ (info[s].pid # 0 => info[s].pid \in Gens)
BY NoGeneration DEF TypeOK, ProcessInfo, Gens

LEMMA FailedPid == \A inf : Failed(inf).pid = 0
BY DEF Failed

\* A report that a step does not touch stays true, if its server's processes are quiet.
LEMMA KeepsTold ==
    ASSUME IInv, NEW s \in Servers, Told(s), running'[s] = running[s],
           info'[s].pid = info[s].pid,
           info'[s].state \in {"idle", "failed"} => info'[s].state = info[s].state,
           \A g \in Gens : procs[g].srv = s /\ procs[g].life # "unborn" => Quiet(g)
    PROVE  Told(s)'
<1>1. running[s] # 0 => /\ running[s] \in Gens /\ procs[running[s]].srv = s
                        /\ procs[running[s]].life # "unborn"
  BY SlotFacts DEF IInv, RunningIsOwn
<1>2. Reusable(s)' => Reusable(s)
  BY <1>1 DEF Reusable, Quiet
<1>3. info[s].pid # 0 => /\ info[s].pid \in Gens /\ procs[info[s].pid].srv = s
                         /\ procs[info[s].pid].life # "unborn"
  BY <1>1, PidFacts, SlotFacts DEF Told
<1> QED
  BY <1>2, <1>3 DEF Told, Quiet

\* A report that is cleared is true once there is nothing to hand out.
LEMMA ClearsTold ==
    ASSUME NEW s \in Servers, info'[s].pid = 0, ~Reusable(s)'
    PROVE  Told(s)'
BY DEF Told

\* While a spawn is in flight there is nothing to hand out.
LEMMA SpawningHasNone ==
    ASSUME IInv, NEW s \in Servers, starting[s].at # "no"
    PROVE  ~Reusable(s)
BY DEF IInv, SpawnReplacesClosed, Reusable

\* Which steps change what is reported.
LEMMA InfoSteps ==
    ASSUME IInv, [Next]_vars
    PROVE  \/ Lull /\ info' = info
           \/ Move
           \/ \E s \in Servers : AdmitRefused(s) \/ SpecError(s) \/ ResetCall(s)
<1> DEFINE Goal == \/ info' = info \/ Move
                   \/ \E s \in Servers : AdmitRefused(s) \/ SpecError(s) \/ ResetCall(s)
<1>0. TypeOK /\ HasServer
  BY DEF IInv
<1>1. ASSUME NEW t \in Tasks, NEW s \in Servers,
             \/ Stop(t, s)
             \/ Starts(t, s) /\ \E seen \in 0..MaxGen : StopSettled(t, s, seen)
      PROVE  info' = info \/ Move
  <2>1. generationSeq \in 0..MaxGen
    BY <1>0 DEF TypeOK
  <2> QED
    BY <1>1, <2>1 DEF Stop, StopSettled, StopsNow, Clear, Starts, Move, health
<1>2. ASSUME NEW s \in Servers, SpawnStep(s) PROVE Goal
  BY <1>2 DEF SpawnStep, AdmitOk, SpecMissing, Move, health
<1>3. ASSUME NEW s \in Servers, BackoffEnds(s) \/ ResetCall(s) \/ TouchCall(s) PROVE Goal
  BY <1>3 DEF BackoffEnds, TouchCall, health
<1>4. ASSUME NEW g \in Gens, ProcStep(g) \/ Exit(g) PROVE Goal
  BY <1>4 DEF ProcStep, TransportClosed, GraceTimer, WarmRestart, WarmAcquire, Move, health
<1>5. ASSUME NEW t \in Tasks, Resume(t) PROVE Goal
  <2>1. task[t].seen \in 0..MaxGen /\ (task[t].op # "none" => task[t].srv \in Servers)
    BY <1>0 DEF HasServer, TypeOK, Call
  <2>2. CASE AcquireRetry(t) \/ StopDone(t)
    BY <2>2 DEF AcquireRetry, Acquire, StopDone, health
  <2>3. CASE StopStarted(t)
    BY <1>1, <2>1, <2>3 DEF StopStarted, Starts
  <2>4. CASE StopHalted(t)
    BY <2>1, <2>4 DEF StopHalted, StopsNow, Clear, Move
  <2> QED
    BY <1>5, <2>2, <2>3, <2>4 DEF Resume
<1>6. ASSUME NEW s \in Servers, \/ \E t \in Acquirers : AcquireCall(t, s)
                                \/ \E t \in Stoppers : StopCall(t, s)
      PROVE  Goal
  BY <1>1, <1>6 DEF AcquireCall, Acquire, StopCall, Tasks, health
<1>7. ASSUME NEW w \in Sweepers, SweepStep(w) PROVE Goal
  <2>1. ASSUME NEW due, \A g \in due : Launched(g), SweepTurn(w, due) PROVE Goal
    BY <1>1, <2>1 DEF SweepTurn, Launched, Tasks
  <2>2. CASE SweepEnd(w)
    BY <2>2 DEF SweepEnd, health
  <2> QED
    BY <1>0, <1>7, <2>1, <2>2, SnapshotLaunched
       DEF SweepStep, SweepStart, SweepNext, IInv, Slots, HasServer
<1>8. ASSUME ShutdownCall \/ ShutdownStep \/ UNCHANGED vars PROVE Goal
  BY <1>8 DEF ShutdownCall, ShutdownStep, ShutdownStarted, ShutdownHalted, ShutdownDone,
              vars, health
<1>9. Goal
  BY <1>2, <1>3, <1>4, <1>5, <1>6, <1>7, <1>8 DEF Next, Loop
<1> QED
  BY <1>9, StepMoves

LEMMA CalmTold ==
    ASSUME IInv, NEW s \in Servers, Told(s),
           \/ Lull /\ info' = info
           \/ \E z \in Servers : AdmitRefused(z) \/ SpecError(z) \/ ResetCall(z)
           \/ \E g \in Gens : HaltDone(g)
    PROVE  Told(s)'
<1>0. TypeOK /\ info[s] \in ProcessInfo
  BY PidFacts DEF IInv
<1>1. CASE Lull /\ info' = info
  <2>1. \A g \in Gens : Quiet(g)
    BY <1>1 DEF Lull, Alike, Quiet
  <2> QED
    BY <1>1, <2>1, KeepsTold DEF Lull
<1>2. ASSUME procs' = procs, running' = running, info'[s] = info[s] PROVE Told(s)'
  BY <1>2, KeepsTold DEF Quiet
<1>3. CASE \E g \in Gens : HaltDone(g)
  BY <1>2, <1>3 DEF HaltDone, children, health
<1>4. ASSUME NEW z \in Servers, ResetCall(z) PROVE Told(s)'
  <2>1. procs' = procs /\ running' = running
    BY <1>4 DEF ResetCall, slots, children
  <2>2. /\ z # s => info'[s] = info[s]
        /\ z = s => info'[s].pid = info[s].pid /\ info'[s].state = "stopped"
    BY <1>0, <1>4 DEF ResetCall, TypeOK, ProcessInfo
  <2> QED
    BY <1>2, <2>1, <2>2, KeepsTold DEF Quiet
<1>5. ASSUME NEW z \in Servers, AdmitRefused(z) \/ SpecError(z) PROVE Told(s)'
  <2>1. procs' = procs /\ running' = running
    BY <1>5 DEF AdmitRefused, SpecError, children
  <2>2. PICK r : info' = [info EXCEPT ![z] = r] /\ (z = s => r.pid = 0)
    <3>1. [info[s] EXCEPT !.state = "stopped", !.pid = 0].pid = 0
      BY <1>0 DEF ProcessInfo
    <3> QED
      BY <1>5, <3>1, FailedPid DEF AdmitRefused, SpecError, RecordFailure
  <2>3. (z # s => info'[s] = info[s]) /\ (z = s => info'[s].pid = 0)
    BY <1>0, <2>2 DEF TypeOK
  <2>4. z = s => ~Reusable(s)'
    BY <1>5, <2>1, SpawningHasNone DEF AdmitRefused, SpecError, Reusable
  <2> QED
    BY <1>2, <2>1, <2>3, <2>4, ClearsTold
<1> QED
  BY <1>1, <1>3, <1>4, <1>5

LEMMA LaunchTold ==
    ASSUME IInv, NEW s \in Servers, Told(s), NEW z \in Servers,
           SpecOk(z) \/ LaunchOk(z) \/ LaunchError(z)
    PROVE  Told(s)'
<1>0. TypeOK /\ info[z] \in ProcessInfo
  BY PidFacts DEF IInv
<1>1. CASE SpecOk(z)
  <2> DEFINE g == generationSeq + 1
  <2>1. g \in Gens /\ procs[g].life = "unborn" /\ Others(g) /\ running' = running
    BY <1>1, SpecOkDoes
  <2>2. /\ s # z => info'[s] = info[s]
        /\ s = z => info'[s].pid = info[s].pid /\ info'[s].state = "starting"
    BY <1>0, <1>1 DEF SpecOk, TypeOK, ProcessInfo
  <2> HIDE DEF g
  <2>3. \A h \in Gens : procs[h].life # "unborn" => Quiet(h)
    BY <2>1 DEF Others, Quiet
  <2> QED
    BY <2>1, <2>2, <2>3, KeepsTold
<1>2. CASE LaunchOk(z) \/ LaunchError(z)
  <2> DEFINE g == starting[z].gen
  <2>1. /\ g \in Gens /\ procs[g].srv = z /\ Others(g) /\ starting[z].at = "launch"
        /\ procs'[g].srv = z
        /\ \A y \in Servers : running'[y] = IF y = z /\ LaunchOk(z) THEN g ELSE running[y]
    BY <1>2, LaunchDoes
  <2>2. s # z => info'[s] = info[s]
    BY <1>0, <1>2 DEF LaunchOk, LaunchError, RecordFailure, TypeOK
  <2>3. /\ LaunchOk(z) => info'[z].pid = g /\ info'[z].state = "running"
        /\ ~LaunchOk(z) => info'[z].pid = 0
    <3> DEFINE r == [info[z] EXCEPT !.state = "running", !.pid = g]
    <3>1. LaunchOk(z) => info' = [info EXCEPT ![z] = r]
      BY DEF LaunchOk
    <3>2. r.pid = g /\ r.state = "running"
      BY <1>0 DEF ProcessInfo
    <3>3. ~LaunchOk(z) => info' = [info EXCEPT ![z] = Failed(info[z])]
      BY <1>2 DEF LaunchError, RecordFailure
    <3> HIDE DEF g, r
    <3> QED
      BY <1>0, <3>1, <3>2, <3>3, FailedPid DEF TypeOK
  <2>4. g # 0
    BY <2>1, SlotFacts
  <2>5. running[z] # 0 => running[z] # g /\ running[z] \in Gens /\ ~Reusable(z)
    <3>1. running[z] # 0 => running[z] \in Gens /\ procs[running[z]].life # "launching"
      BY SlotFacts DEF IInv, RunningIsOwn
    <3>2. procs[g].life = "launching"
      BY <1>2, LaunchDoes
    <3> HIDE DEF g
    <3> QED
      BY <2>1, <3>1, <3>2, SpawningHasNone
  <2> HIDE DEF g
  <2>6. CASE s # z
    <3>1. \A h \in Gens : procs[h].srv = s => Quiet(h)
      BY <2>1, <2>6 DEF Others, Quiet
    <3> QED
      BY <2>1, <2>2, <2>6, <3>1, KeepsTold
  <2>7. CASE s = z /\ LaunchOk(z)
    BY <2>1, <2>3, <2>4, <2>7 DEF Told
  <2>8. CASE s = z /\ ~LaunchOk(z)
    <3>1. ~Reusable(s)'
      BY <2>1, <2>5, <2>8 DEF Reusable, Others
    <3> QED
      BY <2>3, <2>8, <3>1, ClearsTold
  <2> QED
    BY <2>6, <2>7, <2>8
<1> QED
  BY <1>1, <1>2

LEMMA EndTold ==
    ASSUME IInv, Marks, ~ShuttingDown, NEW s \in Servers, Told(s), NEW g \in Gens,
           Exit(g) \/ ExitStep(g)
    PROVE  Told(s)' \/ LateEnd(s)
<1>0. TypeOK /\ g # 0 /\ info[s] \in ProcessInfo /\ procs[g].srv \in Servers
  BY EndDoes, SlotFacts, PidFacts
<1>1. /\ Others(g) /\ procs'[g].srv = procs[g].srv
      /\ procs'[g].stopping = procs[g].stopping
      /\ procs'[g].open => procs[g].open
      /\ \/ procs[g].life = "alive" /\ procs'[g].life = "exited" /\ ~ExitSeen(g)
         \/ procs[g].life = "exited" /\ procs'[g].life = "closing" /\ ExitSeen(g)
         \/ procs[g].life = "closing" /\ procs'[g].life = "done" /\ ~ExitSeen(g)
      /\ \A z \in Servers :
            running'[z] = IF ExitSeen(g) /\ z = procs[g].srv /\ running[z] = g
                          THEN 0 ELSE running[z]
  BY EndDoes
<1>2. procs[g].srv # s => info'[s] = info[s]
  BY <1>0 DEF Exit, ExitStep, ExitSeen, ExitExpected, ExitCrash, RecordFailure, health, TypeOK
<1>3. procs[g].life # "closing" => info' = info /\ \A h \in Gens : Quiet(h)
  <2>1. procs[g].life # "closing" => info' = info
    BY DEF Exit, ExitStep, ExitSeen, ExitExpected, ExitCrash, health
  <2> QED
    BY <1>1, <2>1 DEF Others, Quiet
<1>4. CASE procs[g].srv # s
  <2>1. \A h \in Gens : procs[h].srv = s => Quiet(h)
    BY <1>1, <1>4 DEF Others, Quiet
  <2> QED
    BY <1>0, <1>1, <1>2, <1>4, <2>1, KeepsTold
<1>5. CASE procs[g].srv = s /\ procs[g].life # "closing"
  <2>1. CASE running'[s] = running[s]
    BY <1>3, <1>5, <2>1, KeepsTold
  <2>2. CASE running[s] = g /\ running'[s] = 0 /\ procs'[g].life = "closing"
    <3>1. ~Reusable(s)' /\ info'[s] = info[s]
      BY <1>3, <1>5, <2>2 DEF Reusable
    <3>2. info[s].pid # 0 =>
             /\ info[s].pid \in Gens /\ procs'[info[s].pid].srv = s
             /\ procs'[info[s].pid].life = "closing"
      BY <1>0, <1>1, <1>5, <2>2, PidFacts DEF Told, Others
    <3> QED
      BY <3>1, <3>2 DEF Told
  <2> QED
    BY <1>1, <1>5, <2>1, <2>2
<1>6. CASE procs[g].srv = s /\ procs[g].life = "closing"
  <2>1. CASE running[s] \notin {0, g}
    BY <1>1, <1>6, <2>1 DEF LateEnd
  <2>2. CASE running[s] \in {0, g}
    <3>1. ~procs[g].open
      BY <1>6 DEF Marks, Marked
    <3>2. ~Reusable(s) /\ ~Reusable(s)'
      BY <1>1, <1>6, <2>2, <3>1 DEF Reusable
    <3>3. info'[s].pid = 0
      <4>1. CASE ExitExpected(g)
        <5>1. info[s].state # "idle" => info' = [info EXCEPT ![s] =
                                            [info[s] EXCEPT !.state = "stopped", !.pid = 0]]
          BY <1>6, <4>1 DEF ExitExpected
        <5>2. info[s].state = "idle" => info' = info /\ info[s].pid = 0
          BY <1>6, <4>1 DEF ExitExpected, Told
        <5>3. [info[s] EXCEPT !.state = "stopped", !.pid = 0].pid = 0
          BY <1>0 DEF ProcessInfo
        <5> QED
          BY <1>0, <5>1, <5>2, <5>3 DEF TypeOK
      <4>2. ASSUME NEW healthy \in BOOLEAN, ExitCrash(g, healthy) PROVE info'[s].pid = 0
        BY <1>0, <1>6, <4>2 DEF ExitCrash, RecordFailure, Failed, TypeOK
      <4> QED
        BY <1>6, <4>1, <4>2 DEF Exit, ExitStep, ExitSeen
    <3> QED
      BY <3>2, <3>3, ClearsTold
  <2> QED
    BY <2>1, <2>2
<1> QED
  BY <1>4, <1>5, <1>6

LEMMA StopTold ==
    ASSUME IInv, NEW s \in Servers, Told(s), StopsNow
    PROVE  Told(s)'
<1> PICK t \in Tasks, z \in Servers, seen \in 0..MaxGen : StopNow(t, z, seen)
  BY DEF StopsNow
<1>0. TypeOK /\ info[z] \in ProcessInfo
  BY SlotFacts, PidFacts
<1> DEFINE r == [info[z] EXCEPT !.state = Target(t), !.pid = 0]
<1>1. r.pid = 0
  BY <1>0 DEF ProcessInfo
<1>2. CASE running[z] = 0
  <2>1. info' = IF info[z].state # "failed" THEN [info EXCEPT ![z] = r] ELSE info
    BY <1>2 DEF StopNow
  <2>2. running' = running /\ procs' = procs
    BY <1>2 DEF StopNow
  <2> HIDE DEF r
  <2>3. info'[s] = info[s] \/ (s = z /\ info'[s].pid = 0)
    BY <1>0, <1>1, <2>1 DEF TypeOK
  <2>4. s = z => ~Reusable(s)'
    BY <1>2, <2>2 DEF Reusable
  <2> QED
    BY <2>2, <2>3, <2>4, ClearsTold, KeepsTold DEF Quiet
<1>3. CASE running[z] # 0
  <2>1. info' = [info EXCEPT ![z] = r]
    BY <1>3 DEF StopNow
  <2>2. /\ procs[running[z]].srv = z /\ Others(running[z])
        /\ \A y \in Servers : running'[y] = IF y = z THEN 0 ELSE running[y]
    BY <1>3, StopDoes
  <2> HIDE DEF r
  <2>3. (s # z => info'[s] = info[s]) /\ (s = z => info'[s].pid = 0)
    BY <1>0, <1>1, <2>1 DEF TypeOK
  <2>4. s # z => \A h \in Gens : procs[h].srv = s => Quiet(h)
    BY <2>2 DEF Others, Quiet
  <2>5. s = z => ~Reusable(s)'
    BY <2>2 DEF Reusable
  <2> QED
    BY <2>2, <2>3, <2>4, <2>5, ClearsTold, KeepsTold
<1> QED
  BY <1>2, <1>3

\* InfoNamesTheProcess: a true report is made false by no step but the end of a process
\* that was replaced before its exit was handled.
THEOREM Informs == Spec => InfoNamesTheProcess
<1>1. IInv /\ Marks /\ [Next]_vars =>
         [\A s \in Servers :
             Told(s) /\ ~ShuttingDown' =>
             \/ Told(s)'
             \/ \E g \in Gens :
                   /\ procs[g].srv = s /\ procs[g].life = "closing" /\ procs'[g].life = "done"
                   /\ running[s] \notin {0, g}]_vars
  <2> SUFFICES ASSUME IInv, Marks, [Next]_vars, NEW s \in Servers, Told(s), ~ShuttingDown'
               PROVE  Told(s)' \/ LateEnd(s)
    BY DEF LateEnd
  <2>1. ~ShuttingDown /\ ~ShutdownHalted
    BY StaysDown, HaltsDoes
  <2> QED
    BY <2>1, InfoSteps, CalmTold, LaunchTold, EndTold, StopTold DEF Move
<1> QED
  BY <1>1, MarksHold, Invariant, PTL DEF Spec, InfoNamesTheProcess

-----------------------------------------------------------------------------
(***************************************************************************)
(* The shutdown.  Each of its three snapshots is the last: nothing starts  *)
(* once the spawns are awaited, nothing runs once the running map has been *)
(* read, and who halts a process waits for it, the shutdown or a stop.     *)
(***************************************************************************)
WaitsFor(t, g) == task[t].op = "stop" /\ task[t].at = "halt" /\ task[t].gen = g

Awaited(g) ==
    \/ \E t \in Tasks : WaitsFor(t, g)
    \/ shutdown.phase = "halt" /\ g \in shutdown.awaits

WindsDown ==
    /\ \A g \in halts : Awaited(g)
    /\ shutdown.phase \in {"halting", "halt", "done"}
          => \A s \in Servers : starting[s].at = "no"
    /\ shutdown.phase \in {"halt", "done"} => \A s \in Servers : running[s] = 0

\* Who has begun to wait for a process waits on.
LEMMA WaitsOn ==
    ASSUME Turns, NEW t \in Tasks, NEW g \in halts, WaitsFor(t, g)
    PROVE  WaitsFor(t, g)'
BY DEF Turns, Turn, Woken, StopAwaits, StopReturns, WaitsFor

LEMMA WindsDownStep == IInv /\ Looked /\ WindsDown /\ [Next]_vars => WindsDown'
<1> SUFFICES ASSUME IInv, Looked, WindsDown, [Next]_vars PROVE WindsDown'
  OBVIOUS
<1>0. Kinds /\ Turns /\ TypeOK
  BY StepKinds, StepTurns DEF IInv, Slots
<1>1. shutdown' = shutdown \/ ShutdownCall \/ ShutdownStep
  BY ShutdownSteps
<1>2. ASSUME NEW g \in halts PROVE Awaited(g)'
  <2>1. (\E t \in Tasks : WaitsFor(t, g)) => \E t \in Tasks : WaitsFor(t, g)'
    BY <1>0, WaitsOn
  <2>2. shutdown.phase = "halt" /\ g \in shutdown.awaits => shutdown' = shutdown
    BY <1>1 DEF ShutdownCall, ShutdownStep, ShutdownStarted, ShutdownHalted, ShutdownDone,
                ShuttingDown
  <2> QED
    BY <2>1, <2>2 DEF WindsDown, Awaited
<1>3. ASSUME NEW g \in halts', g \notin halts PROVE Awaited(g)'
  <2>1. CASE ShutdownHalted
    BY <1>3, <2>1 DEF ShutdownHalted, Awaited
  <2>2. ASSUME NEW t \in Tasks, NEW s \in Servers, NEW seen \in 0..MaxGen, StopNow(t, s, seen)
        PROVE  Awaited(g)'
    <3>1. running[s] = g /\ g # 0
      BY <1>3, <2>2, SlotFacts DEF StopNow
    <3> DEFINE c == [op |-> "stop", at |-> "halt", srv |-> s, gen |-> g, seen |-> seen]
    <3>2. task'[t] = c
      BY <1>0, <2>2, <3>1 DEF StopNow, TypeOK
    <3>3. WaitsFor(t, g)'
      BY <3>2 DEF WaitsFor
    <3> QED
      BY <3>3 DEF Awaited
  <2> QED
    BY <1>0, <1>3, <2>1, <2>2 DEF Kinds, Fade, SpecOk, LaunchOk, LaunchError, StopsNow
<1>4. ASSUME shutdown'.phase \in {"halting", "halt", "done"}, NEW s \in Servers
      PROVE  starting'[s].at = "no"
  <2>1. \/ ShutdownStep
        \/ shutdown' = shutdown /\ ShuttingDown
    BY <1>1, <1>4 DEF ShutdownCall, ShuttingDown
  <2>2. CASE ShutdownStep
    BY <2>2 DEF ShutdownStep, ShutdownStarted, ShutdownHalted, ShutdownDone, WindsDown, slots
  <2>3. CASE shutdown' = shutdown /\ ShuttingDown
    <3>1. \A z \in Servers : starting[z].at = "no"
      BY <1>4, <2>3 DEF WindsDown
    <3> QED
      BY <1>0, <2>3, <3>1 DEF Kinds, Fade, Spawns, SpecOk, LaunchOk, LaunchError, StopsNow,
                              ShutdownHalted
  <2> QED
    BY <2>1, <2>2, <2>3
<1>5. ASSUME shutdown'.phase \in {"halt", "done"}, NEW s \in Servers
      PROVE  running'[s] = 0
  <2>1. \/ ShutdownStep
        \/ shutdown' = shutdown /\ ShuttingDown
    BY <1>1, <1>5 DEF ShutdownCall, ShuttingDown
  <2>2. CASE ShutdownStep
    <3>1. CASE ShutdownStarted
      BY <1>5, <3>1 DEF ShutdownStarted
    <3>2. CASE ShutdownHalted
      BY <3>2 DEF ShutdownHalted
    <3>3. CASE ShutdownDone
      BY <3>3 DEF ShutdownDone, WindsDown, slots
    <3> QED
      BY <2>2, <3>1, <3>2, <3>3 DEF ShutdownStep
  <2>3. CASE shutdown' = shutdown /\ ShuttingDown
    <3>1. running[s] = 0 /\ \A z \in Servers : starting[z].at = "no"
      BY <1>5, <2>3 DEF WindsDown
    <3>2. StopsNow => running'[s] = 0
      BY <1>0, <3>1 DEF StopsNow, StopNow, TypeOK
    <3> QED
      BY <1>0, <3>1, <3>2 DEF Kinds, Fade, SpecOk, LaunchOk, LaunchError, ShutdownHalted
  <2> QED
    BY <2>1, <2>2, <2>3
<1> QED
  BY <1>2, <1>3, <1>4, <1>5 DEF WindsDown

\* Shutdown leaves no connected process alive but what a stop still waits for, whatever was
\* launched or stopped between its snapshots.
THEOREM ShutsDown == Spec => []ShutdownLeavesOnlyStopping
<1>1. Init => WindsDown
  BY DEF Init, WindsDown
<1>2. IInv /\ WindsDown => ShutdownLeavesOnlyStopping
  <2> SUFFICES ASSUME IInv, WindsDown, ~Up, NEW g \in Gens, Connected(g)
               PROVE  \E t \in Tasks : task[t].at = "halt" /\ task[t].gen = g
    BY DEF ShutdownLeavesOnlyStopping
  <2>1. procs[g].srv \in Servers /\ g # 0
    BY SlotFacts DEF Connected
  <2>2. g \in halts
    BY <2>1 DEF IInv, LiveProcessIsOwned, WindsDown, Up
  <2> QED
    BY <2>2 DEF WindsDown, Awaited, WaitsFor, Up
<1> QED
  BY <1>1, <1>2, WindsDownStep, LookedHolds, Invariant, PTL DEF Spec
-----------------------------------------------------------------------------
(***************************************************************************)
(* What stop leaves behind.  When it begins to wait for the halt of its    *)
(* own, all that is left of the launches before its call is that process   *)
(* and those that were replaced.                                           *)
(***************************************************************************)
\* A process of before the call that is still there, in stop's sight.
Earlier(t, g) ==
    /\ g <= task[t].seen /\ procs[g].srv = task[t].srv
    /\ procs[g].life \in {"launching", "alive"} /\ ~Replaced(g)

Settled(t) ==
    task[t].op = "stop" /\ task[t].at = "halt" =>
        /\ task[t].gen \in Gens /\ procs[task[t].gen].stopping
        /\ \A g \in Gens : Earlier(t, g) => g = task[t].gen

Stops == ShuttingDown \/ \A t \in Tasks : Settled(t)

\* Nothing comes back to life, and no process changes servers.
Ages(g) ==
    /\ procs[g].stopping => procs'[g].stopping
    /\ procs'[g].life = "launching" => procs[g].life = "launching" \/ g > generationSeq
    /\ procs'[g].life = "alive" => procs[g].life \in {"launching", "alive"}
    /\ procs'[g].life \in {"launching", "alive"} /\ g <= generationSeq
          => procs'[g].srv = procs[g].srv

LEMMA AgesStep ==
    ASSUME IInv, [Next]_vars
    PROVE  \A g \in Gens : Ages(g)
<1>1. Kinds
  BY StepKinds DEF IInv, Slots
<1>2. CASE Fade
  BY <1>2 DEF Fade, Fades, Born, Ages
<1>3. ASSUME NEW s \in Servers, SpecOk(s) PROVE \A g \in Gens : Ages(g)
  <2> DEFINE n == generationSeq + 1
  <2>1. n \in Gens /\ Others(n) /\ procs'[n].life = "launching" /\ ~procs[n].stopping
    BY <1>3, SpecOkDoes
  <2>2. n > generationSeq /\ ~(n <= generationSeq)
    BY GenFacts DEF IInv
  <2> HIDE DEF n
  <2> QED
    BY <2>1, <2>2 DEF Others, Ages
<1>4. ASSUME NEW s \in Servers, LaunchOk(s) \/ LaunchError(s) PROVE \A g \in Gens : Ages(g)
  <2> DEFINE n == starting[s].gen
  <2>1. /\ n \in Gens /\ Others(n) /\ procs[n].life = "launching" /\ procs[n].srv = s
        /\ procs'[n].srv = s /\ procs'[n].life \in {"alive", "failed"}
    BY <1>4, LaunchDoes
  <2>2. ~procs[n].stopping
    BY <2>1, SlotFacts
  <2> HIDE DEF n
  <2> QED
    BY <2>1, <2>2 DEF Others, Ages
<1>5. ASSUME NEW t \in Tasks, NEW s \in Servers, NEW seen \in 0..MaxGen, StopNow(t, s, seen)
      PROVE  \A g \in Gens : Ages(g)
  <2>1. CASE running[s] = 0
    BY <1>5, <2>1 DEF StopNow, Ages
  <2>2. CASE running[s] # 0
    BY <1>5, <2>2, StopDoes DEF Others, Ages
  <2> QED
    BY <2>1, <2>2
<1>6. CASE ShutdownHalted
  BY <1>6, HaltsDoes DEF Ages
<1> QED
  BY <1>1, <1>2, <1>3, <1>4, <1>5, <1>6 DEF Kinds, StopsNow

\* What is replaced stays replaced, whatever step is taken.
LEMMA ReplacedStays ==
    ASSUME IInv, ~ShutdownHalted, Lull \/ Move, NEW g \in Gens,
           Replaced(g), procs[g].life \notin Unlaunched
    PROVE  Replaced(g)'
<1> SUFFICES \A h \in Gens :
                /\ procs[h].life \notin Unlaunched =>
                      procs'[h].srv = procs[h].srv /\ procs'[h].life \notin Unlaunched
                /\ procs'[h].open => procs[h].open \/ procs[h].life \in Unlaunched
  BY StaysReplaced
<1> USE DEF Unlaunched
<1>1. CASE Lull
  BY <1>1 DEF Lull, Alike
<1>2. ASSUME NEW s \in Servers, SpecOk(s) \/ LaunchOk(s) \/ LaunchError(s),
             NEW h \in Gens
      PROVE  /\ procs[h].life \notin Unlaunched =>
                   procs'[h].srv = procs[h].srv /\ procs'[h].life \notin Unlaunched
             /\ procs'[h].open => procs[h].open \/ procs[h].life \in Unlaunched
  BY <1>2, SpecOkDoes, LaunchDoes DEF Others
<1>3. ASSUME NEW x \in Gens, Exit(x) \/ ExitStep(x), NEW h \in Gens
      PROVE  /\ procs[h].life \notin Unlaunched =>
                   procs'[h].srv = procs[h].srv /\ procs'[h].life \notin Unlaunched
             /\ procs'[h].open => procs[h].open \/ procs[h].life \in Unlaunched
  BY <1>3, EndDoes DEF Others
<1>4. CASE \E x \in Gens : HaltDone(x)
  BY <1>4 DEF HaltDone, children
<1>5. CASE StopsNow
  <2> PICK t \in Tasks, s \in Servers, seen \in 0..MaxGen : StopNow(t, s, seen)
    BY <1>5 DEF StopsNow
  <2>1. CASE running[s] = 0
    BY <2>1 DEF StopNow
  <2>2. CASE running[s] # 0
    BY <2>2, StopDoes DEF Others
  <2> QED
    BY <2>1, <2>2
<1> QED
  BY <1>1, <1>2, <1>3, <1>4, <1>5 DEF Move

\* A process being launched is the newest of its server.
LEMMA LaunchingIsNewest ==
    ASSUME IInv, Orderly, NEW g \in Gens, procs[g].life = "launching"
    PROVE  ~Replaced(g)
<1> PICK s \in Servers : s = procs[g].srv
  BY SlotFacts
<1>1. starting[s].at = "launch" /\ starting[s].gen = g
  BY DEF Orderly, Place
<1>2. \A h \in Gens : procs[h].srv = s /\ procs[h].life # "unborn" => h <= g
  BY <1>1 DEF Orderly, Slot
<1>3. \A h \in Gens : h \in Nat
  BY NoGeneration DEF Gens
<1> QED
  BY <1>2, <1>3 DEF Replaced

\* What there may be of a server that is not starting one.
LEMMA AllThereIs ==
    ASSUME IInv, Orderly, NEW s \in Servers, NEW g \in Gens,
           procs[g].srv = s, procs[g].life \in {"launching", "alive"}, ~Replaced(g)
    PROVE  /\ procs[g].life = "launching" => starting[s].at = "launch"
           /\ procs[g].life = "alive" =>
                 \/ ~procs[g].stopping /\ running[s] = g
                 \/ procs[g].stopping /\ halting[s] = g
           /\ g # 0
BY SlotFacts DEF Orderly, Place

LEMMA StopsStep == IInv /\ Looked /\ InTurn /\ Stops /\ [Next]_vars => Stops'
<1> SUFFICES ASSUME IInv, Looked, Orderly, \A u \in Tasks : Settled(u),
                    ~ShuttingDown', [Next]_vars, NEW t \in Tasks
             PROVE  Settled(t)'
  BY StaysDown DEF Stops, InTurn
<1>0. /\ Turn(t) /\ Settled(t) /\ (\A g \in Gens : Ages(g))
      /\ (Lull \/ Move) /\ ~ShutdownHalted
  BY StepTurns, AgesStep, StepMoves, HaltsDoes DEF Turns
<1>1. /\ TypeOK /\ generationSeq \in Nat /\ (\A g \in Gens : g \in Nat)
      /\ task[t].op = "stop" => task[t].srv \in Servers /\ task[t].seen \in Nat
                                /\ task[t].seen <= generationSeq
  BY NoGeneration, GenFacts DEF IInv, HasServer, TypeOK, Call, Gens, Looked
<1>2. CASE task'[t] = task[t] /\ task[t].op = "stop"
  <2>1. ASSUME NEW g \in Gens, Earlier(t, g)' PROVE Earlier(t, g)
    <3>1. /\ g <= task[t].seen /\ procs[g].srv = task[t].srv
          /\ procs[g].life \in {"launching", "alive"}
      BY <1>0, <1>1, <1>2, <2>1 DEF Earlier, Ages
    <3>2. Replaced(g) /\ procs[g].life = "alive" => Replaced(g)'
      BY <1>0, ReplacedStays DEF Unlaunched
    <3>3. procs[g].life = "launching" => ~Replaced(g)
      BY LaunchingIsNewest
    <3> QED
      BY <2>1, <3>1, <3>2, <3>3 DEF Earlier
  <2> QED
    BY <1>0, <1>2, <2>1 DEF Settled, Ages
<1>3. CASE task'[t].op # "stop"
  BY <1>3 DEF Settled
<1>4. CASE Woken(t)
  BY <1>4 DEF Woken, Settled
<1>5. CASE StopAwaits(t)
  <2> PICK s \in Servers : s = task'[t].srv
    BY <1>5 DEF StopAwaits
  <2>1. CASE task'[t].at # "halt"
    BY <2>1 DEF Settled
  <2>2. CASE StopNow(t, s, task'[t].seen) /\ running[s] # 0 /\ Clear(t, s)
             /\ task'[t].at = "halt" /\ task'[t].gen = running[s]
    <3>1. /\ running[s] \in Gens /\ procs'[running[s]].stopping
          /\ \A g \in Gens : /\ procs'[g].srv = procs[g].srv /\ procs'[g].life = procs[g].life
                             /\ procs'[g].open = procs[g].open
      BY <2>2, StopDoes DEF Others
    <3>2. starting[s].at = "no" /\ halting[s] = 0
      BY <2>2, ClearSlot
    <3>3. \A g \in Gens : Replaced(g) => Replaced(g)'
      BY <3>1 DEF Replaced
    <3> QED
      BY <2>2, <3>1, <3>2, <3>3, AllThereIs DEF Settled, Earlier
  <2> QED
    BY <1>5, <2>1, <2>2 DEF StopAwaits
<1> QED
  BY <1>0, <1>2, <1>3, <1>4, <1>5 DEF Turn, StopReturns

\* Nothing that was there when it was called, and in its sight, outlives a stop.
LEMMA ReturnLeavesNone ==
    ASSUME IInv, Orderly, NEW t \in Tasks, Settled(t), StopReturns(t), NEW g \in Gens
    PROVE  ~Earlier(t, g)
<1> SUFFICES ASSUME Earlier(t, g) PROVE FALSE
  OBVIOUS
<1>1. task[t].op = "stop" /\ task[t].srv \in Servers /\ g # 0
  BY SlotFacts DEF StopReturns, IInv, HasServer
<1> PICK s \in Servers : s = task[t].srv
  BY <1>1
<1>2. procs[g].srv = s /\ procs[g].life \in {"launching", "alive"} /\ ~Replaced(g)
  BY DEF Earlier
<1>3. Waiting(t) /\ Slot(s) /\ Place(g)
  BY DEF Orderly
<1>4. CASE task[t].at = "started" /\ halting[s] = 0 /\ running[s] = 0
  BY <1>1, <1>2, <1>3, <1>4, AllThereIs DEF Waiting
<1>5. CASE task[t].at = "halting" /\ task[t].gen \notin halts /\ running[s] = 0
  BY <1>1, <1>2, <1>3, <1>5, AllThereIs DEF Waiting
<1>6. CASE task[t].at = "halt" /\ task[t].gen \notin halts
  <2>1. g = task[t].gen /\ procs[g].stopping
    BY <1>1, <1>6 DEF Settled
  <2>2. procs[g].life = "alive"
    BY <1>2, <2>1, SlotFacts
  <2> QED
    BY <1>1, <1>2, <1>3, <1>6, <2>1, <2>2 DEF Place, Slot
<1> QED
  BY <1>4, <1>5, <1>6 DEF StopReturns

\* A stop returns after the end of every process its server had when it was called, those
\* of the spawns in flight included, whatever else starts, stops or crashes meanwhile; but
\* one that lost its connection and was replaced, which is out of stop's sight.
THEOREM StopEnds == Spec => StopEndsEarlierProcesses
<1>1. Init => Stops
  BY DEF Init, Stops, Settled, NoTask
<1>2. IInv /\ Looked /\ InTurn /\ Stops /\ [Next]_vars =>
         [\A t \in Tasks :
             task[t].op = "stop" /\ task'[t].op = "none" /\ ~ShuttingDown =>
             \A g \in Gens :
                 g <= task[t].seen /\ procs[g].srv = task[t].srv
                 => procs'[g].life \notin {"launching", "alive"} \/ Replaced(g)']_vars
  <2> SUFFICES ASSUME IInv, Looked, InTurn, Stops, [Next]_vars,
                      NEW t \in Tasks, task[t].op = "stop", task'[t].op = "none",
                      ~ShuttingDown, NEW g \in Gens,
                      g <= task[t].seen, procs[g].srv = task[t].srv
               PROVE  procs'[g].life \notin {"launching", "alive"} \/ Replaced(g)'
    OBVIOUS
  <2>1. Turn(t) /\ Settled(t) /\ Orderly
    BY StepTurns DEF Turns, Stops, InTurn
  <2>2. StopReturns(t) /\ procs' = procs
    BY <2>1 DEF Turn, Woken, StopAwaits, StopReturns
  <2>3. Replaced(g) => Replaced(g)'
    BY <2>2 DEF Replaced
  <2> QED
    BY <2>1, <2>2, <2>3, ReturnLeavesNone DEF Earlier
<1>3. Spec => []Stops
  BY <1>1, StopsStep, LookedHolds, InTurnHolds, Invariant, PTL DEF Spec
<1> QED
  BY <1>2, <1>3, LookedHolds, InTurnHolds, Invariant, PTL DEF Spec, StopEndsEarlierProcesses
=============================================================================
