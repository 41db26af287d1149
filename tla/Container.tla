------------------------------- MODULE Container -------------------------------
(***************************************************************************)
(* Servers that run in containers (apps/gateway/src/upstream/docker): the  *)
(* calls a launch makes to the docker daemon one after the other, the wait *)
(* call that reports the exit, what stopping asks for, and the sweep of    *)
(* leftovers when the gateway comes back from a crash.                     *)
(*                                                                         *)
(* Any call to the daemon may fail; a create or a start that failed may    *)
(* have had its effect all the same.  The supervisor (module Supervisor) is here the guards    *)
(* under which it launches and stops: one launch of a server at a time,    *)
(* none while a halt is awaited or a connected container runs.             *)
(*                                                                         *)
(* Bounds: MaxBoxes (containers ever created), MaxRenames, MaxFaults       *)
(* (failed calls) and MaxCrashes, and MaxTroubles for these together.      *)
(***************************************************************************)
EXTENDS Naturals, FiniteSets

CONSTANTS
    Servers,       \* servers of this gateway
    Names,         \* names a server may have
    MaxBoxes,      \* containers ever created
    InitialNames,  \* server -> its name at first
    MaxRenames,    \* renamings of servers
    MaxFaults,     \* calls to the daemon that fail
    MaxCrashes,    \* crashes of the gateway
    MaxTroubles    \* renamings, failed calls and crashes together

ASSUME ContainerAssumption ==
    /\ MaxBoxes \in Nat
    /\ IsFiniteSet(Servers) /\ InitialNames \in [Servers -> Names]
    /\ \A s, t \in Servers : InitialNames[s] = InitialNames[t] => s = t
    /\ MaxRenames \in Nat /\ MaxFaults \in Nat /\ MaxCrashes \in Nat /\ MaxTroubles \in Nat

VARIABLES
    names,         \* server -> its name, unique
    box,           \* container -> its labels and state in the daemon
    wait,          \* container -> the wait call whose answer is handle.exited
    open,          \* containers whose attach stream is open
    orders,        \* container -> the stop and the kill call: none, sent or lost
    spawn,         \* server -> the launch under way
    held,          \* server -> the supervisor's running map, 0 for nothing
    halting,       \* server -> the supervisor's halting map, 0 for nothing
    boot,          \* the gateway: down, sweeping its leftovers or up
    missed,        \* history: containers a failed call has left in place
    renames, faults, crashes

daemon == <<box, wait, open, orders>>
supervisor == <<held, halting>>
counters == <<missed, renames, faults, crashes>>
vars == <<names, daemon, spawn, supervisor, boot, counters>>

-----------------------------------------------------------------------------
Boxes == 1..MaxBoxes
NoBox == [srv |-> 0, name |-> 0, life |-> "none"]
Calls == {"stop", "kill"}
NoSpawn == [at |-> "none", name |-> 0, todo |-> {}, id |-> 0]
NoOrders == [call \in Calls |-> "none"]
Present == {i \in Boxes : box[i].life \in {"created", "running", "exited"}}

\* Mutant: any container of the gateway counts as a leftover of the server.
OfGateway(s) == Present

Of(s) == {i \in Present : box[i].srv = s}

TypeOK ==
    /\ names \in [Servers -> Names] /\ \A s, t \in Servers : names[s] = names[t] => s = t
    /\ box \in [Boxes -> [srv : Servers \cup {0}, name : Names \cup {0},
                          life : {"none", "created", "running", "exited", "removed"}]]
    /\ wait \in [Boxes -> {"none", "sent", "waiting", "stuck", "answered", "done"}]
    /\ open \subseteq {i \in Boxes : box[i].life \in {"created", "running"}}
    /\ orders \in [Boxes -> [Calls -> {"none", "sent", "lost"}]]
    /\ spawn \in [Servers -> [at : {"none", "list", "clear", "create", "free", "again",
                                    "attach", "start", "undo"},
                              name : Names \cup {0}, todo : SUBSET Boxes, id : Boxes \cup {0}]]
    /\ held \in [Servers -> Boxes \cup {0}] /\ halting \in [Servers -> Boxes \cup {0}]
    /\ boot \in [at : {"down", "list", "clear", "up"}, todo : SUBSET Boxes]
    /\ missed \subseteq Boxes /\ renames \in 0..MaxRenames /\ faults \in 0..MaxFaults /\ crashes \in 0..MaxCrashes
    \* a name is in use once
    /\ \A i, j \in Present : box[i].name = box[j].name => i = j

Init ==
    /\ names = InitialNames
    /\ box = [i \in Boxes |-> NoBox] /\ wait = [i \in Boxes |-> "none"]
    /\ open = {} /\ orders = [i \in Boxes |-> NoOrders]
    /\ spawn = [s \in Servers |-> NoSpawn]
    /\ held = [s \in Servers |-> 0] /\ halting = [s \in Servers |-> 0]
    /\ boot = [at |-> "up", todo |-> {}]
    /\ missed = {} /\ renames = 0 /\ faults = 0 /\ crashes = 0

-----------------------------------------------------------------------------
(***************************************************************************)
(* Calls to the daemon.                                                    *)
(***************************************************************************)
Bearable == renames + faults + crashes < MaxTroubles
Fault == faults < MaxFaults /\ Bearable /\ faults' = faults + 1
NoFault == faults' = faults

\* A container exits or is removed: its attach stream ends and the wait call, if the
\* daemon has it, is answered.
Ends(i, life) ==
    /\ box' = [box EXCEPT ![i].life = life]
    /\ open' = open \ {i}
    /\ wait' = [wait EXCEPT ![i] = IF @ = "waiting" \/ (@ = "stuck" /\ life = "removed") THEN "answered" ELSE @]

\* remove, by force; its failure is swallowed.  There may be nothing to remove.
Remove(i) ==
    \/ /\ i \in Present /\ Ends(i, "removed") /\ NoFault /\ UNCHANGED missed
    \/ /\ i \in Present /\ Fault /\ missed' = missed \cup {i} /\ UNCHANGED <<box, open, wait>>
    \/ /\ i \notin Present /\ NoFault /\ UNCHANGED <<box, open, wait, missed>>

\* The process in the container ends, by itself or by a signal.
Exit(i) ==
    /\ box[i].life = "running" /\ Ends(i, "exited")
    /\ UNCHANGED <<names, orders, spawn, supervisor, boot, counters>>

\* The attach stream breaks under a running container.
StreamDrops(i) ==
    /\ i \in open /\ box[i].life = "running" /\ Fault
    /\ open' = open \ {i}
    /\ UNCHANGED <<names, box, wait, orders, spawn, supervisor, boot, missed, renames, crashes>>

\* The wait call asks for the next exit: a container that has exited already has none.
WaitArrives(i) ==
    /\ wait[i] = "sent"
    /\ wait' = [wait EXCEPT ![i] = CASE box[i].life \in {"created", "running"} -> "waiting"
                                     [] box[i].life = "exited" -> "stuck"
                                     [] OTHER -> "answered"]
    /\ UNCHANGED <<names, box, open, orders, spawn, supervisor, boot, counters>>

WaitLost(i) ==
    /\ wait[i] \in {"sent", "waiting", "stuck"} /\ Fault
    /\ wait' = [wait EXCEPT ![i] = "answered"]
    /\ UNCHANGED <<names, box, open, orders, spawn, supervisor, boot, missed, renames, crashes>>

\* The finally of exited: the attachment is closed and the container removed, and only
\* then is exited resolved.
ExitedRemoves(i) ==
    /\ wait[i] = "answered"
    /\ \/ /\ i \in Present /\ NoFault /\ UNCHANGED missed
          /\ box' = [box EXCEPT ![i].life = "removed"]
       \/ /\ i \in Present /\ Fault /\ missed' = missed \cup {i} /\ UNCHANGED box
       \/ /\ i \notin Present /\ NoFault /\ UNCHANGED <<box, missed>>
    /\ open' = open \ {i} /\ wait' = [wait EXCEPT ![i] = "done"]
    /\ UNCHANGED <<names, orders, spawn, supervisor, boot, renames, crashes>>

\* terminate, and kill after the grace: each call arrives or is lost, its failure swallowed.
OrderLands(i) ==
    /\ \E call \in Calls : orders[i][call] = "sent" /\ orders' = [orders EXCEPT ![i][call] = "none"]
    /\ IF box[i].life = "running" THEN Ends(i, "exited") ELSE UNCHANGED <<box, open, wait>>
    /\ UNCHANGED <<names, spawn, supervisor, boot, counters>>

OrderLost(i) ==
    /\ \E call \in Calls : orders[i][call] = "sent" /\ orders' = [orders EXCEPT ![i][call] = "lost"]
    /\ Fault
    /\ UNCHANGED <<names, box, open, wait, spawn, supervisor, boot, missed, renames, crashes>>

-----------------------------------------------------------------------------
(***************************************************************************)
(* spawnContainer.                                                         *)
(***************************************************************************)
To(s, at) == spawn' = [spawn EXCEPT ![s].at = at]
Throws(s) == spawn' = [spawn EXCEPT ![s] = NoSpawn]
Used == {i \in Boxes : box[i].life # "none"}
Launches == {s \in Servers : spawn[s].at # "none"}
Untouched == UNCHANGED <<names, supervisor, boot, renames, crashes>>

Launch(s) ==
    /\ boot.at = "up" /\ spawn[s].at = "none" /\ halting[s] = 0
    /\ held[s] # 0 => held[s] \notin open
    /\ Cardinality(Used) + Cardinality(Launches) < Cardinality(Boxes)
    /\ spawn' = [spawn EXCEPT ![s] = [NoSpawn EXCEPT !.at = "list", !.name = names[s]]]
    /\ UNCHANGED <<daemon, missed, faults>> /\ Untouched

\* removeOwn: the containers with the gateway's and the server's label are removed.
Clearing(s, ids) ==
    spawn' = [spawn EXCEPT ![s].at = IF ids = {} THEN "create" ELSE "clear", ![s].todo = ids]

\* Mutant: what is left of the server is not looked for.
ListOwnNothing(s) ==
    /\ spawn[s].at = "list" /\ To(s, "create")
    /\ UNCHANGED <<daemon, missed, faults>> /\ Untouched

ListOwn(s) ==
    /\ spawn[s].at = "list"
    /\ \/ Clearing(s, Of(s)) /\ NoFault /\ UNCHANGED missed
       \/ Clearing(s, {}) /\ Fault /\ missed' = missed \cup Of(s)
    /\ UNCHANGED daemon /\ Untouched

ClearOwn(s) ==
    /\ spawn[s].at = "clear"
    /\ \E i \in spawn[s].todo : Remove(i) /\ Clearing(s, spawn[s].todo \ {i})
    /\ UNCHANGED orders /\ Untouched

NameFree(s) == \A i \in Present : box[i].name # spawn[s].name

Creates(s, i) ==
    /\ box[i].life = "none" /\ \A j \in 1..(i - 1) : box[j].life # "none"
    /\ box' = [box EXCEPT ![i] = [srv |-> s, name |-> spawn[s].name, life |-> "created"]]

Create(s) ==
    /\ spawn[s].at \in {"create", "again"} /\ NameFree(s)
    /\ \E i \in Boxes : Creates(s, i) /\ spawn' = [spawn EXCEPT ![s].at = "attach", ![s].id = i]
    /\ UNCHANGED <<wait, open, orders, missed, faults>> /\ Untouched

\* 409: whatever has the name is removed, and the creation tried once more.
NameTaken(s) ==
    /\ spawn[s].at \in {"create", "again"} /\ ~NameFree(s)
    /\ IF spawn[s].at = "create" THEN To(s, "free") ELSE Throws(s)
    /\ UNCHANGED <<daemon, missed, faults>> /\ Untouched

FreeName(s) ==
    /\ spawn[s].at = "free" /\ To(s, "again")
    /\ IF NameFree(s) THEN UNCHANGED <<box, open, wait, missed, faults>>
       ELSE \E i \in Present : box[i].name = spawn[s].name /\ Remove(i)
    /\ UNCHANGED orders /\ Untouched

\* The image is not there and cannot be pulled, or the creation fails: the launch ends.
CallFails(s) ==
    /\ spawn[s].at \in {"create", "again"} /\ Fault /\ Throws(s)
    /\ UNCHANGED <<daemon, missed>> /\ Untouched

\* The container was created, but the answer is lost: the launch ends without its id.
CreatedUnheard(s) ==
    /\ spawn[s].at \in {"create", "again"} /\ NameFree(s) /\ Fault /\ Throws(s)
    /\ \E i \in Boxes : Creates(s, i) /\ missed' = missed \cup {i}
    /\ UNCHANGED <<wait, open, orders>> /\ Untouched

\* The wait call is sent with the start call, before its answer.
Attach(s) ==
    LET i == spawn[s].id
    IN  /\ spawn[s].at = "attach"
        /\ \/ /\ box[i].life = "created" /\ To(s, "start")
              /\ open' = open \cup {i} /\ wait' = [wait EXCEPT ![i] = "sent"] /\ NoFault
           \/ /\ box[i].life = "created" /\ To(s, "undo") /\ Fault /\ UNCHANGED <<open, wait>>
           \/ /\ box[i].life # "created" /\ To(s, "undo") /\ NoFault /\ UNCHANGED <<open, wait>>
        /\ UNCHANGED <<box, orders, missed>> /\ Untouched

\* The daemon starts the container; the answer comes later, when it may have exited.
Started(s) ==
    /\ spawn[s].at = "start" /\ box[spawn[s].id].life = "created"
    /\ box' = [box EXCEPT ![spawn[s].id].life = "running"]
    /\ UNCHANGED <<wait, open, orders, spawn, missed, faults>> /\ Untouched

StartAnswers(s) ==
    /\ spawn[s].at = "start" /\ box[spawn[s].id].life \in {"running", "exited", "removed"}
    /\ Throws(s) /\ held' = [held EXCEPT ![s] = spawn[s].id]
    /\ UNCHANGED <<names, daemon, halting, boot, counters>>

StartFails(s) ==
    /\ spawn[s].at = "start" /\ To(s, "undo")
    /\ \/ box[spawn[s].id].life = "removed" /\ NoFault
       \/ box[spawn[s].id].life # "removed" /\ Fault
    /\ open' = open \ {spawn[s].id}
    /\ UNCHANGED <<box, wait, orders, missed>> /\ Untouched

\* Mutant: a launch whose attach or start failed leaves the container.
UndoNothing(s) ==
    /\ spawn[s].at = "undo" /\ Throws(s)
    /\ UNCHANGED <<daemon, missed, faults>> /\ Untouched

Undo(s) ==
    /\ spawn[s].at = "undo" /\ Remove(spawn[s].id) /\ Throws(s)
    /\ UNCHANGED orders /\ Untouched

-----------------------------------------------------------------------------
(***************************************************************************)
(* The supervisor's part: it stops a container, gives up one whose stream  *)
(* has ended, and sees that one has exited.                                *)
(***************************************************************************)

\* Mutant: no kill follows when the grace is over.
TerminatesOnly(i) == orders' = [orders EXCEPT ![i]["stop"] = "sent"]

Terminates(i) == orders' = [orders EXCEPT ![i] = [call \in Calls |-> "sent"]]

Stop(s) ==
    /\ held[s] # 0 /\ halting[s] = 0 /\ spawn[s].at = "none"
    /\ Terminates(held[s])
    /\ halting' = [halting EXCEPT ![s] = held[s]] /\ held' = [held EXCEPT ![s] = 0]
    /\ UNCHANGED <<names, box, wait, open, spawn, boot, counters>>

StreamEnded(s) ==
    /\ held[s] # 0 /\ held[s] \notin open /\ spawn[s].at = "none" /\ orders[held[s]] = NoOrders
    /\ Terminates(held[s])
    /\ UNCHANGED <<names, box, wait, open, spawn, supervisor, boot, counters>>

\* watchExit, and the end of a halt, whose dispose removes the container once more (so does
\* the end of a StreamEnded, left out: it could only remove one more leftover).
ExitSeen(s) ==
    /\ \/ /\ held[s] # 0 /\ wait[held[s]] = "done"
          /\ held' = [held EXCEPT ![s] = 0] /\ UNCHANGED <<halting, box, open, wait, missed, faults>>
       \/ /\ halting[s] # 0 /\ wait[halting[s]] = "done"
          /\ halting' = [halting EXCEPT ![s] = 0] /\ Remove(halting[s]) /\ UNCHANGED held
    /\ UNCHANGED <<names, orders, spawn, boot, renames, crashes>>

-----------------------------------------------------------------------------
Rename(s, name) ==
    /\ boot.at = "up" /\ \A t \in Servers : names[t] # name
    /\ renames < MaxRenames /\ Bearable /\ renames' = renames + 1
    /\ names' = [names EXCEPT ![s] = name]
    /\ UNCHANGED <<daemon, spawn, supervisor, boot, missed, faults, crashes>>

\* The gateway dies; the containers go on.
Crash ==
    /\ boot.at = "up" /\ crashes < MaxCrashes /\ Bearable /\ crashes' = crashes + 1
    /\ boot' = [at |-> "down", todo |-> {}]
    /\ spawn' = [s \in Servers |-> NoSpawn]
    /\ held' = [s \in Servers |-> 0] /\ halting' = [s \in Servers |-> 0]
    /\ wait' = [i \in Boxes |-> "none"] /\ open' = {} /\ orders' = [i \in Boxes |-> NoOrders]
    /\ UNCHANGED <<names, box, missed, renames, faults>>

\* reapContainers, before the gateway listens.
Reaping(ids) == boot' = [at |-> IF ids = {} THEN "up" ELSE "clear", todo |-> ids]

ReapList ==
    /\ boot.at = "down"
    /\ \/ Reaping(Present) /\ NoFault /\ UNCHANGED missed
       \/ Reaping({}) /\ Fault /\ missed' = missed \cup Present
    /\ UNCHANGED <<names, daemon, spawn, supervisor, renames, crashes>>

ReapOne ==
    /\ boot.at = "clear"
    /\ \E i \in boot.todo : Remove(i) /\ Reaping(boot.todo \ {i})
    /\ UNCHANGED <<names, orders, spawn, supervisor, renames, crashes>>

-----------------------------------------------------------------------------
SpawnStep(s) ==
    \/ ListOwn(s) \/ ClearOwn(s) \/ Create(s) \/ NameTaken(s) \/ FreeName(s) \/ Attach(s)
    \/ Started(s) \/ StartAnswers(s) \/ StartFails(s) \/ Undo(s)

Next ==
    \/ \E s \in Servers : \/ Launch(s) \/ SpawnStep(s) \/ CallFails(s) \/ CreatedUnheard(s) \/ Stop(s)
                          \/ StreamEnded(s) \/ ExitSeen(s) \/ \E name \in Names : Rename(s, name)
    \/ \E i \in Boxes : \/ Exit(i) \/ StreamDrops(i) \/ WaitArrives(i) \/ WaitLost(i)
                        \/ ExitedRemoves(i) \/ OrderLands(i) \/ OrderLost(i)
    \/ Crash \/ ReapList \/ ReapOne

Spec == Init /\ [][Next]_vars

\* The daemon answers what it is asked and the gateway goes on; a container need not exit.
Fairness ==
    /\ \A s \in Servers : WF_vars(ExitSeen(s))
    /\ \A i \in Boxes : WF_vars(WaitArrives(i)) /\ WF_vars(ExitedRemoves(i)) /\ WF_vars(OrderLands(i))
FairSpec == Spec /\ Fairness

-----------------------------------------------------------------------------
(***************************************************************************)
(* Properties.                                                             *)
(***************************************************************************)
\* A server has at most one running container, whatever was renamed, replaced, crashed
\* or started in vain, but for one that a failed call has left in place.
OneContainerPerServer ==
    /\ TypeOK
    /\ \A i, j \in Boxes :
          /\ box[i].life = "running" /\ box[j].life = "running"
          /\ box[i].srv = box[j].srv /\ {i, j} \cap missed = {}
          => i = j

\* No container is forgotten, whatever step a launch, a stop or a crash was at: each has a
\* launch, a wait call or a sweep that will remove it, but for those a failed call has left
\* and those that exited before their wait call arrived.
NoneIsForgotten ==
    \A i \in Present \ missed :
        \/ wait[i] \in {"sent", "waiting", "answered"}
        \/ wait[i] = "stuck" /\ box[i].life = "exited"
        \/ \E s \in Servers : spawn[s].id = i \/ i \in spawn[s].todo
        \/ boot.at = "down" \/ i \in boot.todo

\* A running container is removed by the sweep of a gateway that comes up, by the end of
\* its own wait call, by a launch or a stop of its own server, and by nothing else but a
\* launch that frees its server's name, which the container has since the one server or
\* the other was renamed.  (The code does so then: the container of the other is killed.)
OthersAreSpared ==
    [][\A i \in Boxes :
          box[i].life = "running" /\ box'[i].life = "removed"
          => \/ boot.at = "clear" \/ wait[i] = "answered"
             \/ spawn'[box[i].srv] # spawn[box[i].srv] \/ halting[box[i].srv] = i
             \/ \E s \in Servers :
                   /\ spawn[s].at = "free" /\ box[i].name = spawn[s].name
                   /\ box[i].name # names[box[i].srv] \/ spawn[s].name # names[s]]_vars

\* A stop returns, also when the child ignores SIGTERM, when the stop, the kill or the wait
\* call is lost, and after a stream that broke.  It does not, and no timeout ends it, when
\* the container had exited before the wait call arrived, and when both the stop and the
\* kill call are lost.
StopReturns ==
    \A s \in Servers :
        halting[s] # 0 ~> \/ halting[s] = 0 \/ wait[halting[s]] = "stuck"
                          \/ orders[halting[s]] = [call \in Calls |-> "lost"]
=============================================================================
