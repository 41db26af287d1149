----------------------------- MODULE ContainerProofs -----------------------------
(***************************************************************************)
(* Proofs about Container, for any servers, names, containers and bounds.  *)
(***************************************************************************)
EXTENDS Container, TLAPS

BoxRec == [srv : Servers \cup {0}, name : Names \cup {0},
           life : {"none", "created", "running", "exited", "removed"}]
SpawnRec == [at : {"none", "list", "clear", "create", "free", "again", "attach", "start", "undo"},
             name : Names \cup {0}, todo : SUBSET Boxes, id : Boxes \cup {0}]
BootRec == [at : {"down", "list", "clear", "up"}, todo : SUBSET Boxes]
Sends == [Calls -> {"none", "sent", "lost"}]
Waits == {"none", "sent", "waiting", "stuck", "answered", "done"}

(***************************************************************************)
(* The types, in parts: what a step of the daemon changes, what a step of  *)
(* a launch changes, and what the supervisor and the administrator change. *)
(***************************************************************************)
Daemon ==
    /\ box \in [Boxes -> BoxRec] /\ wait \in [Boxes -> Waits]
    /\ open \subseteq {i \in Boxes : box[i].life \in {"created", "running"}}
    /\ missed \subseteq Boxes
    /\ \A i, j \in Present : box[i].name = box[j].name => i = j

Gateway ==
    /\ names \in [Servers -> Names] /\ \A s, t \in Servers : names[s] = names[t] => s = t
    /\ orders \in [Boxes -> Sends] /\ spawn \in [Servers -> SpawnRec]
    /\ held \in [Servers -> Boxes \cup {0}] /\ halting \in [Servers -> Boxes \cup {0}]
    /\ boot \in BootRec
    /\ renames \in 0..MaxRenames /\ faults \in 0..MaxFaults /\ crashes \in 0..MaxCrashes

LEMMA TypedIs == TypeOK <=> Daemon /\ Gateway
BY DEF TypeOK, Daemon, Gateway, BoxRec, SpawnRec, BootRec, Waits, Sends

(***************************************************************************)
(* A container has a server, and may have a wait call, once it is created; *)
(* the call is stuck at an exited container only, and done when its        *)
(* container is away.                                                      *)
(***************************************************************************)
Left(s) == Of(s) \ missed

Boxed ==
    \A i \in Boxes :
        /\ box[i].life # "none" => box[i].srv \in Servers
        /\ box[i].life = "none" => wait[i] = "none"
        /\ wait[i] = "stuck" => box[i].life = "exited"
        /\ wait[i] = "done" => i \notin Present \ missed

(***************************************************************************)
(* A launch has a container from its creation to the answer of the start,  *)
(* and clears none but its server's.                                       *)
(***************************************************************************)
Having == {"attach", "start", "undo"}

Fits(s, launch) ==
    /\ launch.at \in Having =>
          launch.id \in Boxes /\ box[launch.id].srv = s /\ box[launch.id].life # "none"
    /\ launch.at \notin Having => launch.id = 0
    /\ launch.at # "clear" => launch.todo = {}
    /\ \A i \in launch.todo : box[i].srv = s /\ box[i].life # "none"
    /\ launch.at = "start" => wait[launch.id] # "none"

Launching == \A s \in Servers : Fits(s, spawn[s])

(***************************************************************************)
(* A server has one container at most, running or not, but for those       *)
(* missed; none when a launch creates one.                                 *)
(***************************************************************************)
Lone(s, launch) ==
    /\ \A i, j \in Left(s) : i = j
    /\ launch.at = "clear" => Left(s) \subseteq launch.todo
    /\ launch.at \in {"create", "free", "again"} => Left(s) = {}
    /\ launch.at \in Having => Left(s) \subseteq {launch.id}

Alone == \A s \in Servers : Lone(s, spawn[s])

Kept(i) ==
    \/ \E s \in Servers : spawn[s].id = i \/ i \in spawn[s].todo
    \/ boot.at = "down" \/ i \in boot.todo

Guarded == \A i \in Present \ missed : wait[i] = "none" => Kept(i)

Inv == Daemon /\ Gateway /\ Boxed /\ Launching /\ Alone /\ Guarded

-----------------------------------------------------------------------------
(***************************************************************************)
(* Records and counts.                                                     *)
(***************************************************************************)
LEMMA Empties ==
  /\ NoBox \in BoxRec /\ NoBox.life = "none"
  /\ NoSpawn \in SpawnRec /\ NoSpawn.at = "none" /\ NoSpawn.id = 0 /\ NoSpawn.todo = {}
  /\ 0 \notin Boxes /\ Having = {"attach", "start", "undo"}
BY ContainerAssumption DEF NoBox, NoSpawn, BoxRec, SpawnRec, Boxes, Having

LEMMA NoOrdersSends == NoOrders \in Sends /\ [call \in Calls |-> "sent"] \in Sends
BY DEF NoOrders, Sends

LEMMA FaultCounts == faults \in 0..MaxFaults /\ (Fault \/ NoFault) => faults' \in 0..MaxFaults
BY ContainerAssumption DEF Fault, NoFault

LEMMA InitInv == Init => Inv
<1> SUFFICES ASSUME Init
             PROVE  Inv
  OBVIOUS
<1>1. /\ box \in [Boxes -> BoxRec] /\ \A i \in Boxes : box[i].life = "none"
      /\ wait \in [Boxes -> Waits] /\ \A i \in Boxes : wait[i] = "none"
  BY Empties DEF Init, Waits
<1>2. Present = {} /\ \A s \in Servers : Of(s) = {} /\ Left(s) = {}
  BY <1>1 DEF Present, Of, Left
<1>3. Daemon
  BY <1>1, <1>2 DEF Init, Daemon
<1>4. /\ spawn \in [Servers -> SpawnRec]
      /\ \A s \in Servers : spawn[s].at = "none" /\ spawn[s].id = 0 /\ spawn[s].todo = {}
  BY Empties DEF Init
<1>5. Gateway
  BY <1>4, NoOrdersSends, ContainerAssumption DEF Init, Gateway, BootRec
<1>6. Boxed
  BY <1>1 DEF Boxed
<1>7. Launching /\ Alone
  BY <1>2, <1>4, Empties DEF Launching, Fits, Alone, Lone
<1>8. Guarded
  BY <1>2 DEF Guarded
<1> QED
  BY <1>3, <1>5, <1>6, <1>7, <1>8 DEF Inv

-----------------------------------------------------------------------------
(***************************************************************************)
(* Most steps create no container: what there is fades.                    *)
(***************************************************************************)
Fades ==
    /\ \A i \in Boxes : /\ box'[i].srv = box[i].srv /\ box'[i].name = box[i].name
                        /\ box'[i].life = "none" <=> box[i].life = "none"
                        /\ i \in Present' => i \in Present
                        /\ wait'[i] = "none" => wait[i] = "none"
    /\ missed \subseteq missed'

LEMMA FadesLeft ==
  ASSUME Fades, NEW s
  PROVE  Left(s)' \subseteq Left(s)
BY DEF Fades, Left, Of, Present

\* What is as it was fades.
LEMMA Stays == UNCHANGED <<box, wait, missed>> => Fades
BY DEF Fades, Present

\* A container exits or is removed.
LEMMA EndsFades ==
  ASSUME Daemon, Boxed, NEW i \in Present, NEW life, Ends(i, life), missed' = missed,
         (life = "exited" /\ box[i].life = "running") \/ life = "removed"
  PROVE  Daemon' /\ Boxed' /\ Fades /\ (life = "removed" => i \notin Present')
<1>1. i \in Boxes
  BY DEF Present
<1>2. /\ box' \in [Boxes -> BoxRec] /\ box'[i].life = life
      /\ box'[i].srv = box[i].srv /\ box'[i].name = box[i].name
      /\ \A j \in Boxes : j # i => box'[j] = box[j]
  BY <1>1 DEF Ends, Daemon, BoxRec
<1>3. /\ wait' \in [Boxes -> Waits]
      /\ \A j \in Boxes : j # i => wait'[j] = wait[j]
      /\ wait'[i] = IF wait[i] = "waiting" \/ (wait[i] = "stuck" /\ life = "removed")
                    THEN "answered" ELSE wait[i]
  BY <1>1 DEF Ends, Daemon, Waits
<1>4. Fades
  BY <1>1, <1>2, <1>3 DEF Fades, Present
<1>5. open' \subseteq {j \in Boxes : box'[j].life \in {"created", "running"}}
  BY <1>1, <1>2 DEF Ends, Daemon
<1>6. Daemon'
  BY <1>2, <1>3, <1>4, <1>5 DEF Daemon, Fades, Present
<1>7. Boxed'
  BY <1>1, <1>2, <1>3 DEF Boxed, Present
<1> QED
  BY <1>2, <1>4, <1>6, <1>7 DEF Present

\* remove, whether it fails or not.
LEMMA RemoveFades ==
  ASSUME Daemon, Boxed, Gateway, NEW i \in Boxes, Remove(i)
  PROVE  Daemon' /\ Boxed' /\ Fades /\ i \notin Present' \ missed' /\ faults' \in 0..MaxFaults
<1>1. faults' \in 0..MaxFaults
  BY FaultCounts DEF Remove, Gateway
<1>2. CASE i \in Present /\ Ends(i, "removed") /\ UNCHANGED missed
  BY <1>1, <1>2, EndsFades
<1>3. CASE missed' = missed \cup {i} /\ UNCHANGED <<box, open, wait>>
  BY <1>1, <1>3 DEF Daemon, Boxed, Fades, Present
<1>4. CASE i \notin Present /\ UNCHANGED <<box, open, wait, missed>>
  BY <1>1, <1>4 DEF Daemon, Boxed, Fades, Present
<1> QED
  BY <1>2, <1>3, <1>4 DEF Remove

LEMMA FadesAlone ==
  ASSUME Inv, Fades, UNCHANGED spawn
  PROVE  Launching' /\ Alone'
<1>1. \A s \in Servers : Left(s)' \subseteq Left(s)
  BY FadesLeft
<1>2. Alone'
  BY <1>1 DEF Inv, Alone, Lone
<1>3. Launching'
  <2> SUFFICES ASSUME NEW s \in Servers
               PROVE  Fits(s, spawn[s])'
    BY DEF Launching
  <2>1. spawn[s].todo \subseteq Boxes
    BY DEF Inv, Gateway, SpawnRec
  <2> QED
    BY <2>1 DEF Inv, Launching, Fits, Fades, Having
<1> QED
  BY <1>2, <1>3

LEMMA FadesInv ==
  ASSUME Inv, Fades, Daemon', Boxed', Gateway', UNCHANGED <<spawn, boot>>
  PROVE  Inv'
<1>1. Guarded'
  BY DEF Inv, Guarded, Fades, Kept, Present
<1> QED
  BY <1>1, FadesAlone DEF Inv

(***************************************************************************)
(* The steps of the daemon, of the supervisor and of the administrator.    *)
(***************************************************************************)
LEMMA DaemonInv ==
  ASSUME Inv, NEW i \in Boxes,
         \/ Exit(i) \/ StreamDrops(i) \/ WaitArrives(i) \/ WaitLost(i)
         \/ ExitedRemoves(i) \/ OrderLands(i) \/ OrderLost(i)
  PROVE  Inv'
<1> USE DEF Inv
<1>1. CASE Exit(i)
  <2>1. i \in Present /\ Ends(i, "exited") /\ missed' = missed
    BY <1>1 DEF Exit, Present, counters
  <2>2. Gateway'
    BY <1>1 DEF Exit, Gateway, supervisor, counters
  <2> QED
    BY <1>1, <2>1, <2>2, EndsFades, FadesInv DEF Exit
<1>2. CASE StreamDrops(i)
  <2>1. Gateway'
    BY <1>2, FaultCounts DEF StreamDrops, Gateway, supervisor
  <2>2. Daemon' /\ Boxed'
    BY <1>2 DEF StreamDrops, Daemon, Boxed, Present
  <2> QED
    BY <1>2, <2>1, <2>2, Stays, FadesInv DEF StreamDrops
<1>3. CASE WaitArrives(i)
  <2>1. /\ wait[i] = "sent" /\ UNCHANGED <<names, box, open, orders, spawn, supervisor, boot, counters>>
        /\ wait' = [wait EXCEPT ![i] = CASE box[i].life \in {"created", "running"} -> "waiting"
                                         [] box[i].life = "exited" -> "stuck"
                                         [] OTHER -> "answered"]
    BY <1>3 DEF WaitArrives
  <2>2. /\ wait'[i] \in {"waiting", "stuck", "answered"}
        /\ wait'[i] = "stuck" => box[i].life = "exited"
        /\ wait' \in [Boxes -> Waits] /\ \A j \in Boxes : j # i => wait'[j] = wait[j]
    BY <2>1 DEF Daemon, Waits
  <2>3. Daemon' /\ Boxed' /\ Fades
    BY <2>1, <2>2 DEF Daemon, Boxed, Fades, Present, counters
  <2>4. Gateway'
    BY <2>1 DEF Gateway, supervisor, counters
  <2> QED
    BY <2>1, <2>3, <2>4, FadesInv
<1>4. CASE WaitLost(i)
  <2>1. Gateway'
    BY <1>4, FaultCounts DEF WaitLost, Gateway, supervisor
  <2>2. Daemon' /\ Boxed' /\ Fades
    BY <1>4 DEF WaitLost, Daemon, Boxed, Fades, Present, Waits
  <2> QED
    BY <1>4, <2>1, <2>2, FadesInv DEF WaitLost
<1>5. CASE ExitedRemoves(i)
  <2>1. Gateway'
    BY <1>5, FaultCounts DEF ExitedRemoves, Gateway, supervisor
  <2>2. /\ wait[i] = "answered" /\ open' = open \ {i} /\ wait' = [wait EXCEPT ![i] = "done"]
        /\ UNCHANGED <<spawn, boot>>
    BY <1>5 DEF ExitedRemoves
  <2>3. CASE i \in Present /\ missed' = missed /\ box' = [box EXCEPT ![i].life = "removed"]
    <3>1. /\ box' \in [Boxes -> BoxRec] /\ box'[i].life = "removed"
          /\ box'[i].srv = box[i].srv /\ box'[i].name = box[i].name
          /\ \A j \in Boxes : j # i => box'[j] = box[j]
      BY <2>3 DEF Daemon, BoxRec
    <3>2. Fades
      BY <2>2, <2>3, <3>1 DEF Fades, Present, Daemon
    <3>3. Daemon'
      BY <2>2, <2>3, <3>1 DEF Daemon, Present, Waits
    <3>4. Boxed'
      BY <2>2, <2>3, <3>1 DEF Daemon, Boxed, Present
    <3> QED
      BY <2>1, <2>2, <3>2, <3>3, <3>4, FadesInv
  <2>4. CASE \/ i \in Present /\ missed' = missed \cup {i} /\ UNCHANGED box
             \/ i \notin Present /\ UNCHANGED <<box, missed>>
    <3>1. Daemon' /\ Boxed' /\ Fades
      BY <2>2, <2>4 DEF Daemon, Boxed, Fades, Present, Waits
    <3> QED
      BY <2>1, <2>2, <3>1, FadesInv
  <2> QED
    BY <1>5, <2>3, <2>4 DEF ExitedRemoves
<1>6. CASE OrderLands(i)
  <2>1. orders' \in [Boxes -> Sends]
    BY <1>6 DEF OrderLands, Gateway, Sends
  <2>2. Gateway'
    BY <1>6, <2>1 DEF OrderLands, Gateway, supervisor, counters
  <2>3. CASE box[i].life = "running"
    <3>1. i \in Present /\ Ends(i, "exited") /\ missed' = missed
      BY <1>6, <2>3 DEF OrderLands, Present, counters
    <3> QED
      BY <1>6, <2>2, <2>3, <3>1, EndsFades, FadesInv DEF OrderLands
  <2>4. CASE box[i].life # "running"
    <3>1. Daemon' /\ Boxed' /\ Fades
      BY <1>6, <2>4 DEF OrderLands, Daemon, Boxed, Fades, Present, counters
    <3> QED
      BY <1>6, <2>2, <3>1, FadesInv DEF OrderLands
  <2> QED
    BY <2>3, <2>4
<1>7. CASE OrderLost(i)
  <2>1. orders' \in [Boxes -> Sends]
    BY <1>7 DEF OrderLost, Gateway, Sends
  <2>2. Gateway'
    BY <1>7, <2>1, FaultCounts DEF OrderLost, Gateway, supervisor
  <2>3. Daemon' /\ Boxed' /\ Fades
    BY <1>7, Stays DEF OrderLost, Daemon, Boxed, Present
  <2> QED
    BY <1>7, <2>2, <2>3, FadesInv DEF OrderLost
<1> QED
  BY <1>1, <1>2, <1>3, <1>4, <1>5, <1>6, <1>7

LEMMA StoppingInv ==
  ASSUME Inv, NEW s \in Servers,
         Stop(s) \/ StreamEnded(s) \/ ExitSeen(s) \/ \E name \in Names : Rename(s, name)
  PROVE  Inv'
<1> USE DEF Inv
<1>1. ASSUME UNCHANGED <<box, wait, open, spawn, boot, missed>>, Gateway'
      PROVE  Inv'
  BY <1>1, Stays, FadesInv DEF Daemon, Boxed, Present
<1>2. \A i \in Boxes : [orders EXCEPT ![i] = [call \in Calls |-> "sent"]] \in [Boxes -> Sends]
  BY NoOrdersSends DEF Gateway
<1>3. CASE Stop(s)
  <2>1. held[s] \in Boxes
    BY <1>3 DEF Stop, Gateway
  <2>2. Gateway'
    BY <1>2, <1>3, <2>1 DEF Stop, Terminates, Gateway, counters
  <2> QED
    BY <1>1, <1>3, <2>2 DEF Stop, counters
<1>4. CASE StreamEnded(s)
  <2>1. held[s] \in Boxes
    BY <1>4 DEF StreamEnded, Gateway
  <2>2. Gateway'
    BY <1>2, <1>4, <2>1 DEF StreamEnded, Terminates, Gateway, supervisor, counters
  <2> QED
    BY <1>1, <1>4, <2>2 DEF StreamEnded, counters
<1>5. CASE ExitSeen(s)
  <2>1. CASE UNCHANGED <<halting, box, open, wait, missed, faults>> /\ held' = [held EXCEPT ![s] = 0]
    <3>1. Gateway'
      BY <1>5, <2>1 DEF ExitSeen, Gateway
    <3> QED
      BY <1>1, <1>5, <2>1, <3>1 DEF ExitSeen
  <2>2. CASE /\ halting[s] # 0 /\ halting' = [halting EXCEPT ![s] = 0]
             /\ Remove(halting[s]) /\ UNCHANGED held
    <3>1. halting[s] \in Boxes
      BY <2>2 DEF Gateway
    <3>2. Daemon' /\ Boxed' /\ Fades /\ faults' \in 0..MaxFaults
      BY <2>2, <3>1, RemoveFades
    <3>3. Gateway'
      BY <1>5, <2>2, <3>2 DEF ExitSeen, Gateway
    <3> QED
      BY <1>5, <3>2, <3>3, FadesInv DEF ExitSeen
  <2> QED
    BY <1>5, <2>1, <2>2 DEF ExitSeen
<1>6. CASE \E name \in Names : Rename(s, name)
  <2>1. PICK name \in Names : Rename(s, name)
    BY <1>6
  <2>2. names' \in [Servers -> Names] /\ \A t, u \in Servers : names'[t] = names'[u] => t = u
    BY <2>1 DEF Rename, Gateway
  <2>3. renames' \in 0..MaxRenames
    BY <2>1, ContainerAssumption DEF Rename, Gateway
  <2>4. Gateway'
    BY <2>1, <2>2, <2>3 DEF Rename, Gateway, daemon, supervisor
  <2> QED
    BY <1>1, <2>1, <2>4 DEF Rename, daemon
<1> QED
  BY <1>3, <1>4, <1>5, <1>6

-----------------------------------------------------------------------------
(***************************************************************************)
(* The steps of a launch.                                                  *)
(***************************************************************************)
\* What a step that makes the launch of s another one has to show.
LEMMA SpawnInv ==
  ASSUME Inv, NEW s \in Servers, NEW launch \in SpawnRec, spawn' = [spawn EXCEPT ![s] = launch],
         Fades, Daemon', Boxed', Gateway', UNCHANGED boot,
         Fits(s, launch)', Lone(s, launch)',
         \A i \in Present' \ missed' : wait'[i] = "none" /\ (spawn[s].id = i \/ i \in spawn[s].todo)
                                       => launch.id = i \/ i \in launch.todo
  PROVE  Inv'
<1> spawn \in [Servers -> SpawnRec]
  BY DEF Inv, Gateway
<1>1. spawn'[s] = launch /\ \A t \in Servers : t # s => spawn'[t] = spawn[t]
  OBVIOUS
<1>2. Launching'
  <2> SUFFICES ASSUME NEW t \in Servers, t # s
               PROVE  Fits(t, spawn[t])'
    BY <1>1 DEF Launching, Fits
  <2>1. spawn'[t] = spawn[t] /\ spawn[t].todo \subseteq Boxes
    BY <1>1 DEF SpawnRec
  <2> QED
    BY <2>1 DEF Inv, Launching, Fits, Fades, Having
<1>3. Alone'
  <2> SUFFICES ASSUME NEW t \in Servers, t # s
               PROVE  Lone(t, spawn[t])'
    BY <1>1 DEF Alone, Lone
  <2>1. spawn'[t] = spawn[t] /\ Left(t)' \subseteq Left(t)
    BY <1>1, FadesLeft
  <2> QED
    BY <2>1 DEF Inv, Alone, Lone
<1>4. Guarded'
  <2> SUFFICES ASSUME NEW i \in Present' \ missed', wait'[i] = "none"
               PROVE  Kept(i)'
    BY DEF Guarded
  <2>1. Kept(i)
    BY DEF Inv, Guarded, Fades, Present
  <2> QED
    BY <1>1, <2>1 DEF Kept
<1> QED
  BY <1>2, <1>3, <1>4 DEF Inv

\* A launch that is given up, or over, with no container to care for.
LEMMA ThrowsInv ==
  ASSUME Inv, NEW s \in Servers, Throws(s), Fades, Daemon', Boxed', Gateway', UNCHANGED boot,
         \A i \in Present' \ missed' : spawn[s].id = i \/ i \in spawn[s].todo => wait'[i] # "none"
  PROVE  Inv'
<1>1. Left(s)' \subseteq Left(s)
  BY FadesLeft
<1>2. Lone(s, spawn[s])
  BY DEF Inv, Alone
<1>3. Lone(s, NoSpawn)'
  BY <1>1, <1>2, Empties DEF Lone
<1>4. Fits(s, NoSpawn)'
  BY Empties DEF Fits
<1> QED
  BY <1>3, <1>4, SpawnInv, Empties DEF Throws

LEMMA ClearingInv ==
  ASSUME Inv, NEW s \in Servers, NEW ids \in SUBSET Boxes, Clearing(s, ids),
         spawn[s].at \in {"list", "clear"},
         Fades, Daemon', Boxed', UNCHANGED boot,
         faults' \in 0..MaxFaults, UNCHANGED <<names, orders, held, halting, renames, crashes>>,
         \A i \in ids : box[i].srv = s /\ box[i].life # "none",
         Left(s)' \subseteq ids,
         \A i \in spawn[s].todo \ ids : i \notin Present' \ missed'
  PROVE  Inv'
<1>1. PICK launch : launch = [spawn[s] EXCEPT !.at = IF ids = {} THEN "create" ELSE "clear",
                                              !.todo = ids]
  OBVIOUS
<1>2. spawn \in [Servers -> SpawnRec] /\ spawn[s] \in SpawnRec
  BY DEF Inv, Gateway
<1>3. /\ launch \in SpawnRec /\ launch.at = IF ids = {} THEN "create" ELSE "clear"
      /\ launch.todo = ids /\ launch.id = spawn[s].id
  BY <1>1, <1>2 DEF SpawnRec
<1>4. spawn' = [spawn EXCEPT ![s] = launch]
  BY <1>1, <1>2 DEF Clearing
<1>5. Gateway'
  BY <1>2, <1>3, <1>4 DEF Inv, Gateway
<1>6. Fits(s, launch)'
  <2>1. Fits(s, spawn[s])
    BY DEF Inv, Launching
  <2> QED
    BY <1>3, <2>1 DEF Fits, Fades, Having
<1>7. Left(s)' \subseteq Left(s) /\ Lone(s, spawn[s])
  BY FadesLeft DEF Inv, Alone
<1>8. Lone(s, launch)'
  BY <1>3, <1>7, Empties DEF Lone
<1> QED
  BY <1>3, <1>4, <1>5, <1>6, <1>8, SpawnInv

LEMMA ToInv ==
  ASSUME Inv, NEW s \in Servers, NEW at, To(s, at), Fades, Daemon', Boxed', UNCHANGED boot,
         faults' \in 0..MaxFaults, UNCHANGED <<names, orders, held, halting, renames, crashes>>,
         \/ spawn[s].at \in {"create", "free", "again"} /\ at \in {"free", "again"}
         \/ spawn[s].at \in Having /\ at \in {"start", "undo"},
         at = "start" => wait'[spawn[s].id] # "none"
  PROVE  Inv'
<1>1. PICK launch : launch = [spawn[s] EXCEPT !.at = at]
  OBVIOUS
<1>2. spawn \in [Servers -> SpawnRec] /\ spawn[s] \in SpawnRec
  BY DEF Inv, Gateway
<1>3. /\ launch \in SpawnRec /\ launch.at = at
      /\ launch.todo = spawn[s].todo /\ launch.id = spawn[s].id
  BY <1>1, <1>2, Empties DEF SpawnRec
<1>4. spawn' = [spawn EXCEPT ![s] = launch]
  BY <1>1, <1>2 DEF To
<1>5. Gateway'
  BY <1>2, <1>3, <1>4 DEF Inv, Gateway
<1>6. Fits(s, launch)'
  <2>1. Fits(s, spawn[s])
    BY DEF Inv, Launching
  <2> QED
    BY <1>2, <1>3, <2>1, Empties DEF Fits, Fades
<1>7. Left(s)' \subseteq Left(s) /\ Lone(s, spawn[s])
  BY FadesLeft DEF Inv, Alone
<1>8. Lone(s, launch)'
  BY <1>3, <1>7, Empties DEF Lone
<1> QED
  BY <1>3, <1>4, <1>5, <1>6, <1>8, SpawnInv

\* The launch at s, and what it has.
LEMMA At ==
  ASSUME Inv, NEW s \in Servers
  PROVE  spawn[s] \in SpawnRec /\ Fits(s, spawn[s]) /\ Lone(s, spawn[s])
BY DEF Inv, Gateway, Launching, Alone

LEMMA ClearsInv ==
  ASSUME Inv, NEW s \in Servers, Launch(s) \/ ListOwn(s) \/ ClearOwn(s)
  PROVE  Inv'
<1>1. CASE Launch(s)
  <2>1. PICK launch : launch = [NoSpawn EXCEPT !.at = "list", !.name = names[s]]
    OBVIOUS
  <2>2. launch \in SpawnRec /\ launch.at = "list" /\ launch.todo = {} /\ launch.id = 0
    BY <2>1, Empties DEF SpawnRec, Inv, Gateway
  <2>3. /\ spawn[s].at = "none" /\ spawn' = [spawn EXCEPT ![s] = launch]
        /\ UNCHANGED <<daemon, missed, faults>> /\ Untouched
    BY <1>1, <2>1 DEF Launch
  <2>4. Fades /\ Daemon' /\ Boxed'
    BY <2>3, Stays DEF Inv, Daemon, Boxed, Present, daemon
  <2>5. Gateway'
    BY <2>2, <2>3 DEF Inv, Gateway, daemon, Untouched, supervisor
  <2>6. Fits(s, launch)' /\ Lone(s, launch)'
    BY <2>2, <2>4, At, FadesLeft, Empties DEF Fits, Lone
  <2>7. spawn[s].todo = {} /\ spawn[s].id = 0
    BY <2>3, At, Empties DEF Fits
  <2>8. \A i \in Present' \ missed' : ~(spawn[s].id = i \/ i \in spawn[s].todo)
    BY <2>7, Empties DEF Present
  <2> QED
    BY <2>2, <2>3, <2>4, <2>5, <2>6, <2>8, SpawnInv DEF Untouched
<1>2. CASE ListOwn(s)
  <2>1. /\ spawn[s].at = "list" /\ UNCHANGED daemon /\ Untouched
        /\ \/ Clearing(s, Of(s)) /\ NoFault /\ UNCHANGED missed
           \/ Clearing(s, {}) /\ Fault /\ missed' = missed \cup Of(s)
    BY <1>2 DEF ListOwn
  <2>2. Of(s) \subseteq Boxes /\ spawn[s].todo = {}
    BY <2>1, At DEF Of, Present, Fits
  <2>3. Fades /\ Daemon' /\ Boxed' /\ faults' \in 0..MaxFaults
    BY <2>1, <2>2, FaultCounts DEF Inv, Gateway, Daemon, Boxed, Present, daemon, Fades
  <2>4. UNCHANGED <<box, orders>>
    BY <2>1 DEF daemon
  <2>5. CASE Clearing(s, Of(s)) /\ UNCHANGED missed
    <3>1. \A i \in Of(s) : box[i].srv = s /\ box[i].life # "none"
      BY DEF Of, Present
    <3>2. Left(s)' \subseteq Of(s)
      BY <2>3, FadesLeft DEF Left
    <3> QED
      BY <2>1, <2>2, <2>3, <2>4, <2>5, <3>1, <3>2, ClearingInv DEF Untouched, supervisor
  <2>6. CASE Clearing(s, {}) /\ missed' = missed \cup Of(s)
    <3>1. Left(s)' = {}
      BY <2>4, <2>6 DEF Left, Of, Present
    <3> QED
      BY <2>1, <2>2, <2>3, <2>4, <2>6, <3>1, ClearingInv DEF Untouched, supervisor
  <2> QED
    BY <2>1, <2>5, <2>6
<1>3. CASE ClearOwn(s)
  <2>1. PICK i \in spawn[s].todo : Remove(i) /\ Clearing(s, spawn[s].todo \ {i})
    BY <1>3 DEF ClearOwn
  <2>2. spawn[s].at = "clear" /\ UNCHANGED orders /\ Untouched
    BY <1>3 DEF ClearOwn
  <2>3. i \in Boxes /\ spawn[s].todo \subseteq Boxes
    BY <2>1, At DEF SpawnRec
  <2>4. Daemon' /\ Boxed' /\ Fades /\ i \notin Present' \ missed' /\ faults' \in 0..MaxFaults
    BY <2>1, <2>3, RemoveFades DEF Inv
  <2>5. Left(s)' \subseteq spawn[s].todo \ {i}
    <3>1. Left(s)' \subseteq Left(s) /\ Left(s) \subseteq spawn[s].todo
      BY <2>2, <2>4, FadesLeft, At DEF Lone
    <3>2. i \notin Left(s)'
      BY <2>4 DEF Left, Of
    <3> QED
      BY <3>1, <3>2
  <2>6. \A j \in spawn[s].todo : box[j].srv = s /\ box[j].life # "none"
    BY At DEF Fits
  <2>7. \A j \in spawn[s].todo \ (spawn[s].todo \ {i}) : j \notin Present' \ missed'
    BY <2>4
  <2>8. spawn[s].todo \ {i} \in SUBSET Boxes
    BY <2>3
  <2> QED
    BY <2>1, <2>2, <2>4, <2>5, <2>6, <2>7, <2>8, ClearingInv DEF Untouched, supervisor
<1> QED
  BY <1>1, <1>2, <1>3

LEMMA CreatesInv ==
  ASSUME Inv, NEW s \in Servers, Create(s)
  PROVE  Inv'
<1>1. PICK i \in Boxes :
         /\ box[i].life = "none"
         /\ box' = [box EXCEPT ![i] = [srv |-> s, name |-> spawn[s].name, life |-> "created"]]
         /\ spawn' = [spawn EXCEPT ![s].at = "attach", ![s].id = i]
  BY DEF Create, Creates
<1>2. /\ spawn[s].at \in {"create", "again"} /\ NameFree(s) /\ Untouched
      /\ UNCHANGED <<wait, open, orders, missed, faults>>
  BY DEF Create
<1>3. spawn \in [Servers -> SpawnRec] /\ spawn[s] \in SpawnRec /\ Fits(s, spawn[s]) /\ Lone(s, spawn[s])
  BY At DEF Inv, Gateway
<1>4. PICK launch : launch = [spawn[s] EXCEPT !.at = "attach", !.id = i]
  OBVIOUS
<1>5. /\ launch \in SpawnRec /\ launch.at = "attach" /\ launch.id = i /\ launch.todo = {}
  BY <1>2, <1>3, <1>4 DEF SpawnRec, Fits
<1>6. spawn' = [spawn EXCEPT ![s] = launch]
  BY <1>1, <1>3, <1>4
<1>7. /\ box' \in [Boxes -> BoxRec]
      /\ box'[i].srv = s /\ box'[i].life = "created" /\ box'[i].name = spawn[s].name
      /\ \A j \in Boxes : j # i => box'[j] = box[j]
  BY <1>1, <1>3 DEF Inv, Daemon, BoxRec, SpawnRec
<1>8. Present' = Present \cup {i} /\ i \notin Present
  BY <1>1, <1>7 DEF Present
<1>9. Daemon'
  <2>1. \A j \in Present : box'[j] = box[j] /\ box[j].name # spawn[s].name
    BY <1>2, <1>7, <1>8 DEF NameFree, Present
  <2>2. \A j, l \in Present' : box'[j].name = box'[l].name => j = l
    BY <1>7, <1>8, <2>1 DEF Inv, Daemon
  <2> QED
    BY <1>1, <1>2, <1>7, <2>2 DEF Inv, Daemon
<1>10. Gateway'
  BY <1>2, <1>5, <1>6 DEF Inv, Gateway, Untouched, supervisor
<1>11. Boxed'
  BY <1>1, <1>2, <1>7, <1>8 DEF Inv, Boxed
<1>12. \A t \in Servers : /\ t # s => spawn'[t] = spawn[t] /\ Left(t)' = Left(t)
                          /\ Left(s)' \subseteq Left(s) \cup {i}
  BY <1>2, <1>6, <1>7, <1>8 DEF Left, Of, Inv, Gateway, Present
<1>13. Launching'
  <2> SUFFICES ASSUME NEW t \in Servers
               PROVE  Fits(t, spawn[t])'
    BY DEF Launching
  <2>1. CASE t = s
    BY <1>3, <1>5, <1>6, <1>7, <2>1, Empties DEF Fits
  <2>2. CASE t # s
    <3>1. spawn'[t] = spawn[t] /\ Fits(t, spawn[t]) /\ spawn[t] \in SpawnRec
      BY <1>12, <2>2, At
    <3>2. i \notin spawn[t].todo /\ (spawn[t].at \in Having => spawn[t].id # i)
      BY <1>1, <3>1 DEF Fits
    <3> QED
      BY <1>2, <1>7, <3>1, <3>2 DEF Fits, SpawnRec, Having
  <2> QED
    BY <2>1, <2>2
<1>14. Alone'
  <2> SUFFICES ASSUME NEW t \in Servers
               PROVE  Lone(t, spawn[t])'
    BY DEF Alone
  <2>1. CASE t = s
    <3>1. Left(s)' \subseteq {i} /\ spawn'[s] = launch
      BY <1>2, <1>3, <1>6, <1>12 DEF Lone
    <3> QED
      BY <1>5, <2>1, <3>1, Empties DEF Lone
  <2>2. CASE t # s
    BY <1>12, <2>2, At DEF Lone
  <2> QED
    BY <2>1, <2>2
<1>15. Guarded'
  <2> SUFFICES ASSUME NEW j \in Present' \ missed', wait'[j] = "none"
               PROVE  Kept(j)'
    BY DEF Guarded
  <2>1. CASE j = i
    BY <1>3, <1>5, <1>6, <2>1 DEF Kept
  <2>2. CASE j # i
    <3>1. Kept(j) /\ boot' = boot
      BY <1>2, <1>8, <2>2 DEF Inv, Guarded, Untouched
    <3>2. \A t \in Servers : spawn[t].id = j \/ j \in spawn[t].todo => t # s
      <4>1. spawn[s].id = 0 /\ spawn[s].todo = {}
        BY <1>2, <1>3, Empties DEF Fits
      <4>2. j # 0
        BY Empties DEF Present
      <4> QED
        BY <4>1, <4>2
    <3> QED
      BY <1>12, <3>1, <3>2 DEF Kept
  <2> QED
    BY <2>1, <2>2
<1> QED
  BY <1>9, <1>10, <1>11, <1>13, <1>14, <1>15 DEF Inv

\* A container nobody has heard of is missed: what each server has is as it was.
LEMMA UnheardInv ==
  ASSUME Inv, NEW s \in Servers, CreatedUnheard(s)
  PROVE  Inv'
<1>1. PICK i \in Boxes :
         /\ box[i].life = "none" /\ missed' = missed \cup {i}
         /\ box' = [box EXCEPT ![i] = [srv |-> s, name |-> spawn[s].name, life |-> "created"]]
  BY DEF CreatedUnheard, Creates
<1>2. /\ spawn[s].at \in {"create", "again"} /\ NameFree(s) /\ Untouched
      /\ UNCHANGED <<wait, open, orders>> /\ spawn' = [spawn EXCEPT ![s] = NoSpawn] /\ Fault
  BY DEF CreatedUnheard, Throws
<1>3. spawn \in [Servers -> SpawnRec] /\ spawn[s] \in SpawnRec /\ Fits(s, spawn[s])
  BY At DEF Inv, Gateway
<1>4. /\ box' \in [Boxes -> BoxRec]
      /\ box'[i].srv = s /\ box'[i].life = "created" /\ box'[i].name = spawn[s].name
      /\ \A j \in Boxes : j # i => box'[j] = box[j]
  BY <1>1, <1>3 DEF Inv, Daemon, BoxRec, SpawnRec
<1>5. Present' = Present \cup {i} /\ i \notin Present
  BY <1>1, <1>4 DEF Present
<1>6. Daemon'
  <2>1. \A j \in Present : box'[j] = box[j] /\ box[j].name # spawn[s].name
    BY <1>2, <1>4, <1>5 DEF NameFree, Present
  <2>2. \A j, l \in Present' : box'[j].name = box'[l].name => j = l
    BY <1>4, <1>5, <2>1 DEF Inv, Daemon
  <2> QED
    BY <1>1, <1>2, <1>4, <2>2 DEF Inv, Daemon
<1>7. Gateway'
  <2>1. faults' \in 0..MaxFaults
    BY <1>2, FaultCounts DEF Inv, Gateway
  <2> QED
    BY <1>2, <2>1, Empties DEF Inv, Gateway, Untouched, supervisor
<1>8. Boxed'
  BY <1>1, <1>2, <1>4, <1>5 DEF Inv, Boxed
<1>9. \A t \in Servers : Left(t)' = Left(t) /\ (t # s => spawn'[t] = spawn[t])
  BY <1>1, <1>2, <1>3, <1>4, <1>5 DEF Left, Of, Present
<1>10. spawn'[s] = NoSpawn
  BY <1>2, <1>3
<1>11. Launching'
  <2> SUFFICES ASSUME NEW t \in Servers
               PROVE  Fits(t, spawn[t])'
    BY DEF Launching
  <2>1. CASE t = s
    BY <1>10, <2>1, Empties DEF Fits
  <2>2. CASE t # s
    <3>1. spawn'[t] = spawn[t] /\ Fits(t, spawn[t]) /\ spawn[t] \in SpawnRec
      BY <1>9, <2>2, At
    <3>2. i \notin spawn[t].todo /\ (spawn[t].at \in Having => spawn[t].id # i)
      BY <1>1, <3>1 DEF Fits
    <3> QED
      BY <1>2, <1>4, <3>1, <3>2 DEF Fits, SpawnRec, Having
  <2> QED
    BY <2>1, <2>2
<1>12. Alone'
  <2> SUFFICES ASSUME NEW t \in Servers
               PROVE  Lone(t, spawn[t])'
    BY DEF Alone
  <2>1. CASE t = s
    BY <1>9, <1>10, <2>1, At, Empties DEF Lone
  <2>2. CASE t # s
    BY <1>9, <2>2, At DEF Lone
  <2> QED
    BY <2>1, <2>2
<1>13. Guarded'
  <2> SUFFICES ASSUME NEW j \in Present' \ missed', wait'[j] = "none"
               PROVE  Kept(j)'
    BY DEF Guarded
  <2>1. j \in Present \ missed /\ Kept(j) /\ boot' = boot
    BY <1>1, <1>2, <1>5 DEF Inv, Guarded, Untouched
  <2>2. \A t \in Servers : spawn[t].id = j \/ j \in spawn[t].todo => t # s
    <3>1. spawn[s].id = 0 /\ spawn[s].todo = {}
      BY <1>2, <1>3, Empties DEF Fits
    <3>2. j # 0
      BY <2>1, Empties DEF Present
    <3> QED
      BY <3>1, <3>2
  <2> QED
    BY <1>9, <2>1, <2>2 DEF Kept
<1> QED
  BY <1>6, <1>7, <1>8, <1>11, <1>12, <1>13 DEF Inv

LEMMA NamesInv ==
  ASSUME Inv, NEW s \in Servers, NameTaken(s) \/ FreeName(s) \/ CallFails(s)
  PROVE  Inv'
<1>1. \A i \in Present : spawn[s].at \in {"create", "again"} =>
                            ~(spawn[s].id = i \/ i \in spawn[s].todo)
  BY At, Empties DEF Fits, Present
<1>2. CASE NameTaken(s)
  <2>1. /\ spawn[s].at \in {"create", "again"} /\ (To(s, "free") \/ Throws(s))
        /\ UNCHANGED <<daemon, missed, faults>> /\ Untouched
    BY <1>2 DEF NameTaken
  <2>2. Fades /\ Daemon' /\ Boxed' /\ faults' \in 0..MaxFaults
    BY <2>1, Stays DEF Inv, Daemon, Boxed, Present, daemon, Gateway
  <2>3. CASE To(s, "free")
    BY <2>1, <2>2, <2>3, ToInv DEF Untouched, daemon, supervisor
  <2>4. CASE Throws(s)
    <3>1. Gateway'
      BY <2>1, <2>4, Empties DEF Inv, Gateway, Throws, daemon, supervisor, Untouched
    <3>2. \A i \in Present' \ missed' : ~(spawn[s].id = i \/ i \in spawn[s].todo)
      BY <1>1, <2>1, <2>2 DEF Present, Fades
    <3> QED
      BY <2>1, <2>2, <2>4, <3>1, <3>2, ThrowsInv DEF Untouched
  <2> QED
    BY <2>1, <2>3, <2>4
<1>3. CASE FreeName(s)
  <2>1. spawn[s].at = "free" /\ To(s, "again") /\ UNCHANGED orders /\ Untouched
    BY <1>3 DEF FreeName
  <2>2. Fades /\ Daemon' /\ Boxed' /\ faults' \in 0..MaxFaults
    <3>1. CASE UNCHANGED <<box, open, wait, missed, faults>>
      BY <3>1, Stays DEF Inv, Daemon, Boxed, Present, Gateway
    <3>2. CASE \E i \in Present : Remove(i)
      BY <3>2, RemoveFades DEF Inv, Present
    <3> QED
      BY <1>3, <3>1, <3>2 DEF FreeName
  <2> QED
    BY <2>1, <2>2, ToInv DEF Untouched, supervisor
<1>4. CASE CallFails(s)
  <2>1. /\ spawn[s].at \in {"create", "again"} /\ Throws(s) /\ Fault
        /\ UNCHANGED <<daemon, missed>> /\ Untouched
    BY <1>4 DEF CallFails
  <2>2. Fades /\ Daemon' /\ Boxed' /\ faults' \in 0..MaxFaults
    BY <2>1, Stays, FaultCounts DEF Inv, Daemon, Boxed, Present, daemon, Gateway
  <2>3. Gateway'
    BY <2>1, <2>2, Empties DEF Inv, Gateway, Throws, daemon, supervisor, Untouched
  <2>4. \A i \in Present' \ missed' : ~(spawn[s].id = i \/ i \in spawn[s].todo)
    BY <1>1, <2>1, <2>2 DEF Present, Fades
  <2> QED
    BY <2>1, <2>2, <2>3, <2>4, ThrowsInv DEF Untouched
<1> QED
  BY <1>2, <1>3, <1>4

LEMMA StartsInv ==
  ASSUME Inv, NEW s \in Servers,
         Attach(s) \/ Started(s) \/ StartAnswers(s) \/ StartFails(s) \/ Undo(s)
  PROVE  Inv'
<1> DEFINE i == spawn[s].id
<1>1. spawn[s].at \in Having
  BY Empties DEF Attach, Started, StartAnswers, StartFails, Undo
<1>2. i \in Boxes /\ box[i].srv = s /\ box[i].life # "none" /\ spawn[s].todo = {}
  BY <1>1, At, Empties DEF Fits
<1> HIDE DEF i
<1>3. ASSUME UNCHANGED <<box, wait, missed>>, open' \subseteq open
      PROVE  Fades /\ Daemon' /\ Boxed'
  BY <1>3, Stays DEF Inv, Daemon, Boxed, Present
<1>4. CASE Attach(s)
  <2>1. /\ spawn[s].at = "attach" /\ UNCHANGED <<box, orders, missed>> /\ Untouched
        /\ faults' \in 0..MaxFaults
    BY <1>4, FaultCounts DEF Attach, Inv, Gateway
  <2>2. CASE /\ box[i].life = "created" /\ To(s, "start")
             /\ open' = open \cup {i} /\ wait' = [wait EXCEPT ![i] = "sent"]
    <3>1. wait' \in [Boxes -> Waits] /\ wait'[i] = "sent" /\ \A j \in Boxes : j # i => wait'[j] = wait[j]
      BY <1>2, <2>2 DEF Inv, Daemon, Waits
    <3>2. Daemon' /\ Boxed'
      BY <1>2, <2>1, <2>2, <3>1 DEF Inv, Daemon, Boxed, Present
    <3>3. Fades
      BY <2>1, <3>1 DEF Fades, Present
    <3> QED
      BY <1>1, <2>1, <2>2, <3>1, <3>2, <3>3, ToInv DEF Untouched, supervisor, i
  <2>3. CASE To(s, "undo") /\ UNCHANGED <<open, wait>>
    BY <1>1, <1>3, <2>1, <2>3, ToInv DEF Untouched, supervisor
  <2> QED
    BY <1>4, <2>2, <2>3 DEF Attach, i
<1>5. CASE Started(s)
  <2>1. /\ box' = [box EXCEPT ![i].life = "running"] /\ box[i].life = "created"
        /\ UNCHANGED <<wait, open, orders, spawn, missed, faults>> /\ Untouched
    BY <1>5 DEF Started, i
  <2>2. /\ box' \in [Boxes -> BoxRec] /\ box'[i].life = "running"
        /\ box'[i].srv = box[i].srv /\ box'[i].name = box[i].name
        /\ \A j \in Boxes : j # i => box'[j] = box[j]
    BY <1>2, <2>1 DEF Inv, Daemon, BoxRec
  <2>3. Fades /\ Present' = Present
    BY <1>2, <2>1, <2>2 DEF Fades, Present
  <2>4. Daemon'
    BY <2>1, <2>2, <2>3 DEF Inv, Daemon, Fades, Present
  <2>5. Boxed'
    BY <2>1, <2>2, <2>3 DEF Inv, Boxed
  <2>6. Gateway'
    BY <2>1 DEF Inv, Gateway, Untouched, supervisor
  <2> QED
    BY <2>1, <2>3, <2>4, <2>5, <2>6, FadesInv DEF Untouched
<1>6. CASE StartAnswers(s)
  <2>1. /\ spawn[s].at = "start" /\ Throws(s) /\ held' = [held EXCEPT ![s] = i]
        /\ UNCHANGED <<names, daemon, halting, boot, counters>>
    BY <1>6 DEF StartAnswers, i
  <2>2. Fades /\ Daemon' /\ Boxed'
    BY <1>3, <2>1 DEF daemon, counters
  <2>3. Gateway'
    BY <1>2, <2>1, Empties DEF Inv, Gateway, Throws, daemon, counters
  <2>4. wait'[i] # "none"
    BY <2>1, At DEF Fits, daemon, i
  <2> QED
    BY <1>2, <2>1, <2>2, <2>3, <2>4, ThrowsInv DEF i
<1>7. CASE StartFails(s)
  <2>1. /\ To(s, "undo") /\ open' = open \ {i} /\ UNCHANGED <<box, wait, orders, missed>> /\ Untouched
        /\ faults' \in 0..MaxFaults
    BY <1>7, FaultCounts DEF StartFails, Inv, Gateway, i
  <2> QED
    BY <1>1, <1>3, <2>1, ToInv DEF Untouched, supervisor
<1>8. CASE Undo(s)
  <2>1. Remove(i) /\ Throws(s) /\ UNCHANGED orders /\ Untouched
    BY <1>8 DEF Undo, i
  <2>2. Daemon' /\ Boxed' /\ Fades /\ i \notin Present' \ missed' /\ faults' \in 0..MaxFaults
    BY <1>2, <2>1, RemoveFades DEF Inv
  <2>3. Gateway'
    BY <2>1, <2>2, Empties DEF Inv, Gateway, Throws, Untouched, supervisor
  <2> QED
    BY <1>2, <2>1, <2>2, <2>3, ThrowsInv DEF Untouched, i
<1> QED
  BY <1>4, <1>5, <1>6, <1>7, <1>8

-----------------------------------------------------------------------------
(***************************************************************************)
(* The gateway dies and comes back.                                        *)
(***************************************************************************)
LEMMA ReapInv ==
  ASSUME Inv, Crash \/ ReapList \/ ReapOne
  PROVE  Inv'
<1>1. CASE Crash
  <2>1. /\ UNCHANGED <<names, box, missed, renames, faults>>
        /\ open' = {} /\ wait' = [j \in Boxes |-> "none"] /\ boot' = [at |-> "down", todo |-> {}]
        /\ spawn' = [s \in Servers |-> NoSpawn]
    BY <1>1 DEF Crash
  <2>2. Daemon' /\ Boxed'
    BY <2>1 DEF Inv, Daemon, Boxed, Present, Waits
  <2>3. Gateway'
    <3>1. /\ held' \in [Servers -> Boxes \cup {0}] /\ halting' \in [Servers -> Boxes \cup {0}]
          /\ orders' \in [Boxes -> Sends] /\ crashes' \in 0..MaxCrashes
      BY <1>1, NoOrdersSends, ContainerAssumption DEF Crash, Inv, Gateway
    <3> QED
      BY <2>1, <3>1, Empties DEF Inv, Gateway, BootRec
  <2>4. Launching'
    BY <2>1, Empties DEF Launching, Fits
  <2>5. Alone'
    <3> SUFFICES ASSUME NEW s \in Servers
                 PROVE  Lone(s, spawn[s])'
      BY DEF Alone
    <3>1. Left(s)' = Left(s) /\ spawn'[s] = NoSpawn
      BY <2>1 DEF Left, Of, Present
    <3> QED
      BY <3>1, At, Empties DEF Lone
  <2>6. Guarded'
    BY <2>1 DEF Guarded, Kept
  <2> QED
    BY <2>2, <2>3, <2>4, <2>5, <2>6 DEF Inv
<1>2. ASSUME Fades, Daemon', Boxed', Gateway', UNCHANGED spawn, Guarded'
      PROVE  Inv'
  BY <1>2, FadesAlone DEF Inv
<1>3. Present \subseteq Boxes
  BY DEF Present
<1>4. CASE ReapList
  <2>1. /\ UNCHANGED <<names, daemon, spawn, supervisor, renames, crashes>>
        /\ \/ Reaping(Present) /\ NoFault /\ UNCHANGED missed
           \/ Reaping({}) /\ Fault /\ missed' = missed \cup Present
    BY <1>4 DEF ReapList
  <2>2. boot' \in BootRec
    BY <1>3, <2>1 DEF Reaping, BootRec
  <2>3. Fades /\ Daemon' /\ Boxed' /\ Gateway'
    BY <1>3, <2>1, <2>2, FaultCounts DEF Inv, Daemon, Boxed, Gateway, Fades, Present, daemon, supervisor
  <2>4. Present' \ missed' \subseteq boot'.todo
    BY <2>1 DEF Reaping, Present, daemon
  <2>5. Guarded'
    BY <2>4 DEF Guarded, Kept
  <2> QED
    BY <1>2, <2>1, <2>3, <2>5
<1>5. CASE ReapOne
  <2>1. PICK j \in boot.todo : Remove(j) /\ Reaping(boot.todo \ {j})
    BY <1>5 DEF ReapOne
  <2>2. boot.at = "clear" /\ UNCHANGED <<names, orders, spawn, supervisor, renames, crashes>>
    BY <1>5 DEF ReapOne
  <2>3. j \in Boxes /\ boot.todo \subseteq Boxes
    BY <2>1 DEF Inv, Gateway, BootRec
  <2>4. Daemon' /\ Boxed' /\ Fades /\ j \notin Present' \ missed' /\ faults' \in 0..MaxFaults
    BY <2>1, <2>3, RemoveFades DEF Inv
  <2>5. boot' \in BootRec /\ boot'.todo = boot.todo \ {j}
    BY <2>1, <2>3 DEF Reaping, BootRec
  <2>6. Gateway'
    BY <2>2, <2>4, <2>5 DEF Inv, Gateway, supervisor
  <2>7. Guarded'
    BY <2>2, <2>4, <2>5 DEF Inv, Guarded, Kept, Fades, Present
  <2> QED
    BY <1>2, <2>2, <2>4, <2>6, <2>7
<1> QED
  BY <1>1, <1>4, <1>5

LEMMA NextInv == Inv /\ [Next]_vars => Inv'
<1> SUFFICES ASSUME Inv, [Next]_vars
             PROVE  Inv'
  OBVIOUS
<1>1. CASE Next
  BY <1>1, DaemonInv, StoppingInv, ClearsInv, CreatesInv, UnheardInv, NamesInv, StartsInv, ReapInv
     DEF Next, SpawnStep
<1>2. CASE UNCHANGED vars
  <2>1. Daemon' /\ Boxed' /\ Gateway'
    BY <1>2 DEF Inv, vars, daemon, supervisor, counters, Daemon, Boxed, Gateway, Present
  <2> QED
    BY <1>2, <2>1, Stays, FadesInv DEF vars, daemon, counters
<1> QED
  BY <1>1, <1>2

-----------------------------------------------------------------------------
(***************************************************************************)
(* The theorems.                                                           *)
(***************************************************************************)
THEOREM InvHolds == Spec => []Inv
BY InitInv, NextInv, PTL DEF Spec

\* OneContainerPerServer, for any number of servers, renamings, failed calls and crashes.
THEOREM Single == Spec => []OneContainerPerServer
<1>1. Inv => OneContainerPerServer
  <2> SUFFICES ASSUME Inv
               PROVE  OneContainerPerServer
    OBVIOUS
  <2>1. TypeOK
    BY TypedIs DEF Inv
  <2>2. ASSUME NEW i \in Boxes, NEW j \in Boxes,
               box[i].life = "running", box[j].life = "running",
               box[i].srv = box[j].srv, {i, j} \cap missed = {}
        PROVE  i = j
    <3>1. PICK s \in Servers : box[i].srv = s
      BY <2>2 DEF Inv, Boxed
    <3>2. i \in Left(s) /\ j \in Left(s)
      BY <2>2, <3>1 DEF Left, Of, Present
    <3> QED
      BY <3>2 DEF Inv, Alone, Lone
  <2> QED
    BY <2>1, <2>2 DEF OneContainerPerServer
<1> QED
  BY <1>1, InvHolds, PTL

\* NoneIsForgotten, whatever step a launch, a stop, a sweep or a crash was at.
THEOREM Remembered == Spec => []NoneIsForgotten
<1>1. Inv => NoneIsForgotten
  BY DEF Inv, Daemon, Waits, Boxed, Guarded, Kept, Present, NoneIsForgotten
<1> QED
  BY <1>1, InvHolds, PTL

(***************************************************************************)
(* What the supervisor runs or halts for a server is a container of it.    *)
(***************************************************************************)
Mine(s, i) == i # 0 => box[i].srv = s /\ box[i].life # "none"

Holding == \A s \in Servers : Mine(s, held[s]) /\ Mine(s, halting[s])

\* No step gives a container to another server.
LEMMA Stamped ==
  ASSUME Inv, [Next]_vars, NEW i \in Boxes, box[i].life # "none"
  PROVE  box'[i].srv = box[i].srv /\ box'[i].life # "none"
<1>1. box \in [Boxes -> BoxRec]
  BY DEF Inv, Daemon
<1>2. ASSUME NEW j, NEW life, box' = [box EXCEPT ![j].life = life], life # "none"
      PROVE  box'[i].srv = box[i].srv /\ box'[i].life # "none"
  BY <1>1, <1>2 DEF BoxRec
<1>3. ASSUME NEW j, Remove(j)
      PROVE  box'[i].srv = box[i].srv /\ box'[i].life # "none"
  BY <1>2, <1>3 DEF Remove, Ends
<1>4. CASE UNCHANGED box
  BY <1>4
<1>5. ASSUME NEW j \in Boxes,
             \/ Exit(j) \/ StreamDrops(j) \/ WaitArrives(j) \/ WaitLost(j)
             \/ ExitedRemoves(j) \/ OrderLands(j) \/ OrderLost(j)
      PROVE  box'[i].srv = box[i].srv /\ box'[i].life # "none"
  BY <1>2, <1>5 DEF Exit, StreamDrops, WaitArrives, WaitLost, ExitedRemoves, OrderLands, OrderLost, Ends
<1>6. ASSUME NEW s \in Servers, ClearOwn(s) \/ FreeName(s) \/ Undo(s) \/ ExitSeen(s)
      PROVE  box'[i].srv = box[i].srv /\ box'[i].life # "none"
  BY <1>3, <1>6 DEF ClearOwn, FreeName, Undo, ExitSeen
<1>7. ASSUME NEW s \in Servers, Create(s) \/ CreatedUnheard(s)
      PROVE  box'[i].srv = box[i].srv /\ box'[i].life # "none"
  BY <1>1, <1>7 DEF Create, CreatedUnheard, Creates
<1>8. ASSUME NEW s \in Servers, Started(s)
      PROVE  box'[i].srv = box[i].srv /\ box'[i].life # "none"
  BY <1>2, <1>8 DEF Started
<1>9. ASSUME NEW s \in Servers,
             \/ Launch(s) \/ ListOwn(s) \/ NameTaken(s) \/ CallFails(s) \/ Attach(s) \/ StartAnswers(s)
             \/ StartFails(s) \/ Stop(s) \/ StreamEnded(s) \/ \E name \in Names : Rename(s, name)
      PROVE  UNCHANGED box
  BY <1>9 DEF Launch, ListOwn, NameTaken, CallFails, Attach, StartAnswers, StartFails, Stop,
     StreamEnded, Rename, daemon
<1>10. CASE Crash \/ ReapList \/ ReapOne
  BY <1>3, <1>4, <1>10 DEF Crash, ReapList, ReapOne, daemon
<1> QED
  BY <1>4, <1>5, <1>6, <1>7, <1>8, <1>9, <1>10 DEF Next, SpawnStep, vars, daemon

LEMMA HoldingStep == Inv /\ Holding /\ [Next]_vars => Holding'
<1> SUFFICES ASSUME Inv, Holding, [Next]_vars, NEW s \in Servers
             PROVE  Mine(s, held[s])' /\ Mine(s, halting[s])'
  BY DEF Holding
<1>1. /\ held \in [Servers -> Boxes \cup {0}] /\ halting \in [Servers -> Boxes \cup {0}]
      /\ Mine(s, held[s]) /\ Mine(s, halting[s])
  BY DEF Inv, Gateway, Holding
<1>2. \A i \in Boxes \cup {0} : Mine(s, i) => Mine(s, i)'
  BY Stamped DEF Mine
<1>3. held'[s] \in {held[s], 0} \/ (StartAnswers(s) /\ held'[s] = spawn[s].id)
  <2>1. ASSUME NEW u \in Servers, StartAnswers(u)
        PROVE  held'[s] = held[s] \/ (StartAnswers(s) /\ held'[s] = spawn[s].id)
    <3>1. held' = [held EXCEPT ![u] = spawn[u].id]
      BY <2>1 DEF StartAnswers
    <3> QED
      BY <1>1, <2>1, <3>1
  <2>2. CASE \A u \in Servers : ~StartAnswers(u)
    BY <1>1, <2>2 DEF Next, SpawnStep, vars, supervisor, Untouched, Launch, ListOwn, ClearOwn, Create,
       NameTaken, FreeName, CallFails, CreatedUnheard, Attach, Started, StartFails, Undo, Stop,
       StreamEnded, ExitSeen, Rename, Exit, StreamDrops, WaitArrives, WaitLost, ExitedRemoves,
       OrderLands, OrderLost, Crash, ReapList, ReapOne
  <2> QED
    BY <2>1, <2>2
<1>4. halting'[s] \in {halting[s], held[s], 0}
  BY <1>1 DEF Next, SpawnStep, vars, supervisor, daemon, Untouched, Launch, ListOwn, ClearOwn, Create,
     NameTaken, FreeName, CallFails, CreatedUnheard, Attach, Started, StartAnswers, StartFails, Undo,
     Stop, StreamEnded, ExitSeen, Rename, Exit, StreamDrops, WaitArrives, WaitLost, ExitedRemoves,
     OrderLands, OrderLost, Crash, ReapList, ReapOne
<1>5. ASSUME StartAnswers(s)
      PROVE  spawn[s].id \in Boxes /\ Mine(s, spawn[s].id)
  BY <1>5, At, Empties DEF StartAnswers, Fits, Mine
<1> QED
  BY <1>1, <1>2, <1>3, <1>4, <1>5 DEF Mine

THEOREM HoldsOwn == Spec => [](Inv /\ Holding)
<1>1. Init => Holding
  BY DEF Init, Holding, Mine
<1> QED
  BY <1>1, InitInv, NextInv, HoldingStep, PTL DEF Spec

\* What may remove a running container of server t.
MayGo(i, t) ==
    \/ boot.at = "clear" \/ wait[i] = "answered"
    \/ spawn'[t] # spawn[t] \/ halting[t] = i
    \/ \E s \in Servers :
          /\ spawn[s].at = "free" /\ box[i].name = spawn[s].name
          /\ box[i].name # names[t] \/ spawn[s].name # names[s]

LEMMA SparedStep ==
  ASSUME Inv, Holding, [Next]_vars, NEW i \in Boxes,
         box[i].life = "running", box'[i].life = "removed"
  PROVE  MayGo(i, box[i].srv)
<1>1. ASSUME NEW j \in Boxes, Remove(j)
      PROVE  j = i
  <2>1. box' = box \/ box' = [box EXCEPT ![j].life = "removed"]
    BY <1>1 DEF Remove, Ends
  <2> QED
    BY <2>1 DEF Inv, Daemon
<1>2. PICK t \in Servers : box[i].srv = t
  BY DEF Inv, Boxed
<1>3. spawn \in [Servers -> SpawnRec] /\ box \in [Boxes -> BoxRec]
  BY DEF Inv, Gateway, Daemon
<1>4. ASSUME NEW s \in Servers, ClearOwn(s)
      PROVE  s = t /\ spawn'[t] # spawn[t]
  <2>1. PICK j \in spawn[s].todo : Remove(j) /\ Clearing(s, spawn[s].todo \ {j})
    BY <1>4 DEF ClearOwn
  <2>2. j \in Boxes /\ box[j].srv = s
    BY At DEF SpawnRec, Fits
  <2>3. spawn'[s].todo = spawn[s].todo \ {j}
    BY <1>3, <2>1 DEF Clearing, SpawnRec
  <2> QED
    BY <1>1, <1>2, <2>1, <2>2, <2>3
<1>5. ASSUME NEW s \in Servers, Undo(s)
      PROVE  s = t /\ spawn'[t] # spawn[t]
  <2>1. Remove(spawn[s].id) /\ spawn[s].at = "undo" /\ spawn'[s] = NoSpawn
    BY <1>3, <1>5 DEF Undo, Throws
  <2>2. spawn[s].id \in Boxes /\ box[spawn[s].id].srv = s
    BY <2>1, At, Empties DEF Fits
  <2> QED
    BY <1>1, <1>2, <2>1, <2>2, Empties
<1>6. ASSUME NEW s \in Servers, ExitSeen(s)
      PROVE  halting[t] = i
  <2>1. halting[s] # 0 /\ Remove(halting[s])
    BY <1>6 DEF ExitSeen
  <2>2. halting[s] \in Boxes /\ box[halting[s]].srv = s
    BY <2>1 DEF Inv, Gateway, Holding, Mine
  <2> QED
    BY <1>1, <1>2, <2>1, <2>2
<1>7. ASSUME NEW s \in Servers, FreeName(s)
      PROVE  MayGo(i, t)
  <2>1. PICK j \in Present : box[j].name = spawn[s].name /\ Remove(j)
    BY <1>7 DEF FreeName
  <2>2. box[i].name = spawn[s].name /\ spawn[s].at = "free" /\ spawn'[s].at = "again"
    BY <1>1, <1>3, <1>7, <2>1 DEF Present, FreeName, To, SpawnRec
  <2>3. CASE s = t
    BY <2>2, <2>3 DEF MayGo
  <2>4. CASE s # t
    <3>1. names[s] # names[t]
      BY <2>4 DEF Inv, Gateway
    <3> QED
      BY <2>2, <3>1 DEF MayGo
  <2> QED
    BY <2>3, <2>4
<1>8. ASSUME NEW s \in Servers, Create(s) \/ CreatedUnheard(s)
      PROVE  FALSE
  BY <1>3, <1>8 DEF Create, CreatedUnheard, Creates
<1>9. ASSUME NEW s \in Servers, Started(s)
      PROVE  FALSE
  BY <1>3, <1>9 DEF Started, BoxRec
<1>10. ASSUME NEW j \in Boxes,
              \/ Exit(j) \/ StreamDrops(j) \/ WaitArrives(j) \/ WaitLost(j)
              \/ OrderLands(j) \/ OrderLost(j)
       PROVE  FALSE
  BY <1>3, <1>10 DEF Exit, StreamDrops, WaitArrives, WaitLost, OrderLands, OrderLost, Ends, BoxRec
<1>11. ASSUME NEW j \in Boxes, ExitedRemoves(j)
       PROVE  wait[i] = "answered"
  BY <1>3, <1>11 DEF ExitedRemoves, BoxRec
<1>12. ASSUME NEW s \in Servers,
              \/ Launch(s) \/ ListOwn(s) \/ NameTaken(s) \/ CallFails(s) \/ Attach(s) \/ StartAnswers(s)
              \/ StartFails(s) \/ Stop(s) \/ StreamEnded(s) \/ \E name \in Names : Rename(s, name)
       PROVE  FALSE
  BY <1>12 DEF Launch, ListOwn, NameTaken, CallFails, Attach, StartAnswers, StartFails, Stop,
     StreamEnded, Rename, daemon
<1>13. ASSUME Crash \/ ReapList \/ UNCHANGED vars
       PROVE  FALSE
  BY <1>13 DEF Crash, ReapList, vars, daemon
<1>14. ASSUME ReapOne
       PROVE  boot.at = "clear"
  BY <1>14 DEF ReapOne
<1> QED
  BY <1>2, <1>4, <1>5, <1>6, <1>7, <1>8, <1>9, <1>10, <1>11, <1>12, <1>13, <1>14
     DEF Next, SpawnStep, MayGo

\* OthersAreSpared: of all steps, of launches, stops, wait calls and sweeps, only those of
\* its own server and the freeing of a name a renaming has given away remove a running
\* container.
THEOREM Spares == Spec => OthersAreSpared
<1>1. Inv /\ Holding /\ [Next]_vars =>
      [\A i \in Boxes :
          box[i].life = "running" /\ box'[i].life = "removed" => MayGo(i, box[i].srv)]_vars
  BY SparedStep
<1>2. [\A i \in Boxes :
          box[i].life = "running" /\ box'[i].life = "removed" => MayGo(i, box[i].srv)]_vars
      <=> [\A i \in Boxes :
          box[i].life = "running" /\ box'[i].life = "removed"
          => \/ boot.at = "clear" \/ wait[i] = "answered"
             \/ spawn'[box[i].srv] # spawn[box[i].srv] \/ halting[box[i].srv] = i
             \/ \E s \in Servers :
                   /\ spawn[s].at = "free" /\ box[i].name = spawn[s].name
                   /\ box[i].name # names[box[i].srv] \/ spawn[s].name # names[s]]_vars
  BY DEF MayGo
<1> QED
  BY <1>1, <1>2, HoldsOwn, PTL DEF Spec, OthersAreSpared
=================================================================================
