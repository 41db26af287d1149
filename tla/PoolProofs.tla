------------------------------- MODULE PoolProofs -------------------------------
(***************************************************************************)
(* Proofs about Pool, for any requests, clients and bound.                 *)
(***************************************************************************)
EXTENDS Pool, TLAPS

EntryRec == [client : Clients \cup {Nobody}, cfg : Cfg, exited : Exited,
             sub : BOOLEAN, catalog : {"none", "fresh", "stale"}]
ConnRec == [at : {"no", "open", "spawn", "probe", "close", "stop", "halt", "listen", "done"},
            client : Clients \cup {Nobody}, cfg : Cfg, exited : Exited, prior : Era]
CallRec == [at : {"idle", "wait", "call", "drop"}, client : Clients \cup {Nobody},
            list : BOOLEAN, again : BOOLEAN, old : BOOLEAN,
            fetched : {"none", "fresh", "stale"}]
EditorRec == [at : {"idle", "close", "stop", "halt"}, client : Clients \cup {Nobody}]
RegistryRec == [cached : Row \cup {"none"}, reads : SUBSET Row]
ProcRec == [at : {"none", "starting", "running", "dead", "stopping"}, cfg : Cfg]

(***************************************************************************)
(* Who holds a connection.  While a connect is in flight there is no       *)
(* entry; its client is open in the probe and the subscription only, and   *)
(* once stored it is the entry's.  What has changed has changed for the    *)
(* entry's client, and a connect waits for the spawn it began.             *)
(***************************************************************************)
Holding ==
    /\ \A c \in live : c \in {entry.client, conn.client}
    /\ conn.at \notin {"no", "done"} => entry.client = Nobody
    /\ conn.at = "done" /\ conn.client \in live => entry.client = conn.client
    /\ conn.at \notin {"probe", "listen", "done"} => conn.client \notin live
    /\ conn.at \in {"probe", "listen", "done", "close"} => conn.client # Nobody
    /\ \A c \in changed : c = entry.client
    /\ conn.at = "spawn" => proc.at = "starting"

Owned == TypeOK /\ Holding

-----------------------------------------------------------------------------
(***************************************************************************)
(* Records.                                                                *)
(***************************************************************************)
LEMMA Empties ==
  /\ NoEntry \in EntryRec /\ NoConn \in ConnRec /\ NoCall \in CallRec
  /\ NoEditor \in EditorRec /\ NoProc \in ProcRec
  /\ NoEntry.client = Nobody /\ NoEntry.sub = FALSE /\ NoEntry.catalog = "none"
  /\ NoConn.at = "no" /\ NoConn.client = Nobody
  /\ NoCall.client = Nobody /\ NoProc.at = "none"
BY DEF NoEntry, NoConn, NoCall, NoEditor, NoProc, EntryRec, ConnRec, CallRec, EditorRec,
       ProcRec, Cfg, Row, Era, Exited

\* The types, with the records named.
Typed ==
    /\ remote \in BOOLEAN /\ backoff \in BOOLEAN /\ exits \in BOOLEAN
    /\ up \in {"yes", "closing", "no"} /\ events \in 0..MaxEvents
    /\ entry \in EntryRec /\ conn \in ConnRec
    /\ entry.client = Nobody => entry = NoEntry
    /\ conn.at = "no" => conn = NoConn
    /\ registry \in RegistryRec
    /\ verdict \in Era
    /\ live \subseteq Clients /\ closing \subseteq Clients \ live /\ changed \subseteq live
    /\ calls \in [Requests -> CallRec] /\ editor \in EditorRec /\ proc \in ProcRec

LEMMA TypedIs == TypeOK <=> Typed
BY DEF TypeOK, Typed, EntryRec, ConnRec, CallRec, EditorRec, ProcRec, RegistryRec

LEMMA InitOwned == Init => Owned
<1> SUFFICES ASSUME Init
             PROVE  Owned
  OBVIOUS
<1>1. Typed
  <2>1. events \in 0..MaxEvents
    BY PoolAssumption DEF Init
  <2>2. calls \in [Requests -> CallRec]
    BY Empties DEF Init
  <2>3. verdict \in Era /\ live \subseteq Clients /\ closing \subseteq Clients \ live
    BY DEF Init, NoVerdict, Era
  <2>4. (entry.client = Nobody => entry = NoEntry) /\ (conn.at = "no" => conn = NoConn)
    BY DEF Init
  <2>5. registry \in RegistryRec
    BY DEF Init, NoRow, RegistryRec
  <2> QED
    BY <2>1, <2>2, <2>3, <2>4, <2>5, Empties DEF Init, Typed
<1>2. Holding
  BY PoolAssumption, Empties DEF Init, Holding
<1> QED
  BY <1>1, <1>2, TypedIs DEF Owned

LEMMA Counted == Typed /\ Happens => events' \in 0..MaxEvents
BY PoolAssumption DEF Typed, Happens

-----------------------------------------------------------------------------
(***************************************************************************)
(* What closing a client leaves.                                           *)
(***************************************************************************)
\* A drop leaves no entry, and of the live clients the connect's.
LEMMA Drops ==
  ASSUME Typed, Holding, Drop
  PROVE  /\ entry' = NoEntry /\ live' = live \ {entry.client} /\ changed' = {}
         /\ closing' \subseteq Clients \ live'
         /\ \A c \in live' : c \in live /\ c = conn.client
<1>1. /\ entry' = NoEntry /\ live' = live \ {entry.client} /\ changed' = changed \ {entry.client}
  BY DEF Drop, Close
<1>2. entry.sub => entry.client \in Clients
  BY Empties DEF Typed, EntryRec
<1>3. closing' \subseteq Clients \ live'
  BY <1>1, <1>2 DEF Drop, Typed, EntryRec
<1> QED
  BY <1>1, <1>3 DEF Holding

\* So does a connection that ends; it may be the entry's or the connect's.
LEMMA Goes ==
  ASSUME Typed, Holding, NEW c \in live, Gone(c)
  PROVE  /\ entry' \in EntryRec /\ (entry'.client = Nobody => entry' = NoEntry)
         /\ entry' = entry \/ (entry' = NoEntry /\ c = entry.client)
         /\ live' = live \ {c} /\ changed' = changed \ {c} /\ closing' = closing
         /\ changed' \subseteq live' /\ \A d \in changed' : d = entry'.client
         /\ \A d \in live' : d \in {entry'.client, conn.client}
BY Empties, PoolAssumption DEF Gone, Close, Typed, Holding

\* What a drop, or the end of a connection, leaves as it should be.
LEMMA DropOwned ==
  ASSUME Typed, Holding, Drop, conn' = conn, proc' = proc
  PROVE  /\ Holding'
         /\ entry' \in EntryRec /\ (entry'.client = Nobody => entry' = NoEntry)
         /\ live' \subseteq Clients /\ closing' \subseteq Clients \ live' /\ changed' \subseteq live'
BY Drops, Empties DEF Typed, Holding

LEMMA GoneOwned ==
  ASSUME Typed, Holding, NEW c \in live, Gone(c), conn' = conn, proc' = proc
  PROVE  /\ Holding'
         /\ entry' \in EntryRec /\ (entry'.client = Nobody => entry' = NoEntry)
         /\ live' \subseteq Clients /\ closing' \subseteq Clients \ live' /\ changed' \subseteq live'
<1>1. /\ entry' \in EntryRec /\ (entry'.client = Nobody => entry' = NoEntry)
      /\ live' \subseteq Clients /\ closing' \subseteq Clients \ live' /\ changed' \subseteq live'
  BY Goes DEF Typed
<1>2. Holding'
  BY Goes, Empties DEF Typed, Holding
<1> QED
  BY <1>1, <1>2

(***************************************************************************)
(* What a request that asks for a client, and a connect that ends, leave.  *)
(***************************************************************************)
LEMMA ResumedTyped ==
  ASSUME Typed, NEW c \in Clients \cup {Nobody}
  PROVE  Resumed(c) \in [Requests -> CallRec]
<1> SUFFICES ASSUME NEW r \in Requests
             PROVE  (IF r \notin Waiters THEN calls[r]
                     ELSE IF c = Nobody THEN NoCall
                     ELSE [calls[r] EXCEPT !.at = "call", !.client = c,
                                           !.old = conn.cfg # "current"]) \in CallRec
  BY DEF Resumed
<1>1. PICK call \in CallRec : call = calls[r]
  BY DEF Typed
<1>2. PICK old \in BOOLEAN : old = (conn.cfg # "current")
  OBVIOUS
<1>3. [call EXCEPT !.at = "call", !.client = c, !.old = old] \in CallRec
  BY DEF CallRec
<1> QED
  BY <1>1, <1>2, <1>3, Empties

LEMMA AcquireTyped ==
  ASSUME Typed, NEW r \in Requests, NEW call \in CallRec, Acquire(r, call)
  PROVE  /\ calls' \in [Requests -> CallRec]
         /\ \/ conn' = conn
            \/ /\ conn.at = "no" /\ entry.client = Nobody
               /\ conn' \in ConnRec /\ conn'.at = "open" /\ conn'.client = Nobody
<1>1. CASE entry.client # Nobody
  <2>1. PICK old \in BOOLEAN : old = (entry.cfg # "current")
    OBVIOUS
  <2>2. [call EXCEPT !.at = "call", !.client = entry.client, !.old = old] \in CallRec
    BY DEF CallRec, Typed, EntryRec
  <2> QED
    BY <1>1, <2>1, <2>2 DEF Acquire, Typed
<1>2. CASE entry.client = Nobody
  <2>1. [call EXCEPT !.at = "wait"] \in CallRec
    BY DEF CallRec
  <2>2. PICK new : new = [NoConn EXCEPT !.at = "open", !.prior = verdict]
    OBVIOUS
  <2>3. new \in ConnRec /\ new.at = "open" /\ new.client = Nobody
    BY <2>2, Empties DEF ConnRec, Typed
  <2> QED
    BY <1>2, <2>1, <2>2, <2>3, Empties DEF Acquire, Typed
<1> QED
  BY <1>1, <1>2

LEMMA AcquireOwned ==
  ASSUME Typed, Holding, NEW r \in Requests, NEW call \in CallRec, Acquire(r, call),
         UNCHANGED <<live, closing, entry, changed, proc>>
  PROVE  /\ calls' \in [Requests -> CallRec] /\ Holding'
         /\ conn' \in ConnRec /\ (conn'.at = "no" => conn' = NoConn)
<1>1. /\ calls' \in [Requests -> CallRec]
      /\ conn' \in ConnRec /\ (conn'.at = "no" => conn' = NoConn)
  BY AcquireTyped DEF Typed
<1>2. CASE conn' = conn
  BY <1>1, <1>2 DEF Holding
<1>3. CASE /\ conn.at = "no" /\ entry.client = Nobody
           /\ conn' \in ConnRec /\ conn'.at = "open" /\ conn'.client = Nobody
  <2>1. conn.client = Nobody /\ live = {} /\ changed = {}
    BY <1>3, PoolAssumption, Empties DEF Holding, Typed
  <2> QED
    BY <1>1, <1>3, <2>1 DEF Holding
<1> QED
  BY <1>1, <1>2, <1>3, AcquireTyped

\* What a resolve returns.
LEMMA RowsTyped == Typed => Rows \subseteq Row
BY DEF Typed, RegistryRec, Rows, Row

\* The registry reads and caches.
LEMMA RegistryOwned ==
  ASSUME Typed, Holding, ReadRow \/ \E row \in Row : CacheRow(row)
  PROVE  Typed' /\ Holding'
<1>1. CASE ReadRow
  <2>1. events' \in 0..MaxEvents
    BY <1>1, Counted DEF ReadRow
  <2>2. registry' \in RegistryRec
    BY <1>1 DEF ReadRow, Typed, RegistryRec, Row
  <2> QED
    BY <1>1, <2>1, <2>2 DEF ReadRow, Typed, Holding
<1>2. CASE \E row \in Row : CacheRow(row)
  <2>1. registry' \in RegistryRec
    BY <1>2 DEF CacheRow, Typed, RegistryRec
  <2> QED
    BY <1>2, <2>1 DEF CacheRow, Typed, Holding
<1> QED
  BY <1>1, <1>2

LEMMA StopTyped ==
  ASSUME Typed, Holding, StopProcess
  PROVE  proc' \in ProcRec /\ (conn.at = "spawn" => proc'.at = "starting")
<1>1. [proc EXCEPT !.at = "stopping"] \in ProcRec
  BY DEF ProcRec, Typed
<1> QED
  BY <1>1 DEF StopProcess, Typed, Holding

-----------------------------------------------------------------------------
(***************************************************************************)
(* The steps of a connect.                                                 *)
(***************************************************************************)
LEMMA FailsOwned ==
  ASSUME Typed, Holding, conn.at \in {"open", "spawn", "probe"}, Fails,
         live' = live \ {conn.client}, UNCHANGED <<remote, registry, closing, entry, changed>>
  PROVE  /\ calls' \in [Requests -> CallRec] /\ Holding' /\ conn' = NoConn /\ backoff' \in BOOLEAN
         /\ live' \subseteq Clients /\ closing' \subseteq Clients \ live' /\ changed' \subseteq live'
<1>1. calls' \in [Requests -> CallRec] /\ conn' = NoConn /\ backoff' \in BOOLEAN
  BY ResumedTyped DEF Fails, Typed
<1>2. live' = {} /\ changed = {}
  BY PoolAssumption DEF Holding, Typed
<1>3. Holding'
  BY <1>1, <1>2, Empties DEF Holding
<1> QED
  BY <1>1, <1>2, <1>3 DEF Typed

LEMMA ConnOwned ==
  ASSUME Typed, Holding, ConnStep
  PROVE  Typed' /\ Holding'
<1>1. CASE OpenRefused
  <2>1. live' = live \ {conn.client}
    BY <1>1 DEF OpenRefused, Holding
  <2>2. proc' \in ProcRec
    BY <1>1, Empties DEF OpenRefused, Typed
  <2> QED
    BY <1>1, <2>1, <2>2, FailsOwned, Empties DEF OpenRefused, Typed
<1>2. CASE OpenSpawns
  <2>1. [conn EXCEPT !.at = "spawn"] \in ConnRec
    BY DEF Typed, ConnRec
  <2>2. proc' \in ProcRec
    BY <1>2, RowsTyped DEF OpenSpawns, ProcRec, Cfg
  <2>3. /\ conn' \in ConnRec /\ conn'.at = "spawn" /\ conn'.client = conn.client
        /\ proc'.at = "starting"
    BY <1>2, <2>1 DEF OpenSpawns, ConnRec, Typed
  <2> QED
    BY <1>2, <2>2, <2>3 DEF OpenSpawns, Typed, Holding
<1>3. CASE OpenTransport
  <2>1. PICK c \in Clients : Free(c) /\ Opens(c)
    BY <1>3 DEF OpenTransport
  <2>2. conn' \in ConnRec /\ conn'.at = "probe" /\ conn'.client = c
    BY <2>1, RowsTyped DEF Opens, Typed, ConnRec, ProcRec, Cfg, Exited
  <2>3. proc' \in ProcRec
    BY <1>3 DEF OpenTransport, Typed, ProcRec
  <2>4. live' = live \cup {c} /\ c \notin closing /\ c # Nobody
    BY <2>1, PoolAssumption DEF Opens, Free
  <2>5. conn.at \in {"open", "spawn"} /\ UNCHANGED <<remote, registry, closing, entry, verdict, backoff, changed, calls, editor, exits, up, events>>
    BY <1>3 DEF OpenTransport
  <2> QED
    BY <2>2, <2>3, <2>4, <2>5 DEF Typed, Holding
<1>4. CASE \E era \in {"modern", "legacy"} : ConnectOk(era)
  <2>1. PICK era \in {"modern", "legacy"} : ConnectOk(era)
    BY <1>4
  <2>2. /\ conn' \in ConnRec /\ conn'.at = "listen" /\ conn'.client = conn.client
        /\ verdict' \in Era
    BY <2>1 DEF ConnectOk, Typed, ConnRec, Era
  <2> QED
    BY <2>1, <2>2 DEF ConnectOk, Typed, Holding
<1>5. CASE \E b \in BOOLEAN : ConnectFails(b)
  <2>1. PICK b \in BOOLEAN : ConnectFails(b)
    BY <1>5
  <2>2. CASE conn.prior = "none" /\ (b \/ Casualty)
    <3>1. conn' = [conn EXCEPT !.at = "close"]
      BY <2>1, <2>2 DEF ConnectFails
    <3>2. conn' \in ConnRec /\ conn'.at = "close" /\ conn'.client = conn.client
      BY <3>1 DEF Typed, ConnRec
    <3>3. /\ live' = live \ {conn.client} /\ conn.at = "probe"
          /\ UNCHANGED <<remote, registry, closing, entry, verdict, changed, editor, proc, exits, up, events, calls, backoff>>
      BY <2>1, <2>2 DEF ConnectFails
    <3> QED
      BY <3>2, <3>3 DEF Typed, Holding
  <2>3. CASE ~(conn.prior = "none" /\ (b \/ Casualty))
    <3>1. /\ Fails /\ live' = live \ {conn.client} /\ conn.at = "probe"
          /\ UNCHANGED <<remote, registry, closing, entry, verdict, changed, editor, proc, exits, up, events>>
      BY <2>1, <2>3 DEF ConnectFails
    <3> QED
      BY <3>1, FailsOwned, Empties DEF Typed
  <2> QED
    BY <2>2, <2>3
<1>6. CASE FallbackClosed
  <2>1. /\ conn' \in ConnRec /\ conn'.at \in {"open", "stop"} /\ conn'.client = Nobody
        /\ verdict' \in Era
    BY <1>6 DEF FallbackClosed, Typed, ConnRec, Era
  <2> QED
    BY <1>6, <2>1, PoolAssumption DEF FallbackClosed, Typed, Holding
<1>7. CASE FallbackStops
  <2>1. conn' \in ConnRec /\ conn'.at = "halt" /\ conn'.client = conn.client
    BY <1>7 DEF FallbackStops, Typed, ConnRec
  <2>2. proc' \in ProcRec
    BY <1>7, StopTyped DEF FallbackStops
  <2> QED
    BY <1>7, <2>1, <2>2 DEF FallbackStops, Typed, Holding
<1>8. CASE FallbackStopped
  <2>1. conn' \in ConnRec /\ conn'.at = "open" /\ conn'.client = conn.client
    BY <1>8 DEF FallbackStopped, Typed, ConnRec
  <2> QED
    BY <1>8, <2>1 DEF FallbackStopped, Typed, Holding
<1>9. CASE EntryStored
  <2>1. /\ entry' \in EntryRec /\ entry'.client = conn.client /\ conn.client # Nobody
        /\ conn.at = "listen"
    BY <1>9 DEF EntryStored, Typed, ConnRec, EntryRec, Holding
  <2>2. conn' \in ConnRec /\ conn'.at = "done" /\ conn'.client = conn.client
    BY <1>9 DEF EntryStored, Typed, ConnRec
  <2>3. changed = {}
    BY <2>1, PoolAssumption DEF Holding, Typed
  <2>4. UNCHANGED <<remote, registry, live, closing, verdict, backoff, changed, calls, editor, proc, exits, up, events>>
    BY <1>9 DEF EntryStored
  <2>5. Typed'
    BY <2>1, <2>2, <2>3, <2>4 DEF Typed
  <2>6. Holding'
    BY <2>1, <2>2, <2>3, <2>4, PoolAssumption DEF Typed, Holding
  <2> QED
    BY <2>5, <2>6
<1>10. CASE ConnectEnds
  <2>1. calls' \in [Requests -> CallRec] /\ backoff' \in BOOLEAN
    BY <1>10, ResumedTyped DEF ConnectEnds, Typed, ConnRec
  <2>2. /\ conn' = NoConn /\ conn.at = "done"
        /\ UNCHANGED <<remote, registry, live, closing, entry, verdict, changed, editor, proc, exits, up, events>>
    BY <1>10 DEF ConnectEnds
  <2>3. Typed'
    BY <2>1, <2>2, Empties DEF Typed
  <2>4. Holding'
    BY <2>2, Empties, PoolAssumption DEF Holding, Typed
  <2> QED
    BY <2>3, <2>4
<1> QED
  BY <1>1, <1>2, <1>3, <1>4, <1>5, <1>6, <1>7, <1>8, <1>9, <1>10 DEF ConnStep

-----------------------------------------------------------------------------
(***************************************************************************)
(* The other steps.                                                        *)
(***************************************************************************)
LEMMA MarkedTyped ==
  ASSUME Typed, NEW from \in Exited, NEW to \in Exited
  PROVE  /\ Marked(entry, from, to) \in EntryRec
         /\ Marked(entry, from, to).client = entry.client
         /\ (entry.client = Nobody => Marked(entry, from, to) = entry)
         /\ Marked(conn, from, to) \in ConnRec
         /\ Marked(conn, from, to).client = conn.client
         /\ Marked(conn, from, to).at = conn.at
         /\ (conn.at = "no" => Marked(conn, from, to) = conn)
BY Empties DEF Marked, Typed, EntryRec, ConnRec

LEMMA ProcessOwned ==
  ASSUME Typed, Holding, ProcessDies \/ ExitSeen \/ OnProcessExit \/ SupervisorShuts
  PROVE  Typed' /\ Holding'
<1> USE DEF Exited
<1>1. CASE ProcessDies
  <2>1. proc' \in ProcRec
    BY <1>1 DEF ProcessDies, Typed, ProcRec
  <2>2. events' \in 0..MaxEvents
    BY <1>1, Counted DEF ProcessDies
  <2> QED
    BY <1>1, <2>1, <2>2 DEF ProcessDies, Typed, Holding
<1>2. CASE ExitSeen
  <2>1. /\ entry' = Marked(entry, "no", "now") /\ conn' = Marked(conn, "no", "now")
        /\ proc' \in ProcRec /\ exits' \in BOOLEAN /\ proc.at # "starting"
    BY <1>2, Empties DEF ExitSeen
  <2>2. UNCHANGED <<remote, registry, live, closing, verdict, backoff, changed, calls, editor, up, events>>
    BY <1>2 DEF ExitSeen
  <2>3. Typed'
    BY <2>1, <2>2, MarkedTyped DEF Typed
  <2>4. Holding'
    BY <2>1, <2>2, MarkedTyped DEF Holding
  <2> QED
    BY <2>3, <2>4
<1>3. CASE OnProcessExit
  <2>1. /\ conn' = Marked(conn, "now", "past") /\ exits' \in BOOLEAN
        /\ UNCHANGED <<remote, registry, verdict, backoff, calls, editor, proc, up, events>>
    BY <1>3 DEF OnProcessExit
  <2>2. CASE entry.exited = "now"
    <3>1. Drop
      BY <1>3, <2>2 DEF OnProcessExit
    <3>2. Typed'
      BY <2>1, <3>1, Drops, MarkedTyped, Empties DEF Typed
    <3>3. Holding'
      BY <2>1, <3>1, Drops, MarkedTyped, Empties DEF Typed, Holding
    <3> QED
      BY <3>2, <3>3
  <2>3. CASE entry.exited # "now"
    <3>1. UNCHANGED <<entry, live, closing, changed>>
      BY <1>3, <2>3 DEF OnProcessExit
    <3> QED
      BY <2>1, <3>1, MarkedTyped DEF Typed, Holding
  <2> QED
    BY <2>2, <2>3
<1>4. CASE SupervisorShuts
  BY <1>4, StopTyped DEF SupervisorShuts, Typed, Holding
<1> QED
  BY <1>1, <1>2, <1>3, <1>4

LEMMA ClientOwned ==
  ASSUME Typed, Holding, NEW c \in Clients, ClientStep(c) \/ StreamDrops(c) \/ ListChanged(c)
  PROVE  Typed' /\ Holding'
<1>1. CASE Closes(c)
  BY <1>1 DEF Closes, Typed, Holding
<1>2. CASE PipeEnds(c)
  BY <1>2, GoneOwned DEF PipeEnds, Typed
<1>3. CASE StreamDrops(c)
  <2>1. events' \in 0..MaxEvents
    BY <1>3, Counted DEF StreamDrops
  <2> QED
    BY <1>3, <2>1, GoneOwned, DropOwned DEF StreamDrops, Typed
<1>4. CASE ListChanged(c)
  <2>1. entry.client = c /\ c # Nobody
    BY <1>4, PoolAssumption DEF ListChanged, Holding
  <2>2. entry' \in EntryRec /\ entry'.client = c
    BY <1>4, <2>1 DEF ListChanged, Typed, EntryRec
  <2>3. /\ changed' = changed \ {c}
        /\ UNCHANGED <<remote, registry, live, closing, conn, verdict, backoff, calls, editor, proc, exits, up, events>>
    BY <1>4 DEF ListChanged
  <2> QED
    BY <2>1, <2>2, <2>3 DEF Typed, Holding
<1> QED
  BY <1>1, <1>2, <1>3, <1>4 DEF ClientStep

LEMMA CallOwned ==
  ASSUME Typed, Holding, NEW r \in Requests,
         CallStep(r) \/ \E list \in BOOLEAN : Request(r, list)
  PROVE  Typed' /\ Holding'
<1> calls[r] \in CallRec
  BY DEF Typed
<1>1. CASE ListTools(r)
  <2>1. \A f \in {"stale", "fresh"} : [calls[r] EXCEPT !.fetched = f] \in CallRec
    BY DEF CallRec
  <2>2. calls' \in [Requests -> CallRec]
    BY <1>1, <2>1 DEF ListTools, Typed
  <2> QED
    BY <1>1, <2>2 DEF ListTools, Typed, Holding
<1>2. CASE ListStored(r)
  <2>1. calls' \in [Requests -> CallRec]
    BY <1>2, Empties DEF ListStored, Typed
  <2>2. entry' \in EntryRec /\ entry'.client = entry.client /\ (entry.client = Nobody => entry' = entry)
    BY <1>2 DEF ListStored, Typed, EntryRec, CallRec
  <2> QED
    BY <1>2, <2>1, <2>2 DEF ListStored, Typed, Holding
<1>3. CASE CallEnds(r)
  <2>1. calls' \in [Requests -> CallRec]
    BY <1>3, Empties DEF CallEnds, Typed
  <2> QED
    BY <1>3, <2>1 DEF CallEnds, Typed, Holding
<1>4. CASE CallRecovers(r)
  <2>1. [calls[r] EXCEPT !.at = "drop", !.again = TRUE, !.fetched = "none",
                         !.client = entry.client] \in CallRec
    BY DEF CallRec, Typed, EntryRec
  <2>2. calls' \in [Requests -> CallRec] /\ events' \in 0..MaxEvents
    BY <1>4, <2>1, Counted DEF CallRecovers, Typed
  <2> QED
    BY <1>4, <2>2, DropOwned DEF CallRecovers, Typed
<1>5. CASE Retry(r)
  <2>1. PICK call \in CallRec : call = [calls[r] EXCEPT !.client = Nobody, !.old = FALSE]
    BY DEF CallRec
  <2>2. /\ Acquire(r, call)
        /\ UNCHANGED <<remote, registry, live, closing, entry, verdict, backoff, changed, editor, proc, exits, up, events>>
    BY <1>5, <2>1 DEF Retry
  <2>3. /\ calls' \in [Requests -> CallRec] /\ Holding'
        /\ conn' \in ConnRec /\ (conn'.at = "no" => conn' = NoConn)
    BY <2>2, AcquireOwned
  <2> QED
    BY <2>2, <2>3 DEF Typed
<1>6. CASE \E list \in BOOLEAN : Request(r, list)
  <2>1. PICK list \in BOOLEAN : Request(r, list)
    BY <1>6
  <2>2. PICK call \in CallRec : call = [NoCall EXCEPT !.list = list]
    BY Empties DEF CallRec
  <2>3. /\ Acquire(r, call) /\ Happens
        /\ UNCHANGED <<remote, registry, live, closing, entry, verdict, backoff, changed, editor, proc, exits, up>>
    BY <2>1, <2>2 DEF Request
  <2>4. /\ calls' \in [Requests -> CallRec] /\ Holding'
        /\ conn' \in ConnRec /\ (conn'.at = "no" => conn' = NoConn)
    BY <2>3, AcquireOwned
  <2> QED
    BY <2>3, <2>4, Counted DEF Typed
<1> QED
  BY <1>1, <1>2, <1>3, <1>4, <1>5, <1>6 DEF CallStep

\* An entry of calls after the lists have changed.
LEMMA AllStaleTyped ==
  ASSUME Typed
  PROVE  AllStale \in [Requests -> CallRec]
<1> SUFFICES ASSUME NEW r \in Requests
             PROVE  [calls[r] EXCEPT !.fetched = Stale(@)] \in CallRec
  BY DEF AllStale
<1> calls[r] \in CallRec
  BY DEF Typed
<1> QED
  BY DEF CallRec, Stale

LEMMA EventOwned ==
  ASSUME Typed, Holding, BackoffEnds \/ VerdictExpires \/ ListsChange \/ Shutdown \/ EditStep
  PROVE  Typed' /\ Holding'
<1>1. CASE BackoffEnds
  BY <1>1 DEF BackoffEnds, Typed, Holding
<1>2. CASE VerdictExpires
  <2>1. events' \in 0..MaxEvents /\ verdict' \in Era
    BY <1>2, Counted DEF VerdictExpires, NoVerdict, Era
  <2> QED
    BY <1>2, <2>1 DEF VerdictExpires, Typed, Holding
<1>3. CASE ListsChange
  <2>1. calls' \in [Requests -> CallRec] /\ events' \in 0..MaxEvents
    BY <1>3, AllStaleTyped, Counted DEF ListsChange
  <2>2. entry' \in EntryRec /\ entry'.client = entry.client
    BY <1>3 DEF ListsChange, Typed, EntryRec, Stale
  <2>3. /\ entry.client # Nobody /\ entry.client \in live /\ changed' = changed \cup {entry.client}
        /\ UNCHANGED <<remote, registry, live, closing, conn, verdict, backoff, editor, proc, exits, up>>
    BY <1>3 DEF ListsChange
  <2> QED
    BY <2>1, <2>2, <2>3 DEF Typed, Holding
<1>4. CASE Shutdown
  <2>1. events' \in 0..MaxEvents /\ up' = "closing" /\ Drop
    BY <1>4, Counted DEF Shutdown
  <2> QED
    BY <1>4, <2>1, DropOwned DEF Shutdown, Typed
<1>5. CASE EditStops
  BY <1>5 DEF EditStops, Typed, Holding, EditorRec
<1>6. CASE EditHalts
  <2>1. proc' \in ProcRec /\ (conn.at = "spawn" => proc'.at = "starting")
    BY <1>6, StopTyped DEF EditHalts
  <2>2. editor' \in EditorRec
    BY <1>6 DEF EditHalts, Typed, EditorRec
  <2> QED
    BY <1>6, <2>1, <2>2 DEF EditHalts, Typed, Holding
<1>7. CASE EditEnds
  BY <1>7, Empties DEF EditEnds, Typed, Holding
<1> QED
  BY <1>1, <1>2, <1>3, <1>4, <1>5, <1>6, <1>7 DEF EditStep

LEMMA EditOwned ==
  ASSUME Typed, Holding, NEW edited \in BOOLEAN, Edit(edited)
  PROVE  Typed' /\ Holding'
<1>1. /\ Drop /\ events' \in 0..MaxEvents /\ verdict' \in Era /\ backoff' \in BOOLEAN
      /\ UNCHANGED <<remote, exits, up>>
  BY Counted DEF Edit, NoVerdict, Era
<1>2. editor' \in EditorRec /\ registry' \in RegistryRec
  BY DEF Edit, EditorRec, Typed, EntryRec, Invalidated, RegistryRec, Row
<1>3. CASE edited
  <2>1. /\ conn' = [conn EXCEPT !.cfg = IF conn.client # Nobody THEN "old" ELSE @]
        /\ proc' = [proc EXCEPT !.cfg = IF proc.at # "none" THEN "old" ELSE @]
        /\ calls' = [r \in Requests |-> [AllStale[r] EXCEPT !.old = calls[r].client # Nobody]]
    BY <1>3 DEF Edit
  <2>2. /\ conn' \in ConnRec /\ conn'.client = conn.client /\ conn'.at = conn.at
        /\ (conn.at = "no" => conn' = conn)
    BY <2>1, Empties DEF Typed, ConnRec, Cfg
  <2>3. proc' \in ProcRec /\ proc'.at = proc.at
    BY <2>1 DEF Typed, ProcRec, Cfg
  <2>4. calls' \in [Requests -> CallRec]
    <3> SUFFICES ASSUME NEW r \in Requests
                 PROVE  [AllStale[r] EXCEPT !.old = calls[r].client # Nobody] \in CallRec
      BY <2>1
    <3>1. PICK call \in CallRec : call = AllStale[r]
      BY AllStaleTyped
    <3>2. PICK old \in BOOLEAN : old = (calls[r].client # Nobody)
      OBVIOUS
    <3> QED
      BY <3>1, <3>2 DEF CallRec
  <2>5. Typed'
    BY <1>1, <1>2, <2>2, <2>3, <2>4, Drops, Empties DEF Typed
  <2>6. Holding'
    BY <1>1, <2>2, <2>3, Drops, Empties DEF Typed, Holding
  <2> QED
    BY <2>5, <2>6
<1>4. CASE ~edited
  <2>1. UNCHANGED <<conn, proc, calls>>
    BY <1>4 DEF Edit
  <2> QED
    BY <1>1, <1>2, <2>1, DropOwned DEF Typed
<1> QED
  BY <1>3, <1>4

LEMMA NextOwned == Owned /\ [Next]_vars => Owned'
<1> SUFFICES ASSUME Owned, [Next]_vars
             PROVE  Owned'
  OBVIOUS
<1>1. Typed /\ Holding
  BY TypedIs DEF Owned
<1>2. Typed' /\ Holding'
  <2>1. CASE Next
    BY <1>1, <2>1, ConnOwned, EventOwned, ProcessOwned, CallOwned, ClientOwned, EditOwned,
       RegistryOwned DEF Next
  <2>2. CASE UNCHANGED vars
    BY <1>1, <2>2 DEF vars, Typed, Holding
  <2> QED
    BY <2>1, <2>2
<1>3. TypeOK' <=> Typed'
  BY DEF TypeOK, Typed, EntryRec, ConnRec, CallRec, EditorRec, ProcRec, RegistryRec
<1> QED
  BY <1>2, <1>3 DEF Owned

\* No connection is leaked and none overwrites another, for any number of requests.
THEOREM OwnedHolds == Spec => []Owned
BY InitOwned, NextOwned, PTL DEF Spec

\* LiveClientsAreOwned, whatever closes, exits or is edited while a connect is in flight.
THEOREM Leaks == Spec => []LiveClientsAreOwned
<1>1. Owned => LiveClientsAreOwned
  BY DEF Owned, Holding, LiveClientsAreOwned
<1> QED
  BY <1>1, OwnedHolds, PTL

-----------------------------------------------------------------------------
(***************************************************************************)
(* The configuration a process runs.  Between edits it is the row that the *)
(* registry gave after the last, the current one or one read before it;    *)
(* a connection knows the configuration of the process it talks to, until  *)
(* the exit of that process has been seen.                                 *)
(***************************************************************************)
Knows(x) == x.client # Nobody /\ x.exited = "no"
            => proc.at \in {"running", "dead", "stopping"} /\ x.cfg = proc.cfg

Current == editor.at \in {"idle", "halt"} /\ proc.at \in {"starting", "running", "dead"}
           => proc.cfg \in Row

Known == ~remote => Knows(entry) /\ (conn.at \in {"probe", "listen"} => Knows(conn))

RunsCurrent == Typed /\ Holding /\ Current /\ Known

LEMMA InitCurrent == Init => RunsCurrent
<1> SUFFICES ASSUME Init
             PROVE  RunsCurrent
  OBVIOUS
<1>1. Typed /\ Holding
  BY InitOwned, TypedIs DEF Owned
<1> QED
  BY <1>1, Empties DEF Init, RunsCurrent, Current, Known, Knows, Row

\* What a step that leaves the process alone has to show.
LEMMA SameProcess ==
  ASSUME Current, Known, UNCHANGED <<remote, proc>>,
         editor'.at \in {"idle", "halt"} => editor.at \in {"idle", "halt"},
         entry' = entry \/ entry'.client = Nobody
            \/ (entry'.client = entry.client /\ entry'.cfg = entry.cfg /\ entry'.exited = entry.exited),
         conn' = conn \/ conn'.at \notin {"probe", "listen"}
  PROVE  Current' /\ Known'
BY DEF Current, Known, Knows

LEMMA StopKnown ==
  ASSUME Typed, Known, StopProcess, UNCHANGED <<remote, entry>>,
         conn' = conn \/ conn'.at \notin {"probe", "listen"}
  PROVE  Known' /\ (proc.at # "starting" => proc'.at \notin {"starting", "running", "dead"})
<1>1. \/ proc' = proc /\ proc.at \notin {"running", "dead"}
      \/ proc'.at = "stopping" /\ proc'.cfg = proc.cfg /\ proc.at \in {"running", "dead"}
  BY DEF StopProcess, Typed, ProcRec
<1> QED
  BY <1>1 DEF Known, Knows

LEMMA ConnKnown ==
  ASSUME Typed, Holding, Current, Known, ConnStep
  PROVE  Current' /\ Known'
<1>1. CASE OpenRefused
  <2>1. /\ entry.client = Nobody /\ conn' = NoConn /\ UNCHANGED <<remote, entry, editor>>
        /\ (proc' = proc \/ proc' = NoProc)
    BY <1>1 DEF OpenRefused, Fails, Holding
  <2> QED
    BY <2>1, Empties DEF Current, Known, Knows
<1>2. CASE OpenSpawns
  <2>1. /\ entry.client = Nobody /\ conn'.at = "spawn" /\ UNCHANGED <<remote, entry, editor>>
        /\ proc'.cfg \in Row
    BY <1>2, RowsTyped DEF OpenSpawns, Holding, Typed, ConnRec
  <2> QED
    BY <2>1 DEF Current, Known, Knows
<1>3. CASE OpenTransport
  <2>1. PICK c \in Clients : Opens(c)
    BY <1>3 DEF OpenTransport
  <2>2. entry.client = Nobody /\ UNCHANGED <<remote, entry, editor>>
    BY <1>3 DEF OpenTransport, Holding
  <2>3. ~remote => conn'.cfg = proc.cfg
    BY <2>1 DEF Opens, Typed, ConnRec
  <2>4. /\ proc'.cfg = proc.cfg
        /\ (proc'.at \in {"starting", "running", "dead"} => proc.at \in {"starting", "running", "dead"})
        /\ ~remote => proc'.at \in {"running", "dead"}
    BY <1>3 DEF OpenTransport, Typed, ProcRec, Holding
  <2> QED
    BY <2>2, <2>3, <2>4 DEF Current, Known, Knows
<1>4. CASE \E era \in {"modern", "legacy"} : ConnectOk(era)
  <2>1. PICK era \in {"modern", "legacy"} : ConnectOk(era)
    BY <1>4
  <2>2. /\ conn.at = "probe" /\ conn'.client = conn.client /\ conn'.cfg = conn.cfg
        /\ conn'.exited = conn.exited /\ UNCHANGED <<remote, entry, editor, proc>>
    BY <2>1 DEF ConnectOk, Typed, ConnRec
  <2> QED
    BY <2>2 DEF Current, Known, Knows
<1>5. CASE \E b \in BOOLEAN : ConnectFails(b)
  <2>1. conn'.at \in {"no", "close"} /\ UNCHANGED <<remote, entry, editor, proc>>
    BY <1>5, Empties DEF ConnectFails, Fails, Typed, ConnRec
  <2> QED
    BY <2>1, SameProcess
<1>6. CASE FallbackClosed
  <2>1. conn'.at \in {"open", "stop"} /\ UNCHANGED <<remote, entry, editor, proc>>
    BY <1>6 DEF FallbackClosed, Typed, ConnRec
  <2> QED
    BY <2>1, SameProcess
<1>7. CASE FallbackStops
  <2>1. conn'.at = "halt" /\ StopProcess /\ proc.at # "starting" /\ UNCHANGED <<remote, entry, editor>>
    BY <1>7 DEF FallbackStops, Typed, ConnRec
  <2> QED
    BY <2>1, StopKnown DEF Current
<1>8. CASE FallbackStopped
  <2>1. conn'.at = "open" /\ UNCHANGED <<remote, entry, editor, proc>>
    BY <1>8 DEF FallbackStopped, Typed, ConnRec
  <2> QED
    BY <2>1, SameProcess
<1>9. CASE EntryStored
  <2>1. /\ conn.at = "listen" /\ conn'.at = "done" /\ UNCHANGED <<remote, editor, proc>>
        /\ entry'.client = conn.client /\ entry'.cfg = conn.cfg /\ entry'.exited = conn.exited
    BY <1>9 DEF EntryStored, Typed, ConnRec
  <2> QED
    BY <2>1 DEF Current, Known, Knows
<1>10. CASE ConnectEnds
  <2>1. conn' = NoConn /\ UNCHANGED <<remote, entry, editor, proc>>
    BY <1>10 DEF ConnectEnds
  <2> QED
    BY <2>1, Empties, SameProcess
<1> QED
  BY <1>1, <1>2, <1>3, <1>4, <1>5, <1>6, <1>7, <1>8, <1>9, <1>10 DEF ConnStep

LEMMA ProcessKnown ==
  ASSUME Typed, Holding, Current, Known, ProcessDies \/ ExitSeen \/ OnProcessExit \/ SupervisorShuts
  PROVE  Current' /\ Known'
<1>1. CASE ProcessDies
  <2>1. /\ proc'.at = "dead" /\ proc'.cfg = proc.cfg /\ proc.at = "running"
        /\ UNCHANGED <<remote, entry, conn, editor>>
    BY <1>1 DEF ProcessDies, Typed, ProcRec
  <2> QED
    BY <2>1 DEF Current, Known, Knows
<1>2. CASE ExitSeen
  <2>1. /\ proc' = NoProc /\ entry' = Marked(entry, "no", "now") /\ conn' = Marked(conn, "no", "now")
    BY <1>2 DEF ExitSeen
  <2>2. /\ entry'.client # Nobody => entry'.exited # "no"
        /\ conn'.client # Nobody => conn'.exited # "no"
    BY <2>1 DEF Marked, Typed, EntryRec, ConnRec
  <2> QED
    BY <2>1, <2>2, Empties DEF Current, Known, Knows
<1>3. CASE OnProcessExit
  <2>1. /\ conn' = Marked(conn, "now", "past") /\ UNCHANGED <<remote, editor, proc>>
        /\ entry' = entry \/ entry' = NoEntry
    BY <1>3 DEF OnProcessExit, Drop, Close
  <2>2. /\ conn'.client = conn.client /\ conn'.cfg = conn.cfg /\ conn'.at = conn.at
        /\ conn'.exited = "no" => conn.exited = "no"
    BY <2>1 DEF Marked, Typed, ConnRec
  <2> QED
    BY <2>1, <2>2, Empties DEF Current, Known, Knows
<1>4. CASE SupervisorShuts
  <2>1. StopProcess /\ UNCHANGED <<remote, entry, conn, editor>>
    BY <1>4 DEF SupervisorShuts
  <2>2. proc.at = "starting" => proc' = proc
    BY <2>1 DEF StopProcess
  <2> QED
    BY <2>1, <2>2, StopKnown DEF Current
<1> QED
  BY <1>1, <1>2, <1>3, <1>4

LEMMA OtherKnown ==
  ASSUME Typed, Holding, Current, Known,
         \/ BackoffEnds \/ VerdictExpires \/ ListsChange \/ Shutdown \/ EditStep
         \/ ReadRow \/ \E row \in Row : CacheRow(row)
         \/ \E r \in Requests : CallStep(r) \/ \E list \in BOOLEAN : Request(r, list)
         \/ \E c \in Clients : ClientStep(c) \/ StreamDrops(c) \/ ListChanged(c)
         \/ \E edited \in BOOLEAN : Edit(edited)
  PROVE  Current' /\ Known'
<1>1. ASSUME UNCHANGED <<remote, proc, editor, conn>>,
             \/ Drop \/ entry' = entry \/ \E c \in Clients : Gone(c)
             \/ \E f : entry' = [entry EXCEPT !.catalog = f]
      PROVE  Current' /\ Known'
  <2>1. \/ entry' = entry \/ entry'.client = Nobody
        \/ (entry'.client = entry.client /\ entry'.cfg = entry.cfg /\ entry'.exited = entry.exited)
    BY <1>1, Empties DEF Drop, Gone, Close, Typed, EntryRec
  <2> QED
    BY <1>1, <2>1, SameProcess
<1>2. CASE BackoffEnds \/ VerdictExpires \/ ListsChange \/ Shutdown
  BY <1>1, <1>2 DEF BackoffEnds, VerdictExpires, ListsChange, Shutdown
<1>7. CASE ReadRow \/ \E row \in Row : CacheRow(row)
  BY <1>1, <1>7 DEF ReadRow, CacheRow
<1>3. CASE \E c \in Clients : ClientStep(c) \/ StreamDrops(c) \/ ListChanged(c)
  <2>1. PICK c \in Clients : ClientStep(c) \/ StreamDrops(c) \/ ListChanged(c)
    BY <1>3
  <2> QED
    BY <1>1, <2>1 DEF ClientStep, Closes, PipeEnds, StreamDrops, ListChanged
<1>4. CASE \E r \in Requests : CallStep(r) \/ \E list \in BOOLEAN : Request(r, list)
  <2>1. PICK r \in Requests : CallStep(r) \/ \E list \in BOOLEAN : Request(r, list)
    BY <1>4
  <2>2. CASE ListTools(r) \/ ListStored(r) \/ CallEnds(r) \/ CallRecovers(r)
    BY <1>1, <2>2 DEF ListTools, ListStored, CallEnds, CallRecovers
  <2>3. ASSUME NEW call \in CallRec, Acquire(r, call), UNCHANGED <<remote, entry, editor, proc>>
        PROVE  Current' /\ Known'
    BY <2>3, AcquireTyped, SameProcess
  <2>4. CASE Retry(r)
    <3>1. PICK call \in CallRec : call = [calls[r] EXCEPT !.client = Nobody, !.old = FALSE]
      BY DEF CallRec, Typed
    <3> QED
      BY <2>3, <2>4, <3>1 DEF Retry
  <2>5. CASE \E list \in BOOLEAN : Request(r, list)
    <3>1. PICK list \in BOOLEAN : Request(r, list)
      BY <2>5
    <3>2. PICK call \in CallRec : call = [NoCall EXCEPT !.list = list]
      BY Empties DEF CallRec
    <3> QED
      BY <2>3, <3>1, <3>2 DEF Request
  <2> QED
    BY <2>1, <2>2, <2>4, <2>5 DEF CallStep
<1>5. CASE EditStep
  <2>1. CASE EditStops
    BY <2>1, SameProcess DEF EditStops
  <2>2. CASE EditHalts
    <3>1. StopProcess /\ proc.at # "starting" /\ UNCHANGED <<remote, entry, conn>>
      BY <2>2 DEF EditHalts
    <3> QED
      BY <3>1, StopKnown DEF Current
  <2>3. CASE EditEnds
    BY <2>3, SameProcess DEF EditEnds
  <2> QED
    BY <1>5, <2>1, <2>2, <2>3 DEF EditStep
<1>6. CASE \E edited \in BOOLEAN : Edit(edited)
  <2>1. PICK edited \in BOOLEAN : Edit(edited)
    BY <1>6
  <2>2. entry' = NoEntry /\ editor'.at = "close" /\ UNCHANGED remote
    BY <2>1 DEF Edit, Drop, Close
  <2>3. CASE edited
    <3>1. /\ conn' = [conn EXCEPT !.cfg = IF conn.client # Nobody THEN "old" ELSE @]
          /\ proc' = [proc EXCEPT !.cfg = IF proc.at # "none" THEN "old" ELSE @]
      BY <2>1, <2>3 DEF Edit
    <3>2. /\ conn'.client = conn.client /\ conn'.at = conn.at /\ conn'.exited = conn.exited
          /\ conn.client # Nobody => conn'.cfg = "old"
      BY <3>1 DEF Typed, ConnRec
    <3>3. proc'.at = proc.at /\ (proc.at # "none" => proc'.cfg = "old")
      BY <3>1 DEF Typed, ProcRec
    <3> QED
      BY <2>2, <3>2, <3>3, Empties DEF Current, Known, Knows
  <2>4. CASE ~edited
    <3>1. UNCHANGED <<conn, proc>>
      BY <2>1, <2>4 DEF Edit
    <3> QED
      BY <2>2, <3>1, Empties DEF Current, Known, Knows
  <2> QED
    BY <2>3, <2>4
<1> QED
  BY <1>2, <1>3, <1>4, <1>5, <1>6, <1>7

LEMMA NextCurrent == RunsCurrent /\ [Next]_vars => RunsCurrent'
<1> SUFFICES ASSUME RunsCurrent, [Next]_vars
             PROVE  RunsCurrent'
  OBVIOUS
<1>1. Typed' /\ Holding'
  <2>1. Owned /\ Owned'
    BY TypedIs, NextOwned DEF RunsCurrent, Owned
  <2> QED
    BY <2>1 DEF Owned, TypeOK, Typed, EntryRec, ConnRec, CallRec, EditorRec, ProcRec, RegistryRec
<1>2. Current' /\ Known'
  <2>1. CASE Next
    BY <2>1, ConnKnown, ProcessKnown, OtherKnown DEF RunsCurrent, Next
  <2>2. CASE UNCHANGED vars
    BY <2>2 DEF RunsCurrent, vars, Current, Known, Knows
  <2> QED
    BY <2>1, <2>2
<1> QED
  BY <1>1, <1>2 DEF RunsCurrent

\* StdioRunsCurrent, for any number of requests, edits, exits and restarts: once an
\* edit has returned, no connection is left to a process started before it, and what
\* was started since runs the current configuration or the row of a raced resolve.
THEOREM Edits == Spec => []StdioRunsCurrent
<1>1. RunsCurrent => StdioRunsCurrent
  BY DEF Row, RunsCurrent, Current, Known, Knows, StdioRunsCurrent
<1> QED
  BY <1>1, InitCurrent, NextCurrent, PTL DEF Spec

-----------------------------------------------------------------------------
(***************************************************************************)
(* The catalog.                                                            *)
(***************************************************************************)
LEMMA RacedStep ==
  ASSUME Typed, Holding, Notified, ~Notified', [Next]_vars
  PROVE  \E r \in Requests : calls[r].fetched = "stale" /\ calls'[r] = NoCall
<1>1. entry'.catalog = "stale" /\ entry'.client \notin changed'
  BY DEF Notified
<1>2. /\ entry' # NoEntry
      /\ ~(entry' = entry /\ changed' = changed)
  BY <1>1, Empties DEF Notified
<1>3. ~\E c \in Clients : Close(c)
  <2> SUFFICES ASSUME NEW c \in Clients, Close(c)
               PROVE  FALSE
    OBVIOUS
  <2>1. entry' = entry /\ changed' = changed \ {c} /\ entry.client # c
    BY <1>2 DEF Close
  <2> QED
    BY <1>1, <2>1 DEF Notified
<1>4. ~Drop
  BY <1>2 DEF Drop, Close
<1>5. CASE ListsChange
  <2>1. entry'.client = entry.client /\ entry.client \in changed'
    BY <1>5 DEF ListsChange, Typed, EntryRec
  <2> QED
    BY <1>1, <2>1
<1>6. CASE \E c \in Clients : ListChanged(c)
  <2>1. entry'.catalog = "none"
    BY <1>6 DEF ListChanged, Typed, EntryRec
  <2> QED
    BY <1>1, <2>1
<1>7. CASE ExitSeen
  <2>1. entry'.catalog = entry.catalog /\ entry'.client = entry.client /\ changed' = changed
    BY <1>7 DEF ExitSeen, Marked, Typed, EntryRec
  <2> QED
    BY <1>1, <2>1 DEF Notified
<1>8. CASE EntryStored
  <2>1. entry'.catalog = "none"
    BY <1>8 DEF EntryStored
  <2> QED
    BY <1>1, <2>1
<1>9. CASE \E r \in Requests : ListStored(r)
  <2>1. PICK r \in Requests : ListStored(r)
    BY <1>9
  <2>2. calls'[r] = NoCall
    BY <2>1 DEF ListStored, Typed
  <2>3. /\ entry.client # Nobody /\ entry' = [entry EXCEPT !.catalog = calls[r].fetched]
    BY <1>2, <2>1 DEF ListStored
  <2>4. calls[r].fetched = "stale"
    BY <1>1, <2>3 DEF Typed, EntryRec
  <2> QED
    BY <2>2, <2>4
<1>10. CASE ConnStep /\ ~EntryStored
  BY <1>2, <1>10 DEF ConnStep, OpenRefused, OpenSpawns, OpenTransport, ConnectOk, ConnectFails,
     FallbackClosed, FallbackStops, FallbackStopped, ConnectEnds
<1>11. CASE ProcessDies \/ OnProcessExit \/ SupervisorShuts \/ BackoffEnds \/ VerdictExpires
            \/ Shutdown \/ EditStep
  BY <1>2, <1>4, <1>11 DEF ProcessDies, OnProcessExit, SupervisorShuts, BackoffEnds,
     VerdictExpires, Shutdown, EditStep, EditStops, EditHalts, EditEnds
<1>16. CASE ReadRow \/ \E row \in Row : CacheRow(row)
  BY <1>2, <1>16 DEF ReadRow, CacheRow
<1>12. CASE \E c \in Clients : ClientStep(c) \/ StreamDrops(c)
  BY <1>2, <1>3, <1>4, <1>12 DEF ClientStep, Closes, PipeEnds, StreamDrops, Gone
<1>13. CASE \E r \in Requests : \/ ListTools(r) \/ CallEnds(r) \/ CallRecovers(r) \/ Retry(r)
                                \/ \E list \in BOOLEAN : Request(r, list)
  BY <1>2, <1>4, <1>13 DEF ListTools, CallEnds, CallRecovers, Retry, Request
<1>14. CASE \E edited \in BOOLEAN : Edit(edited)
  BY <1>4, <1>14 DEF Edit
<1>15. CASE UNCHANGED vars
  BY <1>2, <1>15 DEF vars
<1> QED
  BY <1>5, <1>6, <1>7, <1>8, <1>9, <1>10, <1>11, <1>12, <1>13, <1>14, <1>15, <1>16 DEF Next, CallStep

\* OnlyARacedFetchIsStale: the one way a cached catalog outlives its notification
\* is a fetch that read before the change and stores after it.
THEOREM Races == Spec => OnlyARacedFetchIsStale
<1>1. Owned /\ [Next]_vars =>
      [Notified /\ ~Notified' =>
        \E r \in Requests : calls[r].fetched = "stale" /\ calls'[r] = NoCall]_vars
  BY RacedStep, TypedIs DEF Owned
<1> QED
  BY <1>1, OwnedHolds, PTL DEF Spec, OnlyARacedFetchIsStale
=================================================================================
