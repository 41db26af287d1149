---------------------------------- MODULE Pool ----------------------------------
(***************************************************************************)
(* The connection pool, UpstreamPool (apps/gateway/src/upstream/pool.ts),  *)
(* for one server: its entry, the connect in flight, the verdict of the    *)
(* protocol probe, the backoff, the cached catalog, and the requests,      *)
(* edits, exits and dropped streams that compete for them.  The pool keeps *)
(* nothing that two servers share.                                         *)
(*                                                                         *)
(* An action is the code between two awaits.  Of the supervisor one        *)
(* process is kept, which is spawned, stopped or dies (module Supervisor   *)
(* has the rest).  A configuration is current or old, a catalog fresh or   *)
(* stale: an edit makes what was current old, a change of the upstream's   *)
(* lists makes what was fresh stale.  What was opened after an edit from a *)
(* row that the registry had read before it is raced.                      *)
(***************************************************************************)
EXTENDS Naturals, FiniteSets

CONSTANTS
    Requests,   \* calls of withClient and catalog that may be in flight at once
    Clients,    \* identities of clients
    Nobody,     \* no client
    MaxEvents   \* bound on events, for TLC

ASSUME PoolAssumption == Nobody \notin Clients /\ MaxEvents \in Nat

VARIABLES
    remote,     \* the server's transport is not stdio (never changes)
    registry,   \* the registry's cached row of the server, and the rows that
                \* calls of resolve read and have still to decrypt and cache
    live,       \* clients whose connection is open
    closing,    \* clients of some call, open until their subscription is closed
    entry,      \* entries.get(serverId)
    conn,       \* connecting.get(serverId), the connect in flight
    verdict,    \* verdicts.get(serverId)
    backoff,    \* backoff.get(serverId) and its time has not come
    changed,    \* clients whose list_changed is on its way
    calls,      \* requests in flight
    editor,     \* the edit or stop in flight (api/servers.ts)
    proc,       \* the server's process, as the supervisor has it
    exits,      \* an exit was seen, and onProcessExit is still to be called
    up,         \* not shutting down
    events      \* how much has happened to the pool from outside

vars == <<remote, registry, live, closing, entry, conn, verdict, backoff, changed, calls, editor, proc, exits, up, events>>

-----------------------------------------------------------------------------
Row == {"current", "raced"}         \* raced: read before an edit that is over
Cfg == Row \cup {"old"}
Era == {"none", "modern", "legacy"}
Exited == {"no", "now", "past"}     \* onProcessExit: is not to come, is about to, has come

NoEntry == [client |-> Nobody, cfg |-> "current", exited |-> "no", sub |-> FALSE, catalog |-> "none"]
NoConn == [at |-> "no", client |-> Nobody, cfg |-> "current", exited |-> "no",
           prior |-> "none"]
NoVerdict == "none"
NoCall == [at |-> "idle", client |-> Nobody, list |-> FALSE, again |-> FALSE,
           old |-> FALSE, fetched |-> "none"]
NoEditor == [at |-> "idle", client |-> Nobody]
NoProc == [at |-> "none", cfg |-> "current"]
NoRow == [cached |-> "none", reads |-> {}]

TypeOK ==
    /\ remote \in BOOLEAN /\ backoff \in BOOLEAN /\ exits \in BOOLEAN
    /\ up \in {"yes", "closing", "no"} /\ events \in 0..MaxEvents
    /\ entry \in [client : Clients \cup {Nobody}, cfg : Cfg, exited : Exited,
                  sub : BOOLEAN, catalog : {"none", "fresh", "stale"}]
    /\ conn \in [at : {"no", "open", "spawn", "probe", "close", "stop", "halt", "listen", "done"},
                 client : Clients \cup {Nobody}, cfg : Cfg, exited : Exited,
                 prior : Era]
    /\ entry.client = Nobody => entry = NoEntry
    /\ conn.at = "no" => conn = NoConn
    /\ registry \in [cached : Row \cup {"none"}, reads : SUBSET Row]
    /\ verdict \in Era
    /\ live \subseteq Clients /\ closing \subseteq Clients \ live /\ changed \subseteq live
    /\ calls \in [Requests -> [at : {"idle", "wait", "call", "drop"}, client : Clients \cup {Nobody},
                               list : BOOLEAN, again : BOOLEAN, old : BOOLEAN,
                               fetched : {"none", "fresh", "stale"}]]
    /\ editor \in [at : {"idle", "close", "stop", "halt"}, client : Clients \cup {Nobody}]
    /\ proc \in [at : {"none", "starting", "running", "dead", "stopping"}, cfg : Cfg]

Init ==
    /\ remote \in BOOLEAN /\ registry = NoRow
    /\ live = {} /\ closing = {} /\ entry = NoEntry /\ conn = NoConn
    /\ verdict = NoVerdict /\ backoff = FALSE /\ changed = {}
    /\ calls = [r \in Requests |-> NoCall] /\ editor = NoEditor /\ proc = NoProc
    /\ exits = FALSE /\ up = "yes" /\ events = 0

-----------------------------------------------------------------------------
(***************************************************************************)
(* Closing.                                                                *)
(***************************************************************************)
Free(c) == /\ c \notin live \cup closing \cup {entry.client, conn.client, editor.client}
           /\ \A r \in Requests : calls[r].client # c

Close(c) ==
    /\ live' = live \ {c}
    /\ changed' = changed \ {c}
    /\ entry' = IF entry.client = c THEN NoEntry ELSE entry

\* The connection is gone: client.onclose takes the client's entry out of the map.
Gone(c) == Close(c) /\ UNCHANGED closing

\* Mutant: drop forgets to close the connection.
DropForgets == entry' = NoEntry /\ UNCHANGED <<live, closing, changed>>

\* drop: out of the map, then closeEntry, which closes the subscription first.
Drop ==
    /\ Close(entry.client)
    /\ closing' = IF entry.sub /\ \E r \in Requests : calls[r].client = entry.client
                  THEN closing \cup {entry.client} ELSE closing

Closes(c) ==
    /\ c \in closing
    /\ closing' = closing \ {c}
    /\ UNCHANGED <<remote, registry, live, entry, conn, verdict, backoff, changed, calls, editor, proc, exits, up, events>>

Happens == events < MaxEvents /\ events' = events + 1

\* An SseError of a client: evict.
StreamDrops(c) ==
    /\ Happens
    /\ remote /\ c \in live
    /\ IF entry.client = c THEN Drop ELSE Gone(c)
    /\ UNCHANGED <<remote, registry, conn, verdict, backoff, calls, editor, proc, exits, up>>

(***************************************************************************)
(* The process of a stdio server: it dies, its pipes end, its exit is      *)
(* seen (watchExit, which calls onProcessExit).                            *)
(***************************************************************************)
ProcessDies ==
    /\ Happens
    /\ proc.at = "running"
    /\ proc' = [proc EXCEPT !.at = "dead"]
    /\ UNCHANGED <<remote, registry, live, closing, entry, conn, verdict, backoff, changed, calls, editor, exits, up>>

PipeEnds(c) ==
    /\ ~remote /\ c \in live /\ proc.at \notin {"running", "starting"}
    /\ Gone(c)
    /\ UNCHANGED <<remote, registry, conn, verdict, backoff, calls, editor, proc, exits, up, events>>

\* watchExit sees that the process is gone, and later says so to the pool.
Marked(x, from, to) == IF x.client # Nobody /\ x.exited = from
                       THEN [x EXCEPT !.exited = to] ELSE x
ExitSeen ==
    /\ proc.at \in {"dead", "stopping"} /\ ~exits
    /\ proc' = NoProc /\ exits' = TRUE
    /\ entry' = Marked(entry, "no", "now")
    /\ conn' = Marked(conn, "no", "now")
    /\ UNCHANGED <<remote, registry, live, closing, verdict, backoff, changed, calls, editor, up, events>>

OnProcessExit ==
    /\ exits /\ exits' = FALSE
    /\ IF entry.exited = "now" THEN Drop ELSE UNCHANGED <<entry, live, closing, changed>>
    /\ conn' = Marked(conn, "now", "past")
    /\ UNCHANGED <<remote, registry, verdict, backoff, calls, editor, proc, up, events>>

\* supervisor.stop, for its caller at the step given: a spawn in flight is awaited.
StopProcess == proc' = IF proc.at = "running" \/ proc.at = "dead"
                       THEN [proc EXCEPT !.at = "stopping"] ELSE proc

-----------------------------------------------------------------------------
(***************************************************************************)
(* The registry's resolve, whoever calls it.  The row of a server that has *)
(* encrypted headers or environment is read, and cached when they have     *)
(* been decrypted, whatever was edited meanwhile; of a server that has     *)
(* none it is read and cached in one stretch, and is current.              *)
(***************************************************************************)
ReadRow ==
    /\ Happens
    /\ registry.cached = "none"
    /\ registry' = [registry EXCEPT !.reads = @ \cup {"current"}]
    /\ UNCHANGED <<remote, live, closing, entry, conn, verdict, backoff, changed, calls, editor, proc, exits, up>>

CacheRow(row) ==
    /\ row \in registry.reads
    /\ registry' = [cached |-> row, reads |-> registry.reads \ {row}]
    /\ UNCHANGED <<remote, live, closing, entry, conn, verdict, backoff, changed, calls, editor, proc, exits, up, events>>

\* invalidate, which does not reach the rows that are being decrypted.
Invalidated(edited) ==
    [cached |-> "none",
     reads |-> IF edited /\ registry.reads # {} THEN {"raced"} ELSE registry.reads]

\* What a resolve that is called now returns: the cached row, which a decryption
\* that ends meanwhile may replace, or the row as it is.
Rows == (IF registry.cached = "none" THEN {"current"} ELSE {registry.cached}) \cup registry.reads

-----------------------------------------------------------------------------
(***************************************************************************)
(* connect.                                                                *)
(***************************************************************************)
Waiters == {r \in Requests : calls[r].at = "wait"}
Resumed(c) == [r \in Requests |-> IF r \notin Waiters THEN calls[r]
               ELSE IF c = Nobody THEN NoCall
               ELSE [calls[r] EXCEPT !.at = "call", !.client = c, !.old = conn.cfg # "current"]]

\* Mutant: a failed connect settles nobody.
FailsSilently ==
    /\ conn' = NoConn
    /\ backoff' = remote
    /\ UNCHANGED calls

\* The connect is rejected: whoever waits for it is, and a remote server is left
\* alone for a while.
Fails ==
    /\ conn' = NoConn
    /\ calls' = Resumed(Nobody)
    /\ backoff' = remote

\* openTransport, and buildClient: a client that nobody has heard of.
Opens(c) ==
    /\ live' = live \cup {c}
    /\ \E row \in Rows : conn' = [conn EXCEPT !.at = "probe", !.client = c, !.exited = "no",
                                             !.cfg = IF remote THEN row ELSE proc.cfg]

OpenRefused ==
    /\ conn.at \in {"open", "spawn"} /\ proc.at # "stopping"
    /\ Fails
    /\ proc' = IF proc.at = "starting" THEN NoProc ELSE proc
    /\ UNCHANGED <<remote, registry, live, closing, entry, verdict, changed, editor, exits, up, events>>

OpenSpawns ==
    /\ conn.at = "open" /\ ~remote /\ up # "no" /\ proc.at = "none"
    /\ conn' = [conn EXCEPT !.at = "spawn"]
    /\ \E row \in Rows : proc' = [at |-> "starting", cfg |-> row]
    /\ UNCHANGED <<remote, registry, live, closing, entry, verdict, backoff, changed, calls, editor, exits, up, events>>

OpenTransport ==
    /\ \/ conn.at = "open" /\ (remote \/ (up # "no" /\ proc.at \in {"running", "dead"}))
       \/ conn.at = "spawn"
    /\ \E c \in Clients : Free(c)
    /\ Opens(CHOOSE c \in Clients : Free(c))
    /\ proc' = IF conn.at = "spawn" THEN [proc EXCEPT !.at = "running"] ELSE proc
    /\ UNCHANGED <<remote, registry, closing, entry, verdict, backoff, changed, calls, editor, exits, up, events>>

\* client.connect succeeds; what the probe found is remembered.
ConnectOk(era) ==
    /\ conn.at = "probe" /\ conn.client \in live
    /\ conn.prior # "none" => era = conn.prior
    /\ conn' = [conn EXCEPT !.at = "listen", !.prior = era]
    /\ verdict' = IF conn.prior = "none" THEN era ELSE verdict
    /\ UNCHANGED <<remote, registry, live, closing, entry, backoff, changed, calls, editor, proc, exits, up, events>>

\* The process is not the one the connect began with.
Casualty == ~remote /\ (conn.exited # "no" \/ proc.at \notin {"running", "dead"})

\* client.connect fails, eraFailure or otherwise; its client is closed.
ConnectFails(eraFailure) ==
    /\ conn.at = "probe"
    /\ live' = live \ {conn.client}
    /\ IF conn.prior = "none" /\ (eraFailure \/ Casualty)
       THEN /\ conn' = [conn EXCEPT !.at = "close"]
            /\ UNCHANGED <<backoff, calls>>
       ELSE Fails
    /\ UNCHANGED <<remote, registry, closing, entry, verdict, changed, editor, proc, exits, up, events>>

\* The server did not survive the probe: it is restarted and taken for legacy.
FallbackClosed ==
    /\ conn.at = "close"
    /\ verdict' = "legacy"
    /\ conn' = [conn EXCEPT !.at = IF remote THEN "open" ELSE "stop", !.prior = "legacy",
                            !.client = Nobody]
    /\ UNCHANGED <<remote, registry, live, closing, entry, backoff, changed, calls, editor, proc, exits, up, events>>

FallbackStops ==
    /\ conn.at = "stop" /\ proc.at # "starting"
    /\ StopProcess
    /\ conn' = [conn EXCEPT !.at = "halt"]
    /\ UNCHANGED <<remote, registry, live, closing, entry, verdict, backoff, changed, calls, editor, exits, up, events>>

FallbackStopped ==
    /\ conn.at = "halt" /\ proc.at # "stopping"
    /\ conn' = [conn EXCEPT !.at = "open"]
    /\ UNCHANGED <<remote, registry, live, closing, entry, verdict, backoff, changed, calls, editor, proc, exits, up, events>>

\* The subscription is made or not; the entry is stored whatever has become of its client.
EntryStored ==
    /\ conn.at = "listen"
    /\ \E sub \in BOOLEAN :
          /\ sub => conn.prior = "modern"
          /\ entry' = [client |-> conn.client, cfg |-> conn.cfg, exited |-> conn.exited,
                       sub |-> sub, catalog |-> "none"]
    /\ conn' = [conn EXCEPT !.at = "done"]
    /\ UNCHANGED <<remote, registry, live, closing, verdict, backoff, changed, calls, editor, proc, exits, up, events>>

ConnectEnds ==          \* the finally of acquire
    /\ conn.at = "done"
    /\ calls' = Resumed(conn.client)
    /\ conn' = NoConn
    /\ backoff' = FALSE
    /\ UNCHANGED <<remote, registry, live, closing, entry, verdict, changed, editor, proc, exits, up, events>>

-----------------------------------------------------------------------------
(***************************************************************************)
(* acquire, withClient and catalog.                                        *)
(***************************************************************************)
\* acquire for request r, which is to be in state call when it has its client.
Acquire(r, call) ==
    \/ /\ entry.client # Nobody
       /\ calls' = [calls EXCEPT ![r] = [call EXCEPT !.at = "call", !.client = entry.client,
                                                      !.old = entry.cfg # "current"]]
       /\ UNCHANGED conn
    \/ /\ entry.client = Nobody /\ conn.at # "no"
       /\ calls' = [calls EXCEPT ![r] = [call EXCEPT !.at = "wait"]]
       /\ UNCHANGED conn
    \/ /\ entry.client = Nobody /\ conn.at = "no" /\ backoff
       /\ calls' = [calls EXCEPT ![r] = NoCall]
       /\ UNCHANGED conn
    \/ /\ entry.client = Nobody /\ conn.at = "no" /\ ~backoff
       /\ conn' = [NoConn EXCEPT !.at = "open", !.prior = verdict]
       /\ calls' = [calls EXCEPT ![r] = [call EXCEPT !.at = "wait"]]

Request(r, list) ==
    /\ Happens
    /\ calls[r].at = "idle" /\ up = "yes"
    /\ Acquire(r, [NoCall EXCEPT !.list = list])
    /\ UNCHANGED <<remote, registry, live, closing, entry, verdict, backoff, changed, editor, proc, exits, up>>

\* The tools are listed; resources and prompts are still to come.
ListTools(r) ==
    /\ calls[r].at = "call" /\ calls[r].list /\ calls[r].fetched = "none"
    /\ calls[r].client \in live \cup closing
    /\ calls' = [calls EXCEPT ![r].fetched = IF calls[r].old THEN "stale" ELSE "fresh"]
    /\ UNCHANGED <<remote, registry, live, closing, entry, conn, verdict, backoff, changed, editor, proc, exits, up, events>>

\* The catalog goes into whatever entry there is by now.
ListStored(r) ==
    /\ calls[r].at = "call" /\ calls[r].fetched # "none" /\ calls[r].client \in live \cup closing
    /\ entry' = IF entry.client # Nobody THEN [entry EXCEPT !.catalog = calls[r].fetched] ELSE entry
    /\ calls' = [calls EXCEPT ![r] = NoCall]
    /\ UNCHANGED <<remote, registry, live, closing, conn, verdict, backoff, changed, editor, proc, exits, up, events>>

\* A call is answered, or fails with an error that no reconnect would mend.
CallEnds(r) ==
    /\ calls[r].at = "call"
    /\ calls' = [calls EXCEPT ![r] = NoCall]
    /\ UNCHANGED <<remote, registry, live, closing, entry, conn, verdict, backoff, changed, editor, proc, exits, up, events>>

\* A recoverable error drops the server's entry, whosever it is, and tries again.
CallRecovers(r) ==
    /\ Happens
    /\ calls[r].at = "call" /\ ~calls[r].again
    /\ Drop
    /\ calls' = [calls EXCEPT ![r] = [@ EXCEPT !.at = "drop", !.again = TRUE, !.fetched = "none",
                                               !.client = entry.client]]
    /\ UNCHANGED <<remote, registry, conn, verdict, backoff, editor, proc, exits, up>>

Retry(r) ==
    /\ calls[r].at = "drop" /\ calls[r].client \notin closing
    /\ Acquire(r, [calls[r] EXCEPT !.client = Nobody, !.old = FALSE])
    /\ UNCHANGED <<remote, registry, live, closing, entry, verdict, backoff, changed, editor, proc, exits, up, events>>

BackoffEnds ==
    /\ backoff /\ backoff' = FALSE
    /\ UNCHANGED <<remote, registry, live, closing, entry, conn, verdict, changed, calls, editor, proc, exits, up, events>>

\* The verdict's day is over.
VerdictExpires ==
    /\ Happens
    /\ verdict' = NoVerdict
    /\ UNCHANGED <<remote, registry, live, closing, entry, conn, backoff, changed, calls, editor, proc, exits, up>>

(***************************************************************************)
(* The upstream's lists change: it says so to the clients it has.          *)
(***************************************************************************)
Stale(f) == IF f = "fresh" THEN "stale" ELSE f
AllStale == [r \in Requests |-> [calls[r] EXCEPT !.fetched = Stale(@)]]

ListsChange ==
    /\ Happens
    /\ entry.client # Nobody /\ entry.client \in live
    /\ changed' = changed \cup {entry.client}
    /\ entry' = [entry EXCEPT !.catalog = Stale(@)]
    /\ calls' = AllStale
    /\ UNCHANGED <<remote, registry, live, closing, conn, verdict, backoff, editor, proc, exits, up>>

\* Mutant: the handler looks at the client, not at the server.
ListChangedIgnored(c) ==
    /\ c \in changed
    /\ changed' = changed \ {c}
    /\ UNCHANGED <<remote, registry, live, closing, entry, conn, verdict, backoff, calls, editor, proc, exits, up, events>>

\* invalidateCatalog, of whatever entry there is.
ListChanged(c) ==
    /\ c \in changed
    /\ changed' = changed \ {c}
    /\ entry' = [entry EXCEPT !.catalog = "none"]
    /\ UNCHANGED <<remote, registry, live, closing, conn, verdict, backoff, calls, editor, proc, exits, up, events>>

-----------------------------------------------------------------------------
(***************************************************************************)
(* An edit of the server, or a stop from the API: pool.invalidate, then    *)
(* supervisor.stop; and the shutdown.                                      *)
(***************************************************************************)
Edit(edited) ==
    /\ Happens
    /\ editor.at = "idle" /\ up = "yes"
    /\ editor' = [at |-> "close", client |-> entry.client]
    /\ Drop
    /\ registry' = Invalidated(edited)
    /\ verdict' = NoVerdict
    /\ backoff' = FALSE
    /\ IF edited
       THEN /\ conn' = [conn EXCEPT !.cfg = IF conn.client # Nobody THEN "old" ELSE @]
            /\ proc' = [proc EXCEPT !.cfg = IF proc.at # "none" THEN "old" ELSE @]
            /\ calls' = [r \in Requests |-> [AllStale[r] EXCEPT !.old = calls[r].client # Nobody]]
       ELSE UNCHANGED <<conn, proc, calls>>
    /\ UNCHANGED <<remote, exits, up>>

EditStops ==
    /\ editor.at = "close" /\ editor.client \notin closing
    /\ editor' = [at |-> "stop", client |-> Nobody]
    /\ UNCHANGED <<remote, registry, live, closing, entry, conn, verdict, backoff, changed, calls, proc, exits, up, events>>

\* Mutant: stop does not await the spawn in flight.
EditHaltsAtOnce ==
    /\ editor.at = "stop"
    /\ StopProcess
    /\ editor' = [editor EXCEPT !.at = "halt"]
    /\ UNCHANGED <<remote, registry, live, closing, entry, conn, verdict, backoff, changed, calls, exits, up, events>>

EditHalts ==
    /\ editor.at = "stop" /\ proc.at # "starting"
    /\ StopProcess
    /\ editor' = [editor EXCEPT !.at = "halt"]
    /\ UNCHANGED <<remote, registry, live, closing, entry, conn, verdict, backoff, changed, calls, exits, up, events>>

EditEnds ==
    /\ editor.at = "halt" /\ proc.at # "stopping"
    /\ editor' = NoEditor
    /\ UNCHANGED <<remote, registry, live, closing, entry, conn, verdict, backoff, changed, calls, proc, exits, up, events>>

Shutdown ==             \* pool.shutdown, then supervisor.shutdown
    /\ Happens
    /\ up = "yes" /\ up' = "closing"
    /\ Drop
    /\ UNCHANGED <<remote, registry, conn, verdict, backoff, calls, editor, proc, exits>>

SupervisorShuts ==
    /\ up = "closing" /\ up' = "no"
    /\ StopProcess
    /\ UNCHANGED <<remote, registry, live, closing, entry, conn, verdict, backoff, changed, calls, editor, exits, events>>

ConnStep == \/ OpenRefused \/ OpenSpawns \/ OpenTransport
            \/ \E era \in {"modern", "legacy"} : ConnectOk(era)
            \/ \E b \in BOOLEAN : ConnectFails(b)
            \/ FallbackClosed \/ FallbackStops \/ FallbackStopped \/ EntryStored \/ ConnectEnds

CallStep(r) == ListTools(r) \/ ListStored(r) \/ CallEnds(r) \/ CallRecovers(r) \/ Retry(r)
EditStep == EditStops \/ EditHalts \/ EditEnds
ClientStep(c) == Closes(c) \/ PipeEnds(c)

Next ==
    \/ ConnStep \/ EditStep \/ ExitSeen \/ OnProcessExit
    \/ ReadRow \/ \E row \in Row : CacheRow(row)
    \/ ProcessDies \/ BackoffEnds \/ VerdictExpires \/ ListsChange \/ Shutdown \/ SupervisorShuts
    \/ \E r \in Requests : CallStep(r) \/ \E list \in BOOLEAN : Request(r, list)
    \/ \E c \in Clients : ClientStep(c) \/ StreamDrops(c) \/ ListChanged(c)
    \/ \E edited \in BOOLEAN : Edit(edited)

Spec == Init /\ [][Next]_vars

(***************************************************************************)
(* Connects, lists and calls have timeouts, a close ends, and a stopped    *)
(* process exits (it is killed after a grace period).                      *)
(***************************************************************************)
Fairness ==
    /\ WF_vars(ConnStep) /\ WF_vars(EditStep) /\ WF_vars(ExitSeen) /\ WF_vars(OnProcessExit)
    /\ \A r \in Requests : WF_vars(CallStep(r))
    /\ \A c \in Clients : WF_vars(ClientStep(c))

FairSpec == Spec /\ Fairness

-----------------------------------------------------------------------------
(***************************************************************************)
(* Properties.                                                             *)
(***************************************************************************)
\* No connection is leaked: a live one is the entry's or the connect's in flight,
\* and there is never an entry beside a connect, which would overwrite it.
LiveClientsAreOwned ==
    /\ TypeOK
    /\ \A c \in live : c \in {entry.client, conn.client}
    /\ conn.at \notin {"no", "done"} => entry.client = Nobody

\* No connection to a process outlives an edit of its server: once the edit has
\* returned, nobody talks to a process that was started before it, although its
\* spawn or its connect was in flight when the entry was dropped.  The exception
\* is a process started after the edit which runs the old configuration all the
\* same: of a server with secrets, when a resolve read the row before the edit and
\* decrypted it through the edit (raced), and only until the next edit or stop.
StdioRunsCurrent ==
    (/\ ~remote /\ editor.at = "idle" /\ entry.client # Nobody
     /\ entry.client \in live /\ entry.exited = "no" /\ proc.at = "running")
    => entry.cfg = "current" \/ entry.cfg = "raced"

\* A cached catalog is out of date only until the notification arrives, unless a
\* fetch that had begun before the change stores what it read.
Notified == entry.catalog = "stale" => entry.client \in changed
OnlyARacedFetchIsStale ==
    [][Notified /\ ~Notified' =>
        \E r \in Requests : calls[r].fetched = "stale" /\ calls'[r] = NoCall]_vars

\* Every request ends, with an answer or an error, whatever closes meanwhile.
RequestsEnd == \A r \in Requests : calls[r].at # "idle" ~> calls[r].at = "idle"
=================================================================================
