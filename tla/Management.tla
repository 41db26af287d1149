------------------------------ MODULE Management ------------------------------
(***************************************************************************)
(* The gateway's management REST API (apps/gateway/src/api) as tables of   *)
(* routes over abstract data.  The stored and running state is a set of    *)
(* cells, each with a version that every change of it increments; a route  *)
(* says which cells its answer is made of, which ones it changes and which *)
(* ones it may change, and a request is handled by the route it matches.   *)
(* The console (module Console) and the agents' tools (module AdminMcp)    *)
(* both work through these tables.                                         *)
(*                                                                         *)
(* Left out: what the rows hold beyond their existence, and what the       *)
(* handlers do inside (the other modules have it).  A handler that writes  *)
(* may answer that the request is invalid, conflicts or is blocked, and    *)
(* writes nothing then.  The answer is computed at the moment of the       *)
(* write.                                                                  *)
(*                                                                         *)
(* Bound: MaxWrites, the changes there can be in all; when it is reached   *)
(* a request that writes is refused.                                       *)
(***************************************************************************)
EXTENDS Naturals, Sequences, FiniteSets

CONSTANTS
    Ids,        \* ids of servers, namespaces and endpoints, in the order of their creation
    None,       \* no id; no answer
    MaxWrites

ASSUME ManagementAssumption == Ids \in Seq(STRING) /\ Len(Ids) > 0 /\ MaxWrites \in Nat

VARIABLE gw     \* the gateway: versions, rows, the switch of the management server, sessions

-----------------------------------------------------------------------------
Kinds == {"servers", "namespaces", "endpoints"}

\* What requests change: rows of servers, namespaces, their members and the members'
\* descriptions, tool overrides, endpoints, API keys, OAuth clients with their consents,
\* settings (the separator, the key parameter and the retention; the PATH of children; the
\* switch of the management server; the audit's), ignored advisories, quarantines lifted by
\* an administrator.
Config == {"servers", "namespaces", "members", "texts", "overrides", "endpoints", "keys", "clients",
           "options", "path", "switch", "policy", "ignores", "lifts"}

\* Processes, connections and tokens; results of audits; the request log.
Cells == Config \cup {"procs", "reports", "log"}

Settings == {"options", "path", "switch", "policy"}

GatewayInit ==
    \E setup, switch \in BOOLEAN :
        gw = [ver |-> [c \in Cells |-> 0], writes |-> 0, auditing |-> FALSE,
              rows |-> [k \in Kinds |-> {Ids[1]}], born |-> [k \in Kinds |-> 1],
              switch |-> switch, setup |-> setup, session |-> ~setup]

-----------------------------------------------------------------------------
\* The routes.  A path's ":id" is a row of the kind the path begins with, ":x" any segment.

Route(m, p, reads, writes, may) ==
    [m |-> m, p |-> p, reads |-> reads, writes |-> writes, may |-> may]

Get(p, reads) == Route("GET", p, reads, {}, {})

ServerCells == {"servers", "procs", "reports", "policy", "ignores"}
NamespaceCells == {"namespaces", "members", "texts", "servers", "endpoints", "procs"}
EndpointCells == {"endpoints", "namespaces", "keys"}
KeyCells == {"keys", "endpoints"}
ReportCells == {"reports", "policy", "ignores", "lifts"}
OverviewCells == {"servers", "reports", "policy", "ignores"}
HealthCells == ServerCells

ServerRowRoutes ==
    {Get(<<"servers">>, ServerCells),
     Route("POST", <<"servers", "preview">>, {}, {}, {}),
     Route("POST", <<"servers">>, ServerCells, {"servers"}, {"reports"}),
     Get(<<"servers", ":id">>, ServerCells),
     Route("PATCH", <<"servers", ":id">>, ServerCells, {"servers"}, {"procs", "reports"}),
     Route("DELETE", <<"servers", ":id">>, {},
           {"servers", "members", "texts", "overrides", "ignores", "procs", "reports"}, {})}

ServerProcessRoutes ==
    {Route("POST", <<"servers", ":id", do>>, ServerCells, {}, {"procs"}) :
        do \in {"start", "stop", "restart", "reset"}}
    \cup {Route("POST", <<"servers", ":id", "test">>, {}, {}, {"procs"})}

ServerLookRoutes ==
    {Route("GET", <<"servers", ":id", "tools">>, {"procs"}, {}, {"procs"}),
     Get(<<"servers", ":id", "logs">>, {})}

ServerOauthRoutes ==
    {Route("POST", <<"servers", ":id", "oauth", "start">>, {}, {}, {"procs"}),
     Route("POST", <<"servers", ":id", "oauth", "refresh">>, {"procs"}, {}, {"procs"}),
     Route("DELETE", <<"servers", ":id", "oauth">>, {}, {"procs"}, {})}

ServerAuditRoutes ==
    {Get(<<"servers", ":id", "audit">>, ReportCells),
     Route("POST", <<"servers", ":id", "audit", "run">>, ReportCells, {"reports"}, {"servers"}),
     Route("PUT", <<"servers", ":id", "audit", "ignores", ":x">>, ReportCells, {"ignores"}, {"servers"}),
     Route("DELETE", <<"servers", ":id", "audit", "ignores", ":x">>, {}, {"ignores"}, {"servers"}),
     Route("DELETE", <<"servers", ":id", "quarantine">>, ServerCells, {"servers", "lifts"}, {})}

NamespaceRowRoutes ==
    {Get(<<"namespaces">>, NamespaceCells),
     Route("POST", <<"namespaces">>, NamespaceCells, {"namespaces"}, {}),
     Get(<<"namespaces", ":id">>, NamespaceCells),
     Route("PATCH", <<"namespaces", ":id">>, NamespaceCells, {"namespaces"}, {}),
     Route("DELETE", <<"namespaces", ":id">>, {}, {"namespaces", "members", "texts", "overrides"}, {}),
     Route("POST", <<"namespaces", ":id", "servers">>, NamespaceCells, {}, {}),
     Route("DELETE", <<"namespaces", ":id", "servers", ":x">>, {}, {"members", "texts"}, {})}

\* What a namespace offers; asking for it starts the members that are not running.
NamespaceToolRoutes ==
    {Route("GET", <<"namespaces", ":id", "instructions">>,
           {"namespaces", "members", "texts", "servers", "procs"}, {}, {"procs"}),
     Route("GET", <<"namespaces", ":id", "tools">>,
           {"members", "servers", "overrides", "options", "procs"}, {}, {"procs"}),
     Route("PUT", <<"namespaces", ":id", "tools">>, {}, {"overrides"}, {}),
     Route("DELETE", <<"namespaces", ":id", "tools", ":x", ":x">>, {}, {"overrides"}, {}),
     Route("POST", <<"namespaces", ":id", "validate">>, {"members", "servers", "options", "procs"}, {}, {})}

EndpointRoutes ==
    {Get(<<"endpoints">>, EndpointCells),
     Route("POST", <<"endpoints">>, EndpointCells, {"endpoints"}, {}),
     Get(<<"endpoints", ":id">>, EndpointCells),
     Get(<<"endpoints", ":id", "protocols">>, {"log"}),
     Route("PATCH", <<"endpoints", ":id">>, EndpointCells, {"endpoints"}, {}),
     Route("DELETE", <<"endpoints", ":id">>, {}, {"endpoints", "keys"}, {})}

KeyRoutes ==
    {Get(<<"api-keys">>, KeyCells),
     Route("POST", <<"api-keys">>, KeyCells, {"keys"}, {}),
     Route("DELETE", <<"api-keys", ":x">>, {}, {"keys"}, {})}

OauthRoutes ==
    {Get(<<"oauth", "requests", ":x">>, {}),
     Route("POST", <<"oauth", "requests", ":x", "approve">>, {}, {"clients"}, {}),
     Route("POST", <<"oauth", "requests", ":x", "deny">>, {}, {"clients"}, {}),
     Get(<<"oauth", "clients">>, {"clients"}),
     Route("DELETE", <<"oauth", "clients", ":x">>, {}, {"clients"}, {})}

RegistryRoutes ==
    {Get(<<"registry", "servers">>, {"servers"}), Get(<<"registry", "server">>, {"servers"})}

\* The settings a PATCH carries are in the request's body; changed actions are applied to
\* every server at once.
SettingsRoutes ==
    {Get(<<"settings">>, Settings), Route("PATCH", <<"settings">>, {}, {}, {"servers"})}

DockerRoutes == {Get(<<"docker">>, {})}

LogRoutes == {Get(<<"request-log">>, {"log", "endpoints", "servers"})}

AuditRoutes ==
    {Get(<<"audit">>, OverviewCells),
     Route("POST", <<"audit", "run">>, {}, {}, {}),
     Get(<<"audit", "self">>, {"reports", "policy"}),
     Route("POST", <<"audit", "self", "run">>, {"reports", "policy"}, {"reports"}, {})}

Routes ==
    ServerRowRoutes \cup ServerProcessRoutes \cup ServerLookRoutes \cup ServerOauthRoutes
    \cup ServerAuditRoutes \cup NamespaceRowRoutes \cup NamespaceToolRoutes \cup EndpointRoutes
    \cup KeyRoutes \cup OauthRoutes \cup RegistryRoutes \cup SettingsRoutes \cup DockerRoutes
    \cup LogRoutes \cup AuditRoutes \cup {Get(<<"health">>, HealthCells)}

-----------------------------------------------------------------------------
\* A request: its method, the segments of its path, and the cells its body is about where
\* that is the client's choice: the settings of a PATCH, a member's place or description.

Request(m, p, body) == [m |-> m, p |-> p, body |-> body]

\* ":id" and ":x" stand for exactly one segment.
Matches(r, q) ==
    /\ r.m = q.m /\ Len(r.p) = Len(q.p)
    /\ \A k \in 1..Len(r.p) : r.p[k] \in {":id", ":x", q.p[k]}

\* An answer: the cells it is made of, and what only some answers have: the rows of a list
\* and the id of the last of them, whether an audit runs, the state of the session.
Reply(g, status, cells, q) ==
    LET list == Len(q.p) = 1 /\ q.p[1] \in Kinds IN
    [status |-> status, ver |-> [c \in cells |-> g.ver[c]],
     rows |-> IF list THEN g.rows[q.p[1]] ELSE {},
     made |-> IF list /\ q.m = "POST" THEN Ids[g.born[q.p[1]]] ELSE None,
     auditing |-> q.p = <<"audit">> /\ g.auditing,
     session |-> q.p[1] = "session" /\ g.session, setup |-> q.p[1] = "session" /\ g.setup]

Outcome(g, status, cells, q) == [gw |-> g, reply |-> Reply(g, status, cells, q)]
Ok == 200
Refused(g, status, q) == Outcome(g, status, {}, q)

Bump(g, cells) ==
    IF cells = {} THEN g
    ELSE [g EXCEPT !.ver = [c \in Cells |-> IF c \in cells THEN g.ver[c] + 1 ELSE g.ver[c]],
                   !.writes = g.writes + 1]

\* Rows that come and go with a request.
WithRows(g, r, q) ==
    LET k == q.p[1] IN
    IF k \notin Kinds THEN {g}
    ELSE IF r.m = "POST" /\ r.p = <<k>>
         THEN IF g.born[k] = Len(Ids) THEN {}
              ELSE {[g EXCEPT !.born[k] = @ + 1, !.rows[k] = @ \cup {Ids[g.born[k] + 1]}]}
    ELSE IF r.m = "DELETE" /\ r.p = <<k, ":id">>
         THEN LET gone == [g EXCEPT !.rows[k] = @ \ {q.p[2]}] IN
              IF k # "namespaces" \/ g.rows.endpoints = {} THEN {gone}
              ELSE {gone,       \* the endpoints that publish a namespace go with it, and their keys
                    [gone EXCEPT !.rows.endpoints = {},
                                 !.ver = [g.ver EXCEPT !.endpoints = @ + 1, !.keys = @ + 1]]}
    ELSE {g}

WithSettings(g, body) ==
    IF "switch" \in body THEN [g EXCEPT !.switch = ~@] ELSE g

Started(g, r) == IF r.p = <<"audit", "run">> THEN [g EXCEPT !.auditing = TRUE] ELSE g

\* What the handler of route r may make of request q.
Outcomes(g, r, q) ==
    LET changes == {r.writes \cup q.body, r.writes \cup q.body \cup r.may}
        done == UNION {{Outcome(Bump(h, cells), Ok, r.reads, q) : h \in WithRows(g, r, q)} :
                          cells \in {cs \in changes : cs = {} \/ g.writes < MaxWrites}}
    IN {[o EXCEPT !.gw = Started(WithSettings(o.gw, q.body), r)] : o \in done}
       \cup IF r.writes \cup r.may \cup q.body # {} THEN {Refused(g, 400, q)} ELSE {}

\* A handler reads the row first; a path nothing matches is answered 404 as well.
Handled(g, q) ==
    LET matching == {r \in Routes : Matches(r, q)} IN
    IF matching = {} THEN {Refused(g, 404, q)}
    ELSE LET r == CHOOSE x \in matching : TRUE IN
         IF Len(r.p) > 1 /\ r.p[2] = ":id" /\ q.p[2] \notin g.rows[q.p[1]] THEN {Refused(g, 404, q)}
         ELSE Outcomes(g, r, q)

\* What is open to a browser without a session: asking for one and getting one.
OpenPaths == {<<"session">>, <<"session", "setup">>, <<"session", "login">>}

SessionHandled(g, q) ==
    CASE q.p = <<"session">> -> {Outcome(g, Ok, {}, q)}
      [] q.p = <<"session", "setup">> ->
            IF g.setup THEN {Outcome([g EXCEPT !.setup = FALSE, !.session = TRUE], Ok, {}, q)}
            ELSE {Refused(g, 400, q)}
      [] q.p = <<"session", "login">> ->
            {Refused(g, 401, q)} \cup
            IF g.setup THEN {} ELSE {Outcome([g EXCEPT !.session = TRUE], Ok, {}, q)}

\* A request of the browser, whose cookie has the session.
Served(g, q) ==
    IF q.p \in OpenPaths THEN SessionHandled(g, q)
    ELSE IF ~g.session /\ q.p # <<"health">> THEN {Refused(g, 401, q)}
    ELSE IF q.p = <<"session", "logout">> THEN {Outcome([g EXCEPT !.session = FALSE], Ok, {}, q)}
    ELSE Handled(g, q)

-----------------------------------------------------------------------------
\* What happens at the gateway by itself: processes start and end, calls are logged,
\* audits run and store results, with or without a sanction.

Happens ==
    /\ gw.writes < MaxWrites
    /\ \E cells \in {{"procs"}, {"log"}} : gw' = Bump(gw, cells)

AuditStarts ==
    /\ ~gw.auditing /\ gw.writes < MaxWrites
    /\ gw' = [gw EXCEPT !.auditing = TRUE, !.writes = @ + 1]

AuditEnds ==
    /\ gw.auditing
    /\ \E cells \in {{"reports"}, {"reports", "servers"}} :
          gw' = [gw EXCEPT !.auditing = FALSE,
                           !.ver = [c \in Cells |-> IF c \in cells THEN @[c] + 1 ELSE @[c]]]

Background == Happens \/ AuditStarts \/ AuditEnds
===============================================================================
