-------------------------------- MODULE Console --------------------------------
(***************************************************************************)
(* The administrator's console (apps/web/src): the views with the calls    *)
(* each makes when it is opened, when it polls and when something is       *)
(* clicked, the session store, the router's guard, the shell.  Its         *)
(* requests are handled by the tables of module Management.                *)
(*                                                                         *)
(* What a view calls is a script: stages that follow each other, each with *)
(* requests in parallel; Scripts is the table of them.  An answer is the   *)
(* versions of the cells it is made of, and a view shows the last answer   *)
(* that was put into each of its items.  A tab of the server page is       *)
(* entered by its link and stands for a view of its own.                   *)
(*                                                                         *)
(* Left out: what is drawn, forms and filters, toasts, the log stream      *)
(* (ServerLogs), lazily loaded chunks, the moment in which the shell goes  *)
(* and the view is mounted once more before the router leaves it.  A view  *)
(* that was left keeps the id it had for the requests it still makes.  Of  *)
(* a script's polls at most one is outstanding.                            *)
(*                                                                         *)
(* The administrator clicks, on a button or a link, when nothing but polls *)
(* is outstanding; the requests of a stage are handled together.           *)
(*                                                                         *)
(* Bounds: MaxClicks, the clicks; Links, the links among them; MaxOutages, *)
(* the times that the gateway is out of reach, the page is hidden or the   *)
(* session ends.                                                           *)
(***************************************************************************)
EXTENDS Management, TLC, SequencesExt, Functions

CONSTANTS
    Links,          \* the links that are followed: a view and what it is about
    MaxClicks, MaxOutages

VARIABLE web

consoleVars == <<gw, web>>

-----------------------------------------------------------------------------
\* Views and what is shown in them.

ServerViews == {"server", "server-audit", "server-tools"}
PublicViews == {"login", "consent"}
BareViews == {"none", "login", "consent"}
SettingsViews == {"settings-general", "settings-access", "settings-admin-mcp"}
Views == {"overview", "servers", "server-new", "server-edit", "explore", "namespaces", "endpoints",
          "api-keys", "request-log", "security"} \cup ServerViews \cup SettingsViews \cup PublicViews

\* Items kept in the session store; the others belong to the view.
StoreItems == {"settings", "health"}

\* How an item is fetched: ":id" is the id the view is about.
Fetch ==
    [servers |-> <<"servers">>, server |-> <<"servers", ":id">>, catalog |-> <<"servers", ":id", "tools">>,
     report |-> <<"servers", ":id", "audit">>, form |-> <<"servers", ":id">>,
     namespaces |-> <<"namespaces">>, tools |-> <<"namespaces", ":id", "tools">>,
     instructions |-> <<"namespaces", ":id", "instructions">>,
     conflicts |-> <<"namespaces", ":id", "validate">>,
     endpoints |-> <<"endpoints">>, seen |-> <<"endpoints", ":id", "protocols">>,
     keys |-> <<"api-keys">>, clients |-> <<"oauth", "clients">>, consent |-> <<"oauth", "requests", "x">>,
     rows |-> <<"request-log">>, overview |-> <<"audit">>, self |-> <<"audit", "self">>,
     listing |-> <<"registry", "servers">>, detail |-> <<"registry", "server">>,
     docker |-> <<"docker">>, settings |-> <<"settings">>, health |-> <<"health">>,
     session |-> <<"session">>]

Items == DOMAIN Fetch \ {"session"}

-----------------------------------------------------------------------------
\* Stages.  "on" is what becomes of the script when a request of the stage fails: it stops;
\* it goes on ("next"), with what the others answered ("each") or nothing in the items
\* ("clear"); it goes on for one more stage ("once"); it stops and leaves a view whose row
\* is gone ("leave").  "go" is what follows the stage: where the router is sent, or "next"
\* (where the sign-in interrupted), "away" (another site), "signedOut", "assign" (the
\* change is made in the shown list as well), "poll" (an interval starts).

Req(item, m, p, body) == [item |-> item, m |-> m, p |-> p, body |-> body]
Stage(reqs, on, go) == [reqs |-> reqs, on |-> on, go |-> go]

Gets(items) == {Req(i, IF i = "conflicts" THEN "POST" ELSE "GET", Fetch[i], {}) : i \in items}
Show(items, on) == Stage(Gets(items), on, None)
Send(m, p, on) == Stage({Req(None, m, p, {})}, on, None)
SendBody(m, p, body, on) == Stage({Req(None, m, p, body)}, on, None)
SendAndPut(m, p, item, on) == Stage({Req(item, m, p, {})}, on, None)
ThenGo(stage, view) == [stage EXCEPT !.go = view]

\* The session store: refreshSession, refreshSettings, refreshHealth, login, setup, logout.
SessionScripts ==
    [boot |-> <<Show({"session"}, "next"), ThenGo(Show({"settings", "health"}, "each"), "next")>>,
     health |-> <<Show({"health"}, "clear")>>,
     settings |-> <<Show({"settings"}, "stop")>>]

\* LoginView submit; NavUser signOut.
SignScripts ==
    [signIn |-> <<Send("POST", <<"session", "login">>, "stop")>> \o SessionScripts.boot,
     setUp |-> <<Send("POST", <<"session", "setup">>, "stop")>> \o SessionScripts.boot,
     signOut |-> <<ThenGo(Send("POST", <<"session", "logout">>, "stop"), "signedOut"),
                   ThenGo(Show({"session"}, "next"), "login")>>]

ConsentScripts ==
    [askConsent |-> <<Show({"consent"}, "stop")>>,
     approve |-> <<ThenGo(Send("POST", <<"oauth", "requests", "x", "approve">>, "stop"), "away")>>,
     deny |-> <<ThenGo(Send("POST", <<"oauth", "requests", "x", "deny">>, "stop"), "away")>>]

\* OverviewView and ServersView.
OverviewScripts ==
    [overview |-> <<Show({"servers", "endpoints", "keys", "rows"}, "each")>>,
     overviewStart |-> <<Send("POST", <<"servers", ":id", "start">>, "stop"),
                         Show({"servers", "endpoints", "keys", "rows"}, "each")>>]

ServersScripts ==
    [servers |-> <<Show({"servers"}, "stop")>>,
     serversAct |-> <<Send("POST", <<"servers", ":id", "restart">>, "stop"), Show({"servers"}, "stop")>>]

\* ServerDetailView.
ServerLoad == Show({"server"}, "leave")
ServerPath == <<"servers", ":id">>

ServerScripts ==
    [server |-> <<ServerLoad>>,
     serverNamespaces |-> <<Show({"namespaces"}, "stop")>>,
     serverAct |-> <<SendAndPut("POST", ServerPath \o <<"stop">>, "server", "next"), ServerLoad>>,
     serverTest |-> <<Send("POST", ServerPath \o <<"test">>, "next"), ServerLoad>>,
     toggleEnabled |-> <<SendAndPut("PATCH", ServerPath, "server", "stop")>>,
     liftQuarantine |-> <<SendAndPut("DELETE", ServerPath \o <<"quarantine">>, "server", "stop")>>,
     removeServer |-> <<ThenGo(Send("DELETE", ServerPath, "stop"), "servers")>>]

\* Its tabs: ServerTools, ServerAuth, ServerAudit; "changed" reloads the server.
CatalogScripts == [catalog |-> <<Show({"catalog"}, "stop")>>]

AuthScripts ==
    [reauth |-> <<ThenGo(Send("POST", ServerPath \o <<"oauth", "start">>, "stop"), "away")>>,
     oauthRefresh |-> <<Send("POST", ServerPath \o <<"oauth", "refresh">>, "stop"), ServerLoad>>,
     oauthRevoke |-> <<Send("DELETE", ServerPath \o <<"oauth">>, "stop"), ServerLoad>>]

ReportScripts ==
    [report |-> <<Show({"report"}, "stop")>>,
     runAudit |-> <<SendAndPut("POST", ServerPath \o <<"audit", "run">>, "report", "stop"), ServerLoad>>,
     ignore |-> <<SendAndPut("PUT", ServerPath \o <<"audit", "ignores", "x">>, "report", "stop"), ServerLoad>>,
     unignore |-> <<Send("DELETE", ServerPath \o <<"audit", "ignores", "x">>, "stop"),
                    Show({"report"}, "next"), ServerLoad>>]

\* ServerFormView; DockerStatus.
FormScripts ==
    [form |-> <<Show({"form"}, "stop")>>,
     preview |-> <<Send("POST", <<"servers", "preview">>, "stop")>>,
     create |-> <<ThenGo(Send("POST", <<"servers">>, "stop"), "server")>>,
     edit |-> <<ThenGo(Send("PATCH", ServerPath, "stop"), "server")>>]

DockerScripts == [docker |-> <<Show({"docker"}, "clear")>>]

\* ExploreView: OfficialRegistry; install and ImportConfig fill in the form.
ExploreScripts ==
    [listing |-> <<Show({"listing"}, "clear")>>,
     inspect |-> <<Show({"detail"}, "stop")>>]

\* NamespacesView.
NamespacePath == <<"namespaces", ":id">>
NamespaceLoad == Show({"namespaces", "servers"}, "next")
ToolsLoad == <<Show({"tools"}, "stop"), NamespaceLoad, Show({"conflicts"}, "stop")>>

NamespaceScripts ==
    [namespaces |-> <<NamespaceLoad>> \o ToolsLoad,
     tools |-> ToolsLoad,
     createNamespace |-> <<Send("POST", <<"namespaces">>, "stop"), ThenGo(NamespaceLoad, "namespaces")>>,
     describe |-> <<Send("PATCH", NamespacePath, "stop"), NamespaceLoad>>,
     removeNamespace |-> <<Send("DELETE", NamespacePath, "stop"), ThenGo(NamespaceLoad, "namespaces")>>,
     addServer |-> <<SendBody("POST", NamespacePath \o <<"servers">>, {"members"}, "stop"),
                     NamespaceLoad>> \o ToolsLoad,
     updateMember |-> <<SendBody("POST", NamespacePath \o <<"servers">>, {"members"}, "once"),
                        NamespaceLoad>> \o ToolsLoad,
     memberText |-> <<SendBody("POST", NamespacePath \o <<"servers">>, {"texts"}, "stop"), NamespaceLoad>>,
     removeMember |-> <<Send("DELETE", NamespacePath \o <<"servers", Ids[1]>>, "stop"),
                        NamespaceLoad>> \o ToolsLoad,
     openPreview |-> <<Show({"instructions"}, "stop")>>,
     saveOverride |-> <<ThenGo(Send("PUT", NamespacePath \o <<"tools">>, "stop"), "assign")>>,
     revertOverride |-> <<Send("DELETE", NamespacePath \o <<"tools", "x", "x">>, "stop")>> \o ToolsLoad]

\* EndpointsView.
EndpointLoad == Show({"endpoints", "namespaces", "keys"}, "next")
SeenLoad == Show({"seen"}, "clear")

EndpointScripts ==
    [endpoints |-> <<EndpointLoad, SeenLoad>>,
     seen |-> <<SeenLoad>>,
     patchEndpoint |-> <<Send("PATCH", <<"endpoints", ":id">>, "next"), EndpointLoad>>,
     createEndpoint |-> <<Send("POST", <<"endpoints">>, "stop"), ThenGo(EndpointLoad, "endpoints")>>,
     removeEndpoint |-> <<Send("DELETE", <<"endpoints", ":id">>, "stop"), ThenGo(EndpointLoad, "endpoints")>>]

\* ApiKeysView and RequestLogView.
KeysLoad == Show({"keys", "endpoints"}, "stop")

\* Mutant: a key that was revoked stays in the list.
RevokesOnly ==
    [keys |-> <<KeysLoad>>,
     createKey |-> <<Send("POST", <<"api-keys">>, "stop"), KeysLoad>>,
     revokeKey |-> <<Send("DELETE", <<"api-keys", "x">>, "stop")>>]

KeyScripts ==
    [keys |-> <<KeysLoad>>,
     createKey |-> <<Send("POST", <<"api-keys">>, "stop"), KeysLoad>>,
     revokeKey |-> <<Send("DELETE", <<"api-keys", "x">>, "stop"), KeysLoad>>]

LogScripts ==
    [rows |-> <<Show({"rows"}, "stop")>>,
     logFilters |-> <<Show({"endpoints", "servers"}, "stop")>>]

\* SecurityView, AuditPolicyCard and the audit of the gateway itself.
SecurityScripts ==
    [security |-> <<Show({"settings"}, "next"), ThenGo(Show({"overview"}, "clear"), "poll")>>,
     audits |-> <<Show({"overview"}, "clear")>>,
     forgotten |-> <<Show({"overview"}, "clear")>>,
     runAll |-> <<Send("POST", <<"audit", "run">>, "stop"), Show({"overview"}, "clear")>>,
     self |-> <<Show({"self"}, "stop")>>,
     runSelf |-> <<SendAndPut("POST", <<"audit", "self", "run">>, "self", "stop"), Show({"overview"}, "clear")>>]

\* useSettingsDraft with the keys of each page.
Saved(body) == <<SendBody("PATCH", <<"settings">>, body, "stop"), Show({"settings"}, "stop")>>

SettingsScripts ==
    [saveGeneral |-> Saved({"options", "path"}),
     saveAccess |-> Saved({"options"}),
     saveAdminMcp |-> Saved({"switch"})]

PolicyScripts == [savePolicy |-> Saved({"policy"}) \o <<Show({"overview"}, "clear")>>]

\* SettingsAccessView.
ClientScripts ==
    [clients |-> <<Show({"clients"}, "clear")>>,
     revokeClient |-> <<Send("DELETE", <<"oauth", "clients", "x">>, "stop"), Show({"clients"}, "clear")>>]

Scripts ==
    SessionScripts @@ SignScripts @@ ConsentScripts @@ OverviewScripts @@ ServersScripts @@ ServerScripts
    @@ CatalogScripts @@ AuthScripts @@ ReportScripts @@ FormScripts @@ DockerScripts @@ ExploreScripts
    @@ NamespaceScripts @@ EndpointScripts @@ KeyScripts @@ LogScripts @@ SecurityScripts
    @@ SettingsScripts @@ PolicyScripts @@ ClientScripts

-----------------------------------------------------------------------------
\* What each view runs when it is opened, what it polls, what can be clicked in it.

Mounts(view) ==
    CASE view = "overview" -> {"overview"}
      [] view = "servers" -> {"servers"}
      [] view \in ServerViews -> {"server", "serverNamespaces", "settings"}
      [] view = "server-new" -> {"preview", "docker"}
      [] view = "server-edit" -> {"form", "docker"}
      [] view = "explore" -> {"listing"}
      [] view = "namespaces" -> {"namespaces"}
      [] view = "endpoints" -> {"endpoints"}
      [] view = "api-keys" -> {"keys"}
      [] view = "request-log" -> {"rows", "logFilters"}
      [] view = "security" -> {"security", "settings", "self"}
      [] view = "settings-access" -> {"settings", "clients"}
      [] view \in SettingsViews -> {"settings"}
      [] view = "consent" -> {"askConsent"}
      [] OTHER -> {}

Polls(view) ==
    CASE view \in {"overview", "servers"} -> {view}
      [] view \in ServerViews -> {"server"}
      [] view = "request-log" -> {"rows"}
      [] view = "security" -> {"audits"}
      [] OTHER -> {}

\* Above the tabs of the server page.
HeaderClicks == {"serverAct", "serverTest", "toggleEnabled", "liftQuarantine", "removeServer"}

Clicks(view) ==
    CASE view = "login" -> {"signIn", "setUp"}
      [] view = "consent" -> {"approve", "deny"}
      [] view = "overview" -> {"overviewStart", "reauth", "signOut"}
      [] view = "servers" -> {"serversAct", "reauth"}
      [] view = "server" -> HeaderClicks \cup {"oauthRefresh", "oauthRevoke", "reauth"}
      [] view = "server-audit" -> HeaderClicks \cup {"runAudit", "ignore", "unignore"}
      [] view = "server-tools" -> HeaderClicks \cup {"catalog"}
      [] view = "server-new" -> {"create", "preview"}
      [] view = "server-edit" -> {"edit", "preview"}
      [] view = "explore" -> {"listing", "inspect"}
      [] view = "namespaces" -> DOMAIN NamespaceScripts \ {"namespaces", "tools"}
      [] view = "endpoints" -> {"patchEndpoint", "createEndpoint", "removeEndpoint"}
      [] view = "api-keys" -> {"createKey", "revokeKey"}
      [] view = "request-log" -> {"rows"}
      [] view = "security" -> {"runAll", "runSelf", "savePolicy"}
      [] view = "settings-general" -> {"saveGeneral"}
      [] view = "settings-access" -> {"saveAccess", "revokeClient"}
      [] view = "settings-admin-mcp" -> {"saveAdminMcp"}
      [] OTHER -> {}

\* Polled scripts run on an interval that does not look at document.hidden in three places.
Unhidden == {"servers", "audits", "forgotten", "health"}

-----------------------------------------------------------------------------
\* The view's subject: the id of the route, in a list the row selected by it or the first.

RowsOf(w, item) == IF w.items[item] = None THEN {} ELSE w.items[item].rows
FirstOf(rows) ==
    IF rows = {} THEN None
    ELSE Ids[CHOOSE k \in 1..Len(Ids) : Ids[k] \in rows /\ \A j \in 1..(k - 1) : Ids[j] \notin rows]

Subject(w) ==
    IF w.view \in {"namespaces", "endpoints"}
    THEN IF w.id \in RowsOf(w, w.view) THEN w.id ELSE FirstOf(RowsOf(w, w.view))
    ELSE w.id

\* What a view watches and what it runs when that changes.
Watched(w) ==
    CASE w.view \in {"namespaces", "endpoints"} -> Subject(w)
      [] w.view \in {"server-audit", "server-tools"} /\ w.items.server # None -> w.id
      [] OTHER -> None
Watcher(view) ==
    CASE view = "namespaces" -> "tools"
      [] view = "endpoints" -> "seen"
      [] view = "server-audit" -> "report"
      [] view = "server-tools" -> "catalog"

-----------------------------------------------------------------------------
\* Calls of scripts.

StageOf(c) == Scripts[c.script][c.at]
PathFor(p, id) == [k \in DOMAIN p |-> IF p[k] = ":id" THEN id ELSE p[k]]
NeedsId(stage) == \E r \in stage.reqs : ":id" \in Range(r.p)
ItemsOf(stage) == {r.item : r \in stage.reqs} \ {None}

PolledItems(view) == UNION {ItemsOf(Scripts[s][1]) : s \in Polls(view)}

\* Calls a view makes by itself, time and again.
Polled == {"overview", "servers", "server", "rows", "audits", "forgotten", "health"}
Busy(w) == \E c \in w.calls : c.script \notin Polled

Cleared(w, items) == [w EXCEPT !.items = [i \in Items |-> IF i \in items THEN None ELSE @[i]]]

\* A stage begins: it is about the subject of that moment, and there is nothing to ask for
\* without one.
Enter(w, c) ==
    LET id == IF c.live /\ w.view \in {"namespaces", "endpoints"} THEN Subject(w) ELSE c.id
        stage == StageOf(c)
    IN IF NeedsId(stage) /\ id = None
       THEN IF c.live THEN Cleared(w, ItemsOf(stage)) ELSE w
       ELSE [w EXCEPT !.calls = @ \cup {[c EXCEPT !.id = id, !.got = [r \in stage.reqs |-> None]]}]

Run(w, script, id) ==
    LET used == {c.n : c \in {d \in w.calls : d.script = script}}
        n == CHOOSE k \in 1..(Cardinality(used) + 1) : k \notin used
    IN Enter(w, [script |-> script, n |-> n, at |-> 1, last |-> Len(Scripts[script]),
                 id |-> id, made |-> None, live |-> script # "forgotten", got |-> <<>>])

RunAll(w, scripts) == FoldSet(LAMBDA s, v : Run(v, s, v.id), w, scripts)

\* The watcher of the view runs, or shows nothing, when what it watches has changed.
Watch(old, w) ==
    IF w.view # old.view \/ Watched(w) = Watched(old) THEN w
    ELSE Run(w, Watcher(w.view), Watched(w))

-----------------------------------------------------------------------------
\* The router: its guard, and what leaving and entering a view does.

Shell(w) == w.auth /\ w.view \notin BareViews

\* The sidebar comes and goes with the shell, and the polling of the health with it.
WithShell(old, w) ==
    IF Shell(w) = Shell(old) THEN w
    ELSE IF Shell(w) THEN Run([w EXCEPT !.polling = TRUE], "health", None)
    ELSE [w EXCEPT !.polling = FALSE]

Mounted(w, view, id) ==
    LET left == [w EXCEPT !.view = view, !.id = id, !.ticking = FALSE,
                          !.items = [i \in Items |-> IF i \in StoreItems THEN @[i] ELSE None],
                          !.calls = {[c EXCEPT !.live = FALSE] : c \in @}]
    IN RunAll(WithShell(w, left), Mounts(view))

Place(view, id) == [view |-> view, id |-> id]
Barred(w, view) == ~w.auth /\ view \notin PublicViews

Arrive(w, view, id) ==
    LET to == IF Barred(w, view) THEN Place("login", None)
              ELSE IF w.auth /\ view = "login" THEN Place("overview", None)
              ELSE Place(view, id)
    IN IF w.view = to.view /\ w.id = to.id THEN w
       ELSE IF w.view = to.view /\ to.view \in {"namespaces", "endpoints"}
            THEN Watch(w, [w EXCEPT !.id = to.id])
       ELSE Mounted([w EXCEPT !.next = IF Barred(w, view) THEN Place(view, id) ELSE @], to.view, to.id)

\* Where a sign-in leads that interrupted nothing.
Home == Place("servers", None)

\* The page goes to another site and with it everything in flight.
Away(w) == [w EXCEPT !.view = "none", !.id = None, !.calls = {}, !.items = [i \in Items |-> None],
                     !.auth = FALSE, !.polling = FALSE, !.ticking = FALSE, !.leaked = FALSE]

SignedOut(w) == [w EXCEPT !.items = [@ EXCEPT !.settings = None, !.health = None], !.polling = FALSE]

\* setUnauthorizedHandler and forgetSession.
Unauthorized(w) ==
    IF ~w.auth THEN w
    ELSE LET forgot == [SignedOut(w) EXCEPT !.auth = FALSE] IN
         IF w.view \in PublicViews THEN forgot ELSE Arrive(forgot, w.view, w.id)

-----------------------------------------------------------------------------
\* What the answers of a stage do.

NoAnswer == [status |-> 0]
Failed(c) == {r \in DOMAIN c.got : c.got[r] # None /\ c.got[r].status # Ok}

\* What a view keeps of an answer: everything if it polls it, and what requests change
\* otherwise; the server page has only the memberships of its list of namespaces.
Kept(view, item) ==
    IF item \in PolledItems(view) \cup {"health"} THEN Cells
    ELSE IF view \in ServerViews /\ item = "namespaces" THEN {"namespaces", "members"}
    ELSE Config

Shown(w, item, reply) ==
    [ver |-> Restrict(reply.ver, DOMAIN reply.ver \cap Kept(w.view, item)),
     rows |-> reply.rows, auditing |-> reply.auditing]

PutOne(w, c, r) ==
    LET reply == c.got[r] IN
    IF r.item = None THEN w
    ELSE IF r.item = "session"
         THEN IF reply.status = Ok THEN [w EXCEPT !.auth = reply.session, !.needs = reply.setup]
              ELSE [w EXCEPT !.auth = FALSE, !.needs = FALSE]
    ELSE IF ~c.live /\ r.item \notin StoreItems THEN w
    ELSE IF reply.status = Ok THEN [w EXCEPT !.items[r.item] = Shown(w, r.item, reply)]
    ELSE IF r.item = "health" THEN [w EXCEPT !.items.health = None]
    ELSE w

PutAnswers(w, c) ==
    LET stage == StageOf(c) IN
    IF Failed(c) = {} \/ stage.on = "each" \/ ItemsOf(stage) = {"session"}
    THEN FoldSet(LAMBDA r, v : PutOne(v, c, r), w, stage.reqs)
    ELSE IF stage.on = "clear" /\ (c.live \/ ItemsOf(stage) \subseteq StoreItems)
         THEN Cleared(w, ItemsOf(stage))
    ELSE w

\* The id of a row that was created.
Made(c) ==
    LET posts == {r \in DOMAIN c.got : r.m = "POST" /\ Len(r.p) = 1 /\ Failed(c) = {}} IN
    IF posts = {} THEN c.made ELSE c.got[CHOOSE r \in posts : TRUE].made

Go(w, c, go) ==
    CASE go = None -> w
      [] go = "away" -> Away(w)
      [] go = "signedOut" -> SignedOut(w)
      [] go = "poll" -> [w EXCEPT !.ticking = c.live \/ @, !.leaked = ~c.live \/ @]
      [] go = "assign" ->
            IF c.live /\ w.items.tools # None THEN [w EXCEPT !.items.tools.ver.overrides = @ + 1] ELSE w
      [] OTHER ->
            LET to == IF go = "next" THEN w.next
                      ELSE Place(go, IF c.made # None THEN c.made ELSE IF go = "server" THEN c.id ELSE None)
            IN Arrive([w EXCEPT !.next = IF go = "next" THEN Home ELSE @], to.view, to.id)

\* The next stage begins, about what the view is about by then.
Proceed(old, w, c, ends) ==
    IF ends THEN w ELSE Enter(w, [c EXCEPT !.at = @ + 1, !.live = @ /\ w.view = old.view])

\* refreshSession has nothing more to ask without a session.
Continue(w, c) ==
    LET ends == c.at = c.last \/ (ItemsOf(StageOf(c)) = {"session"} /\ ~w.auth)
    IN Proceed(w, Go(w, c, Scripts[c.script][IF ends THEN c.last ELSE c.at].go), c, ends)

\* What follows the answers, unless a failure stops the script.
Follow(w, c) ==
    LET on == StageOf(c).on
        last == IF on = "once" /\ Failed(c) # {} THEN c.at + 1 ELSE c.last
    IN IF Failed(c) = {} \/ on \in {"next", "each", "clear", "once"}
       THEN Continue(w, [c EXCEPT !.made = Made(c), !.last = last])
       ELSE IF on = "leave" /\ \E r \in Failed(c) : c.got[r].status = 404 THEN Arrive(w, "servers", None)
       ELSE w

Rejected(w, c) ==
    IF \E r \in Failed(c) : c.got[r].status = 401 /\ r.p[1] # "session" THEN Unauthorized(w) ELSE w

Answered(w, c) == Rejected(Follow(Watch(w, PutAnswers(w, c)), c), c)
Settled(w, c) == Answered([w EXCEPT !.calls = @ \ {c}], c)

-----------------------------------------------------------------------------
\* Steps.

\* An empty page, its first route pending.
Page(next, clicks, outages) ==
    [view |-> "none", id |-> None, items |-> [i \in Items |-> None], next |-> next, auth |-> FALSE,
     needs |-> FALSE, polling |-> FALSE, ticking |-> FALSE, leaked |-> FALSE, calls |-> {}, up |-> TRUE,
     hidden |-> FALSE, clicks |-> clicks, outages |-> outages, raced |-> FALSE]

\* The page is opened with some address, with or without a session.
ConsoleInit ==
    \E view \in Views, clicks \in 0..MaxClicks, outages \in 0..MaxOutages :
        LET id == IF view \in ServerViews \cup {"server-edit"} THEN Ids[1] ELSE None IN
        web = Run(Page([view |-> view, id |-> id], clicks, outages), "boot", None)

\* The requests of a stage reach the gateway and are answered, or cannot be made.
\* Requests in parallel only read, and there is one answer to each.
OnlyRead(q) == (CHOOSE o \in Served(gw, q) : TRUE).reply

Asked(c, r) == Request(r.m, PathFor(r.p, c.id), r.body)

Handle(c) ==
    /\ \A r \in DOMAIN c.got : c.got[r] = None
    /\ IF ~web.up
       THEN /\ web' = [web EXCEPT !.calls = (@ \ {c}) \cup {[c EXCEPT !.got = [r \in DOMAIN @ |-> NoAnswer]]}]
            /\ UNCHANGED gw
       ELSE \E r \in DOMAIN c.got : \E o \in Served(gw, Asked(c, r)) :
              /\ gw' = o.gw
              /\ web' = [web EXCEPT !.calls = (@ \ {c}) \cup {[c EXCEPT !.got = [x \in DOMAIN @ |->
                            IF x = r THEN o.reply ELSE OnlyRead(Asked(c, x))]]}]

\* The script goes on with the answers.
Settle(c) ==
    /\ \A r \in DOMAIN c.got : c.got[r] # None
    /\ web' = [Settled(web, c) EXCEPT
                  !.raced = (web.raced \/ \E r \in Failed(c) : r.item # None /\ r.m = "GET")]
    /\ UNCHANGED gw

\* A button is there once what it belongs to is shown.
Offered(script) ==
    /\ script \in Clicks(web.view)
    /\ script = "signIn" => ~web.needs
    /\ script = "setUp" => web.needs
    /\ web.view \in ServerViews => web.items.server # None
    /\ script \in {"ignore", "unignore"} => web.items.report # None
    /\ script \in {"saveOverride", "revertOverride"} => web.items.tools # None
    /\ script = "revokeKey" => web.items.keys # None
    /\ script = "revokeClient" => web.items.clients # None

Click(script) ==
    /\ web.clicks < MaxClicks /\ ~web.hidden /\ ~Busy(web)
    /\ Offered(script)
    /\ \E id \in IF web.view \in {"overview", "servers"} THEN RowsOf(web, "servers") ELSE {Subject(web)} :
          web' = [Run(web, script, id) EXCEPT !.clicks = @ + 1]
    /\ UNCHANGED gw

\* A link of the sidebar or of a view, or the browser's history.
GoTo(view, id) ==
    /\ web.clicks < MaxClicks /\ ~web.hidden
    /\ web.view # "none" /\ ~Busy(web) /\ <<view, id>> # <<web.view, web.id>>
    /\ web' = [Arrive(web, view, id) EXCEPT !.clicks = @ + 1, !.raced = @ /\ web.view = view]
    /\ UNCHANGED gw

\* The intervals there are: a security view that was left while it still loaded sets one that
\* nobody clears, and whose answers nobody sees.
MayRepeat(w) ==
    Polls(w.view) \cup (IF w.polling THEN {"health"} ELSE {}) \cup (IF w.leaked THEN {"forgotten"} ELSE {})

\* An interval may fire.  The one of the security view looks at every tick while an audit
\* runs and at every sixth otherwise.
\* Mutant: the security view looks only while it knows of an audit that runs.
PollsWhileAuditing(script) ==
    /\ script \in MayRepeat(web)
    /\ script = "audits" => web.ticking /\ web.items.overview # None /\ web.items.overview.auditing
    /\ ~web.hidden \/ script \in Unhidden
    /\ \A c \in web.calls : c.script # script

MayPoll(script) ==
    /\ script \in MayRepeat(web)
    /\ script = "audits" => web.ticking
    /\ ~web.hidden \/ script \in Unhidden
    /\ \A c \in web.calls : c.script # script

Poll(script) ==
    /\ MayPoll(script)
    /\ web' = Run(web, script, web.id)
    /\ UNCHANGED gw

Outage ==
    /\ web.outages < MaxOutages
    /\ \/ web.up /\ web' = [web EXCEPT !.up = FALSE, !.outages = @ + 1] /\ UNCHANGED gw
       \/ ~web.hidden /\ web' = [web EXCEPT !.hidden = TRUE, !.outages = @ + 1] /\ UNCHANGED gw
       \/ gw.session /\ gw' = [gw EXCEPT !.session = FALSE] /\ web' = [web EXCEPT !.outages = @ + 1]

BackOnline == ~web.up /\ web' = [web EXCEPT !.up = TRUE] /\ UNCHANGED gw
Unhide == web.hidden /\ web' = [web EXCEPT !.hidden = FALSE] /\ UNCHANGED gw

Answer == \E c \in web.calls : Handle(c)
Settling == \E c \in web.calls : Settle(c)
Polling == \E script \in Polled : Poll(script)

Console ==
    \/ Answer \/ Settling \/ Polling \/ Outage \/ BackOnline \/ Unhide
    \/ \E script \in DOMAIN Scripts : Click(script)
    \/ \E link \in Links : GoTo(link[1], link[2])

-----------------------------------------------------------------------------
\* Properties.

Current(item) ==
    LET shown == web.items[item] IN
    /\ shown # None
    /\ \A cell \in DOMAIN shown.ver : shown.ver[cell] = gw.ver[cell]
    /\ item = "overview" => shown.auditing = gw.auditing

\* However the gateway was changed, by whom, and whatever failed on the way: a view that
\* polls shows the gateway as it is in the end, and so do the counts of the sidebar
\* (usePolling.ts 3-12, SecurityView 95-102, session.ts 42-58).
ViewsCatchUp ==
    <>[](web.auth =>
            /\ \A item \in PolledItems(web.view) : Current(item)
            /\ web.polling => Current("health"))

\* Not reloaded: the report in a server's tab when its quarantine is lifted on the page, and
\* the action in the report on the gateway itself when the policy beside it is saved.
LeftAlone(item, cell) ==
    \/ item = "report" /\ cell = "lifts"
    \/ item = "self" /\ cell = "policy"

\* An administrator who works alone sees the effect of what was done: when no call is
\* outstanding, and neither a change from elsewhere nor a failed answer has come in between,
\* everything the view has loaded and does not poll agrees with the gateway (the reloads
\* after each change in the views).
OwnChangesShow ==
    (web.auth /\ ~Busy(web) /\ ~web.raced) =>
        \A item \in Items \ (PolledItems(web.view) \cup {"health"}) :
            web.items[item] # None /\ (":id" \in Range(Fetch[item]) => Subject(web) # None) =>
                \A cell \in DOMAIN web.items[item].ver :
                    web.items[item].ver[cell] = gw.ver[cell] \/ LeftAlone(item, cell)
===============================================================================
