------------------------------- MODULE AdminMcp -------------------------------
(***************************************************************************)
(* The management MCP server an agent talks to: admin/server.ts, call.ts   *)
(* and tools/*.ts, behind the route of server/admin.ts.  A tool turns its  *)
(* input into one request of the management API (module Management), which *)
(* it makes inside the process and so without a session; afterwards the    *)
(* call is written to the request log.                                     *)
(*                                                                         *)
(* The inputs an agent may send are sequences of path segments: an id is   *)
(* one segment, anything else that is put into a path may have more.       *)
(* Left out: the texts of answers, the bearer check (module Endpoint has   *)
(* its like).                                                              *)
(*                                                                         *)
(* Bound: MaxCalls, the calls of the agent.                                *)
(***************************************************************************)
EXTENDS Management, Functions

CONSTANTS
    Inputs,     \* what an agent may send where a tool asks for an id
    MaxCalls

ASSUME AdminMcpAssumption ==
    Inputs \subseteq Seq(STRING) /\ {<<Ids[k]>> : k \in 1..Len(Ids)} \subseteq Inputs /\ MaxCalls \in Nat

VARIABLE agent      \* the agent's call: where it is, the calls left

agentVars == <<gw, agent>>

-----------------------------------------------------------------------------
\* A tool: its method, its path with the inputs it is filled with, and the choices its
\* schema leaves for the body.
Tool(m, p, bodies) == [m |-> m, p |-> p, bodies |-> bodies]
Plain(m, p) == Tool(m, p, {{}})

ServerRowTools ==
    {Plain("GET", <<"servers">>), Plain("POST", <<"servers">>), Plain("POST", <<"servers", "preview">>)}
    \cup {Plain(m, <<"servers", ":id">>) : m \in {"GET", "PATCH", "DELETE"}}

ServerProcessTools ==
    {Plain("POST", <<"servers", ":id", do>>) : do \in {"start", "stop", "restart", "reset", "test"}}

ServerLookTools == {Plain("GET", <<"servers", ":id", what>>) : what \in {"tools", "logs"}}

ServerOauthTools ==
    {Plain("POST", <<"servers", ":id", "oauth", do>>) : do \in {"start", "refresh"}}
    \cup {Plain("DELETE", <<"servers", ":id", "oauth">>)}

NamespaceRowTools ==
    {Plain("GET", <<"namespaces">>), Plain("POST", <<"namespaces">>)}
    \cup {Plain(m, <<"namespaces", ":id">>) : m \in {"GET", "PATCH", "DELETE"}}
    \cup {Tool("POST", <<"namespaces", ":id", "servers">>, {{"members"}, {"members", "texts"}}),
          Plain("DELETE", <<"namespaces", ":id", "servers", ":ref">>)}

NamespaceToolTools ==
    {Plain("PUT", <<"namespaces", ":id", "tools">>),
     Plain("DELETE", <<"namespaces", ":id", "tools", ":ref", "x">>),
     Plain("POST", <<"namespaces", ":id", "validate">>)}
    \cup {Plain("GET", <<"namespaces", ":id", what>>) : what \in {"tools", "instructions"}}

EndpointTools ==
    {Plain("GET", <<"endpoints">>), Plain("POST", <<"endpoints">>),
     Plain("GET", <<"endpoints", ":id", "protocols">>)}
    \cup {Plain(m, <<"endpoints", ":id">>) : m \in {"GET", "PATCH", "DELETE"}}

\* install_registry_server reads the entry first and then creates the server.
Installs == Plain("GET", <<"registry", "server">>)
Creates == Request("POST", <<"servers">>, {})

RegistryTools == {Plain("GET", <<"registry", "servers">>), Plain("GET", <<"registry", "server">>)}

\* The settings an agent may name are AgentSettingsPatch's; the schema is strict.
AgentSettings == {"options"}

MiscTools ==
    {Plain("GET", <<what>>) : what \in {"health", "docker", "audit", "settings", "request-log", "api-keys"}}
    \cup {Plain("GET", <<"oauth", "clients">>), Plain("GET", <<"servers", ":id", "audit">>),
          Plain("POST", <<"servers", ":id", "audit", "run">>), Plain("POST", <<"audit", "run">>),
          Tool("PATCH", <<"settings">>, SUBSET Settings)}

Tools ==
    ServerRowTools \cup ServerProcessTools \cup ServerLookTools \cup ServerOauthTools
    \cup NamespaceRowTools \cup NamespaceToolTools \cup EndpointTools \cup RegistryTools \cup MiscTools

\* registerResources: the lists an agent reads outside of tools.
Listed == {<<what>> : what \in {"servers", "namespaces", "endpoints", "settings", "audit", "health"}}

-----------------------------------------------------------------------------
\* Mutant: any string will do.
IsAnyText(x) == TRUE

\* resourceId: an id has to be a UUID.
IsId(x) == Len(x) = 1 /\ x[1] \in Range(Ids)

Accepts(t, id, ref, body) ==
    /\ ":id" \in Range(t.p) => IsId(id)
    /\ ":ref" \in Range(t.p) => IsId(ref)
    /\ t.p = <<"settings">> => body \subseteq AgentSettings

\* The path as the router sees it: an input is put in as it is, with as many segments as it has.
Spliced(p, mark, input) ==
    IF mark \notin Range(p) THEN p
    ELSE LET k == CHOOSE j \in DOMAIN p : p[j] = mark IN
         SubSeq(p, 1, k - 1) \o input \o SubSeq(p, k + 1, Len(p))

Filled(p, id, ref) == Spliced(Spliced(p, ":ref", ref), ":id", id)

-----------------------------------------------------------------------------
AgentInit == \E calls \in 0..MaxCalls : agent = [at |-> "idle", calls |-> calls]

\* The management server has to be switched on when the request arrives; the bearer token
\* is checked after that, so the tool may run after it was switched off.
Admit ==
    /\ agent.at = "idle" /\ agent.calls > 0 /\ gw.switch
    /\ agent' = [at |-> "admitted", calls |-> agent.calls - 1]
    /\ UNCHANGED gw

\* A call whose input the schema refuses ends before it reaches the tool.
Refuse ==
    /\ agent.at = "admitted"
    /\ \E t \in Tools, id, ref \in Inputs : \E body \in t.bodies : ~Accepts(t, id, ref, body)
    /\ agent' = [agent EXCEPT !.at = "idle"]
    /\ UNCHANGED gw

ReadResource ==
    /\ agent.at = "admitted"
    /\ \E p \in Listed : Handled(gw, Request("GET", p, {})) # {}
    /\ agent' = [agent EXCEPT !.at = "idle"]
    /\ UNCHANGED gw

CallTool ==
    /\ agent.at = "admitted"
    /\ \E t \in Tools : \E id \in Inputs, ref \in IF ":ref" \in Range(t.p) THEN Inputs ELSE {<<Ids[1]>>} :
          \E body \in t.bodies :
             /\ Accepts(t, id, ref, body)
             /\ \E o \in Handled(gw, Request(t.m, Filled(t.p, id, ref), body)) : gw' = o.gw
    /\ agent' = [agent EXCEPT !.at = "recording"]

\* The entry is unknown, or the option is not one the gateway can install; or the server is
\* created once the entry was read.
ReadEntry ==
    /\ agent.at = "admitted"
    /\ \E o \in Handled(gw, Request(Installs.m, Installs.p, {})) : gw' = o.gw
    /\ \E at \in {"installing", "recording"} : agent' = [agent EXCEPT !.at = at]

Install ==
    /\ agent.at = "installing"
    /\ \E o \in Handled(gw, Creates) : gw' = o.gw
    /\ agent' = [agent EXCEPT !.at = "recording"]

\* recordRequest, whether the tool failed or not.
Record ==
    /\ agent.at = "recording"
    /\ gw' = [gw EXCEPT !.ver.log = @ + 1]
    /\ agent' = [agent EXCEPT !.at = "idle"]

Agent == Admit \/ Refuse \/ ReadResource \/ CallTool \/ ReadEntry \/ Install \/ Record

-----------------------------------------------------------------------------
\* What an agent may not touch is reserved for a human: API keys, OAuth clients, the switch
\* of the management server, what the audit does, the PATH of children, ignored advisories
\* and lifted quarantines.
Reserved == {"keys", "clients", "switch", "policy", "path", "ignores", "lifts"}

\* Rows take with them what belongs to them: a server its ignored advisories, an endpoint
\* its keys.
GoneWith(cell) ==
    \/ cell = "ignores" /\ gw'.rows.servers # gw.rows.servers
    \/ cell = "keys" /\ gw'.rows.endpoints # gw.rows.endpoints

\* No tool call changes what is reserved for a human, whatever an agent sends for an id
\* (kit.ts 25-27, AgentSettingsPatch, the instructions of server.ts 23-30).
ReservedForHumans ==
    [][agent' # agent =>
          \A cell \in Reserved : gw'.ver[cell] = gw.ver[cell] \/ GoneWith(cell)]_agentVars
===============================================================================
