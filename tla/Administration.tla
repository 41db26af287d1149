----------------------------- MODULE Administration -----------------------------
(***************************************************************************)
(* Those who administer one gateway: an administrator at the console       *)
(* (module Console), an agent with the tools of the management server      *)
(* (module AdminMcp), and the gateway, which also changes by itself.       *)
(*                                                                         *)
(* None of them waits for another, and none is told what another did.      *)
(***************************************************************************)
EXTENDS AdminMcp, Console

administrationVars == <<gw, agent, web>>

\* The console's page is being opened, or nobody uses the console.
AdministrationInit ==
    /\ GatewayInit /\ AgentInit
    /\ ConsoleInit \/ web = Page(Home, MaxClicks, MaxOutages)

\* The console learns nothing of what an agent or the gateway does.
Outside(A) ==
    /\ A
    /\ web' = [web EXCEPT !.raced = @ \/ gw'.ver # gw.ver]

AdministrationNext ==
    \/ Outside(Agent)
    \/ Outside(Background) /\ UNCHANGED agent
    \/ Console /\ UNCHANGED agent

AdministrationSpec == AdministrationInit /\ [][AdministrationNext]_administrationVars

\* Weak fairness of answering, going on with and polling the scripts of a set, spelled out:
\* what enables these steps, and what they do to the calls.
Due(scripts) ==
    \/ \E c \in web.calls : c.script \in scripts
    \/ \E script \in scripts : MayPoll(script)
Moves(scripts) ==
    \E c \in (web.calls \ web'.calls) \cup (web'.calls \ web.calls) : c.script \in scripts

Fair(scripts) == []<>~Due(scripts) \/ []<><<Moves(scripts)>>_administrationVars

\* Requests are answered or fail and the browser's intervals fire; an outage passes and an
\* audit ends.
AdministrationFairness ==
    /\ Fair({"health"})
    /\ Fair(DOMAIN Scripts \ {"health", "forgotten"})
    /\ WF_administrationVars((BackOnline \/ Unhide \/ Outside(AuditEnds)) /\ UNCHANGED agent)
=================================================================================
