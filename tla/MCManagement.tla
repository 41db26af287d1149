----------------------------- MODULE MCManagement -----------------------------
(***************************************************************************)
(* Instances of Administration for TLC: two ids, of which the first is     *)
(* taken, and inputs of an agent that reach further down than an id.       *)
(* Either the administrator works or the agent does: each is followed      *)
(* through every call it may make while the gateway changes under it.      *)
(***************************************************************************)
EXTENDS Administration

MCIds == <<"a", "b">>
MCLinks == {<<"overview", None>>, <<"namespaces", "b">>}
MCInputs == {<<"a">>, <<"b">>, <<"a", "quarantine">>, <<"a", "audit", "ignores", "x">>}

\* A page is open, where an administrator is active or something fails; or an agent works.
\* (What fails on a server's page does so on its first tab: the other two add calls to it that
\* are made once.)
Init ==
    /\ AdministrationInit /\ gw.switch
    /\ \/ /\ agent.calls = 0 /\ web.calls # {}
          /\ web.clicks = MaxClicks \/ web.outages = MaxOutages
          /\ web.next.view \in {"server-tools", "server-audit"} => web.outages = MaxOutages
       \/ agent.calls = MaxCalls /\ web = Page(Home, MaxClicks, MaxOutages)

FairSpec == Init /\ [][AdministrationNext]_administrationVars /\ AdministrationFairness
===============================================================================
