-------------------------------- MODULE MCAudit --------------------------------
(***************************************************************************)
(* Instances of Audit for TLC: one server with two configurations, one     *)
(* critical advisory, and settings that quarantine, disable or only report *)
(* it; or two servers that were audited and run, and one request.          *)
(***************************************************************************)
EXTENDS Audit

CONSTANTS s1, s2, self, c1, c2, v1, a1, a2, k1

TwoServers == {s1, s2}
TwoConfigs == {c1, c2}
CleanOrNot == {{}, {v1}}
OneConfig == {c1}
TwoAdmins == {a1, a2}
OneCaller == {k1}

\* Switch off; switch on; and another command, with which it loses its secrets and comes back on.
Body(enabled, cfg, secret) == [enabled |-> enabled, cfg |-> cfg, secret |-> secret]
SomePatches == {Body("off", Nobody, "keep"), Body("on", Nobody, "keep"), Body("on", c2, "none")}

Critical == [v \in Advisories |-> "critical"]

Map(critical) == [sev \in Severities |-> IF sev = "critical" THEN critical ELSE "report"]
AllMaps == {Map("report"), Map("quarantine"), Map("disable")}

\* The second server was deleted before, and the first is new, or is there and nothing was
\* found in it; or both are there, run without secrets and are known to be vulnerable.
MCInit ==
    /\ Init
    /\ \/ /\ rows[s2] = Nobody /\ s2 \notin fresh
          /\ IF rows[s1] = Nobody THEN s1 \in fresh
             ELSE /\ IF results[s1] = Nobody THEN rows[s1].enabled /\ ~rows[s1].secret
                     ELSE results[s1].status = "ok"
                  /\ rows[s1].cfg = c1 /\ (rows[s1].secret => rows[s1].enabled)
          /\ auditOn /\ actions # Map("report") /\ ops = 0
       \/ /\ \A s \in Servers : results[s] # Nobody /\ results[s].status = "vulnerable"
          /\ \A s \in Servers : rows[s].enabled /\ ~rows[s].secret
          /\ auditOn /\ ops = MaxOps - 1

MCSpec == MCInit /\ [][Next]_vars /\ Fairness
=============================================================================
