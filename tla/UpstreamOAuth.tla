----------------------------- MODULE UpstreamOAuth -----------------------------
(***************************************************************************)
(* The gateway as an OAuth client of one upstream server                   *)
(* (apps/gateway/src/auth/upstream, upstream/http.ts): the stored tokens,  *)
(* the login flow that obtains them, the refresher that renews them before *)
(* they expire or after a 401, and the authorization server that rotates   *)
(* refresh tokens and may answer late, never, or with a refusal.           *)
(*                                                                         *)
(* Each action is the code between two awaits.  TokenStore.read captures   *)
(* the row at once and answers after it has decrypted it, so a reader is a *)
(* call that holds a snapshot.  saveTokens encrypts first and then writes  *)
(* one transaction, so a writer is a call that holds what it will write.   *)
(*                                                                         *)
(* A login is numbered by its authorization request; the number also names *)
(* the client registered for it, if one was, and the grant it yields.  The *)
(* token sets of a grant are numbered in the order they were issued.       *)
(***************************************************************************)
EXTENDS Naturals, FiniteSets

CONSTANTS
    Requests,     \* concurrent requests to the upstream server
    Sweeps,       \* the refresh scheduler, at most one sweep at a time
    Admins,       \* administrators that force a refresh
    Starters,     \* administrators that start a login
    Callbacks,    \* deliveries of an authorization callback
    Nobody,       \* no refresh in flight
    MayClear,     \* whether an administrator may disconnect the server
    MayCrash,     \* whether the gateway may be killed and restarted
    MaxLogins,    \* bound: logins started in a behaviour
    MaxIssues     \* bound: token sets issued for one grant

ASSUME OAuthAssumption ==
    /\ MaxLogins \in Nat
    /\ MaxIssues \in Nat \ {0}
    /\ MayClear \in BOOLEAN
    /\ MayCrash \in BOOLEAN
    /\ Nobody \notin Requests \cup Sweeps \cup Admins
    /\ (Requests \cup Sweeps \cup Admins) \cap (Starters \cup Callbacks) = {}
    /\ Requests \cap (Sweeps \cup Admins) = {}
    /\ Sweeps \cap Admins = {}
    /\ Starters \cap Callbacks = {}

VARIABLES
    row,        \* the upstream_oauth row of the server
    pending,    \* logins whose oauth_states row has not been used
    inFlight,   \* the caller whose refresh the inFlight map holds
    flight,     \* caller -> the performRefresh it began
    task,       \* the suspended calls
    granted,    \* login -> what the authorization server knows of it
    aging,      \* access tokens inside their refresh window
    stored,     \* history: token sets ever written to the row
    presented   \* history: logins whose authorization code has been sent

memory == <<inFlight, flight, task>>
server == <<granted, aging>>
history == <<stored, presented>>
vars == <<row, pending, memory, server, history>>

Logins == 1..MaxLogins
Issues == 0..MaxIssues
Refreshing == Requests \cup Sweeps \cup Admins
Tasks == Refreshing \cup Starters \cup Callbacks

Refresh(tokens) == <<tokens.grant, tokens.ref>>

NoTokens == [grant |-> 0, acc |-> 0, ref |-> 0]
TokenSets == [grant : Logins, acc : 1..MaxIssues, ref : Issues]
MaybeTokens == TokenSets \cup {NoTokens}
Statuses == {"ok", "expiring", "needs_reauth", "no_refresh"}
NoRow == [there |-> FALSE, client |-> 0, tokens |-> NoTokens, status |-> "needs_reauth"]
NoFlight == [at |-> "none", row |-> NoRow, got |-> NoTokens]
NoTask == [at |-> "none", try |-> 0, on |-> Nobody, tokens |-> NoTokens, bad |-> NoTokens,
           status |-> "ok", client |-> 0, login |-> 0]

Rows == [there : BOOLEAN, client : 0..MaxLogins, tokens : MaybeTokens, status : Statuses]
Flights == [at : {"none", "read", "sent", "granted", "refused", "failed"},
            row : Rows, got : MaybeTokens]
Calls == [at : {"none", "read", "refresh", "reread", "send", "read401", "refresh401",
                "start", "code", "exchange", "granted"},
          try : 0..2, on : Refreshing \cup {Nobody}, tokens : MaybeTokens, bad : MaybeTokens,
          status : Statuses, client : 0..MaxLogins, login : 0..MaxLogins]
Grants == [client : 0..MaxLogins, issued : Issues, ref : Issues]

TypeOK ==
    /\ row \in Rows
    /\ pending \subseteq Logins
    /\ inFlight \in Refreshing \cup {Nobody}
    /\ flight \in [Refreshing -> Flights]
    /\ task \in [Tasks -> Calls]
    /\ granted \in [Logins -> Grants]
    /\ aging \subseteq stored
    /\ stored \subseteq TokenSets
    /\ presented \subseteq Logins

Init ==
    /\ row = NoRow
    /\ pending = {}
    /\ inFlight = Nobody
    /\ flight = [t \in Refreshing |-> NoFlight]
    /\ task = [t \in Tasks |-> NoTask]
    /\ granted = [i \in Logins |-> [client |-> 0, issued |-> 0, ref |-> 0]]
    /\ aging = {}
    /\ stored = {}
    /\ presented = {}

-----------------------------------------------------------------------------
(* TokenStore: what its writers make of a row.                             *)

WithStatus(r, status) == [r EXCEPT !.there = TRUE, !.status = status]

WithTokens(r, tokens) ==
    [r EXCEPT !.there = TRUE, !.tokens = tokens,
              !.status = IF tokens.ref # 0 THEN "ok" ELSE "no_refresh"]

WithClient(r, client) == [r EXCEPT !.there = TRUE, !.client = client]

NeedsRefresh(tokens) == tokens \in aging

-----------------------------------------------------------------------------
(* UpstreamRefresher.refresh: joins the refresh in flight or begins one,   *)
(* which captures the row.  The caller then waits at `at`.                 *)

JoinRefresh(t, at) ==
    /\ inFlight' = IF inFlight = Nobody THEN t ELSE inFlight
    /\ flight' = IF inFlight = Nobody
                 THEN [flight EXCEPT ![t] = [at |-> "read", row |-> row, got |-> NoTokens]]
                 ELSE flight
    /\ task' = [task EXCEPT ![t].at = at, ![t].on = inFlight']

(* The promise of t's refresh settles: t leaves the inFlight map and those *)
(* that waited resume at once.  After a success ensureFresh and the retry  *)
(* read the row again; after a failure a request goes on with the token it *)
(* has, and one that came from a 401 gives up and marks the server.        *)

Waits(u, t) == task[u].at \in {"refresh", "refresh401"} /\ task[u].on = t

\* Mutant: the retry sends the token the 401 handler had read.
ResumedStale(u, success, newRow) ==
    CASE u \notin Requests -> NoTask
      [] u \in Requests /\ success -> [task[u] EXCEPT !.at = "reread", !.try = 2, !.on = Nobody]
      [] u \in Requests /\ ~success /\ task[u].at = "refresh" ->
            [task[u] EXCEPT !.at = "send", !.on = Nobody]
      [] OTHER -> NoTask

Resumed(u, success, newRow) ==
    CASE u \notin Requests -> NoTask
      [] u \in Requests /\ success ->
            [task[u] EXCEPT !.at = IF task[u].at = "refresh" THEN "reread" ELSE "read",
                            !.try = IF task[u].at = "refresh" THEN task[u].try ELSE 2,
                            !.on = Nobody, !.tokens = newRow.tokens]
      [] u \in Requests /\ ~success /\ task[u].at = "refresh" ->
            [task[u] EXCEPT !.at = "send", !.on = Nobody]
      [] OTHER -> NoTask

Unauthorised(t) == \E u \in Requests : Waits(u, t) /\ task[u].at = "refresh401"

Settle(t, success, newRow) ==
    /\ inFlight' = Nobody
    /\ flight' = [flight EXCEPT ![t] = NoFlight]
    /\ task' = [u \in Tasks |-> IF Waits(u, t) THEN Resumed(u, success, newRow) ELSE task[u]]
    /\ row' = IF ~success /\ Unauthorised(t) THEN WithStatus(newRow, "needs_reauth") ELSE newRow

-----------------------------------------------------------------------------
(* UpstreamRefresher.performRefresh                                        *)

NoRefreshToken(t) ==
    /\ flight[t].at = "read"
    /\ flight[t].row.tokens.ref = 0
    /\ Settle(t, FALSE,
              IF ~flight[t].row.there THEN row
              ELSE WithStatus(row, IF flight[t].row.tokens = NoTokens
                                   THEN "needs_reauth" ELSE "no_refresh"))
    /\ UNCHANGED <<pending, server, history>>

NotRegistered(t) ==
    /\ flight[t].at = "read"
    /\ flight[t].row.tokens.ref # 0
    /\ flight[t].row.client = 0
    /\ Settle(t, FALSE, WithStatus(row, "needs_reauth"))
    /\ UNCHANGED <<pending, server, history>>

\* Mutant: the inFlight entry is deleted when the request is sent.
PresentForgets(t) ==
    /\ flight[t].at = "read"
    /\ flight[t].row.tokens.ref # 0
    /\ flight[t].row.client # 0
    /\ inFlight' = Nobody
    /\ flight' = [flight EXCEPT ![t].at = "sent"]
    /\ UNCHANGED <<row, pending, task, server, history>>

PresentRefreshToken(t) ==
    /\ flight[t].at = "read"
    /\ flight[t].row.tokens.ref # 0
    /\ flight[t].row.client # 0
    /\ flight' = [flight EXCEPT ![t].at = "sent"]
    /\ UNCHANGED <<row, pending, inFlight, task, server, history>>

\* Mutant: a network error is not caught.
RefreshFailedUncaught(t) ==
    /\ flight[t].at = "refused"
    /\ Settle(t, FALSE, WithStatus(row, "needs_reauth"))
    /\ UNCHANGED <<pending, server, history>>

RefreshFailed(t) ==
    /\ flight[t].at \in {"refused", "failed"}
    /\ Settle(t, FALSE,
              WithStatus(row, IF flight[t].at = "refused" THEN "needs_reauth" ELSE "expiring"))
    /\ UNCHANGED <<pending, server, history>>

RefreshSaved(t) ==
    /\ flight[t].at = "granted"
    /\ Settle(t, TRUE, WithTokens(row, flight[t].got))
    /\ stored' = stored \cup {flight[t].got}
    /\ UNCHANGED <<pending, server, presented>>

-----------------------------------------------------------------------------
(* The authorization server.  It redeems a grant's current refresh token   *)
(* for a new token set, with or without a new refresh token, and refuses   *)
(* any other.  Its answer, or the request itself, may be lost; the         *)
(* refresher's fetch times out.                                            *)

Redeemable(t) ==
    LET r == flight[t].row IN
    /\ r.tokens.grant # 0
    /\ granted[r.tokens.grant].ref = r.tokens.ref
    /\ granted[r.tokens.grant].client = r.client

Redeem(t) ==
    /\ flight[t].at = "sent"
    /\ Redeemable(t)
    /\ LET g == flight[t].row.tokens.grant
           n == granted[g].issued + 1
       IN /\ n \in Issues
          /\ \E ref \in {n, flight[t].row.tokens.ref}, answer \in {"granted", "failed"} :
                /\ granted' = [granted EXCEPT ![g].issued = n, ![g].ref = ref]
                /\ flight' = [flight EXCEPT
                                 ![t].at = answer,
                                 ![t].got = IF answer = "failed" THEN NoTokens
                                            ELSE [grant |-> g, acc |-> n, ref |-> ref]]
    /\ UNCHANGED <<row, pending, inFlight, task, aging, history>>

Refuse(t) ==
    /\ flight[t].at = "sent"
    /\ ~Redeemable(t)
    /\ flight' = [flight EXCEPT ![t].at = "refused"]
    /\ UNCHANGED <<row, pending, inFlight, task, server, history>>

Unreachable(t) ==
    /\ flight[t].at = "sent"
    /\ flight' = [flight EXCEPT ![t].at = "failed"]
    /\ UNCHANGED <<row, pending, inFlight, task, server, history>>

RevokeGrant(g) ==
    /\ granted[g].ref # 0
    /\ granted' = [granted EXCEPT ![g].ref = 0]
    /\ UNCHANGED <<row, pending, memory, aging, history>>

Age(tokens) ==
    /\ aging' = aging \cup {tokens}
    /\ UNCHANGED <<row, pending, memory, granted, history>>

-----------------------------------------------------------------------------
(* A request to the upstream: authorizedFetch around authHeaders and       *)
(* handleUnauthorized.                                                     *)

BeginRequest(t) ==
    /\ task[t].at = "none"
    /\ task' = [task EXCEPT ![t] = [NoTask EXCEPT !.at = "read", !.try = 1, !.tokens = row.tokens]]
    /\ UNCHANGED <<row, pending, inFlight, flight, server, history>>

SendFresh(t) ==
    /\ task[t].at = "read"
    /\ ~NeedsRefresh(task[t].tokens)
    /\ task' = [task EXCEPT ![t].at = "send"]
    /\ UNCHANGED <<row, pending, inFlight, flight, server, history>>

SendUnrefreshable(t) ==
    /\ task[t].at = "read"
    /\ NeedsRefresh(task[t].tokens)
    /\ task[t].tokens.ref = 0
    /\ row' = WithStatus(row, "no_refresh")
    /\ task' = [task EXCEPT ![t].at = "send"]
    /\ UNCHANGED <<pending, inFlight, flight, server, history>>

RefreshFirst(t) ==
    /\ task[t].at = "read"
    /\ NeedsRefresh(task[t].tokens)
    /\ task[t].tokens.ref # 0
    /\ JoinRefresh(t, "refresh")
    /\ UNCHANGED <<row, pending, server, history>>

SendRefreshed(t) ==
    /\ task[t].at = "reread"
    /\ task' = [task EXCEPT ![t].at = "send"]
    /\ UNCHANGED <<row, pending, inFlight, flight, server, history>>

(* Any answer but a 401, a network error included. *)
Answered(t) ==
    /\ task[t].at = "send"
    /\ task' = [task EXCEPT ![t] = NoTask]
    /\ UNCHANGED <<row, pending, inFlight, flight, server, history>>

(* The upstream may reject any token, one it accepted a moment ago too. *)
First401(t) ==
    /\ task[t].at = "send"
    /\ task[t].try = 1
    /\ task' = [task EXCEPT ![t].at = "read401", ![t].bad = task[t].tokens, ![t].tokens = row.tokens]
    /\ UNCHANGED <<row, pending, inFlight, flight, server, history>>

Second401(t) ==
    /\ task[t].at = "send"
    /\ task[t].try = 2
    /\ row' = WithStatus(row, "needs_reauth")
    /\ task' = [task EXCEPT ![t] = NoTask]
    /\ UNCHANGED <<pending, inFlight, flight, server, history>>

GiveUp(t) ==
    /\ task[t].at = "read401"
    /\ task[t].tokens.ref = 0
    /\ row' = WithStatus(row, "needs_reauth")
    /\ task' = [task EXCEPT ![t] = NoTask]
    /\ UNCHANGED <<pending, inFlight, flight, server, history>>

RefreshAfter401(t) ==
    /\ task[t].at = "read401"
    /\ task[t].tokens.ref # 0
    /\ JoinRefresh(t, "refresh401")
    /\ UNCHANGED <<row, pending, server, history>>

-----------------------------------------------------------------------------
(* UpstreamRefresher.sweep, and the refresh an administrator asks for.     *)

\* Mutant: the scheduler only retries failed refreshes.
BeginSweepRetriesOnly(t) ==
    /\ \A u \in Sweeps : task[u].at = "none"
    /\ row.tokens # NoTokens
    /\ row.status = "expiring"
    /\ task' = [task EXCEPT ![t] = [NoTask EXCEPT !.at = "read", !.tokens = row.tokens,
                                                  !.status = row.status]]
    /\ UNCHANGED <<row, pending, inFlight, flight, server, history>>

BeginSweep(t) ==
    /\ \A u \in Sweeps : task[u].at = "none"
    /\ row.tokens # NoTokens
    /\ row.status # "needs_reauth"
    /\ task' = [task EXCEPT ![t] = [NoTask EXCEPT !.at = "read", !.tokens = row.tokens,
                                                  !.status = row.status]]
    /\ UNCHANGED <<row, pending, inFlight, flight, server, history>>

SweepUnrefreshable(t) ==
    /\ task[t].at = "read"
    /\ task[t].tokens.ref = 0
    /\ row' = IF task[t].status = "no_refresh" THEN row ELSE WithStatus(row, "no_refresh")
    /\ task' = [task EXCEPT ![t] = NoTask]
    /\ UNCHANGED <<pending, inFlight, flight, server, history>>

SweepNotDue(t) ==
    /\ task[t].at = "read"
    /\ task[t].tokens.ref # 0
    /\ ~NeedsRefresh(task[t].tokens)
    /\ task' = [task EXCEPT ![t] = NoTask]
    /\ UNCHANGED <<row, pending, inFlight, flight, server, history>>

SweepRefresh(t) ==
    /\ task[t].at = "read"
    /\ task[t].tokens.ref # 0
    /\ NeedsRefresh(task[t].tokens)
    /\ JoinRefresh(t, "refresh")
    /\ UNCHANGED <<row, pending, server, history>>

ForceRefresh(t) ==
    /\ task[t].at = "none"
    /\ JoinRefresh(t, "refresh")
    /\ UNCHANGED <<row, pending, server, history>>

-----------------------------------------------------------------------------
(* UpstreamOauthFlow.  start reuses the client its read found and          *)
(* registers one otherwise; the two writes at its end are one step here,   *)
(* since nothing reads what only the first of them has written.            *)

BeginStart(t) ==
    /\ task[t].at = "none"
    /\ task' = [task EXCEPT ![t] = [NoTask EXCEPT !.at = "start", !.client = row.client]]
    /\ UNCHANGED <<row, pending, inFlight, flight, server, history>>

NextLogin(i) ==
    /\ granted[i].client = 0
    /\ \A j \in Logins : j < i => granted[j].client # 0

SaveDiscovery(t) ==
    /\ task[t].at = "start"
    /\ \E i \in Logins :
          /\ NextLogin(i)
          /\ LET client == IF task[t].client = 0 THEN i ELSE task[t].client
             IN /\ row' = WithClient(row, client)
                /\ granted' = [granted EXCEPT ![i].client = client]
          /\ pending' = pending \cup {i}
    /\ task' = [task EXCEPT ![t] = NoTask]
    /\ UNCHANGED <<inFlight, flight, aging, history>>

(* Discovery or the registration fails, and nothing is written. *)
StartFails(t) ==
    /\ task[t].at = "start"
    /\ task' = [task EXCEPT ![t] = NoTask]
    /\ UNCHANGED <<row, pending, inFlight, flight, server, history>>

(* pruneStates, or a callback that finds its state too old. *)
Expire(i) ==
    /\ i \in pending
    /\ pending' = pending \ {i}
    /\ UNCHANGED <<row, memory, server, history>>

\* Mutant: the oauth_states row is not deleted by the first callback.
BeginCompleteKeepsState(t, i) ==
    /\ task[t].at = "none"
    /\ i \in pending
    /\ pending' = pending
    /\ task' = [task EXCEPT ![t] = [NoTask EXCEPT !.at = "code", !.login = i, !.client = row.client]]
    /\ UNCHANGED <<row, inFlight, flight, server, history>>

BeginComplete(t, i) ==
    /\ task[t].at = "none"
    /\ i \in pending
    /\ pending' = pending \ {i}
    /\ task' = [task EXCEPT ![t] = [NoTask EXCEPT !.at = "code", !.login = i, !.client = row.client]]
    /\ UNCHANGED <<row, inFlight, flight, server, history>>

CompleteUnregistered(t) ==
    /\ task[t].at = "code"
    /\ task[t].client = 0
    /\ task' = [task EXCEPT ![t] = NoTask]
    /\ UNCHANGED <<row, pending, inFlight, flight, server, history>>

PresentCode(t) ==
    /\ task[t].at = "code"
    /\ task[t].client # 0
    /\ task' = [task EXCEPT ![t].at = "exchange"]
    /\ presented' = presented \cup {task[t].login}
    /\ UNCHANGED <<row, pending, inFlight, flight, server, stored>>

(* The authorization server redeems the code for the client it was issued  *)
(* to, with or without a refresh token.                                    *)
ExchangeGranted(t) ==
    /\ task[t].at = "exchange"
    /\ LET i == task[t].login IN
          /\ task[t].client = granted[i].client
          /\ granted[i].issued = 0
          /\ \E ref \in {0, 1} :
                /\ granted' = [granted EXCEPT ![i].issued = 1, ![i].ref = ref]
                /\ task' = [task EXCEPT ![t].at = "granted",
                                        ![t].tokens = [grant |-> i, acc |-> 1, ref |-> ref]]
    /\ UNCHANGED <<row, pending, inFlight, flight, aging, history>>

(* It refuses the code, or its answer is lost. *)
ExchangeFails(t) ==
    /\ task[t].at = "exchange"
    /\ task' = [task EXCEPT ![t] = NoTask]
    /\ UNCHANGED <<row, pending, inFlight, flight, server, history>>

\* Mutant: the callback stores its tokens more than once.
LoginSavedAgain(t) ==
    /\ task[t].at = "granted"
    /\ row' = WithTokens(row, task[t].tokens)
    /\ stored' = stored \cup {task[t].tokens}
    /\ UNCHANGED <<pending, inFlight, flight, task, server, presented>>

LoginSaved(t) ==
    /\ task[t].at = "granted"
    /\ row' = WithTokens(row, task[t].tokens)
    /\ stored' = stored \cup {task[t].tokens}
    /\ task' = [task EXCEPT ![t] = NoTask]
    /\ UNCHANGED <<pending, inFlight, flight, server, presented>>

-----------------------------------------------------------------------------
(* The administrator disconnects the server: TokenStore.clear.  The states *)
(* of logins under way are kept.                                           *)
Clear ==
    /\ MayClear
    /\ row.there
    /\ row' = NoRow
    /\ UNCHANGED <<pending, memory, server, history>>

(* The gateway is killed and started again: the database is all it keeps. *)
Crash ==
    /\ MayCrash
    /\ inFlight' = Nobody
    /\ flight' = [t \in Refreshing |-> NoFlight]
    /\ task' = [t \in Tasks |-> NoTask]
    /\ UNCHANGED <<row, pending, server, history>>

-----------------------------------------------------------------------------
RefresherStep(t) ==
    \/ NoRefreshToken(t) \/ NotRegistered(t) \/ PresentRefreshToken(t)
    \/ RefreshFailed(t) \/ RefreshSaved(t)

RequestStep(t) ==
    \/ SendFresh(t) \/ SendUnrefreshable(t) \/ RefreshFirst(t) \/ SendRefreshed(t)
    \/ GiveUp(t) \/ RefreshAfter401(t)

SweepStep(t) == SweepUnrefreshable(t) \/ SweepNotDue(t) \/ SweepRefresh(t)

UpstreamAnswer(t) == Answered(t) \/ First401(t) \/ Second401(t)

ServerAnswer(t) == Redeem(t) \/ Refuse(t) \/ Unreachable(t)

LoginStep(t) ==
    \/ CompleteUnregistered(t) \/ PresentCode(t) \/ ExchangeGranted(t)
    \/ ExchangeFails(t) \/ LoginSaved(t)

Next ==
    \/ \E t \in Refreshing : RefresherStep(t) \/ ServerAnswer(t)
    \/ \E t \in Requests : BeginRequest(t) \/ RequestStep(t) \/ UpstreamAnswer(t)
    \/ \E t \in Sweeps : BeginSweep(t) \/ SweepStep(t)
    \/ \E t \in Admins : ForceRefresh(t)
    \/ \E t \in Starters : BeginStart(t) \/ SaveDiscovery(t) \/ StartFails(t)
    \/ \E t \in Callbacks : LoginStep(t) \/ \E i \in Logins : BeginComplete(t, i)
    \/ \E i \in Logins : Expire(i) \/ RevokeGrant(i)
    \/ \E tokens \in stored : Age(tokens)
    \/ Clear
    \/ Crash

Spec == Init /\ [][Next]_vars

(* The event loop resumes what can go on, fetches are bounded (refreshes   *)
(* by their own timeout, upstream requests by the protocol client's), and  *)
(* the scheduler's interval keeps firing.                                  *)
Fairness ==
    /\ \A t \in Refreshing : WF_vars(RefresherStep(t)) /\ WF_vars(ServerAnswer(t))
    /\ \A t \in Requests : WF_vars(RequestStep(t)) /\ WF_vars(UpstreamAnswer(t))
    /\ \A t \in Sweeps : WF_vars(SweepStep(t)) /\ WF_vars(BeginSweep(t))

FairSpec == Spec /\ Fairness

-----------------------------------------------------------------------------
(* Properties                                                              *)

(* "Single flight": of all the callers that may want one, at most one is   *)
(* refreshing, whatever the crypto awaits and the map's deletions allow.   *)
OneRefreshAtATime ==
    \A t, u \in Refreshing : flight[t].at # "none" /\ flight[u].at # "none" => t = u

(* A refresh token whose rotated successor has been stored is not sent to  *)
(* the authorization server again, which may take it for a replay.         *)
TradedInIsNeverPresented ==
    \A t \in Refreshing : flight[t].at = "sent" =>
        \A s \in stored : s.grant = flight[t].row.tokens.grant => s.ref <= flight[t].row.tokens.ref

(* The retry after a refreshed 401 carries another token than the one that *)
(* was rejected: it is not the same request sent twice.                    *)
RetryPresentsAnotherToken ==
    \A t \in Requests : task[t].at = "send" /\ task[t].try = 2 => task[t].tokens # task[t].bad

(* The code of a login is sent once, although its callback may be          *)
(* delivered again while the first delivery is decrypting the row.         *)
CodeIsPresentedOnce ==
    \A t \in Callbacks : task[t].at = "code" =>
        /\ task[t].login \notin presented
        /\ \A u \in Callbacks \ {t} : task[u].at = "code" => task[u].login # task[t].login

(* Every token set that is stored is newer than those of its grant that    *)
(* were stored before.                                                     *)
Ledger == INSTANCE TokenLedger WITH cell <- row.tokens, ledger <- stored
StoredOnceInOrder == Ledger!Spec

(* A request comes to an end, whatever it waits for on the way.            *)
RequestsEnd == \A t \in Requests : task[t].at # "none" ~> task[t].at = "none"

(* A token that is about to expire does not stay "ok": the scheduler       *)
(* refreshes it or says that it could not, unless the gateway is killed    *)
(* again and again.                                                        *)
Unnoticed == row.tokens.ref # 0 /\ NeedsRefresh(row.tokens) /\ row.status = "ok"
ExpiringIsNoticed == []<><<Crash>>_vars \/ (Unnoticed ~> ~Unnoticed)

(* What the disconnect tool says: once the tokens are deleted only a login *)
(* brings new ones.  Nor does a refresh replace the tokens of a login that *)
(* has completed meanwhile: a grant enters the row with its first set.     *)
OnlyALoginChangesTheGrant ==
    [][row'.tokens # NoTokens /\ row'.tokens.grant # row.tokens.grant => row'.tokens.acc = 1]_vars
=============================================================================
