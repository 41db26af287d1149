-------------------------- MODULE UpstreamOAuthProofs --------------------------
(***************************************************************************)
(* Proofs about UpstreamOAuth, for any number of callers, logins and       *)
(* issued token sets.                                                      *)
(*                                                                         *)
(* What a refresh in flight presents is the newest stored set of its       *)
(* grant, because it has been read from the row and no other refresh can   *)
(* store a set of that grant meanwhile; what it is about to store is newer *)
(* still, because the authorization server numbered it later.  The other   *)
(* parts of the invariant carry that through logins, disconnections and    *)
(* restarts.                                                               *)
(***************************************************************************)
EXTENDS UpstreamOAuth, TLAPS

(* A caller is in the inFlight map exactly while its refresh runs. *)
FlightIsRegistered ==
    \A t \in Refreshing : flight[t].at # "none" <=> inFlight = t

(* A refresh that went as far as the authorization server has a token. *)
SentHasToken ==
    \A t \in Refreshing : flight[t].at \notin {"none", "read"} => flight[t].row.tokens.ref # 0

(* Of the sets of its grant in `past` the one that was issued last. *)
Newest(tokens, past) ==
    /\ tokens \in past
    /\ \A s \in past : s.grant = tokens.grant => s.acc <= tokens.acc /\ s.ref <= tokens.ref

RowIsNewest == row.tokens # NoTokens => Newest(row.tokens, stored)

(* What has been stored the authorization server has issued. *)
StoredWasIssued ==
    \A s \in stored : s.acc <= granted[s.grant].issued /\ s.ref <= granted[s.grant].issued

FlightIsNewest ==
    \A t \in Refreshing :
        flight[t].at # "none" /\ flight[t].row.tokens # NoTokens =>
            Newest(flight[t].row.tokens, stored)

(* Issued after every set of its grant in `past`. *)
Later(tokens, past, grants) ==
    /\ tokens \in TokenSets
    /\ \A s \in past : s.grant = tokens.grant => s.acc < tokens.acc /\ s.ref <= tokens.ref
    /\ tokens.acc <= grants[tokens.grant].issued
    /\ tokens.ref <= grants[tokens.grant].issued

(* What a refresh is about to store is newer than what it was made from. *)
GotIsLater ==
    \A t \in Refreshing : flight[t].at = "granted" =>
        Later(flight[t].got, stored, granted) /\ flight[t].got.grant = flight[t].row.tokens.grant

(* A login about to be saved is the first set of a grant nobody has stored. *)
LoginIsLater ==
    \A t \in Callbacks : task[t].at = "granted" =>
        /\ Later(task[t].tokens, stored, granted)
        /\ \A s \in stored : s.grant # task[t].tokens.grant
        /\ \A u \in Callbacks :
              task[u].at = "granted" /\ task[u].tokens.grant = task[t].tokens.grant => u = t

(* What a request holds has been stored, and its retry holds another set. *)
RequestHoldsStored ==
    \A t \in Requests :
        task[t].tokens \in stored \cup {NoTokens} /\ task[t].bad \in stored \cup {NoTokens}

RetryHoldsAnother ==
    \A t \in Requests :
        task[t].try = 2 /\ task[t].at \in {"read", "refresh", "reread", "send"} =>
            task[t].tokens # task[t].bad

RefreshInv ==
    /\ FlightIsRegistered
    /\ SentHasToken
    /\ RowIsNewest
    /\ StoredWasIssued
    /\ FlightIsNewest
    /\ GotIsLater
    /\ LoginIsLater
    /\ RequestHoldsStored
    /\ RetryHoldsAnother

(* A code that is about to be sent belongs to a started login, whose state  *)
(* is used up and which no other callback holds.                           *)
CodeInv ==
    /\ \A i \in pending \cup presented : granted[i].client # 0
    /\ pending \cap presented = {}
    /\ \A t \in Callbacks : task[t].at = "code" =>
          /\ task[t].login \notin pending \cup presented
          /\ granted[task[t].login].client # 0
          /\ \A u \in Callbacks : task[u].at = "code" /\ task[u].login = task[t].login => u = t

(* A callback that holds a code, or waits for its exchange, names a login. *)
LoginIsKnown ==
    \A t \in Callbacks : task[t].at \in {"code", "exchange"} => task[t].login \in Logins

IInv == TypeOK /\ RefreshInv /\ CodeInv /\ LoginIsKnown

-----------------------------------------------------------------------------
(* Facts about the data.                                                   *)

LEMMA Constants ==
    /\ MaxLogins \in Nat /\ MaxIssues \in Nat /\ 1 \in 1..MaxIssues
    /\ 0 \in Issues /\ 1 \in Issues
    /\ Nobody \notin Refreshing
    /\ NoTokens \in MaybeTokens /\ NoTokens \notin TokenSets
    /\ Callbacks \cap Refreshing = {} /\ Callbacks \cap Starters = {}
    /\ Requests \subseteq Refreshing /\ Refreshing \subseteq Tasks
    /\ Callbacks \subseteq Tasks /\ Starters \subseteq Tasks
BY OAuthAssumption DEF Refreshing, Tasks, Issues, NoTokens, MaybeTokens, TokenSets, Logins

LEMMA TokensWithRefresh ==
    ASSUME NEW tokens \in MaybeTokens, tokens.ref # 0 \/ tokens.grant # 0
    PROVE  tokens \in TokenSets /\ tokens # NoTokens
BY DEF MaybeTokens, TokenSets, NoTokens, Logins

LEMMA EmptyRow == NoRow \in Rows /\ NoRow.tokens = NoTokens
BY Constants DEF NoRow, Rows, Statuses

LEMMA EmptyFlight == NoFlight \in Flights /\ NoFlight.at = "none"
BY Constants, EmptyRow DEF NoFlight, Flights

LEMMA EmptyTask ==
    /\ NoTask \in Calls
    /\ NoTask.at = "none" /\ NoTask.try = 0 /\ NoTask.tokens = NoTokens /\ NoTask.bad = NoTokens
BY Constants DEF NoTask, Calls, Statuses

LEMMA StatusRow ==
    ASSUME NEW r \in Rows, NEW status \in Statuses
    PROVE  WithStatus(r, status) \in Rows /\ WithStatus(r, status).tokens = r.tokens
BY DEF WithStatus, Rows

LEMMA TokensRow ==
    ASSUME NEW r \in Rows, NEW tokens \in TokenSets
    PROVE  WithTokens(r, tokens) \in Rows /\ WithTokens(r, tokens).tokens = tokens
BY DEF WithTokens, Rows, MaybeTokens, Statuses

LEMMA ClientRow ==
    ASSUME NEW r \in Rows, NEW client \in 0..MaxLogins
    PROVE  WithClient(r, client) \in Rows /\ WithClient(r, client).tokens = r.tokens
BY DEF WithClient, Rows

-----------------------------------------------------------------------------
(* Type correctness of every step.                                         *)

LEMMA JoinTypes ==
    ASSUME TypeOK, NEW t \in Refreshing, NEW at \in {"refresh", "refresh401"}, JoinRefresh(t, at)
    PROVE  /\ inFlight' \in Refreshing \cup {Nobody}
           /\ flight' \in [Refreshing -> Flights]
           /\ task' \in [Tasks -> Calls]
<1>1. inFlight' \in Refreshing \cup {Nobody}
  BY DEF TypeOK, JoinRefresh
<1>2. [at |-> "read", row |-> row, got |-> NoTokens] \in Flights
  BY Constants DEF TypeOK, Flights
<1>3. flight' \in [Refreshing -> Flights]
  BY <1>2 DEF TypeOK, JoinRefresh
<1>4. task[t] \in Calls
  BY Constants DEF TypeOK
<1>5. [task[t] EXCEPT !.at = at, !.on = inFlight'] \in Calls
  BY <1>1, <1>4 DEF Calls
<1>6. task' = [task EXCEPT ![t] = [task[t] EXCEPT !.at = at, !.on = inFlight']]
  BY <1>4, Constants DEF JoinRefresh, TypeOK, Calls
<1>7. task' \in [Tasks -> Calls]
  BY <1>5, <1>6 DEF TypeOK
<1> QED
  BY <1>1, <1>3, <1>7

LEMMA ResumedTypes ==
    ASSUME TypeOK, NEW u \in Tasks, NEW success \in BOOLEAN, NEW newRow \in Rows
    PROVE  Resumed(u, success, newRow) \in Calls
<1>1. task[u] \in Calls
  BY DEF TypeOK
<1>2. newRow.tokens \in MaybeTokens
  BY DEF Rows
<1>3. CASE u \in Requests /\ success
  <2> DEFINE at == IF task[u].at = "refresh" THEN "reread" ELSE "read"
             try == IF task[u].at = "refresh" THEN task[u].try ELSE 2
  <2>1. at \in {"reread", "read"} /\ try \in 0..2
    BY <1>1 DEF Calls
  <2> HIDE DEF at, try
  <2>2. [task[u] EXCEPT !.at = at, !.try = try, !.on = Nobody, !.tokens = newRow.tokens] \in Calls
    BY <1>1, <1>2, <2>1 DEF Calls
  <2> QED
    BY <1>3, <2>2 DEF Resumed, at, try
<1>4. CASE u \in Requests /\ ~success /\ task[u].at = "refresh"
  <2>1. [task[u] EXCEPT !.at = "send", !.on = Nobody] \in Calls
    BY <1>1 DEF Calls
  <2> QED
    BY <1>4, <2>1 DEF Resumed
<1>5. CASE u \notin Requests \/ (~success /\ task[u].at # "refresh")
  BY <1>5, EmptyTask DEF Resumed
<1> QED
  BY <1>3, <1>4, <1>5

LEMMA SettleTypes ==
    ASSUME TypeOK, NEW t \in Refreshing, NEW success \in BOOLEAN, NEW newRow \in Rows,
           Settle(t, success, newRow)
    PROVE  /\ inFlight' = Nobody
           /\ flight' \in [Refreshing -> Flights]
           /\ task' \in [Tasks -> Calls]
           /\ row' \in Rows
           /\ row'.tokens = newRow.tokens
<1>1. inFlight' = Nobody /\ flight' \in [Refreshing -> Flights]
  BY EmptyFlight DEF Settle, TypeOK
<1>2. \A u \in Tasks : task[u] \in Calls /\ Resumed(u, success, newRow) \in Calls
  BY ResumedTypes DEF TypeOK
<1>3. task' \in [Tasks -> Calls]
  BY <1>2 DEF Settle
<1>4. row' \in Rows /\ row'.tokens = newRow.tokens
  BY StatusRow DEF Settle, Statuses
<1> QED
  BY <1>1, <1>3, <1>4

LEMMA TypeRefresher ==
    ASSUME IInv, NEW t \in Refreshing, RefresherStep(t)
    PROVE  TypeOK'
<1> USE DEF memory, server, history
<1>1. TypeOK /\ row \in Rows /\ flight[t] \in Flights /\ flight[t].row \in Rows
  BY DEF IInv, TypeOK, Flights
<1>2. CASE NoRefreshToken(t)
  <2> DEFINE newRow == IF ~flight[t].row.there THEN row
                       ELSE WithStatus(row, IF flight[t].row.tokens = NoTokens
                                            THEN "needs_reauth" ELSE "no_refresh")
  <2>1. newRow \in Rows
    BY <1>1, StatusRow DEF Statuses
  <2>2. Settle(t, FALSE, newRow)
    BY <1>2 DEF NoRefreshToken
  <2> QED
    BY <1>1, <1>2, <2>1, <2>2, SettleTypes DEF NoRefreshToken, TypeOK
<1>3. CASE NotRegistered(t)
  <2>1. WithStatus(row, "needs_reauth") \in Rows
    BY <1>1, StatusRow DEF Statuses
  <2> QED
    BY <1>1, <1>3, <2>1, SettleTypes DEF NotRegistered, TypeOK
<1>4. CASE PresentRefreshToken(t)
  <2>1. [flight[t] EXCEPT !.at = "sent"] \in Flights
    BY <1>1 DEF Flights
  <2> QED
    BY <1>1, <1>4, <2>1 DEF PresentRefreshToken, TypeOK
<1>5. CASE RefreshFailed(t)
  <2> DEFINE newRow == WithStatus(row, IF flight[t].at = "refused" THEN "needs_reauth" ELSE "expiring")
  <2>1. newRow \in Rows
    BY <1>1, StatusRow DEF Statuses
  <2>2. Settle(t, FALSE, newRow)
    BY <1>5 DEF RefreshFailed
  <2> QED
    BY <1>1, <1>5, <2>1, <2>2, SettleTypes DEF RefreshFailed, TypeOK
<1>6. CASE RefreshSaved(t)
  <2>1. flight[t].got \in TokenSets
    BY <1>6 DEF IInv, RefreshInv, GotIsLater, Later, RefreshSaved
  <2>2. WithTokens(row, flight[t].got) \in Rows
    BY <1>1, <2>1, TokensRow
  <2> QED
    BY <1>1, <1>6, <2>1, <2>2, SettleTypes DEF RefreshSaved, TypeOK
<1> QED
  BY <1>2, <1>3, <1>4, <1>5, <1>6 DEF RefresherStep

LEMMA TypeServer ==
    ASSUME IInv, NEW t \in Refreshing, ServerAnswer(t)
    PROVE  TypeOK'
<1> USE DEF memory, server, history
<1> DEFINE r == flight[t].row
<1>1. TypeOK /\ flight[t] \in Flights /\ r \in Rows /\ r.tokens \in MaybeTokens
  BY DEF IInv, TypeOK, Flights, Rows
<1>2. flight[t].at = "sent" => r.tokens.ref # 0 /\ r.tokens \in TokenSets
  BY <1>1, TokensWithRefresh DEF IInv, RefreshInv, SentHasToken
<1> HIDE DEF r
<1>3. CASE Redeem(t)
  <2> DEFINE g == r.tokens.grant
             n == granted[g].issued + 1
  <2>1. flight[t].at = "sent" /\ n \in Issues
    BY <1>3 DEF Redeem, r
  <2>2. g \in Logins /\ r.tokens.ref \in Issues
    BY <1>2, <2>1 DEF TokenSets
  <2>3. granted[g] \in Grants /\ granted[g].issued \in Issues
    BY <1>1, <2>2 DEF TypeOK, Grants
  <2>4. n \in 1..MaxIssues
    BY <2>1, <2>3, Constants DEF Issues
  <2> HIDE DEF g, n
  <2>5. PICK ref \in {n, r.tokens.ref}, answer \in {"granted", "failed"} :
           /\ granted' = [granted EXCEPT ![g].issued = n, ![g].ref = ref]
           /\ flight' = [flight EXCEPT
                            ![t].at = answer,
                            ![t].got = IF answer = "failed" THEN NoTokens
                                       ELSE [grant |-> g, acc |-> n, ref |-> ref]]
    BY <1>3 DEF Redeem, r, g, n
  <2> DEFINE got == IF answer = "failed" THEN NoTokens ELSE [grant |-> g, acc |-> n, ref |-> ref]
  <2>6. ref \in Issues
    BY <2>1, <2>2
  <2>7. got \in MaybeTokens
    BY <2>2, <2>4, <2>6 DEF MaybeTokens, TokenSets
  <2> HIDE DEF got
  <2>8. [flight[t] EXCEPT !.at = answer, !.got = got] \in Flights
    BY <1>1, <2>7 DEF Flights
  <2>9. flight' = [flight EXCEPT ![t] = [flight[t] EXCEPT !.at = answer, !.got = got]]
    BY <1>1, <2>5 DEF TypeOK, Flights, got
  <2>10. [granted[g] EXCEPT !.issued = n, !.ref = ref] \in Grants
    BY <2>1, <2>3, <2>6 DEF Grants
  <2>11. granted' = [granted EXCEPT ![g] = [granted[g] EXCEPT !.issued = n, !.ref = ref]]
    BY <1>1, <2>2, <2>5 DEF TypeOK, Grants
  <2>12. granted' \in [Logins -> Grants] /\ flight' \in [Refreshing -> Flights]
    BY <1>1, <2>2, <2>8, <2>9, <2>10, <2>11 DEF TypeOK
  <2> QED
    BY <1>1, <1>3, <2>12 DEF Redeem, TypeOK
<1>4. CASE Refuse(t)
  <2>1. [flight[t] EXCEPT !.at = "refused"] \in Flights
    BY <1>1 DEF Flights
  <2>2. Refresh(r.tokens) \in Logins \X (1..MaxIssues)
    BY <1>2, <1>4, Constants DEF Refuse, TokenSets, Refresh, Issues
  <2> QED
    BY <1>1, <1>4, <2>1, <2>2 DEF Refuse, TypeOK, r
<1>5. CASE Unreachable(t)
  <2>1. [flight[t] EXCEPT !.at = "failed"] \in Flights
    BY <1>1 DEF Flights
  <2> QED
    BY <1>1, <1>5, <2>1 DEF Unreachable, TypeOK
<1> QED
  BY <1>3, <1>4, <1>5 DEF ServerAnswer

LEMMA TypeRequest ==
    ASSUME IInv, NEW t \in Requests, BeginRequest(t) \/ RequestStep(t) \/ UpstreamAnswer(t)
    PROVE  TypeOK'
<1> USE DEF memory, server, history
<1>1. TypeOK /\ row \in Rows /\ row.tokens \in MaybeTokens
  BY DEF IInv, TypeOK, Rows
<1>2. t \in Tasks /\ t \in Refreshing /\ task[t] \in Calls
  BY <1>1, Constants DEF TypeOK
<1>3. CASE BeginRequest(t)
  <2>1. [NoTask EXCEPT !.at = "read", !.try = 1, !.tokens = row.tokens] \in Calls
    <3>1. [NoTask EXCEPT !.try = 1] \in Calls
      BY EmptyTask, 1 \in 0..2 DEF Calls
    <3>2. [[NoTask EXCEPT !.try = 1] EXCEPT !.at = "read"] \in Calls
      BY <3>1 DEF Calls
    <3>3. [NoTask EXCEPT !.at = "read", !.try = 1] \in Calls
      BY <3>2, EmptyTask DEF Calls
    <3> QED
      BY <1>1, <3>3 DEF Calls
  <2> QED
    BY <1>1, <1>2, <1>3, <2>1 DEF BeginRequest, TypeOK
<1>4. CASE SendFresh(t) \/ SendRefreshed(t)
  <2>1. [task[t] EXCEPT !.at = "send"] \in Calls
    BY <1>2 DEF Calls
  <2> QED
    BY <1>1, <1>2, <1>4, <2>1 DEF SendFresh, SendRefreshed, TypeOK
<1>5. CASE SendUnrefreshable(t)
  <2>1. [task[t] EXCEPT !.at = "send"] \in Calls
    BY <1>2 DEF Calls
  <2>2. row' \in Rows
    BY <1>1, <1>5, StatusRow DEF SendUnrefreshable, Statuses
  <2> QED
    BY <1>1, <1>2, <1>5, <2>1, <2>2 DEF SendUnrefreshable, TypeOK
<1>6. CASE RefreshFirst(t) \/ RefreshAfter401(t)
  BY <1>1, <1>2, <1>6, JoinTypes DEF RefreshFirst, RefreshAfter401, TypeOK
<1>7. CASE GiveUp(t) \/ Second401(t)
  <2>1. row' \in Rows
    BY <1>1, <1>7, StatusRow DEF GiveUp, Second401, Statuses
  <2> QED
    BY <1>1, <1>2, <1>7, <2>1, EmptyTask DEF GiveUp, Second401, TypeOK
<1>8. CASE Answered(t)
  BY <1>1, <1>2, <1>8, EmptyTask DEF Answered, TypeOK
<1>9. CASE First401(t)
  <2>1. [task[t] EXCEPT !.at = "read401", !.bad = task[t].tokens, !.tokens = row.tokens] \in Calls
    BY <1>1, <1>2 DEF Calls
  <2>2. task' = [task EXCEPT ![t] = [task[t] EXCEPT !.at = "read401", !.bad = task[t].tokens,
                                                    !.tokens = row.tokens]]
    BY <1>1, <1>2, <1>9 DEF First401, TypeOK, Calls
  <2>3. task' \in [Tasks -> Calls]
    BY <1>1, <1>2, <2>1, <2>2 DEF TypeOK
  <2> QED
    BY <1>1, <1>9, <2>3 DEF First401, TypeOK
<1> QED
  BY <1>3, <1>4, <1>5, <1>6, <1>7, <1>8, <1>9 DEF RequestStep, UpstreamAnswer

LEMMA TypeSweep ==
    ASSUME IInv, NEW t \in Refreshing,
           \/ t \in Sweeps /\ (BeginSweep(t) \/ SweepStep(t))
           \/ t \in Admins /\ ForceRefresh(t)
    PROVE  TypeOK'
<1> USE DEF memory, server, history
<1>1. TypeOK /\ row \in Rows /\ row.tokens \in MaybeTokens /\ row.status \in Statuses
  BY DEF IInv, TypeOK, Rows
<1>2. t \in Tasks /\ task[t] \in Calls
  BY <1>1, Constants DEF TypeOK
<1>3. CASE BeginSweep(t)
  <2>1. [NoTask EXCEPT !.at = "read", !.tokens = row.tokens, !.status = row.status] \in Calls
    BY <1>1, EmptyTask DEF Calls
  <2> QED
    BY <1>1, <1>2, <1>3, <2>1 DEF BeginSweep, TypeOK
<1>4. CASE SweepUnrefreshable(t)
  <2>1. row' \in Rows
    BY <1>1, <1>4, StatusRow DEF SweepUnrefreshable, Statuses
  <2> QED
    BY <1>1, <1>2, <1>4, <2>1, EmptyTask DEF SweepUnrefreshable, TypeOK
<1>5. CASE SweepNotDue(t)
  BY <1>1, <1>2, <1>5, EmptyTask DEF SweepNotDue, TypeOK
<1>6. CASE SweepRefresh(t) \/ ForceRefresh(t)
  BY <1>1, <1>2, <1>6, JoinTypes DEF SweepRefresh, ForceRefresh, TypeOK
<1> QED
  BY <1>3, <1>4, <1>5, <1>6 DEF SweepStep

LEMMA TypeStart ==
    ASSUME IInv, NEW t \in Starters, BeginStart(t) \/ SaveDiscovery(t) \/ StartFails(t)
    PROVE  TypeOK'
<1> USE DEF memory, server, history
<1>1. TypeOK /\ row \in Rows /\ row.client \in 0..MaxLogins
  BY DEF IInv, TypeOK, Rows
<1>2. t \in Tasks /\ task[t] \in Calls
  BY <1>1, Constants DEF TypeOK
<1>3. CASE BeginStart(t)
  <2>1. [NoTask EXCEPT !.at = "start", !.client = row.client] \in Calls
    BY <1>1, EmptyTask DEF Calls
  <2> QED
    BY <1>1, <1>2, <1>3, <2>1 DEF BeginStart, TypeOK
<1>4. CASE SaveDiscovery(t)
  <2>1. PICK i \in Logins :
          LET client == IF task[t].client = 0 THEN i ELSE task[t].client
          IN  /\ row' = WithClient(row, client)
              /\ granted' = [granted EXCEPT ![i].client = client]
              /\ pending' = pending \cup {i}
    BY <1>4 DEF SaveDiscovery
  <2> DEFINE client == IF task[t].client = 0 THEN i ELSE task[t].client
  <2>2. client \in 0..MaxLogins
    BY <1>2, Constants DEF Logins, Calls
  <2> HIDE DEF client
  <2>3. row' \in Rows
    BY <1>1, <2>1, <2>2, ClientRow DEF client
  <2>4. granted[i] \in Grants
    BY <1>1 DEF TypeOK
  <2>5. [granted[i] EXCEPT !.client = client] \in Grants
    BY <2>2, <2>4 DEF Grants
  <2>6. granted' \in [Logins -> Grants]
    BY <1>1, <2>1, <2>5 DEF TypeOK, client
  <2>7. task' \in [Tasks -> Calls]
    BY <1>1, <1>2, <1>4, EmptyTask DEF SaveDiscovery, TypeOK
  <2> QED
    BY <1>1, <1>4, <2>1, <2>3, <2>6, <2>7 DEF SaveDiscovery, TypeOK
<1>5. CASE StartFails(t)
  BY <1>1, <1>2, <1>5, EmptyTask DEF StartFails, TypeOK
<1> QED
  BY <1>3, <1>4, <1>5

LEMMA TypeLogin ==
    ASSUME IInv, NEW t \in Callbacks, LoginStep(t) \/ \E i \in Logins : BeginComplete(t, i)
    PROVE  TypeOK'
<1> USE DEF memory, server, history
<1>1. TypeOK /\ row \in Rows /\ row.client \in 0..MaxLogins
  BY DEF IInv, TypeOK, Rows
<1>2. t \in Tasks /\ task[t] \in Calls
  BY <1>1, Constants DEF TypeOK
<1>3. CASE CompleteUnregistered(t) \/ ExchangeFails(t)
  BY <1>1, <1>2, <1>3, EmptyTask DEF CompleteUnregistered, ExchangeFails, TypeOK
<1>4. CASE PresentCode(t)
  <2>1. [task[t] EXCEPT !.at = "exchange"] \in Calls
    BY <1>2 DEF Calls
  <2>2. task[t].login \in Logins
    BY <1>4 DEF IInv, LoginIsKnown, PresentCode
  <2> QED
    BY <1>1, <1>2, <1>4, <2>1, <2>2 DEF PresentCode, TypeOK
<1>5. CASE ExchangeGranted(t)
  <2> DEFINE i == task[t].login
  <2>1. i \in Logins
    BY <1>5 DEF IInv, LoginIsKnown, ExchangeGranted
  <2>2. granted[i] \in Grants
    BY <1>1, <2>1 DEF TypeOK
  <2> HIDE DEF i
  <2>3. PICK ref \in {0, 1} :
          /\ granted' = [granted EXCEPT ![i].issued = 1, ![i].ref = ref]
          /\ task' = [task EXCEPT ![t].at = "granted",
                                  ![t].tokens = [grant |-> i, acc |-> 1, ref |-> ref]]
    BY <1>5 DEF ExchangeGranted, i
  <2>4. [grant |-> i, acc |-> 1, ref |-> ref] \in MaybeTokens
    BY <2>1, Constants DEF MaybeTokens, TokenSets
  <2>5. [granted[i] EXCEPT !.issued = 1, !.ref = ref] \in Grants
    BY <2>2, Constants DEF Grants
  <2>6. granted' = [granted EXCEPT ![i] = [granted[i] EXCEPT !.issued = 1, !.ref = ref]]
    BY <1>1, <2>1, <2>3 DEF TypeOK, Grants
  <2>7. granted' \in [Logins -> Grants]
    BY <1>1, <2>1, <2>5, <2>6 DEF TypeOK
  <2> DEFINE tokens == [grant |-> i, acc |-> 1, ref |-> ref]
  <2>8. tokens \in MaybeTokens
    BY <2>4
  <2>9. task' = [task EXCEPT ![t].at = "granted", ![t].tokens = tokens]
    BY <2>3
  <2> HIDE DEF tokens
  <2>10. [task[t] EXCEPT !.at = "granted", !.tokens = tokens] \in Calls
    BY <1>2, <2>8 DEF Calls
  <2>11. task' = [task EXCEPT ![t] = [task[t] EXCEPT !.at = "granted", !.tokens = tokens]]
    BY <1>1, <1>2, <2>9 DEF TypeOK, Calls
  <2>12. task' \in [Tasks -> Calls]
    BY <1>1, <1>2, <2>10, <2>11 DEF TypeOK
  <2> QED
    BY <1>1, <1>5, <2>7, <2>12 DEF ExchangeGranted, TypeOK
<1>6. CASE LoginSaved(t)
  <2>1. task[t].tokens \in TokenSets
    BY <1>6 DEF IInv, RefreshInv, LoginIsLater, Later, LoginSaved
  <2>2. row' \in Rows
    BY <1>1, <1>6, <2>1, TokensRow DEF LoginSaved
  <2> QED
    BY <1>1, <1>2, <1>6, <2>1, <2>2, EmptyTask DEF LoginSaved, TypeOK
<1>7. ASSUME NEW i \in Logins, BeginComplete(t, i)
      PROVE  TypeOK'
  <2>1. [NoTask EXCEPT !.at = "code", !.login = i, !.client = row.client] \in Calls
    <3>1. i \in 0..MaxLogins
      BY Constants DEF Logins
    <3>2. [NoTask EXCEPT !.at = "code", !.login = i] \in Calls
      BY <3>1, EmptyTask DEF Calls
    <3> QED
      BY <1>1, <3>2 DEF Calls
  <2> QED
    BY <1>1, <1>2, <1>7, <2>1 DEF BeginComplete, TypeOK
<1> QED
  BY <1>3, <1>4, <1>5, <1>6, <1>7 DEF LoginStep

LEMMA TypeRest ==
    ASSUME IInv,
           \/ \E i \in Logins : Expire(i) \/ RevokeGrant(i)
           \/ \E tokens \in stored : Age(tokens)
           \/ Clear
           \/ Crash
    PROVE  TypeOK'
<1> USE DEF memory, server, history
<1>1. TypeOK
  BY DEF IInv
<1>2. ASSUME NEW i \in Logins, Expire(i)
      PROVE  TypeOK'
  BY <1>1, <1>2 DEF Expire, TypeOK
<1>3. ASSUME NEW i \in Logins, RevokeGrant(i)
      PROVE  TypeOK'
  <2>1. [granted[i] EXCEPT !.ref = 0] \in Grants
    BY <1>1, Constants DEF TypeOK, Grants
  <2> QED
    BY <1>1, <1>3, <2>1 DEF RevokeGrant, TypeOK
<1>4. ASSUME NEW tokens \in stored, Age(tokens)
      PROVE  TypeOK'
  BY <1>1, <1>4 DEF Age, TypeOK
<1>5. CASE Clear
  BY <1>1, <1>5, EmptyRow DEF Clear, TypeOK
<1>6. CASE Crash
  BY <1>1, <1>6, EmptyFlight, EmptyTask DEF Crash, TypeOK
<1> QED
  BY <1>2, <1>3, <1>4, <1>5, <1>6

LEMMA TypeStep == IInv /\ [Next]_vars => TypeOK'
<1> SUFFICES ASSUME IInv, [Next]_vars PROVE TypeOK'
  OBVIOUS
<1>1. CASE UNCHANGED vars
  BY <1>1 DEF IInv, TypeOK, vars, memory, server, history
<1>2. CASE Next
  BY <1>2, TypeRefresher, TypeServer, TypeRequest, TypeSweep, TypeStart, TypeLogin, TypeRest
     DEF Next, Refreshing
<1> QED
  BY <1>1, <1>2
-----------------------------------------------------------------------------
(* What most steps do to the token sets: nothing.  The four that issue or  *)
(* store a token set are looked at one by one below.                       *)

RowKept ==
    /\ row'.tokens \in {row.tokens, NoTokens}
    /\ stored' = stored
    /\ \A g \in Logins : granted[g].issued <= granted'[g].issued

FlightKept(t) ==
    \/ flight'[t] = flight[t]
    \/ flight'[t].at = "none"
    \/ flight'[t].at = "read" /\ flight'[t].row = row
    \/ /\ flight[t].at # "none"
       /\ flight'[t].at \notin {"none", "read", "granted"}
       /\ flight'[t].row = flight[t].row
       /\ flight[t].row.tokens.ref # 0

FlightsKept == FlightIsRegistered' /\ \A t \in Refreshing : FlightKept(t)

LoginKept(t) == task'[t].at = "granted" => task'[t] = task[t]

LoginsKept == \A t \in Callbacks : LoginKept(t)

Retrying == {"read", "refresh", "reread", "send"}

RequestKept(t) ==
    /\ task'[t].tokens \in {task[t].tokens, row.tokens, NoTokens}
    /\ task'[t].bad \in {task[t].bad, task[t].tokens, NoTokens}
    /\ task'[t].try = 2 /\ task'[t].at \in Retrying =>
          /\ task[t].try = 2 /\ task[t].at \in Retrying
          /\ task'[t].tokens = task[t].tokens /\ task'[t].bad = task[t].bad

RequestsKept == \A t \in Requests : RequestKept(t)

LEMMA RowKeptStep ==
    ASSUME IInv, TypeOK', RowKept
    PROVE  /\ RowIsNewest' /\ StoredWasIssued'
           /\ \A tokens : Newest(tokens, stored) => Newest(tokens, stored')
           /\ \A tokens : Later(tokens, stored, granted) => Later(tokens, stored', granted')
<1>1. /\ stored' = stored /\ stored \subseteq TokenSets
      /\ \A g \in Logins : /\ granted[g].issued \in Nat /\ granted'[g].issued \in Nat
                           /\ granted[g].issued <= granted'[g].issued
  BY DEF IInv, TypeOK, RowKept, Grants, Issues
<1>2. \A s \in TokenSets : s.grant \in Logins /\ s.acc \in Nat /\ s.ref \in Nat
  BY Constants DEF TokenSets, Issues
<1>3. \A tokens : Newest(tokens, stored) => Newest(tokens, stored')
  BY <1>1 DEF Newest
<1>4. \A tokens : Later(tokens, stored, granted) => Later(tokens, stored', granted')
  BY <1>1, <1>2 DEF Later
<1>5. RowIsNewest'
  BY <1>3 DEF RowKept, RowIsNewest, IInv, RefreshInv
<1>6. StoredWasIssued'
  BY <1>1, <1>2 DEF StoredWasIssued, IInv, RefreshInv
<1> QED
  BY <1>3, <1>4, <1>5, <1>6

LEMMA FlightsKeptStep ==
    ASSUME IInv, TypeOK', RowKept, FlightsKept
    PROVE  FlightIsRegistered' /\ SentHasToken' /\ FlightIsNewest' /\ GotIsLater'
<1>1. FlightIsRegistered'
  BY DEF FlightsKept
<1>2. /\ SentHasToken /\ FlightIsNewest /\ GotIsLater /\ RowIsNewest
      /\ \A tokens : Newest(tokens, stored) => Newest(tokens, stored')
      /\ \A tokens : Later(tokens, stored, granted) => Later(tokens, stored', granted')
  BY RowKeptStep DEF IInv, RefreshInv
<1>3. ASSUME NEW t \in Refreshing
      PROVE  /\ flight'[t].at \notin {"none", "read"} => flight'[t].row.tokens.ref # 0
             /\ flight'[t].at # "none" /\ flight'[t].row.tokens # NoTokens
                   => Newest(flight'[t].row.tokens, stored')
             /\ flight'[t].at = "granted" =>
                   /\ Later(flight'[t].got, stored', granted')
                   /\ flight'[t].got.grant = flight'[t].row.tokens.grant
  <2>1. FlightKept(t)
    BY DEF FlightsKept
  <2>2. CASE flight'[t] = flight[t]
    BY <1>2, <2>2 DEF SentHasToken, FlightIsNewest, GotIsLater
  <2>3. CASE flight'[t].at = "none"
    BY <2>3
  <2>4. CASE flight'[t].at = "read" /\ flight'[t].row = row
    BY <1>2, <2>4 DEF RowIsNewest
  <2>5. CASE /\ flight[t].at # "none"
             /\ flight'[t].at \notin {"none", "read", "granted"}
             /\ flight'[t].row = flight[t].row
             /\ flight[t].row.tokens.ref # 0
    BY <1>2, <2>5 DEF FlightIsNewest
  <2> QED
    BY <2>1, <2>2, <2>3, <2>4, <2>5 DEF FlightKept
<1>4. SentHasToken'
  BY <1>3 DEF SentHasToken
<1>5. FlightIsNewest'
  BY <1>3 DEF FlightIsNewest
<1>6. GotIsLater'
  BY <1>3 DEF GotIsLater
<1> QED
  BY <1>1, <1>4, <1>5, <1>6

LEMMA LoginsKeptStep ==
    ASSUME IInv, TypeOK', RowKept, LoginsKept
    PROVE  LoginIsLater'
<1>1. /\ LoginIsLater /\ stored' = stored
      /\ \A tokens : Later(tokens, stored, granted) => Later(tokens, stored', granted')
  BY RowKeptStep DEF IInv, RefreshInv, RowKept
<1> SUFFICES ASSUME NEW t \in Callbacks, task'[t].at = "granted"
             PROVE  /\ Later(task'[t].tokens, stored', granted')
                    /\ \A s \in stored' : s.grant # task'[t].tokens.grant
                    /\ \A u \in Callbacks :
                          task'[u].at = "granted" /\ task'[u].tokens.grant = task'[t].tokens.grant
                             => u = t
  BY DEF LoginIsLater
<1>2. task'[t] = task[t] /\ \A u \in Callbacks : task'[u].at = "granted" => task'[u] = task[u]
  BY DEF LoginsKept, LoginKept
<1>3. task[t].at = "granted"
  BY <1>2
<1>4. Later(task[t].tokens, stored, granted)
  BY <1>1, <1>3 DEF LoginIsLater
<1> QED
  BY <1>1, <1>2, <1>3, <1>4 DEF LoginIsLater

LEMMA RequestsKeptStep ==
    ASSUME IInv, stored \subseteq stored', RequestsKept
    PROVE  RequestHoldsStored' /\ RetryHoldsAnother'
<1>1. /\ RequestHoldsStored /\ RetryHoldsAnother
      /\ row.tokens \in stored \cup {NoTokens}
  BY DEF IInv, RefreshInv, RowIsNewest, Newest
<1>2. RequestHoldsStored'
  BY <1>1 DEF RequestsKept, RequestKept, RequestHoldsStored
<1>3. RetryHoldsAnother'
  BY <1>1 DEF RequestsKept, RequestKept, RetryHoldsAnother, Retrying
<1> QED
  BY <1>2, <1>3

-----------------------------------------------------------------------------
(* The refresher keeps what it should.                                     *)

LEMMA TasksUntouched ==
    ASSUME task' = task
    PROVE  LoginsKept /\ RequestsKept
BY DEF LoginsKept, LoginKept, RequestsKept, RequestKept

LEMMA FlightsUntouched ==
    ASSUME IInv, UNCHANGED <<inFlight, flight>>
    PROVE  FlightsKept
BY DEF IInv, RefreshInv, FlightIsRegistered, FlightsKept, FlightKept

LEMMA RowUntouched ==
    ASSUME IInv, TypeOK', row'.tokens \in {row.tokens, NoTokens}, UNCHANGED <<granted, stored>>
    PROVE  RowKept
<1>1. \A g \in Logins : granted[g].issued \in Nat
  BY DEF IInv, TypeOK, Grants, Issues
<1> QED
  BY <1>1 DEF RowKept

LEMMA JoinKept ==
    ASSUME IInv, NEW t \in Refreshing, NEW at \in {"refresh", "refresh401"}, JoinRefresh(t, at)
    PROVE  /\ FlightsKept /\ LoginsKept
           /\ \A u \in Tasks : u # t => task'[u] = task[u]
           /\ task'[t].at = at /\ task'[t].try = task[t].try
           /\ task'[t].tokens = task[t].tokens /\ task'[t].bad = task[t].bad
<1>1. /\ flight \in [Refreshing -> Flights] /\ task \in [Tasks -> Calls] /\ t \in Tasks
      /\ FlightIsRegistered
  BY Constants DEF IInv, TypeOK, RefreshInv
<1>2. FlightIsRegistered' /\ \A u \in Refreshing : FlightKept(u)
  <2>1. CASE inFlight = Nobody
    <3>1. /\ inFlight' = t
          /\ flight' = [flight EXCEPT ![t] = [at |-> "read", row |-> row, got |-> NoTokens]]
      BY <2>1 DEF JoinRefresh
    <3>2. \A u \in Refreshing : u # t => flight'[u] = flight[u] /\ flight[u].at = "none"
      BY <1>1, <2>1, <3>1, Constants DEF FlightIsRegistered
    <3>3. flight'[t] = [at |-> "read", row |-> row, got |-> NoTokens]
      BY <1>1, <3>1
    <3> QED
      BY <3>1, <3>2, <3>3 DEF FlightIsRegistered, FlightKept
  <2>2. CASE inFlight # Nobody
    BY <1>1, <2>2 DEF JoinRefresh, FlightIsRegistered, FlightKept
  <2> QED
    BY <2>1, <2>2
<1>3. task[t] \in Calls
  BY <1>1
<1>4. task' = [task EXCEPT ![t] = [task[t] EXCEPT !.at = at, !.on = inFlight']]
  BY <1>1, <1>3 DEF JoinRefresh, Calls
<1>5. /\ \A u \in Tasks : u # t => task'[u] = task[u]
      /\ task'[t] = [task[t] EXCEPT !.at = at, !.on = inFlight']
  BY <1>1, <1>4
<1>6. /\ task'[t].at = at /\ task'[t].try = task[t].try
      /\ task'[t].tokens = task[t].tokens /\ task'[t].bad = task[t].bad
  BY <1>3, <1>5 DEF Calls
<1>7. LoginsKept
  BY <1>5, Constants DEF LoginsKept, LoginKept
<1> QED
  BY <1>2, <1>5, <1>6, <1>7 DEF FlightsKept

LEMMA SettleKept ==
    ASSUME IInv, NEW t \in Refreshing, flight[t].at # "none",
           NEW success \in BOOLEAN, NEW newRow, Settle(t, success, newRow)
    PROVE  /\ FlightsKept
           /\ \A u \in Refreshing : flight'[u].at = "none"
           /\ \A u \in Callbacks : task'[u] \in {task[u], NoTask}
           /\ LoginsKept
           /\ ~success => RequestsKept
<1>1. /\ flight \in [Refreshing -> Flights] /\ task \in [Tasks -> Calls]
      /\ FlightIsRegistered
  BY DEF IInv, TypeOK, RefreshInv
<1>2. \A u \in Refreshing : flight'[u].at = "none"
  BY <1>1, EmptyFlight DEF Settle, FlightIsRegistered
<1>3. FlightsKept
  BY <1>2, Constants DEF FlightsKept, FlightKept, FlightIsRegistered, Settle
<1>4. \A u \in Callbacks : task'[u] \in {task[u], NoTask}
  <2>1. \A u \in Callbacks : u \in Tasks /\ u \notin Requests
    BY Constants
  <2>2. \A u \in Callbacks : Resumed(u, success, newRow) = NoTask
    BY <2>1 DEF Resumed
  <2> QED
    BY <2>1, <2>2 DEF Settle
<1>5. ASSUME ~success
      PROVE  RequestsKept
  <2> SUFFICES ASSUME NEW u \in Requests PROVE RequestKept(u)
    BY DEF RequestsKept
  <2>1. u \in Tasks /\ task[u] \in Calls
    BY <1>1, Constants
  <2>2. task'[u] = IF Waits(u, t) THEN Resumed(u, success, newRow) ELSE task[u]
    BY <2>1 DEF Settle
  <2>3. \/ task'[u] \in {task[u], NoTask}
        \/ task[u].at = "refresh" /\ task'[u] = [task[u] EXCEPT !.at = "send", !.on = Nobody]
    <3>1. CASE task[u].at = "refresh"
      <4>1. Resumed(u, success, newRow) = [task[u] EXCEPT !.at = "send", !.on = Nobody]
        BY <1>5, <3>1 DEF Resumed
      <4> QED
        BY <2>2, <3>1, <4>1
    <3>2. CASE task[u].at # "refresh"
      <4>1. Resumed(u, success, newRow) = NoTask
        BY <1>5, <3>2 DEF Resumed
      <4> QED
        BY <2>2, <4>1
    <3> QED
      BY <3>1, <3>2
  <2>4. CASE task'[u] \in {task[u], NoTask}
    BY <2>4, EmptyTask DEF RequestKept
  <2>5. CASE task[u].at = "refresh" /\ task'[u] = [task[u] EXCEPT !.at = "send", !.on = Nobody]
    BY <2>1, <2>5 DEF RequestKept, Retrying, Calls
  <2> QED
    BY <2>3, <2>4, <2>5
<1>6. LoginsKept
  BY <1>4, EmptyTask DEF LoginsKept, LoginKept
<1> QED
  BY <1>2, <1>3, <1>4, <1>5, <1>6

LEMMA KeptStep ==
    ASSUME IInv, TypeOK', RowKept, FlightsKept, LoginsKept, RequestsKept
    PROVE  RefreshInv'
BY RowKeptStep, FlightsKeptStep, LoginsKeptStep, RequestsKeptStep DEF RefreshInv, RowKept

-----------------------------------------------------------------------------
(* The token sets of every step.                                           *)

LEMMA RefreshSavedStep ==
    ASSUME IInv, TypeOK', NEW t \in Refreshing, RefreshSaved(t)
    PROVE  RefreshInv'
<1> DEFINE got == flight[t].got
           newRow == WithTokens(row, got)
<1>1. /\ TypeOK /\ row \in Rows /\ stored \subseteq TokenSets
      /\ FlightIsNewest /\ LoginIsLater /\ StoredWasIssued
      /\ RequestHoldsStored /\ RetryHoldsAnother
  BY DEF IInv, RefreshInv, TypeOK
<1>2. /\ flight[t].at = "granted" /\ Settle(t, TRUE, newRow)
      /\ stored' = stored \cup {got} /\ granted' = granted
  BY DEF RefreshSaved, server
<1>3. Later(got, stored, granted) /\ got.grant = flight[t].row.tokens.grant
  BY <1>2 DEF IInv, RefreshInv, GotIsLater
<1>4. got \in TokenSets /\ got \notin stored /\ got # NoTokens
  <2>1. got \in TokenSets
    BY <1>3 DEF Later
  <2>2. got.acc \in Nat
    BY <2>1 DEF TokenSets
  <2>3. got \notin stored
    BY <1>3, <2>2 DEF Later
  <2> QED
    BY <2>1, <2>3, Constants
<1> HIDE DEF got
<1>5. newRow \in Rows /\ newRow.tokens = got
  BY <1>1, <1>4, TokensRow
<1> HIDE DEF newRow
<1>6. row'.tokens = got
  BY <1>1, <1>2, <1>5, SettleTypes
<1>7. \A s \in TokenSets : s.acc \in Nat /\ s.ref \in Nat
  BY DEF TokenSets, Issues
<1>8. Newest(got, stored')
  BY <1>1, <1>2, <1>3, <1>4, <1>7 DEF Newest, Later
<1>9. RowIsNewest'
  BY <1>6, <1>8 DEF RowIsNewest
<1>10. StoredWasIssued'
  BY <1>1, <1>2, <1>3 DEF StoredWasIssued, Later
<1>11. /\ FlightIsRegistered' /\ LoginsKept
       /\ \A u \in Refreshing : flight'[u].at = "none"
  BY <1>2, SettleKept DEF FlightsKept
<1>12. SentHasToken' /\ FlightIsNewest' /\ GotIsLater'
  BY <1>11 DEF SentHasToken, FlightIsNewest, GotIsLater
<1>13. \E s \in stored : s.grant = got.grant
  <2>1. flight[t].row.tokens.ref # 0 /\ flight[t].row.tokens \in MaybeTokens
    BY <1>1, <1>2 DEF IInv, RefreshInv, SentHasToken, TypeOK, Flights, Rows
  <2>2. flight[t].row.tokens \in stored
    BY <1>1, <1>2, <2>1, TokensWithRefresh DEF FlightIsNewest, Newest
  <2> QED
    BY <1>3, <2>2
<1>14. LoginIsLater'
  <2> SUFFICES ASSUME NEW u \in Callbacks, task'[u].at = "granted"
               PROVE  /\ Later(task'[u].tokens, stored', granted')
                      /\ \A s \in stored' : s.grant # task'[u].tokens.grant
                      /\ \A v \in Callbacks :
                            task'[v].at = "granted" /\ task'[v].tokens.grant = task'[u].tokens.grant
                               => v = u
    BY DEF LoginIsLater
  <2>1. /\ task'[u] = task[u] /\ task[u].at = "granted"
        /\ \A v \in Callbacks : task'[v].at = "granted" => task'[v] = task[v]
    BY <1>11 DEF LoginsKept, LoginKept
  <2>2. Later(task[u].tokens, stored, granted) /\ \A s \in stored : s.grant # task[u].tokens.grant
    BY <1>1, <2>1 DEF LoginIsLater
  <2>3. got.grant # task[u].tokens.grant
    BY <1>13, <2>2
  <2>4. Later(task[u].tokens, stored', granted')
    BY <1>2, <2>2, <2>3 DEF Later
  <2> QED
    BY <1>1, <1>2, <2>1, <2>2, <2>3, <2>4 DEF LoginIsLater
<1>15. ASSUME NEW u \in Requests
       PROVE  /\ task'[u].tokens \in stored' \cup {NoTokens} /\ task'[u].bad \in stored' \cup {NoTokens}
              /\ task'[u].try = 2 /\ task'[u].at \in Retrying => task'[u].tokens # task'[u].bad
  <2>1. u \in Tasks /\ task[u] \in Calls
    BY <1>1, Constants DEF TypeOK
  <2>2. CASE ~Waits(u, t)
    <3>1. task'[u] = task[u]
      BY <1>2, <2>1, <2>2 DEF Settle
    <3> QED
      BY <1>1, <1>2, <3>1 DEF RequestHoldsStored, RetryHoldsAnother, Retrying
  <2>3. CASE Waits(u, t)
    <3>1. task'[u] = Resumed(u, TRUE, newRow)
      BY <1>2, <2>1, <2>3 DEF Settle
    <3>2. task'[u].tokens = got /\ task'[u].bad = task[u].bad
      BY <1>5, <2>1, <3>1 DEF Resumed, Calls
    <3> QED
      BY <1>1, <1>2, <1>4, <3>2 DEF RequestHoldsStored
  <2> QED
    BY <2>2, <2>3
<1>16. RequestHoldsStored' /\ RetryHoldsAnother'
  BY <1>15 DEF RequestHoldsStored, RetryHoldsAnother, Retrying
<1> QED
  BY <1>9, <1>10, <1>11, <1>12, <1>14, <1>16 DEF RefreshInv

LEMMA RefreshInvRefresher ==
    ASSUME IInv, TypeOK', NEW t \in Refreshing, RefresherStep(t)
    PROVE  RefreshInv'
<1>1. /\ TypeOK /\ row \in Rows /\ flight[t] \in Flights
      /\ task \in [Tasks -> Calls]
  BY DEF IInv, TypeOK
<1>2. CASE NoRefreshToken(t)
  <2> DEFINE newRow == IF ~flight[t].row.there THEN row
                       ELSE WithStatus(row, IF flight[t].row.tokens = NoTokens
                                            THEN "needs_reauth" ELSE "no_refresh")
  <2>1. newRow \in Rows /\ newRow.tokens = row.tokens
    BY <1>1, StatusRow DEF Statuses
  <2> HIDE DEF newRow
  <2>2. flight[t].at # "none" /\ Settle(t, FALSE, newRow)
    BY <1>2 DEF NoRefreshToken, newRow
  <2>3. FlightsKept /\ LoginsKept /\ RequestsKept
    BY <2>2, SettleKept
  <2>4. row'.tokens = row.tokens
    BY <1>1, <2>1, <2>2, SettleTypes
  <2>5. RowKept
    BY <1>2, <2>4, RowUntouched DEF NoRefreshToken, server, history
  <2> QED
    BY <2>3, <2>5, KeptStep
<1>3. CASE NotRegistered(t)
  <2> DEFINE newRow == WithStatus(row, "needs_reauth")
  <2>1. newRow \in Rows /\ newRow.tokens = row.tokens
    BY <1>1, StatusRow DEF Statuses
  <2> HIDE DEF newRow
  <2>2. flight[t].at # "none" /\ Settle(t, FALSE, newRow)
    BY <1>3 DEF NotRegistered, newRow
  <2>3. FlightsKept /\ LoginsKept /\ RequestsKept
    BY <2>2, SettleKept
  <2>4. row'.tokens = row.tokens
    BY <1>1, <2>1, <2>2, SettleTypes
  <2>5. RowKept
    BY <1>3, <2>4, RowUntouched DEF NotRegistered, server, history
  <2> QED
    BY <2>3, <2>5, KeptStep
<1>4. CASE PresentRefreshToken(t)
  <2>1. /\ flight[t].at = "read" /\ flight[t].row.tokens.ref # 0
        /\ flight' = [flight EXCEPT ![t] = [flight[t] EXCEPT !.at = "sent"]]
        /\ inFlight' = inFlight
    BY <1>4 DEF PresentRefreshToken
  <2>2. FlightsKept
    <3>1. \A u \in Refreshing : u # t => flight'[u] = flight[u]
      BY <1>1, <2>1 DEF TypeOK
    <3>2. flight'[t].at = "sent" /\ flight'[t].row = flight[t].row
      BY <1>1, <2>1 DEF TypeOK, Flights
    <3> QED
      BY <2>1, <3>1, <3>2 DEF FlightsKept, FlightKept, FlightIsRegistered, IInv, RefreshInv
  <2>3. LoginsKept /\ RequestsKept
    BY <1>4, TasksUntouched DEF PresentRefreshToken
  <2>4. RowKept
    BY <1>4, RowUntouched DEF PresentRefreshToken, server, history
  <2> QED
    BY <2>2, <2>3, <2>4, KeptStep
<1>5. CASE RefreshFailed(t)
  <2> DEFINE newRow == WithStatus(row, IF flight[t].at = "refused" THEN "needs_reauth" ELSE "expiring")
  <2>1. newRow \in Rows /\ newRow.tokens = row.tokens
    BY <1>1, StatusRow DEF Statuses
  <2> HIDE DEF newRow
  <2>2. flight[t].at # "none" /\ Settle(t, FALSE, newRow)
    BY <1>5 DEF RefreshFailed, newRow
  <2>3. FlightsKept /\ LoginsKept /\ RequestsKept
    BY <2>2, SettleKept
  <2>4. row'.tokens = row.tokens
    BY <1>1, <2>1, <2>2, SettleTypes
  <2>5. RowKept
    BY <1>5, <2>4, RowUntouched DEF RefreshFailed, server, history
  <2> QED
    BY <2>3, <2>5, KeptStep
<1>6. CASE RefreshSaved(t)
  BY <1>6, RefreshSavedStep
<1> QED
  BY <1>2, <1>3, <1>4, <1>5, <1>6 DEF RefresherStep

LEMMA RefreshInvRedeem ==
    ASSUME IInv, TypeOK', NEW t \in Refreshing, Redeem(t)
    PROVE  RefreshInv'
<1> DEFINE r == flight[t].row
           g == r.tokens.grant
           n == granted[g].issued + 1
<1>1. /\ TypeOK /\ flight[t] \in Flights /\ r.tokens \in MaybeTokens
      /\ FlightIsRegistered /\ FlightIsNewest /\ StoredWasIssued
  BY DEF IInv, RefreshInv, TypeOK, Flights, Rows
<1>2. flight[t].at = "sent" /\ UNCHANGED <<row, inFlight, task, stored>>
  BY DEF Redeem, history
<1>3. r.tokens.ref # 0
  BY <1>2 DEF IInv, RefreshInv, SentHasToken
<1>4. /\ r.tokens \in TokenSets /\ Newest(r.tokens, stored) /\ g \in Logins
  BY <1>1, <1>2, <1>3, TokensWithRefresh DEF FlightIsNewest, TokenSets
<1> HIDE DEF r
<1>5. granted[g] \in Grants /\ granted[g].issued \in Nat /\ n \in Nat
  BY <1>1, <1>4 DEF TypeOK, Grants, Issues
<1>6. n \in Issues
  BY DEF Redeem, r
<1> HIDE DEF g, n
<1>7. PICK ref \in {n, r.tokens.ref}, answer \in {"granted", "failed"} :
         /\ granted' = [granted EXCEPT ![g].issued = n, ![g].ref = ref]
         /\ flight' = [flight EXCEPT
                          ![t].at = answer,
                          ![t].got = IF answer = "failed" THEN NoTokens
                                     ELSE [grant |-> g, acc |-> n, ref |-> ref]]
  BY DEF Redeem, r, g, n
<1> DEFINE got == IF answer = "failed" THEN NoTokens ELSE [grant |-> g, acc |-> n, ref |-> ref]
<1>8. /\ granted'[g].issued = n
      /\ \A i \in Logins : i # g => granted'[i] = granted[i]
  BY <1>1, <1>4, <1>5, <1>7 DEF TypeOK, Grants
<1>9. RowKept
  <2>1. \A i \in Logins : granted[i].issued \in Nat
    BY <1>1 DEF TypeOK, Grants, Issues
  <2>2. granted[g].issued <= n
    BY <1>5 DEF n
  <2> QED
    BY <1>2, <1>8, <2>1, <2>2 DEF RowKept
<1>10. RowIsNewest' /\ StoredWasIssued' /\ LoginIsLater' /\ RequestHoldsStored' /\ RetryHoldsAnother'
  BY <1>2, <1>9, RowKeptStep, TasksUntouched, LoginsKeptStep, RequestsKeptStep DEF RowKept
<1>11. /\ \A u \in Refreshing : u # t => flight'[u] = flight[u] /\ flight[u].at = "none"
       /\ flight'[t].at = answer /\ flight'[t].row = r /\ flight'[t].got = got
  <2> HIDE DEF got
  <2>1. flight' = [flight EXCEPT ![t] = [flight[t] EXCEPT !.at = answer, !.got = got]]
    BY <1>1, <1>7 DEF TypeOK, Flights, got
  <2>2. \A u \in Refreshing : u # t => flight'[u] = flight[u]
    BY <1>1, <2>1 DEF TypeOK
  <2>3. flight'[t] = [flight[t] EXCEPT !.at = answer, !.got = got]
    BY <1>1, <2>1 DEF TypeOK
  <2> QED
    BY <1>1, <1>2, <2>2, <2>3 DEF Flights, FlightIsRegistered, r
<1>12. answer = "granted" => Later(got, stored', granted') /\ got.grant = g
  <2> SUFFICES ASSUME answer = "granted"
               PROVE  Later(got, stored', granted') /\ got.grant = g
    OBVIOUS
  <2>1. got = [grant |-> g, acc |-> n, ref |-> ref]
    OBVIOUS
  <2>2. \A s \in stored : /\ s.acc \in Nat /\ s.ref \in Nat
                          /\ s.grant = g => /\ s.acc <= granted[g].issued
                                            /\ s.ref <= granted[g].issued
                                            /\ s.ref <= r.tokens.ref
    BY <1>1, <1>4 DEF TypeOK, TokenSets, Issues, StoredWasIssued, Newest, g
  <2>3. r.tokens.ref \in Nat /\ r.tokens.ref \in Issues /\ r.tokens.ref <= granted[g].issued
    BY <1>1, <1>4 DEF Newest, StoredWasIssued, TokenSets, Issues, g
  <2>4. n = granted[g].issued + 1 /\ n \in 1..MaxIssues
    BY <1>5, <1>6, Constants DEF n, Issues
  <2>5. ref \in Issues /\ ref \in Nat /\ ref <= n
    BY <1>5, <1>6, <2>3, <2>4
  <2>6. got \in TokenSets
    BY <1>4, <2>1, <2>4, <2>5 DEF TokenSets
  <2>7. \A s \in stored : s.grant = g => s.acc < n /\ s.ref <= ref
    BY <1>5, <2>2, <2>3, <2>4
  <2> QED
    BY <1>2, <1>8, <2>1, <2>5, <2>6, <2>7, <1>5 DEF Later
<1> HIDE DEF got
<1>13. FlightIsRegistered'
  BY <1>1, <1>2, <1>11 DEF FlightIsRegistered
<1>14. SentHasToken'
  BY <1>3, <1>11 DEF SentHasToken
<1>15. FlightIsNewest'
  BY <1>2, <1>4, <1>11 DEF FlightIsNewest
<1>16. GotIsLater'
  BY <1>11, <1>12 DEF GotIsLater, g
<1> QED
  BY <1>10, <1>13, <1>14, <1>15, <1>16 DEF RefreshInv

LEMMA RefreshInvServer ==
    ASSUME IInv, TypeOK', NEW t \in Refreshing, ServerAnswer(t)
    PROVE  RefreshInv'
<1>1. CASE Redeem(t)
  BY <1>1, RefreshInvRedeem
<1>2. ASSUME NEW at \in {"refused", "failed"}, flight[t].at = "sent",
             flight' = [flight EXCEPT ![t].at = at], UNCHANGED <<row, inFlight, task, granted, stored>>
      PROVE  RefreshInv'
  <2>1. /\ \A u \in Refreshing : u # t => flight'[u] = flight[u]
        /\ flight'[t].at = at /\ flight'[t].row = flight[t].row
    BY <1>2 DEF IInv, TypeOK, Flights
  <2>2. flight[t].row.tokens.ref # 0
    BY <1>2 DEF IInv, RefreshInv, SentHasToken
  <2>3. FlightsKept
    BY <1>2, <2>1, <2>2 DEF FlightsKept, FlightKept, FlightIsRegistered, IInv, RefreshInv
  <2> QED
    BY <1>2, <2>3, RowUntouched, TasksUntouched, KeptStep
<1>3. CASE Refuse(t)
  BY <1>2, <1>3 DEF Refuse, server, history
<1>4. CASE Unreachable(t)
  BY <1>2, <1>4 DEF Unreachable, server, history
<1> QED
  BY <1>1, <1>3, <1>4 DEF ServerAnswer

(* A step of one call that leaves the refreshes, the stored sets and the   *)
(* grants alone.                                                           *)
LEMMA OneTaskStep ==
    ASSUME IInv, TypeOK', NEW t \in Tasks, NEW call, task' = [task EXCEPT ![t] = call],
           t \in Callbacks => call.at # "granted",
           t \in Requests => /\ call.tokens \in {task[t].tokens, row.tokens, NoTokens}
                             /\ call.bad \in {task[t].bad, task[t].tokens, NoTokens}
                             /\ call.try = 2 /\ call.at \in Retrying =>
                                   /\ task[t].try = 2 /\ task[t].at \in Retrying
                                   /\ call.tokens = task[t].tokens /\ call.bad = task[t].bad,
           row'.tokens = row.tokens, RowKept, UNCHANGED <<inFlight, flight>>
    PROVE  RefreshInv'
<1>1. task'[t] = call /\ \A u \in Tasks : u # t => task'[u] = task[u]
  BY DEF IInv, TypeOK
<1>2. LoginsKept
  BY <1>1, Constants DEF LoginsKept, LoginKept
<1>3. RequestsKept
  BY <1>1, Constants DEF RequestsKept, RequestKept
<1> QED
  BY <1>2, <1>3, FlightsUntouched, KeptStep

LEMMA RefreshInvRequest ==
    ASSUME IInv, TypeOK', NEW t \in Requests, BeginRequest(t) \/ RequestStep(t) \/ UpstreamAnswer(t)
    PROVE  RefreshInv'
<1> USE DEF memory, server, history
<1>1. /\ TypeOK /\ row \in Rows /\ t \in Tasks /\ t \in Refreshing /\ t \notin Callbacks
      /\ task[t] \in Calls
  BY Constants DEF IInv, TypeOK
<1>2. ASSUME UNCHANGED <<inFlight, flight, granted, stored>>, row'.tokens = row.tokens,
             NEW call, task' = [task EXCEPT ![t] = call],
             call.tokens \in {task[t].tokens, row.tokens, NoTokens},
             call.bad \in {task[t].bad, task[t].tokens, NoTokens},
             call.try = 2 /\ call.at \in Retrying =>
                /\ task[t].try = 2 /\ task[t].at \in Retrying
                /\ call.tokens = task[t].tokens /\ call.bad = task[t].bad
      PROVE  RefreshInv'
  BY <1>1, <1>2, RowUntouched, OneTaskStep
<1>3. CASE BeginRequest(t)
  <2> DEFINE call == [NoTask EXCEPT !.at = "read", !.try = 1, !.tokens = row.tokens]
  <2>1. call.tokens = row.tokens /\ call.bad = NoTokens /\ call.try # 2
    BY DEF NoTask
  <2> HIDE DEF call
  <2>2. /\ task' = [task EXCEPT ![t] = call]
        /\ UNCHANGED <<inFlight, flight, granted, stored>> /\ row'.tokens = row.tokens
    BY <1>3 DEF BeginRequest, call
  <2> QED
    BY <1>2, <2>1, <2>2
<1>4. ASSUME task[t].at \in Retrying, task' = [task EXCEPT ![t].at = "send"],
             UNCHANGED <<inFlight, flight, granted, stored>>, row'.tokens = row.tokens
      PROVE  RefreshInv'
  <2> DEFINE call == [task[t] EXCEPT !.at = "send"]
  <2>1. /\ call.tokens = task[t].tokens /\ call.bad = task[t].bad
        /\ call.try = task[t].try /\ task' = [task EXCEPT ![t] = call]
    BY <1>1, <1>4 DEF Calls
  <2> HIDE DEF call
  <2> QED
    BY <1>2, <1>4, <2>1
<1>5. CASE SendFresh(t) \/ SendRefreshed(t)
  BY <1>4, <1>5 DEF SendFresh, SendRefreshed, Retrying
<1>6. CASE SendUnrefreshable(t)
  BY <1>1, <1>4, <1>6, StatusRow DEF SendUnrefreshable, Retrying, Statuses
<1>7. ASSUME NEW at \in {"refresh", "refresh401"}, JoinRefresh(t, at),
             at = "refresh" => task[t].at \in Retrying, UNCHANGED <<row, granted, stored>>
      PROVE  RefreshInv'
  <2>1. /\ FlightsKept /\ LoginsKept
        /\ \A u \in Tasks : u # t => task'[u] = task[u]
        /\ task'[t].at = at /\ task'[t].try = task[t].try
        /\ task'[t].tokens = task[t].tokens /\ task'[t].bad = task[t].bad
    BY <1>1, <1>7, JoinKept
  <2>2. RequestsKept
    BY <1>7, <2>1, Constants DEF RequestsKept, RequestKept, Retrying
  <2> QED
    BY <1>7, <2>1, <2>2, RowUntouched, KeptStep
<1>8. CASE RefreshFirst(t) \/ RefreshAfter401(t)
  BY <1>7, <1>8 DEF RefreshFirst, RefreshAfter401, Retrying
<1>9. CASE GiveUp(t) \/ Second401(t) \/ Answered(t)
  <2>1. row'.tokens = row.tokens
    BY <1>1, <1>9, StatusRow DEF GiveUp, Second401, Answered, Statuses
  <2>2. task' = [task EXCEPT ![t] = NoTask] /\ UNCHANGED <<inFlight, flight, granted, stored>>
    BY <1>9 DEF GiveUp, Second401, Answered
  <2>3. NoTask.tokens = NoTokens /\ NoTask.bad = NoTokens /\ NoTask.try # 2
    BY EmptyTask
  <2> QED
    BY <1>2, <2>1, <2>2, <2>3
<1>10. CASE First401(t)
  <2> DEFINE call == [task[t] EXCEPT !.at = "read401", !.bad = task[t].tokens, !.tokens = row.tokens]
  <2>1. call.at = "read401" /\ call.tokens = row.tokens /\ call.bad = task[t].tokens
    BY <1>1 DEF Calls
  <2>2. task' = [task EXCEPT ![t] = call] /\ UNCHANGED <<row, inFlight, flight, granted, stored>>
    BY <1>1, <1>10 DEF First401, TypeOK, Calls
  <2> HIDE DEF call
  <2> QED
    BY <1>2, <2>1, <2>2 DEF Retrying
<1> QED
  BY <1>3, <1>5, <1>6, <1>8, <1>9, <1>10 DEF RequestStep, UpstreamAnswer

LEMMA RefreshInvSweep ==
    ASSUME IInv, TypeOK', NEW t \in Refreshing,
           \/ t \in Sweeps /\ (BeginSweep(t) \/ SweepStep(t))
           \/ t \in Admins /\ ForceRefresh(t)
    PROVE  RefreshInv'
<1> USE DEF memory, server, history
<1>1. /\ TypeOK /\ row \in Rows /\ t \in Tasks /\ t \notin Callbacks /\ t \notin Requests
  BY Constants, OAuthAssumption DEF IInv, TypeOK
<1>2. CASE BeginSweep(t)
  <2> DEFINE call == [NoTask EXCEPT !.at = "read", !.tokens = row.tokens, !.status = row.status]
  <2>1. task' = [task EXCEPT ![t] = call] /\ UNCHANGED <<row, inFlight, flight, granted, stored>>
    BY <1>2 DEF BeginSweep
  <2> HIDE DEF call
  <2> QED
    BY <1>1, <2>1, RowUntouched, OneTaskStep
<1>3. CASE SweepUnrefreshable(t) \/ SweepNotDue(t)
  <2>1. row'.tokens = row.tokens
    BY <1>1, <1>3, StatusRow DEF SweepUnrefreshable, SweepNotDue, Statuses
  <2>2. task' = [task EXCEPT ![t] = NoTask] /\ UNCHANGED <<inFlight, flight, granted, stored>>
    BY <1>3 DEF SweepUnrefreshable, SweepNotDue
  <2> QED
    BY <1>1, <2>1, <2>2, RowUntouched, OneTaskStep
<1>4. CASE SweepRefresh(t) \/ ForceRefresh(t)
  <2>1. JoinRefresh(t, "refresh") /\ UNCHANGED <<row, granted, stored>>
    BY <1>4 DEF SweepRefresh, ForceRefresh
  <2>2. FlightsKept /\ LoginsKept /\ \A u \in Tasks : u # t => task'[u] = task[u]
    BY <2>1, JoinKept
  <2>3. RequestsKept
    BY <1>1, <2>2, Constants DEF RequestsKept, RequestKept
  <2> QED
    BY <2>1, <2>2, <2>3, RowUntouched, KeptStep
<1> QED
  BY <1>2, <1>3, <1>4 DEF SweepStep

LEMMA RefreshInvStart ==
    ASSUME IInv, TypeOK', NEW t \in Starters, BeginStart(t) \/ SaveDiscovery(t) \/ StartFails(t)
    PROVE  RefreshInv'
<1> USE DEF memory, server, history
<1>1. /\ TypeOK /\ row \in Rows /\ t \in Tasks /\ t \notin Callbacks /\ t \notin Requests
  BY Constants, OAuthAssumption DEF IInv, TypeOK
<1>2. CASE BeginStart(t) \/ StartFails(t)
  <2>1. PICK call : task' = [task EXCEPT ![t] = call]
    BY <1>2 DEF BeginStart, StartFails
  <2>2. UNCHANGED <<row, inFlight, flight, granted, stored>>
    BY <1>2 DEF BeginStart, StartFails
  <2> QED
    BY <1>1, <2>1, <2>2, RowUntouched, OneTaskStep
<1>3. CASE SaveDiscovery(t)
  <2>1. PICK i \in Logins :
          LET client == IF task[t].client = 0 THEN i ELSE task[t].client
          IN  /\ row' = WithClient(row, client)
              /\ granted' = [granted EXCEPT ![i].client = client]
    BY <1>3 DEF SaveDiscovery
  <2>2. row'.tokens = row.tokens
    BY <1>1, <2>1 DEF WithClient, Rows
  <2>3. \A g \in Logins : granted[g].issued \in Nat /\ granted'[g].issued = granted[g].issued
    BY <1>1, <2>1 DEF TypeOK, Grants, Issues
  <2>4. UNCHANGED <<inFlight, flight, stored>> /\ task' = [task EXCEPT ![t] = NoTask]
    BY <1>3 DEF SaveDiscovery
  <2>5. RowKept
    BY <2>2, <2>3, <2>4 DEF RowKept
  <2> QED
    BY <1>1, <2>2, <2>4, <2>5, OneTaskStep
<1> QED
  BY <1>2, <1>3

LEMMA LoginSavedStep ==
    ASSUME IInv, TypeOK', NEW t \in Callbacks, LoginSaved(t)
    PROVE  RefreshInv'
<1> DEFINE tokens == task[t].tokens
<1>1. /\ TypeOK /\ row \in Rows /\ stored \subseteq TokenSets /\ t \in Tasks
      /\ FlightIsRegistered /\ SentHasToken /\ FlightIsNewest /\ GotIsLater
      /\ LoginIsLater /\ StoredWasIssued /\ RequestHoldsStored /\ RetryHoldsAnother
  BY Constants DEF IInv, RefreshInv, TypeOK
<1>2. /\ task[t].at = "granted" /\ row' = WithTokens(row, tokens)
      /\ stored' = stored \cup {tokens} /\ task' = [task EXCEPT ![t] = NoTask]
      /\ UNCHANGED <<inFlight, flight, granted>>
  BY DEF LoginSaved, server
<1>3. Later(tokens, stored, granted) /\ \A s \in stored : s.grant # tokens.grant
  BY <1>1, <1>2 DEF LoginIsLater
<1>4. /\ tokens \in TokenSets /\ row'.tokens = tokens
      /\ tokens.acc \in Nat /\ tokens.ref \in Nat
  <2>1. tokens \in TokenSets
    BY <1>3 DEF Later
  <2> QED
    BY <1>1, <1>2, <2>1, TokensRow DEF TokenSets, Issues
<1>5. /\ task'[t] = NoTask /\ \A u \in Tasks : u # t => task'[u] = task[u]
  BY <1>1, <1>2 DEF TypeOK
<1> HIDE DEF tokens
<1>6. RowIsNewest'
  BY <1>2, <1>3, <1>4 DEF RowIsNewest, Newest
<1>7. StoredWasIssued'
  BY <1>1, <1>2, <1>3 DEF StoredWasIssued, Later
<1>8. FlightIsRegistered' /\ SentHasToken'
  BY <1>1, <1>2 DEF FlightIsRegistered, SentHasToken
<1>9. FlightIsNewest'
  BY <1>1, <1>2, <1>3 DEF FlightIsNewest, Newest
<1>10. GotIsLater'
  <2> SUFFICES ASSUME NEW u \in Refreshing, flight[u].at = "granted"
               PROVE  /\ Later(flight[u].got, stored', granted)
                      /\ flight[u].got.grant = flight[u].row.tokens.grant
    BY <1>2 DEF GotIsLater
  <2>1. Later(flight[u].got, stored, granted) /\ flight[u].got.grant = flight[u].row.tokens.grant
    BY <1>1 DEF GotIsLater
  <2>2. flight[u].row.tokens.ref # 0 /\ flight[u].row.tokens \in MaybeTokens
    BY <1>1 DEF SentHasToken, TypeOK, Flights, Rows
  <2>3. flight[u].row.tokens \in stored
    BY <1>1, <2>2, TokensWithRefresh DEF FlightIsNewest, Newest
  <2> QED
    BY <1>2, <1>3, <2>1, <2>3 DEF Later
<1>11. LoginIsLater'
  <2> SUFFICES ASSUME NEW u \in Callbacks, task'[u].at = "granted"
               PROVE  /\ Later(task'[u].tokens, stored', granted')
                      /\ \A s \in stored' : s.grant # task'[u].tokens.grant
                      /\ \A v \in Callbacks :
                            task'[v].at = "granted" /\ task'[v].tokens.grant = task'[u].tokens.grant
                               => v = u
    BY DEF LoginIsLater
  <2>1. u # t /\ task'[u] = task[u] /\ task[u].at = "granted"
    BY <1>5, EmptyTask, Constants
  <2>2. /\ Later(task[u].tokens, stored, granted)
        /\ \A s \in stored : s.grant # task[u].tokens.grant
        /\ \A v \in Callbacks :
              task[v].at = "granted" /\ task[v].tokens.grant = task[u].tokens.grant => v = u
    BY <1>1, <2>1 DEF LoginIsLater
  <2>3. task[u].tokens.grant # tokens.grant
    BY <1>2, <2>1, <2>2 DEF tokens
  <2>4. Later(task[u].tokens, stored', granted')
    BY <1>2, <2>2, <2>3 DEF Later
  <2>5. \A v \in Callbacks : task'[v].at = "granted" => task'[v] = task[v]
    BY <1>5, EmptyTask, Constants
  <2> QED
    BY <1>2, <2>1, <2>2, <2>3, <2>4, <2>5
<1>12. RequestHoldsStored' /\ RetryHoldsAnother'
  <2>1. \A u \in Requests : u # t /\ u \in Tasks
    BY Constants
  <2> QED
    BY <1>1, <1>2, <1>5, <2>1 DEF RequestHoldsStored, RetryHoldsAnother
<1> QED
  BY <1>6, <1>7, <1>8, <1>9, <1>10, <1>11, <1>12 DEF RefreshInv

LEMMA ExchangeGrantedStep ==
    ASSUME IInv, TypeOK', NEW t \in Callbacks, ExchangeGranted(t)
    PROVE  RefreshInv'
<1> DEFINE i == task[t].login
<1>1. /\ TypeOK /\ row \in Rows /\ t \in Tasks /\ LoginIsLater /\ StoredWasIssued
      /\ i \in Logins
  BY Constants DEF IInv, RefreshInv, TypeOK, ExchangeGranted, LoginIsKnown
<1>2. granted[i].issued = 0 /\ UNCHANGED <<row, inFlight, flight, stored>>
  BY DEF ExchangeGranted, history
<1> HIDE DEF i
<1>3. PICK ref \in {0, 1} :
         /\ granted' = [granted EXCEPT ![i].issued = 1, ![i].ref = ref]
         /\ task' = [task EXCEPT ![t].at = "granted",
                                 ![t].tokens = [grant |-> i, acc |-> 1, ref |-> ref]]
  BY DEF ExchangeGranted, i
<1> DEFINE tokens == [grant |-> i, acc |-> 1, ref |-> ref]
<1>4. tokens \in TokenSets
  BY <1>1, Constants DEF TokenSets
<1>5. granted'[i].issued = 1 /\ \A g \in Logins : g # i => granted'[g] = granted[g]
  BY <1>1, <1>3 DEF TypeOK, Grants
<1>6. /\ task'[t].at = "granted" /\ task'[t].tokens = tokens
      /\ \A u \in Tasks : u # t => task'[u] = task[u]
  <2>1. task' = [task EXCEPT ![t].at = "granted", ![t].tokens = tokens]
    BY <1>3
  <2> HIDE DEF tokens
  <2>2. task' = [task EXCEPT ![t] = [task[t] EXCEPT !.at = "granted", !.tokens = tokens]]
    BY <1>1, <2>1 DEF TypeOK, Calls
  <2>3. task[t] \in Calls
    BY <1>1 DEF TypeOK
  <2> QED
    BY <1>1, <2>2, <2>3 DEF TypeOK, Calls
<1>7. RowKept
  <2>1. \A g \in Logins : granted[g].issued \in Nat
    BY <1>1 DEF TypeOK, Grants, Issues
  <2> QED
    BY <1>2, <1>5, <2>1 DEF RowKept
<1>8. FlightsKept
  BY <1>2, FlightsUntouched
<1>9. RequestsKept
  <2>1. \A u \in Requests : u # t /\ u \in Tasks
    BY Constants
  <2> QED
    BY <1>6, <2>1 DEF RequestsKept, RequestKept
<1>10. \A s \in stored : s.grant # i
  <2>1. \A s \in stored : s.acc \in 1..MaxIssues /\ s.acc <= granted[s.grant].issued
    BY <1>1 DEF TypeOK, TokenSets, StoredWasIssued
  <2> QED
    BY <1>2, <2>1
<1>11. Later(tokens, stored', granted')
  BY <1>2, <1>4, <1>5, <1>10 DEF Later
<1>12. ASSUME NEW u \in Callbacks, u # t, task'[u].at = "granted"
       PROVE  /\ Later(task'[u].tokens, stored', granted')
              /\ \A s \in stored' : s.grant # task'[u].tokens.grant
              /\ task'[u].tokens.grant # i
              /\ \A v \in Callbacks : v # t /\ task'[v].at = "granted"
                    /\ task'[v].tokens.grant = task'[u].tokens.grant => v = u
  <2>1. task'[u] = task[u] /\ \A v \in Callbacks : v # t => task'[v] = task[v]
    BY <1>6, <1>12, Constants
  <2>2. /\ Later(task[u].tokens, stored, granted)
        /\ \A s \in stored : s.grant # task[u].tokens.grant
        /\ \A v \in Callbacks :
              task[v].at = "granted" /\ task[v].tokens.grant = task[u].tokens.grant => v = u
    BY <1>1, <1>12, <2>1 DEF LoginIsLater
  <2>3. task[u].tokens.grant # i
    <3>1. task[u].tokens.acc \in 1..MaxIssues
      BY <2>2 DEF Later, TokenSets
    <3> QED
      BY <1>2, <2>2, <3>1 DEF Later
  <2>4. Later(task[u].tokens, stored', granted')
    BY <1>7, <2>2, RowKeptStep
  <2> QED
    BY <1>2, <2>1, <2>2, <2>3, <2>4
<1>13. LoginIsLater'
  <2>1. tokens.grant = i
    OBVIOUS
  <2> HIDE DEF tokens
  <2> SUFFICES ASSUME NEW u \in Callbacks, task'[u].at = "granted"
               PROVE  /\ Later(task'[u].tokens, stored', granted')
                      /\ \A s \in stored' : s.grant # task'[u].tokens.grant
                      /\ \A v \in Callbacks :
                            task'[v].at = "granted" /\ task'[v].tokens.grant = task'[u].tokens.grant
                               => v = u
    BY DEF LoginIsLater
  <2>2. CASE u = t
    BY <1>2, <1>6, <1>10, <1>11, <1>12, <2>1, <2>2
  <2>3. CASE u # t
    BY <1>6, <1>12, <2>1, <2>3
  <2> QED
    BY <2>2, <2>3
<1> QED
  BY <1>7, <1>8, <1>9, <1>13, RowKeptStep, FlightsKeptStep, RequestsKeptStep DEF RefreshInv, RowKept

LEMMA RefreshInvLogin ==
    ASSUME IInv, TypeOK', NEW t \in Callbacks, LoginStep(t) \/ \E i \in Logins : BeginComplete(t, i)
    PROVE  RefreshInv'
<1> USE DEF memory, server, history
<1>1. /\ TypeOK /\ row \in Rows /\ t \in Tasks /\ t \notin Requests /\ task[t] \in Calls
  BY Constants DEF IInv, TypeOK
<1>2. ASSUME UNCHANGED <<row, inFlight, flight, granted, stored>>,
             NEW call, task' = [task EXCEPT ![t] = call], call.at # "granted"
      PROVE  RefreshInv'
  BY <1>1, <1>2, RowUntouched, OneTaskStep
<1>3. CASE CompleteUnregistered(t) \/ ExchangeFails(t)
  BY <1>2, <1>3, EmptyTask DEF CompleteUnregistered, ExchangeFails
<1>4. CASE PresentCode(t)
  <2> DEFINE call == [task[t] EXCEPT !.at = "exchange"]
  <2>1. call.at # "granted" /\ task' = [task EXCEPT ![t] = call]
    BY <1>1, <1>4 DEF PresentCode, Calls
  <2> HIDE DEF call
  <2> QED
    BY <1>2, <1>4, <2>1 DEF PresentCode
<1>5. CASE ExchangeGranted(t)
  BY <1>5, ExchangeGrantedStep
<1>6. CASE LoginSaved(t)
  BY <1>6, LoginSavedStep
<1>7. ASSUME NEW i \in Logins, BeginComplete(t, i)
      PROVE  RefreshInv'
  <2> DEFINE call == [NoTask EXCEPT !.at = "code", !.login = i, !.client = row.client]
  <2>1. call.at # "granted" /\ task' = [task EXCEPT ![t] = call]
    BY <1>7 DEF BeginComplete, NoTask
  <2> HIDE DEF call
  <2> QED
    BY <1>2, <1>7, <2>1 DEF BeginComplete
<1> QED
  BY <1>3, <1>4, <1>5, <1>6, <1>7 DEF LoginStep

LEMMA RefreshInvRest ==
    ASSUME IInv, TypeOK',
           \/ \E i \in Logins : Expire(i) \/ RevokeGrant(i)
           \/ \E tokens \in stored : Age(tokens)
           \/ Clear
           \/ Crash
    PROVE  RefreshInv'
<1> USE DEF memory, server, history
<1>1. TypeOK
  BY DEF IInv
<1>2. CASE \E i \in Logins : Expire(i)
  BY <1>2, RowUntouched, FlightsUntouched, TasksUntouched, KeptStep DEF Expire
<1>3. CASE \E i \in Logins : RevokeGrant(i)
  <2>1. UNCHANGED <<row, memory, history>>
    BY <1>3 DEF RevokeGrant
  <2>2. \A g \in Logins : granted[g].issued \in Nat /\ granted'[g].issued = granted[g].issued
    BY <1>1, <1>3 DEF RevokeGrant, TypeOK, Grants, Issues
  <2>3. RowKept
    BY <2>1, <2>2 DEF RowKept
  <2> QED
    BY <2>1, <2>3, FlightsUntouched, TasksUntouched, KeptStep
<1>4. CASE \E tokens \in stored : Age(tokens)
  BY <1>4, RowUntouched, FlightsUntouched, TasksUntouched, KeptStep DEF Age
<1>5. CASE Clear
  BY <1>5, EmptyRow, RowUntouched, FlightsUntouched, TasksUntouched, KeptStep DEF Clear
<1>6. CASE Crash
  <2>1. /\ RowKept
        /\ inFlight' = Nobody /\ flight' = [t \in Refreshing |-> NoFlight]
        /\ task' = [t \in Tasks |-> NoTask]
    BY <1>6, RowUntouched DEF Crash
  <2>2. FlightsKept
    BY <2>1, Constants, EmptyFlight DEF FlightsKept, FlightKept, FlightIsRegistered
  <2>3. LoginsKept /\ RequestsKept
    BY <2>1, Constants, EmptyTask DEF LoginsKept, LoginKept, RequestsKept, RequestKept
  <2> QED
    BY <2>1, <2>2, <2>3, KeptStep
<1> QED
  BY <1>2, <1>3, <1>4, <1>5, <1>6

LEMMA RefreshInvStep == IInv /\ [Next]_vars => RefreshInv'
<1> SUFFICES ASSUME IInv, [Next]_vars PROVE RefreshInv'
  OBVIOUS
<1>1. TypeOK'
  BY TypeStep
<1>2. CASE UNCHANGED vars
  BY <1>1, <1>2, RowUntouched, FlightsUntouched, TasksUntouched, KeptStep
     DEF vars, memory, server, history
<1>3. CASE Next
  BY <1>1, <1>3, RefreshInvRefresher, RefreshInvServer, RefreshInvRequest, RefreshInvSweep,
     RefreshInvStart, RefreshInvLogin, RefreshInvRest DEF Next, Refreshing
<1> QED
  BY <1>2, <1>3

-----------------------------------------------------------------------------
(* The authorization codes of every step.                                  *)

CodesKept ==
    /\ pending' \subseteq pending
    /\ presented' = presented
    /\ \A i \in Logins : granted[i].client # 0 => granted'[i].client # 0
    /\ \A t \in Callbacks :
          /\ task'[t].at = "code" => task[t].at = "code" /\ task'[t].login = task[t].login
          /\ task'[t].at = "exchange" => task[t].at = "exchange" /\ task'[t].login = task[t].login

LEMMA CodesKeptStep ==
    ASSUME IInv, CodesKept
    PROVE  CodeInv' /\ LoginIsKnown'
<1>1. /\ CodeInv /\ LoginIsKnown /\ pending \subseteq Logins /\ presented \subseteq Logins
  BY DEF IInv, TypeOK
<1>2. CodeInv'
  BY <1>1 DEF CodeInv, LoginIsKnown, CodesKept
<1>3. LoginIsKnown'
  BY <1>1 DEF LoginIsKnown, CodesKept
<1> QED
  BY <1>2, <1>3

(* A step in which no callback comes to hold a code.                       *)
LEMMA NoCodeStep ==
    ASSUME IInv, pending' \subseteq pending, UNCHANGED presented,
           \A i \in Logins : granted'[i].client = granted[i].client,
           \A t \in Callbacks : task'[t] = task[t] \/ task'[t].at \notin {"code", "exchange"}
    PROVE  CodeInv' /\ LoginIsKnown'
BY CodesKeptStep DEF CodesKept

LEMMA CodeRefreshing ==
    ASSUME IInv, NEW t \in Refreshing,
           \/ RefresherStep(t) \/ ServerAnswer(t)
           \/ t \in Requests /\ (BeginRequest(t) \/ RequestStep(t) \/ UpstreamAnswer(t))
           \/ t \in Sweeps /\ (BeginSweep(t) \/ SweepStep(t))
           \/ t \in Admins /\ ForceRefresh(t)
    PROVE  CodeInv' /\ LoginIsKnown'
<1> USE DEF memory, server, history
<1>1. /\ TypeOK /\ t \in Tasks /\ \A u \in Callbacks : u \in Tasks /\ u # t
  BY Constants DEF IInv, TypeOK
<1>2. pending' = pending /\ presented' = presented
  BY DEF RefresherStep, NoRefreshToken, NotRegistered, PresentRefreshToken, RefreshFailed, RefreshSaved,
         ServerAnswer, Redeem, Refuse, Unreachable, BeginRequest, RequestStep, UpstreamAnswer,
         SendFresh, SendUnrefreshable, RefreshFirst, SendRefreshed, GiveUp, RefreshAfter401,
         Answered, First401, Second401, BeginSweep, SweepStep, SweepUnrefreshable, SweepNotDue,
         SweepRefresh, ForceRefresh
<1>3. \A i \in Logins : granted'[i].client = granted[i].client
  <2>1. CASE Redeem(t)
    <3> DEFINE g == flight[t].row.tokens.grant
               n == granted[g].issued + 1
    <3>1. \E ref \in {n, flight[t].row.tokens.ref} :
             granted' = [granted EXCEPT ![g].issued = n, ![g].ref = ref]
      BY <2>1 DEF Redeem
    <3> QED
      BY <1>1, <3>1 DEF TypeOK, Grants
  <2>2. CASE ~Redeem(t)
    BY <2>2 DEF RefresherStep, NoRefreshToken, NotRegistered, PresentRefreshToken, RefreshFailed,
         RefreshSaved, ServerAnswer, Refuse, Unreachable, BeginRequest, RequestStep, UpstreamAnswer,
         SendFresh, SendUnrefreshable, RefreshFirst, SendRefreshed, GiveUp, RefreshAfter401,
         Answered, First401, Second401, BeginSweep, SweepStep, SweepUnrefreshable, SweepNotDue,
         SweepRefresh, ForceRefresh
  <2> QED
    BY <2>1, <2>2
<1>4. \A u \in Callbacks : task'[u] = task[u] \/ task'[u].at \notin {"code", "exchange"}
  <2>1. CASE \E success, newRow : Settle(t, success, newRow)
    <3>1. PICK success, newRow : Settle(t, success, newRow)
      BY <2>1
    <3>2. \A u \in Callbacks : Resumed(u, success, newRow) = NoTask
      BY Constants DEF Resumed
    <3> QED
      BY <1>1, <3>1, <3>2, EmptyTask DEF Settle
  <2>2. CASE RefresherStep(t)
    BY <2>1, <2>2 DEF RefresherStep, NoRefreshToken, NotRegistered, PresentRefreshToken,
       RefreshFailed, RefreshSaved
  <2>3. CASE ServerAnswer(t)
    BY <2>3 DEF ServerAnswer, Redeem, Refuse, Unreachable
  <2>4. CASE BeginRequest(t) \/ RequestStep(t) \/ UpstreamAnswer(t)
    BY <1>1, <2>4 DEF TypeOK, BeginRequest, RequestStep, UpstreamAnswer, SendFresh, SendUnrefreshable,
       RefreshFirst, SendRefreshed, GiveUp, RefreshAfter401, Answered, First401, Second401, JoinRefresh
  <2>5. CASE BeginSweep(t) \/ SweepStep(t) \/ ForceRefresh(t)
    BY <1>1, <2>5 DEF TypeOK, BeginSweep, SweepStep, SweepUnrefreshable, SweepNotDue, SweepRefresh,
       ForceRefresh, JoinRefresh
  <2> QED
    BY <2>2, <2>3, <2>4, <2>5
<1> QED
  BY <1>2, <1>3, <1>4, NoCodeStep

LEMMA CodeStart ==
    ASSUME IInv, NEW t \in Starters, BeginStart(t) \/ SaveDiscovery(t) \/ StartFails(t)
    PROVE  CodeInv' /\ LoginIsKnown'
<1> USE DEF memory, server, history
<1>1. /\ TypeOK /\ CodeInv /\ LoginIsKnown
      /\ t \in Tasks /\ \A u \in Callbacks : u \in Tasks /\ u # t
  BY Constants DEF IInv, TypeOK
<1>2. presented' = presented /\ \A u \in Callbacks : task'[u] = task[u]
  BY <1>1 DEF BeginStart, SaveDiscovery, StartFails, TypeOK
<1>3. CASE BeginStart(t) \/ StartFails(t)
  BY <1>2, <1>3, NoCodeStep DEF BeginStart, StartFails
<1>4. CASE SaveDiscovery(t)
  <2>1. PICK i \in Logins :
          LET client == IF task[t].client = 0 THEN i ELSE task[t].client
          IN  /\ NextLogin(i)
              /\ granted' = [granted EXCEPT ![i].client = client]
              /\ pending' = pending \cup {i}
    BY <1>4 DEF SaveDiscovery
  <2>2. i # 0 /\ granted[i].client = 0
    BY <2>1 DEF Logins, NextLogin
  <2>3. granted'[i].client # 0 /\ \A j \in Logins : j # i => granted'[j] = granted[j]
    BY <1>1, <2>1, <2>2 DEF TypeOK, Grants
  <2>4. i \notin presented /\ pending \subseteq Logins /\ presented \subseteq Logins
    BY <1>1, <2>2 DEF CodeInv, TypeOK
  <2>5. LoginIsKnown'
    BY <1>1, <1>2 DEF LoginIsKnown
  <2>6. \A j \in pending' \cup presented' : granted'[j].client # 0
    BY <1>1, <1>2, <2>1, <2>3, <2>4 DEF CodeInv
  <2>7. pending' \cap presented' = {}
    BY <1>1, <1>2, <2>1, <2>4 DEF CodeInv
  <2>8. ASSUME NEW u \in Callbacks, task'[u].at = "code"
        PROVE  /\ task'[u].login \notin pending' \cup presented'
               /\ granted'[task'[u].login].client # 0
               /\ \A v \in Callbacks : task'[v].at = "code" /\ task'[v].login = task'[u].login => v = u
    <3>1. /\ task'[u] = task[u] /\ task[u].at = "code" /\ task[u].login \in Logins
          /\ granted[task[u].login].client # 0 /\ task[u].login \notin pending \cup presented
      BY <1>1, <1>2, <2>8 DEF LoginIsKnown, CodeInv
    <3>2. task[u].login # i
      BY <2>2, <3>1
    <3> QED
      BY <1>1, <1>2, <2>1, <2>3, <3>1, <3>2 DEF CodeInv
  <2> QED
    BY <2>5, <2>6, <2>7, <2>8 DEF CodeInv
<1> QED
  BY <1>3, <1>4

LEMMA CodeLogin ==
    ASSUME IInv, NEW t \in Callbacks, LoginStep(t) \/ \E i \in Logins : BeginComplete(t, i)
    PROVE  CodeInv' /\ LoginIsKnown'
<1> USE DEF memory, server, history
<1>1. /\ TypeOK /\ CodeInv /\ LoginIsKnown /\ t \in Tasks /\ task[t] \in Calls
      /\ pending \subseteq Logins /\ presented \subseteq Logins
      /\ \A u \in Callbacks : u \in Tasks
  BY Constants DEF IInv, TypeOK
<1>2. CASE CompleteUnregistered(t) \/ ExchangeFails(t) \/ LoginSaved(t)
  <2>1. \A u \in Callbacks : task'[u] = task[u] \/ task'[u].at \notin {"code", "exchange"}
    BY <1>1, <1>2, EmptyTask DEF CompleteUnregistered, ExchangeFails, LoginSaved, TypeOK
  <2> QED
    BY <1>2, <2>1, NoCodeStep DEF CompleteUnregistered, ExchangeFails, LoginSaved
<1>3. CASE ExchangeGranted(t)
  <2> DEFINE i == task[t].login
  <2>1. PICK ref \in {0, 1} :
          /\ granted' = [granted EXCEPT ![i].issued = 1, ![i].ref = ref]
          /\ task' = [task EXCEPT ![t].at = "granted",
                                  ![t].tokens = [grant |-> i, acc |-> 1, ref |-> ref]]
    BY <1>3 DEF ExchangeGranted
  <2> DEFINE tokens == [grant |-> i, acc |-> 1, ref |-> ref]
  <2>2. \A j \in Logins : granted'[j].client = granted[j].client
    BY <1>1, <2>1 DEF TypeOK, Grants
  <2>3. task' = [task EXCEPT ![t] = [task[t] EXCEPT !.at = "granted", !.tokens = tokens]]
    BY <1>1, <2>1 DEF TypeOK, Calls
  <2> HIDE DEF tokens
  <2>4. \A u \in Callbacks : task'[u] = task[u] \/ task'[u].at \notin {"code", "exchange"}
    BY <1>1, <2>3 DEF TypeOK, Calls
  <2> QED
    BY <1>3, <2>2, <2>4, NoCodeStep DEF ExchangeGranted
<1>4. CASE PresentCode(t)
  <2> DEFINE i == task[t].login
  <2>1. /\ task[t].at = "code" /\ presented' = presented \cup {i}
        /\ task' = [task EXCEPT ![t] = [task[t] EXCEPT !.at = "exchange"]]
        /\ UNCHANGED <<pending, granted>>
    BY <1>4 DEF PresentCode
  <2>2. /\ task'[t].at = "exchange" /\ task'[t].login = i
        /\ \A u \in Callbacks : u # t => task'[u] = task[u]
    BY <1>1, <2>1 DEF TypeOK, Calls
  <2>3. /\ i \in Logins /\ i \notin pending /\ granted[i].client # 0
        /\ \A u \in Callbacks : task[u].at = "code" /\ task[u].login = i => u = t
    BY <1>1, <2>1 DEF LoginIsKnown, CodeInv
  <2> HIDE DEF i
  <2>4. LoginIsKnown'
    BY <1>1, <2>2, <2>3 DEF LoginIsKnown
  <2>5. \A j \in pending' \cup presented' : granted'[j].client # 0
    BY <1>1, <2>1, <2>3 DEF CodeInv
  <2>6. pending' \cap presented' = {}
    BY <1>1, <2>1, <2>3 DEF CodeInv
  <2>7. ASSUME NEW u \in Callbacks, task'[u].at = "code"
        PROVE  /\ task'[u].login \notin pending' \cup presented'
               /\ granted'[task'[u].login].client # 0
               /\ \A v \in Callbacks : task'[v].at = "code" /\ task'[v].login = task'[u].login => v = u
    <3>1. u # t /\ task'[u] = task[u]
      BY <2>2, <2>7
    <3>2. \A v \in Callbacks : task'[v].at = "code" => task'[v] = task[v]
      BY <2>2
    <3> QED
      BY <1>1, <2>1, <2>3, <2>7, <3>1, <3>2 DEF CodeInv
  <2> QED
    BY <2>4, <2>5, <2>6, <2>7 DEF CodeInv
<1>5. ASSUME NEW i \in Logins, BeginComplete(t, i)
      PROVE  CodeInv' /\ LoginIsKnown'
  <2> DEFINE call == [NoTask EXCEPT !.at = "code", !.login = i, !.client = row.client]
  <2>1. call.at = "code" /\ call.login = i
    BY DEF NoTask
  <2> HIDE DEF call
  <2>2. /\ i \in pending /\ pending' = pending \ {i} /\ task' = [task EXCEPT ![t] = call]
        /\ UNCHANGED <<granted, presented>>
    BY <1>5 DEF BeginComplete, call
  <2>3. task'[t] = call /\ \A u \in Callbacks : u # t => task'[u] = task[u]
    BY <1>1, <2>2 DEF TypeOK
  <2>4. granted[i].client # 0 /\ i \notin presented
    BY <1>1, <2>2 DEF CodeInv
  <2>5. LoginIsKnown'
    BY <1>1, <2>1, <2>3 DEF LoginIsKnown
  <2>6. \A j \in pending' \cup presented' : granted'[j].client # 0
    BY <1>1, <2>2 DEF CodeInv
  <2>7. pending' \cap presented' = {}
    BY <1>1, <2>2 DEF CodeInv
  <2>8. ASSUME NEW u \in Callbacks, task'[u].at = "code"
        PROVE  /\ task'[u].login \notin pending' \cup presented'
               /\ granted'[task'[u].login].client # 0
               /\ \A v \in Callbacks : task'[v].at = "code" /\ task'[v].login = task'[u].login => v = u
    <3>1. \A v \in Callbacks : v # t /\ task'[v].at = "code" => task'[v].login # i
      BY <1>1, <2>2, <2>3 DEF CodeInv
    <3>2. CASE u = t
      BY <2>1, <2>2, <2>3, <2>4, <3>1, <3>2
    <3>3. CASE u # t
      BY <1>1, <2>1, <2>2, <2>3, <2>8, <3>1, <3>3 DEF CodeInv
    <3> QED
      BY <3>2, <3>3
  <2> QED
    BY <2>5, <2>6, <2>7, <2>8 DEF CodeInv
<1> QED
  BY <1>2, <1>3, <1>4, <1>5 DEF LoginStep

LEMMA CodeStep == IInv /\ [Next]_vars => CodeInv' /\ LoginIsKnown'
<1> SUFFICES ASSUME IInv, [Next]_vars PROVE CodeInv' /\ LoginIsKnown'
  OBVIOUS
<1> USE DEF memory, server, history
<1>1. CASE UNCHANGED vars
  BY <1>1, NoCodeStep DEF vars
<1>2. ASSUME NEW i \in Logins, Expire(i) \/ RevokeGrant(i)
      PROVE  CodeInv' /\ LoginIsKnown'
  <2>1. \A j \in Logins : granted'[j].client = granted[j].client
    BY <1>2 DEF Expire, RevokeGrant, IInv, TypeOK, Grants
  <2> QED
    BY <1>2, <2>1, NoCodeStep DEF Expire, RevokeGrant
<1>3. ASSUME NEW tokens \in stored, Age(tokens)
      PROVE  CodeInv' /\ LoginIsKnown'
  BY <1>3, NoCodeStep DEF Age
<1>4. CASE Clear
  BY <1>4, NoCodeStep DEF Clear
<1>5. CASE Crash
  BY <1>5, Constants, EmptyTask, NoCodeStep DEF Crash
<1>6. CASE Next
  BY <1>2, <1>3, <1>4, <1>5, <1>6, CodeRefreshing, CodeStart, CodeLogin DEF Next, Refreshing
<1> QED
  BY <1>1, <1>6

-----------------------------------------------------------------------------
(* The results.                                                            *)

LEMMA InvariantInit == Init => IInv
<1> SUFFICES ASSUME Init PROVE IInv
  OBVIOUS
<1>1. TypeOK
  BY Constants, EmptyRow, EmptyFlight, EmptyTask DEF Init, TypeOK, Grants
<1>2. RefreshInv
  BY Constants, EmptyRow, EmptyFlight, EmptyTask
     DEF Init, RefreshInv, FlightIsRegistered, SentHasToken, RowIsNewest, StoredWasIssued,
         FlightIsNewest, GotIsLater, LoginIsLater, RequestHoldsStored, RetryHoldsAnother
<1>3. CodeInv /\ LoginIsKnown
  BY Constants, EmptyTask DEF Init, CodeInv, LoginIsKnown
<1> QED
  BY <1>1, <1>2, <1>3 DEF IInv

\* The inductive invariant holds in every reachable state, for any number of callers, logins
\* and issued token sets.
THEOREM Invariant == Spec => []IInv
<1>1. Init => IInv
  BY InvariantInit
<1>2. IInv /\ [Next]_vars => IInv'
  BY TypeStep, RefreshInvStep, CodeStep DEF IInv
<1> QED
  BY <1>1, <1>2, PTL DEF Spec

\* The row, the suspended calls and what the authorization server knows keep their types.
THEOREM TypeCorrect == Spec => []TypeOK
BY Invariant, PTL DEF IInv

\* refresher.ts: of all the callers that want a refresh of one server, at most one performs it.
THEOREM OneRefresh == Spec => []OneRefreshAtATime
<1>1. IInv => OneRefreshAtATime
  BY DEF IInv, RefreshInv, FlightIsRegistered, OneRefreshAtATime
<1> QED
  BY <1>1, Invariant, PTL

\* The refresher never sends a refresh token whose rotated successor is stored already.
THEOREM NoReplay == Spec => []TradedInIsNeverPresented
<1>1. IInv => TradedInIsNeverPresented
  <2> SUFFICES ASSUME IInv, NEW t \in Refreshing, flight[t].at = "sent", NEW s \in stored,
                      s.grant = flight[t].row.tokens.grant
               PROVE  s.ref <= flight[t].row.tokens.ref
    BY DEF TradedInIsNeverPresented
  <2>1. flight[t].row.tokens.ref # 0 /\ flight[t].row.tokens \in MaybeTokens
    BY DEF IInv, RefreshInv, SentHasToken, TypeOK, Flights, Rows
  <2>2. Newest(flight[t].row.tokens, stored)
    BY <2>1, TokensWithRefresh DEF IInv, RefreshInv, FlightIsNewest
  <2> QED
    BY <2>2 DEF Newest
<1> QED
  BY <1>1, Invariant, PTL

\* http.ts: the one retry after a 401 carries another token set than the rejected one.
THEOREM RetryIsAnother == Spec => []RetryPresentsAnotherToken
<1>1. IInv => RetryPresentsAnotherToken
  BY DEF IInv, RefreshInv, RetryHoldsAnother, RetryPresentsAnotherToken
<1> QED
  BY <1>1, Invariant, PTL

\* flow.ts: however often an authorization callback is delivered, its code is sent at most once.
THEOREM CodeOnce == Spec => []CodeIsPresentedOnce
<1>1. IInv => CodeIsPresentedOnce
  BY DEF IInv, CodeInv, CodeIsPresentedOnce
<1> QED
  BY <1>1, Invariant, PTL

-----------------------------------------------------------------------------
(* The row is a token ledger: only a refresh and a login store, and what   *)
(* they store is newer than everything stored of its grant.                *)

LEMMA StoreStep ==
    ASSUME NEW tokens, Later(tokens, stored, granted), row'.tokens = tokens,
           stored' = stored \cup {tokens}
    PROVE  Ledger!Next
BY DEF Later, Ledger!Next, Ledger!Store, Ledger!Newer

LEMMA RefresherLedger ==
    ASSUME IInv, NEW t \in Refreshing, RefresherStep(t)
    PROVE  Ledger!Next \/ UNCHANGED <<row.tokens, stored>>
<1>1. TypeOK /\ row \in Rows
  BY DEF IInv, TypeOK
<1>2. CASE RefreshSaved(t)
  <2> DEFINE got == flight[t].got
             newRow == WithTokens(row, got)
  <2>1. Later(got, stored, granted)
    BY <1>2 DEF RefreshSaved, IInv, RefreshInv, GotIsLater
  <2>2. newRow \in Rows /\ newRow.tokens = got
    BY <1>1, <2>1, TokensRow DEF Later
  <2> HIDE DEF newRow
  <2>3. Settle(t, TRUE, newRow) /\ stored' = stored \cup {got}
    BY <1>2 DEF RefreshSaved, newRow
  <2>4. row'.tokens = got
    BY <1>1, <2>2, <2>3, SettleTypes
  <2> QED
    BY <2>1, <2>3, <2>4, StoreStep
<1>3. ASSUME NEW status \in Statuses, Settle(t, FALSE, WithStatus(row, status)), UNCHANGED stored
      PROVE  UNCHANGED <<row.tokens, stored>>
  <2>1. WithStatus(row, status) \in Rows /\ WithStatus(row, status).tokens = row.tokens
    BY <1>1, StatusRow
  <2> QED
    BY <1>1, <1>3, <2>1, SettleTypes
<1>4. CASE NoRefreshToken(t)
  <2>1. UNCHANGED stored
    BY <1>4 DEF NoRefreshToken, history
  <2>2. CASE flight[t].row.there
    BY <1>3, <1>4, <2>1, <2>2 DEF NoRefreshToken, Statuses
  <2>3. CASE ~flight[t].row.there
    <3>1. Settle(t, FALSE, row)
      BY <1>4, <2>3 DEF NoRefreshToken
    <3> QED
      BY <1>1, <2>1, <3>1, SettleTypes
  <2> QED
    BY <2>2, <2>3
<1>5. CASE NotRegistered(t)
  BY <1>3, <1>5 DEF NotRegistered, history, Statuses
<1>6. CASE PresentRefreshToken(t)
  BY <1>6 DEF PresentRefreshToken, history
<1>7. CASE RefreshFailed(t)
  BY <1>3, <1>7 DEF RefreshFailed, history, Statuses
<1> QED
  BY <1>2, <1>4, <1>5, <1>6, <1>7 DEF RefresherStep

LEMMA LedgerStep == IInv /\ [Next]_vars => [Ledger!Next]_<<row.tokens, stored>>
<1> SUFFICES ASSUME IInv, [Next]_vars
             PROVE  Ledger!Next \/ UNCHANGED <<row.tokens, stored>>
  OBVIOUS
<1> USE DEF memory, server, history
<1>1. TypeOK /\ row \in Rows
  BY DEF IInv, TypeOK
<1>2. \A status \in Statuses : WithStatus(row, status).tokens = row.tokens
  BY <1>1, StatusRow
<1>3. CASE UNCHANGED vars
  BY <1>3 DEF vars
<1>4. ASSUME NEW t \in Refreshing, RefresherStep(t) \/ ServerAnswer(t)
      PROVE  Ledger!Next \/ UNCHANGED <<row.tokens, stored>>
  BY <1>4, RefresherLedger DEF ServerAnswer, Redeem, Refuse, Unreachable
<1>5. ASSUME NEW t \in Requests, BeginRequest(t) \/ RequestStep(t) \/ UpstreamAnswer(t)
      PROVE  UNCHANGED <<row.tokens, stored>>
  BY <1>2, <1>5 DEF BeginRequest, RequestStep, UpstreamAnswer, SendFresh, SendUnrefreshable,
     RefreshFirst, SendRefreshed, GiveUp, RefreshAfter401, Answered, First401, Second401, Statuses
<1>6. ASSUME NEW t, BeginSweep(t) \/ SweepStep(t) \/ ForceRefresh(t)
      PROVE  UNCHANGED <<row.tokens, stored>>
  BY <1>2, <1>6 DEF BeginSweep, SweepStep, SweepUnrefreshable, SweepNotDue, SweepRefresh, ForceRefresh,
     Statuses
<1>7. ASSUME NEW t \in Starters, BeginStart(t) \/ SaveDiscovery(t) \/ StartFails(t)
      PROVE  UNCHANGED <<row.tokens, stored>>
  <2>1. \A client : WithClient(row, client).tokens = row.tokens
    BY <1>1 DEF WithClient, Rows
  <2> QED
    BY <1>7, <2>1 DEF BeginStart, SaveDiscovery, StartFails
<1>8. ASSUME NEW t \in Callbacks, LoginStep(t) \/ \E i \in Logins : BeginComplete(t, i)
      PROVE  Ledger!Next \/ UNCHANGED <<row.tokens, stored>>
  <2>1. CASE LoginSaved(t)
    <3>1. Later(task[t].tokens, stored, granted)
      BY <2>1 DEF LoginSaved, IInv, RefreshInv, LoginIsLater
    <3>2. row'.tokens = task[t].tokens /\ stored' = stored \cup {task[t].tokens}
      BY <1>1, <2>1, <3>1, TokensRow DEF LoginSaved, Later
    <3> QED
      BY <3>1, <3>2, StoreStep
  <2>2. CASE ~LoginSaved(t)
    BY <1>8, <2>2 DEF LoginStep, CompleteUnregistered, PresentCode, ExchangeGranted, ExchangeFails,
       BeginComplete
  <2> QED
    BY <2>1, <2>2
<1>9. ASSUME \/ \E i \in Logins : Expire(i) \/ RevokeGrant(i)
             \/ \E tokens \in stored : Age(tokens)
             \/ Clear
             \/ Crash
      PROVE  Ledger!Next \/ UNCHANGED <<row.tokens, stored>>
  BY <1>9, EmptyRow DEF Expire, RevokeGrant, Age, Clear, Crash, Ledger!Next, Ledger!Forget
<1>10. CASE Next
  BY <1>4, <1>5, <1>6, <1>7, <1>8, <1>9, <1>10 DEF Next
<1> QED
  BY <1>3, <1>10

\* The token store implements the ledger: every token set is stored once, and within a grant
\* in the order in which the authorization server issued them.
THEOREM Refinement == Spec => StoredOnceInOrder
<1>1. Init => Ledger!Init
  BY EmptyRow DEF Init, Ledger!Init
<1>2. IInv /\ [Next]_vars => [Ledger!Next]_<<row.tokens, stored>>
  BY LedgerStep
<1> QED
  BY <1>1, <1>2, Invariant, PTL DEF Spec, StoredOnceInOrder, Ledger!Spec
=============================================================================
