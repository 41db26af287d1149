------------------------------- MODULE AuthServer -------------------------------
(***************************************************************************)
(* The gateway's own authorization server (apps/gateway/src/auth/          *)
(* downstream/as): the clients that register, the requests they make, the  *)
(* consent the administrator gives, the codes and the tokens, in the three *)
(* tables of the database that hold them, and the cache of clients.        *)
(*                                                                         *)
(* An action is the code between two awaits.  A grant is the identity of a *)
(* request and of the code and the tokens that come of it; the database    *)
(* knows it as a random id, the hash of a code or the hashes of a token    *)
(* pair, which nobody guesses.  Time is counted in ticks.                  *)
(***************************************************************************)
EXTENDS Naturals, FiniteSets

CONSTANTS
    Clients,                                    \* ids that registration may draw
    Grants, Resources, Scopes,
    Calls,                                      \* requests to /oauth in flight
    Nobody,                                     \* no client
    CodeTTL, RequestTTL, AccessTTL, RefreshTTL, UnusedTTL,
    MaxTime, MaxTurns                           \* bounds, for TLC

ASSUME AuthServerAssumption ==
    /\ Nobody \notin Clients
    /\ {CodeTTL, RequestTTL, AccessTTL, RefreshTTL, UnusedTTL, MaxTime, MaxTurns} \subseteq Nat

VARIABLES
    now,
    clients,    \* client -> its row in oauth_clients
    rows,       \* oauth_auth_requests, oauth_auth_codes and oauth_tokens
    turns,      \* grant -> how many token pairs it has had
    drawn,      \* grants that have been asked for (ids are never drawn twice)
    consent,    \* what the administrator approved
    cache,      \* clients in SqliteClientsStore.cache
    calls       \* what the requests in flight have got to

vars == <<now, clients, rows, turns, drawn, consent, cache, calls>>

-----------------------------------------------------------------------------
NoRow == [at |-> "none", since |-> 0, used |-> FALSE]
Idle == [at |-> "idle", client |-> Nobody, grant |-> {}]

Row == [in : {"requests", "codes", "tokens"}, grant : Grants, turn : 0..MaxTurns,
        client : Clients, resource : Resources, scopes : SUBSET Scopes,
        created : 0..MaxTime, expires : Nat]

TypeOK ==
    /\ now \in 0..MaxTime
    /\ clients \in [Clients -> [at : {"none", "row", "gone"}, since : 0..MaxTime, used : BOOLEAN]]
    /\ rows \subseteq Row
    /\ turns \in [Grants -> 0..MaxTurns]
    /\ drawn \subseteq Grants
    /\ consent \subseteq [grant : Grants, client : Clients, resource : Resources,
                          scopes : SUBSET Scopes, at : 0..MaxTime]
    /\ cache \subseteq Clients
    /\ calls \in [Calls -> [at : {"idle", "fill", "known", "challenged"},
                            client : Clients \cup {Nobody}, grant : SUBSET Grants]]
    /\ \A row \in rows : /\ row.grant \in drawn
                         /\ row.in = "tokens" => row.turn = turns[row.grant]

Init ==
    /\ now = 0
    /\ clients = [c \in Clients |-> NoRow] /\ rows = {}
    /\ turns = [g \in Grants |-> 0] /\ drawn = {} /\ consent = {}
    /\ cache = {} /\ calls = [k \in Calls |-> Idle]

Of(table, g) == {row \in rows : row.in = table /\ row.grant = g}
Registered(c) == clients[c].at = "row"
Ends(k) == calls' = [calls EXCEPT ![k] = Idle]

-----------------------------------------------------------------------------
(***************************************************************************)
(* Pruning: clients that were never given a token go after a day, and what *)
(* references a client goes with it.                                       *)
(***************************************************************************)
Unused == {c \in Clients : Registered(c) /\ ~clients[c].used /\ clients[c].since + UnusedTTL < now}
Without(gone) == [c \in Clients |-> IF c \in gone THEN [clients[c] EXCEPT !.at = "gone"] ELSE clients[c]]
Lapsed(row) == IF row.in = "tokens" THEN row.expires + RefreshTTL < now ELSE row.expires < now
KeptRows == {row \in rows : ~Lapsed(row) /\ row.client \notin Unused}

Prune ==                \* the hourly timer of index.ts
    /\ rows' = KeptRows
    /\ clients' = Without(Unused)
    /\ UNCHANGED <<now, turns, drawn, consent, cache, calls>>

\* POST /register: prune, then a row under an id of its own.
Register(c) ==
    /\ clients[c].at = "none"
    /\ rows' = KeptRows
    /\ clients' = [Without(Unused) EXCEPT ![c] = [at |-> "row", since |-> now, used |-> FALSE]]
    /\ cache' = cache \ {c}
    /\ UNCHANGED <<now, turns, drawn, consent, calls>>

\* Mutant: the foreign keys do not cascade.
RemoveClientOnly(c) ==
    /\ Registered(c)
    /\ clients' = Without({c})
    /\ cache' = cache \ {c}
    /\ UNCHANGED <<now, rows, turns, drawn, consent, calls>>

\* DELETE /clients/:clientId.  The foreign keys cascade.
RemoveClient(c) ==
    /\ Registered(c)
    /\ clients' = Without({c})
    /\ rows' = {row \in rows : row.client # c}
    /\ cache' = cache \ {c}
    /\ UNCHANGED <<now, turns, drawn, consent, calls>>

-----------------------------------------------------------------------------
(***************************************************************************)
(* getClient: from the cache, or from the row, which takes a decryption.   *)
(***************************************************************************)
GetClient(k, c) ==
    /\ calls[k].at = "idle" /\ clients[c].at # "none"
    /\ \/ /\ c \in cache
          /\ calls' = [calls EXCEPT ![k] = [Idle EXCEPT !.at = "known", !.client = c]]
       \/ /\ c \notin cache /\ Registered(c)
          /\ calls' = [calls EXCEPT ![k] = [Idle EXCEPT !.at = "fill", !.client = c]]
    /\ UNCHANGED <<now, clients, rows, turns, drawn, consent, cache>>

Fill(k) ==
    /\ calls[k].at = "fill"
    /\ cache' = cache \cup {calls[k].client}
    /\ calls' = [calls EXCEPT ![k].at = "known"]
    /\ UNCHANGED <<now, clients, rows, turns, drawn, consent>>

\* A wrong secret, a wrong verifier, a bad parameter: the handler answers an error.
TurnedDown(k) ==
    /\ calls[k].at # "idle"
    /\ Ends(k)
    /\ UNCHANGED <<now, clients, rows, turns, drawn, consent, cache>>

(***************************************************************************)
(* authorize, approve and deny.                                            *)
(***************************************************************************)
\* It prunes, the caller too if it has not been used for long; then the insert is
\* refused by the foreign key, for a client the cache still knows.
Authorize(k, g, resource, scopes) ==
    LET c == calls[k].client
        found == Registered(c) /\ c \notin Unused
        request == [in |-> "requests", grant |-> g, turn |-> 0, client |-> c, resource |-> resource,
                    scopes |-> scopes, created |-> now, expires |-> now + RequestTTL]
    IN /\ calls[k].at = "known" /\ g \notin drawn
       /\ Ends(k)
       /\ clients' = Without(Unused)
       /\ rows' = IF found THEN KeptRows \cup {request} ELSE KeptRows
       /\ drawn' = IF found THEN drawn \cup {g} ELSE drawn
       /\ UNCHANGED <<now, turns, consent, cache>>

\* Mutant: the request stays.
ApproveKeeps(g) ==
    \E request \in Of("requests", g) :
        /\ now < request.expires
        /\ rows' = rows \cup {[request EXCEPT !.in = "codes", !.created = now, !.expires = now + CodeTTL]}
        /\ consent' = consent \cup {[grant |-> g, client |-> request.client, resource |-> request.resource,
                                     scopes |-> request.scopes, at |-> now]}
        /\ UNCHANGED <<now, clients, turns, drawn, cache, calls>>

\* In a transaction the code takes the place of the request.
Approve(g) ==
    \E request \in Of("requests", g) :
        /\ now < request.expires
        /\ rows' = (rows \ {request}) \cup
               {[request EXCEPT !.in = "codes", !.created = now, !.expires = now + CodeTTL]}
        /\ consent' = consent \cup {[grant |-> g, client |-> request.client, resource |-> request.resource,
                                     scopes |-> request.scopes, at |-> now]}
        /\ UNCHANGED <<now, clients, turns, drawn, cache, calls>>

Deny(g) ==
    /\ Of("requests", g) # {}
    /\ rows' = rows \ Of("requests", g)
    /\ UNCHANGED <<now, clients, turns, drawn, consent, cache, calls>>

-----------------------------------------------------------------------------
(***************************************************************************)
(* The token endpoint.                                                     *)
(***************************************************************************)
\* Mutant: the code does not expire.
RedeemableLate(row, c) == row.client = c

\* The row of a code is good for client c.
Redeemable(row, c) == row.client = c /\ now < row.expires

\* challengeForAuthorizationCode; the verifier is then compared with the challenge.
Challenge(k, g) ==
    /\ calls[k].at = "known"
    /\ \E row \in Of("codes", g) : Redeemable(row, calls[k].client)
    /\ calls' = [calls EXCEPT ![k].at = "challenged", ![k].grant = {g}]
    /\ UNCHANGED <<now, clients, rows, turns, drawn, consent, cache>>

\* The tokens issued on row, for a grant of this age.
Issued(row, scopes, created) ==
    [row EXCEPT !.in = "tokens", !.turn = turns[row.grant] + 1, !.scopes = scopes,
                !.created = created, !.expires = now + AccessTTL]

Counts(g) == turns[g] < MaxTurns /\ turns' = [turns EXCEPT ![g] = @ + 1]
Touch(c) == clients' = [clients EXCEPT ![c].used = TRUE]

\* exchangeAuthorizationCode reads the code once more; a caller who is too late finds none.
ExchangeCode(k) ==
    /\ calls[k].at = "challenged"
    /\ \E g \in calls[k].grant : \E row \in Of("codes", g) :
          /\ Redeemable(row, calls[k].client)
          /\ rows' = (rows \ {row}) \cup {Issued(row, row.scopes, now)}
          /\ Counts(g) /\ Touch(row.client)
    /\ Ends(k)
    /\ UNCHANGED <<now, drawn, consent, cache>>

\* Mutant: every refresh begins another month.
ExchangeRefreshRenews(k, g, asked) ==
    /\ calls[k].at = "known"
    /\ \E row \in Of("tokens", g) :
          /\ row.client = calls[k].client
          /\ now < row.created + RefreshTTL
          /\ asked \subseteq row.scopes
          /\ rows' = (rows \ {row}) \cup
                 {Issued(row, IF asked = {} THEN row.scopes ELSE asked, now)}
          /\ Counts(g) /\ Touch(row.client)
    /\ Ends(k)
    /\ UNCHANGED <<now, drawn, consent, cache>>

\* exchangeRefreshToken, whose row a replaced token no longer finds.
ExchangeRefresh(k, g, asked) ==
    /\ calls[k].at = "known"
    /\ \E row \in Of("tokens", g) :
          /\ row.client = calls[k].client
          /\ now < row.created + RefreshTTL
          /\ asked \subseteq row.scopes
          /\ rows' = (rows \ {row}) \cup
                 {Issued(row, IF asked = {} THEN row.scopes ELSE asked, row.created)}
          /\ Counts(g) /\ Touch(row.client)
    /\ Ends(k)
    /\ UNCHANGED <<now, drawn, consent, cache>>

\* A grant past its time is deleted when its refresh token is presented.
RefreshExpired(k, g) ==
    /\ calls[k].at = "known"
    /\ \E row \in Of("tokens", g) :
          /\ row.client = calls[k].client
          /\ row.created + RefreshTTL <= now
          /\ rows' = rows \ {row}
    /\ Ends(k)
    /\ UNCHANGED <<now, clients, turns, drawn, consent, cache>>

\* revokeToken, by either token of the pair.
Revoke(k, g) ==
    /\ calls[k].at = "known"
    /\ rows' = {row \in rows : ~(row.in = "tokens" /\ row.grant = g /\ row.client = calls[k].client)}
    /\ Ends(k)
    /\ UNCHANGED <<now, clients, turns, drawn, consent, cache>>

\* verifyAccessToken and LocalTokenVerifier: the token opens an endpoint.
Opens(row, audience) == row.in = "tokens" /\ now < row.expires /\ row.resource = audience

-----------------------------------------------------------------------------
Tick ==
    /\ now < MaxTime /\ now' = now + 1
    /\ UNCHANGED <<clients, rows, turns, drawn, consent, cache, calls>>

\* The gateway dies at any step: the tables stay.  exchangeAuthorizationCode deletes
\* the code and issues the tokens in two statements.
Crash ==
    /\ cache' = {} /\ calls' = [k \in Calls |-> Idle]
    /\ \/ UNCHANGED rows
       \/ \E k \in Calls : /\ calls[k].at = "challenged"
                           /\ rows' = rows \ UNION {Of("codes", g) : g \in calls[k].grant}
    /\ UNCHANGED <<now, clients, turns, drawn, consent>>

CallStep(k) ==
    \/ Fill(k) \/ TurnedDown(k) \/ ExchangeCode(k)
    \/ \E c \in Clients : GetClient(k, c)
    \/ \E g \in Grants : \/ Challenge(k, g) \/ RefreshExpired(k, g) \/ Revoke(k, g)
                         \/ \E asked \in SUBSET Scopes :
                               \/ ExchangeRefresh(k, g, asked)
                               \/ \E resource \in Resources : Authorize(k, g, resource, asked)

Next ==
    \/ Prune \/ Tick \/ Crash
    \/ \E c \in Clients : Register(c) \/ RemoveClient(c)
    \/ \E g \in Grants : Approve(g) \/ Deny(g)
    \/ \E k \in Calls : CallStep(k)

Spec == Init /\ [][Next]_vars

-----------------------------------------------------------------------------
(***************************************************************************)
(* Properties.                                                             *)
(***************************************************************************)
\* A grant has one credential at a time: the request, the code or the latest
\* token pair, whichever callers race to redeem it or to rotate it
\* (docs/endpoints.md: refresh tokens "rotate on every use").
OneCredentialPerGrant == TypeOK /\ \A one, other \in rows : one.grant = other.grant => one = other

\* A code is good for, and a token opens, what the administrator has consented to:
\* the resource and the client asked for, no more scopes, and not for longer,
\* whoever presents it and however often the token is rotated.
GoodFor(row, audience) == Opens(row, audience) \/ (row.in = "codes" /\ row.resource = audience)
Covers(ok, row, audience) ==
    /\ ok.grant = row.grant /\ ok.client = row.client /\ ok.resource = audience
    /\ row.scopes \subseteq ok.scopes
    /\ row.created <= ok.at + CodeTTL
    /\ row.in = "tokens" => now < ok.at + CodeTTL + RefreshTTL + AccessTTL
ConsentCovers == \A row \in rows, audience \in Resources :
    GoodFor(row, audience) => \E ok \in consent : Covers(ok, row, audience)

\* docs/endpoints.md: "Revoke a client from Settings and its tokens die with it", and
\* with its codes, although a handler in flight still has the client from the cache.
RevokedTokensDie == \A row \in rows : Registered(row.client)

(***************************************************************************)
(* The tables implement the ledger: a credential is never brought back.    *)
(***************************************************************************)
LedgerStage == [requests |-> "asked", codes |-> "approved", tokens |-> "live"]
LedgerEntry(row) ==
    [at |-> LedgerStage[row.in], client |-> row.client, resource |-> row.resource, scopes |-> row.scopes,
     turn |-> row.turn, born |-> IF row.in = "tokens" THEN row.created ELSE 0]
LedgerOf == [g \in Grants |->
    IF g \notin drawn THEN [at |-> "none"]
    ELSE IF \A row \in rows : row.grant # g THEN [at |-> "over"]
    ELSE LedgerEntry(CHOOSE row \in rows : row.grant = g)]
Ledger == INSTANCE GrantLedger WITH ledger <- LedgerOf
GrantsFollowTheLedger == Ledger!Spec
=============================================================================
