-------------------------------- MODULE Endpoint --------------------------------
(***************************************************************************)
(* A request at an endpoint, up to the point where it is served            *)
(* (apps/gateway/src/server/mcp.ts, server/ratelimit.ts, auth/downstream): *)
(* the endpoint and the rows of the presented key are read when it         *)
(* arrives, and used after the verification of the key or of the token of  *)
(* an external issuer, while the administration edits and deletes          *)
(* endpoints and keys.  A key is created by two steps, around its hashing. *)
(*                                                                         *)
(* Time counts in windows' fractions.  Left out: the origin and method     *)
(* checks, the protocol revision, what is served (modules Namespaces and   *)
(* Pool) and the gateway's own tokens (module AuthServer).                 *)
(*                                                                         *)
(* Bounds: MaxNow, MaxWaiting (requests in verification at once), MaxEdits *)
(* (changes by the administration), MaxFaults (requests to the issuer, for *)
(* its metadata or its keys, that fail).                                   *)
(***************************************************************************)
EXTENDS Naturals, FiniteSets, Functions

CONSTANTS
    Endpoints,     \* ids, never used twice
    Slugs, Keys,   \* paths of endpoints; API keys
    Jwts,          \* tokens of the external issuer
    Audience,      \* token -> the slug it was issued for
    Address,       \* the client address
    Nothing,       \* no credentials; no endpoint; no row
    Requests,      \* requests, each of which comes once
    Modes, Limits, Expiries,  \* values the administration chooses from
    InitialSlug,   \* slugs of the endpoints there are at first
    Window, PruneEvery,       \* 60 s and 512 in the code
    MaxNow, MaxWaiting, MaxEdits, MaxFaults

ASSUME EndpointAssumption ==
    /\ Nothing \notin Endpoints \cup Keys \cup Jwts /\ Keys \cap Jwts = {}
    /\ DOMAIN InitialSlug \subseteq Endpoints /\ IsInjective(InitialSlug)
    /\ \A e \in DOMAIN InitialSlug : InitialSlug[e] \in Slugs
    /\ Audience \in [Jwts -> Slugs]
    /\ Modes \subseteq {"none", "api_key", "oauth", "any"} /\ Modes # {}
    /\ Limits \subseteq Nat /\ Limits # {} /\ Expiries \subseteq Nat
    /\ Window \in Nat \ {0} /\ PruneEvery \in Nat \ {0}
    /\ MaxNow \in Nat /\ MaxWaiting \in Nat /\ MaxEdits \in Nat /\ MaxFaults \in Nat

VARIABLES
    endpoints,     \* table endpoints
    keys,          \* table api_keys
    making,        \* keys whose creation awaits the hash: key -> [endpoint, expires]
    req,           \* requests
    metadata,      \* the verifier's promise of the issuer's metadata
    limiters,      \* EndpointLimiter: endpoint -> its limit and buckets
    now, edits, faults,
    issuedFor,     \* history: key -> the endpoint it was created for, Nothing for all
    granted,       \* history: endpoint -> quota key -> requests let through before each time
                   \*          since its limiter was made
    ever, always   \* history: the request has been, or was all the time, entitled

tables == <<endpoints, keys, making, issuedFor>>
limits == <<limiters, granted>>
vars == <<tables, req, metadata, limits, now, edits, faults, ever, always>>

-----------------------------------------------------------------------------
Never == MaxNow + 1
Credentials == Keys \cup Jwts \cup {Nothing}
QuotaKeys == Keys \cup Jwts \cup {Address}
Endpoint == [life : {"there", "gone"}, slug : Slugs, mode : Modes, limit : Limits,
             enabled : BOOLEAN]
NoEndpoint == [life |-> "no"]
NewEndpoint(slug, mode, limit) ==
    [life |-> "there", slug |-> slug, mode |-> mode, limit |-> limit, enabled |-> TRUE]
Row == [endpoint : Endpoints \cup {Nothing}, expires : Expiries \cup {Never}]
NoBucket == [count |-> 0, resetAt |-> 0]
Waiting == {"key", "issuer", "metadata"}
NoRequest == [at |-> "idle", slug |-> Nothing, cred |-> Nothing, endpoint |-> Nothing,
              mode |-> "none", limit |-> 0, row |-> Nothing]
NoLimiter == [perMinute |-> 0, buckets |-> [k \in QuotaKeys |-> NoBucket], ops |-> 0]
Times == 0..(MaxNow + 1)
NoneGranted == [k \in QuotaKeys |-> [t \in Times |-> 0]]

TypeOK ==
    /\ endpoints \in [Endpoints -> Endpoint \cup {NoEndpoint}]
    /\ keys \in [Keys -> Row \cup {Nothing}] /\ making \in [Keys -> Row \cup {Nothing}]
    /\ \A q \in Requests :
          /\ req[q].at \in Waiting \cup {"idle", "served", "limited", "refused", "unverified"}
          /\ req[q].slug \in Slugs \cup {Nothing} /\ req[q].cred \in Credentials
          /\ req[q].endpoint \in Endpoints \cup {Nothing} /\ req[q].row \in Row \cup {Nothing}
          /\ req[q].at \in Waiting => req[q].endpoint # Nothing /\ req[q].mode # "none"
    /\ metadata \in {"none", "pending", "ok", "failed"}
    /\ \A e \in Endpoints :
          /\ limiters[e].perMinute \in Limits \cup {0} /\ limiters[e].ops \in 0..(PruneEvery - 1)
          /\ \A k \in QuotaKeys : limiters[e].buckets[k].count <= limiters[e].perMinute
    /\ now \in 0..MaxNow /\ edits \in 0..MaxEdits /\ faults \in 0..MaxFaults
    \* the constraints of the tables: a slug is in use once, a key's endpoint is there
    /\ \A e, f \in Endpoints :
          endpoints[e].life = "there" /\ endpoints[f].life = "there"
              /\ endpoints[e].slug = endpoints[f].slug => e = f
    /\ \A k \in Keys : keys[k] # Nothing /\ keys[k].endpoint # Nothing
          => endpoints[keys[k].endpoint].life = "there"

Init ==
    /\ \E mode \in Modes, limit \in Limits :
          endpoints = [e \in Endpoints |->
              IF e \in DOMAIN InitialSlug THEN NewEndpoint(InitialSlug[e], mode, limit)
              ELSE NoEndpoint]
    /\ keys = [k \in Keys |-> Nothing] /\ making = [k \in Keys |-> Nothing]
    /\ req = [q \in Requests |-> NoRequest] /\ metadata = "none"
    /\ limiters = [e \in Endpoints |-> NoLimiter]
    /\ now = 0 /\ edits = 0 /\ faults = 0
    /\ issuedFor = [k \in Keys |-> Nothing]
    /\ granted = [e \in Endpoints |-> NoneGranted]
    /\ ever = [q \in Requests |-> TRUE] /\ always = [q \in Requests |-> FALSE]

-----------------------------------------------------------------------------
(***************************************************************************)
(* The rate limiter.                                                       *)
(***************************************************************************)
\* Mutant: the pruning drops the buckets that still count.
PrunedLive(buckets) ==
    [k \in QuotaKeys |-> IF buckets[k].resetAt > now THEN NoBucket ELSE buckets[k]]

Pruned(buckets) ==
    [k \in QuotaKeys |-> IF buckets[k].resetAt <= now THEN NoBucket ELSE buckets[k]]

\* RateLimiter.check
Open(bucket) == bucket = NoBucket \/ bucket.resetAt <= now
Passes(bucket, limit) == Open(bucket) \/ bucket.count < limit
Counted(bucket) ==
    IF Open(bucket) THEN [count |-> 1, resetAt |-> now + Window]
    ELSE [bucket EXCEPT !.count = @ + 1]

\* One more request has been let through by now.
OneMore(counts) == [t \in Times |-> IF t > now THEN counts[t] + 1 ELSE counts[t]]

\* EndpointLimiter.check: another limit than the last one makes another limiter, and no
\* limit drops it.
Check(e, limit, k) ==
    LET same == limiters[e].perMinute = limit
        ops == ((IF same THEN limiters[e].ops ELSE 0) + 1) % PruneEvery
        kept == IF same THEN limiters[e].buckets ELSE NoLimiter.buckets
        buckets == IF ops = 0 THEN Pruned(kept) ELSE kept
        passes == Passes(buckets[k], limit)
    IN  IF limit = 0
        THEN [passes |-> TRUE, limiter |-> NoLimiter, granted |-> NoneGranted]
        ELSE [passes |-> passes,
              limiter |-> [perMinute |-> limit, ops |-> ops,
                           buckets |-> IF passes THEN [buckets EXCEPT ![k] = Counted(@)]
                                       ELSE buckets],
              granted |-> LET last == IF same THEN granted[e] ELSE NoneGranted
                          IN  IF passes THEN [last EXCEPT ![k] = OneMore(@)] ELSE last]

-----------------------------------------------------------------------------
(***************************************************************************)
(* A request.                                                              *)
(***************************************************************************)
Ends(q, outcome) == req' = [req EXCEPT ![q] = [NoRequest EXCEPT !.at = outcome]]

Reject(q, outcome) ==
    /\ Ends(q, outcome) /\ ever' = [ever EXCEPT ![q] = FALSE]
    /\ UNCHANGED <<metadata, limits, always>>

Refuse(q) == Reject(q, "refused")

\* r is let in: the limit of the endpoint as it was when r arrived applies.
Admit(q, r, quotaKey) ==
    LET checked == Check(r.endpoint, r.limit, quotaKey)
    IN  /\ Ends(q, IF checked.passes THEN "served" ELSE "limited")
        /\ always' = [always EXCEPT ![q] = FALSE]
        /\ limiters' = [limiters EXCEPT ![r.endpoint] = checked.limiter]
        /\ granted' = [granted EXCEPT ![r.endpoint] = checked.granted]
        /\ UNCHANGED <<metadata, ever>>

AllowsKey(mode) == mode \in {"api_key", "any"}
AllowsOauth(mode) == mode \in {"oauth", "any"}
BySlug(slug) == {e \in Endpoints : endpoints[e].life = "there" /\ endpoints[e].slug = slug}
RowOf(cred) == IF cred \in Keys THEN keys[cred] ELSE Nothing

\* What r presents opens the endpoint, as things stand.
Opens(r, e) ==
    \/ /\ AllowsKey(endpoints[e].mode) /\ r.cred \in Keys /\ keys[r.cred] # Nothing
       /\ issuedFor[r.cred] \in {Nothing, e} /\ keys[r.cred].expires >= now
    \/ AllowsOauth(endpoints[e].mode) /\ r.cred \in Jwts /\ Audience[r.cred] = r.slug

Presents(r) == \E e \in BySlug(r.slug) : endpoints[e].enabled /\ Opens(r, e)
Entitled(r) ==
    \E e \in BySlug(r.slug) : endpoints[e].enabled /\ (endpoints[e].mode = "none" \/ Opens(r, e))

\* The request arrives: the endpoint is read, and the rows with the key's prefix.
Read(slug, cred, e) ==
    [NoRequest EXCEPT !.slug = slug, !.cred = cred, !.endpoint = e, !.mode = endpoints[e].mode,
                      !.limit = endpoints[e].limit]

ArriveInVain(q) ==
    /\ req[q].at = "idle"
    /\ \E slug \in Slugs : \A e \in BySlug(slug) :
          endpoints[e].enabled => endpoints[e].mode # "none"   \* and no credentials
    /\ Refuse(q) /\ UNCHANGED <<tables, now, edits, faults>>

ArriveOpen(q) ==
    /\ req[q].at = "idle"
    /\ \E slug \in Slugs : \E e \in BySlug(slug) :
          /\ endpoints[e].enabled /\ endpoints[e].mode = "none"
          /\ Admit(q, Read(slug, Nothing, e), Address)
    /\ UNCHANGED <<tables, now, edits, faults>>

Arrive(q) ==
    /\ req[q].at = "idle"
    /\ Cardinality({p \in Requests : req[p].at \in Waiting}) < MaxWaiting
    /\ \E slug \in Slugs, cred \in Keys \cup Jwts : \E e \in BySlug(slug) :
          LET r == Read(slug, cred, e)
          IN  /\ endpoints[e].enabled /\ r.mode # "none"
              /\ req' = [req EXCEPT ![q] =
                    IF AllowsKey(r.mode) THEN [r EXCEPT !.at = "key", !.row = RowOf(cred)]
                    ELSE [r EXCEPT !.at = "issuer"]]
              /\ ever' = [ever EXCEPT ![q] = Entitled(r)]
              /\ always' = [always EXCEPT ![q] = Presents(r)]
    /\ UNCHANGED <<tables, metadata, limits, now, edits, faults>>

\* The key has been verified against the hash of the row.
KeyVerified(q) ==
    LET r == req[q]
    IN  /\ r.at = "key"
        /\ \/ /\ r.row = Nothing /\ ~AllowsOauth(r.mode) /\ Refuse(q)
           \/ /\ r.row = Nothing /\ AllowsOauth(r.mode)
              /\ req' = [req EXCEPT ![q].at = "issuer"]
              /\ UNCHANGED <<metadata, limits, ever, always>>
           \/ /\ r.row # Nothing
              /\ IF r.row.expires >= now /\ r.row.endpoint \in {Nothing, r.endpoint}
                 THEN Admit(q, r, r.cred)
                 ELSE Refuse(q)
        /\ UNCHANGED <<tables, now, edits, faults>>

\* verify: the metadata of the issuer are asked for once.
AskIssuer(q) ==
    /\ req[q].at = "issuer" /\ req' = [req EXCEPT ![q].at = "metadata"]
    /\ metadata' = IF metadata = "none" THEN "pending" ELSE metadata
    /\ UNCHANGED <<tables, limits, now, edits, faults, ever, always>>

IssuerAnswers ==
    /\ metadata = "pending"
    /\ \/ metadata' = "ok" /\ UNCHANGED faults
       \/ metadata' = "failed" /\ faults < MaxFaults /\ faults' = faults + 1
    /\ UNCHANGED <<tables, req, limits, now, edits, ever, always>>

\* The token's signature and audience are verified with the keys of the issuer.
TokenVerified(q) ==
    LET r == req[q]
    IN  /\ r.at = "metadata" /\ metadata = "ok"
        /\ IF r.cred \in Jwts /\ Audience[r.cred] = r.slug
           THEN Admit(q, r, r.cred) ELSE Refuse(q)
        /\ UNCHANGED <<tables, now, edits, faults>>

\* The one discovery has failed, and its rejected promise is kept; or a fetch of the keys
\* fails, which the verification needs when it has none or they are too old.
IssuerFails(q) ==
    /\ req[q].at = "metadata"
    /\ \/ metadata = "failed" /\ UNCHANGED faults
       \/ metadata = "ok" /\ faults < MaxFaults /\ faults' = faults + 1
    /\ Reject(q, "unverified") /\ UNCHANGED <<tables, now, edits>>

-----------------------------------------------------------------------------
(***************************************************************************)
(* The administration.                                                     *)
(***************************************************************************)
Edit == edits < MaxEdits /\ edits' = edits + 1
Aside == UNCHANGED <<req, metadata, limits, now, faults>>

\* What has been changed may open an endpoint for a request, or close it.
History ==
    /\ ever' = [q \in Requests |-> ever[q] \/ (req[q].at \in Waiting /\ Entitled(req[q])')]
    /\ always' = [q \in Requests |-> always[q] /\ (req[q].at \in Waiting => Presents(req[q])')]

CreateEndpoint(e) ==
    /\ endpoints[e].life = "no" /\ Edit
    /\ \E slug \in Slugs, mode \in Modes, limit \in Limits :
          /\ BySlug(slug) = {}
          /\ endpoints' = [endpoints EXCEPT ![e] = NewEndpoint(slug, mode, limit)]
    /\ UNCHANGED <<keys, making, issuedFor>> /\ Aside

PatchEndpoint(e) ==
    /\ endpoints[e].life = "there" /\ Edit
    /\ \/ \E slug \in Slugs : BySlug(slug) = {} /\ endpoints' = [endpoints EXCEPT ![e].slug = slug]
       \/ \E mode \in Modes : endpoints' = [endpoints EXCEPT ![e].mode = mode]
       \/ \E limit \in Limits : endpoints' = [endpoints EXCEPT ![e].limit = limit]
       \/ endpoints' = [endpoints EXCEPT ![e].enabled = ~@]
    /\ UNCHANGED <<keys, making, issuedFor>> /\ Aside

\* Mutant: the keys of a deleted endpoint are kept, bound to none.
DeleteEndpointKeepKeys(e) ==
    /\ endpoints[e].life = "there" /\ Edit
    /\ endpoints' = [endpoints EXCEPT ![e].life = "gone"]
    /\ keys' = [k \in Keys |-> IF keys[k] # Nothing /\ keys[k].endpoint = e
                               THEN [keys[k] EXCEPT !.endpoint = Nothing] ELSE keys[k]]
    /\ UNCHANGED <<making, issuedFor>> /\ Aside

DeleteEndpoint(e) ==
    /\ endpoints[e].life = "there" /\ Edit
    /\ endpoints' = [endpoints EXCEPT ![e].life = "gone"]
    /\ keys' = [k \in Keys |-> IF keys[k] # Nothing /\ keys[k].endpoint = e THEN Nothing ELSE keys[k]]
    /\ issuedFor' = [k \in Keys |-> IF keys'[k] # keys[k] THEN Nothing ELSE issuedFor[k]]
    /\ UNCHANGED making /\ Aside

CreateKey(k) ==
    /\ keys[k] = Nothing /\ making[k] = Nothing /\ Edit
    /\ \E row \in Row :
          /\ row.endpoint # Nothing => endpoints[row.endpoint].life = "there"
          /\ making' = [making EXCEPT ![k] = row]
          /\ issuedFor' = [issuedFor EXCEPT ![k] = row.endpoint]
    /\ UNCHANGED <<endpoints, keys>> /\ Aside

\* The hash is there: the row is inserted, which the table refuses if the endpoint is gone.
InsertKey(k) ==
    LET row == making[k]
        refers == row.endpoint # Nothing => endpoints[row.endpoint].life = "there"
    IN  /\ row # Nothing /\ making' = [making EXCEPT ![k] = Nothing]
        /\ keys' = IF refers THEN [keys EXCEPT ![k] = row] ELSE keys
        /\ issuedFor' = IF refers THEN issuedFor ELSE [issuedFor EXCEPT ![k] = Nothing]
        /\ UNCHANGED <<endpoints, edits>> /\ Aside

DeleteKey(k) ==
    /\ keys[k] # Nothing /\ Edit /\ keys' = [keys EXCEPT ![k] = Nothing]
    /\ issuedFor' = [issuedFor EXCEPT ![k] = Nothing]
    /\ UNCHANGED <<endpoints, making>> /\ Aside

Tick ==
    /\ now < MaxNow /\ now' = now + 1
    /\ UNCHANGED <<tables, req, metadata, limits, edits, faults>>

-----------------------------------------------------------------------------
Admin ==
    \/ \E e \in Endpoints : CreateEndpoint(e) \/ PatchEndpoint(e) \/ DeleteEndpoint(e)
    \/ \E k \in Keys : CreateKey(k) \/ InsertKey(k) \/ DeleteKey(k)

Next ==
    \/ \E q \in Requests : \/ ArriveInVain(q) \/ ArriveOpen(q) \/ Arrive(q)
                           \/ KeyVerified(q) \/ AskIssuer(q) \/ TokenVerified(q)
                           \/ IssuerFails(q)
    \/ IssuerAnswers \/ ((Admin \/ Tick) /\ History)

Spec == Init /\ [][Next]_vars

-----------------------------------------------------------------------------
(***************************************************************************)
(* Properties.                                                             *)
(***************************************************************************)
\* Requests let through in an interval, and after a time; none in the window before it.
Through(counts, from, to) == counts[IF to \in Times THEN to ELSE MaxNow + 1] - counts[from]
ThroughFrom(counts, t) == Through(counts, t, t + Window)
Quiet(counts, t) == Through(counts, IF t < Window THEN 0 ELSE t - Window + 1, t) = 0

\* At most the limit in the window after a quiet one, less than twice as many in any.
Bounded(counts, limit, t) ==
    /\ ThroughFrom(counts, t) < 2 * limit
    /\ Quiet(counts, t) => ThroughFrom(counts, t) <= limit

\* While its limit stays, an endpoint lets at most its limit of a key's or an address's
\* requests through in the window after a quiet one, and less than twice as many in any,
\* whatever the limiter pruned meanwhile.
WithinTheLimit ==
    \A e \in Endpoints, k \in QuotaKeys, t \in 0..MaxNow :
        limiters[e].perMinute > 0 => Bounded(granted[e][k], limiters[e].perMinute, t)

\* Whoever is let in was entitled at some moment since the request arrived: by a key that
\* existed, had not expired and was created for this endpoint or for all, or by a token;
\* and who presents what opens the endpoint all the time is not refused.  The exception is
\* a token that could not be verified, because the discovery of the issuer has failed
\* (once is for good) or a fetch of its keys did: the code answers as if it were invalid.
EntitlementDecides ==
    /\ TypeOK
    /\ \A q \in Requests :
          /\ req[q].at \in {"served", "limited"} => ever[q]
          /\ req[q].at = "refused" => ~always[q]
=================================================================================
