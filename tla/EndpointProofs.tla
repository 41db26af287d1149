----------------------------- MODULE EndpointProofs -----------------------------
(***************************************************************************)
(* Proofs about Endpoint, for any endpoints, keys, tokens and requests,    *)
(* any window and pruning, and any number of edits and failed fetches:     *)
(* first who is let in (Inv), then how many are (Meters).                  *)
(***************************************************************************)
EXTENDS Endpoint, TLAPS

Request == [at : Waiting \cup {"idle", "served", "limited", "refused", "unverified"},
            slug : Slugs \cup {Nothing}, cred : Credentials,
            endpoint : Endpoints \cup {Nothing}, mode : Modes \cup {"none"},
            limit : Limits \cup {0}, row : Row \cup {Nothing}]
Bucket == [count : Nat, resetAt : Nat]
Limiter == [perMinute : Limits \cup {0}, buckets : [QuotaKeys -> Bucket], ops : 0..(PruneEvery - 1)]

(***************************************************************************)
(* The types: of the tables, of the requests and of the limiters.          *)
(***************************************************************************)
UniqueSlugs ==
    \A e, f \in Endpoints :
        endpoints[e].life = "there" /\ endpoints[f].life = "there"
            /\ endpoints[e].slug = endpoints[f].slug => e = f

Referred ==
    \A k \in Keys : keys[k] # Nothing /\ keys[k].endpoint # Nothing
        => endpoints[keys[k].endpoint].life = "there"

Tables ==
    /\ endpoints \in [Endpoints -> Endpoint \cup {NoEndpoint}]
    /\ keys \in [Keys -> Row \cup {Nothing}] /\ making \in [Keys -> Row \cup {Nothing}]
    /\ issuedFor \in [Keys -> Endpoints \cup {Nothing}]
    /\ UniqueSlugs /\ Referred

Arrived(r) == r.at \in Waiting => r.endpoint # Nothing /\ r.mode # "none" /\ r.cred # Nothing

Calls ==
    /\ req \in [Requests -> Request] /\ \A q \in Requests : Arrived(req[q])
    /\ metadata \in {"none", "pending", "ok", "failed"}
    /\ ever \in [Requests -> BOOLEAN] /\ always \in [Requests -> BOOLEAN]

Within(limiter) == \A k \in QuotaKeys : limiter.buckets[k].count <= limiter.perMinute

Limiters == limiters \in [Endpoints -> Limiter] /\ \A e \in Endpoints : Within(limiters[e])

Counts == now \in 0..MaxNow /\ edits \in 0..MaxEdits /\ faults \in 0..MaxFaults

Typed == Tables /\ Calls /\ Limiters /\ Counts

LEMMA TypedIs == Typed => TypeOK
BY DEF Typed, TypeOK, Tables, UniqueSlugs, Referred, Calls, Arrived, Limiters, Within, Counts,
       Request, Limiter

(***************************************************************************)
(* The history of a key is what its row says, from the start of its        *)
(* creation; a key is not created twice at once.                           *)
(***************************************************************************)
Issued ==
    \A k \in Keys :
        /\ keys[k] # Nothing => issuedFor[k] = keys[k].endpoint
        /\ making[k] # Nothing => keys[k] = Nothing /\ issuedFor[k] = making[k].endpoint

(***************************************************************************)
(* What is known of request q, which is r.  If what it has read will let   *)
(* it in, it was entitled when it read it.  If it has presented what opens *)
(* the endpoint all the time, then the endpoint still has the slug, and    *)
(* the key the row that was read.                                          *)
(***************************************************************************)
Token(r) == r.cred \in Jwts /\ Audience[r.cred] = r.slug

MayPass(r, wasEver) ==
    /\ r.at = "idle" => wasEver
    /\ (/\ r.at = "key" /\ r.row # Nothing
        /\ r.row.expires >= now /\ r.row.endpoint \in {Nothing, r.endpoint}) => wasEver
    /\ r.at \in Waiting /\ Token(r) /\ AllowsOauth(r.mode) => wasEver
    /\ r.at \in {"issuer", "metadata"} => AllowsOauth(r.mode)
    /\ r.at \in {"served", "limited"} => wasEver

Steady(r) ==
    /\ r.at # "idle"
    /\ r.at \in Waiting =>
          /\ Presents(r)
          /\ endpoints[r.endpoint].life = "there" /\ endpoints[r.endpoint].slug = r.slug
    /\ r.at = "key" /\ r.row = Nothing => AllowsOauth(r.mode) /\ Token(r)
    /\ r.at = "key" /\ r.row # Nothing => r.cred \in Keys /\ keys[r.cred] = r.row
    /\ r.at \in {"issuer", "metadata"} => Token(r)
    /\ r.at # "refused"

Judged == \A q \in Requests : MayPass(req[q], ever[q]) /\ (always[q] => Steady(req[q]))

Inv == Typed /\ Issued /\ Judged

-----------------------------------------------------------------------------
(***************************************************************************)
(* Records.                                                                *)
(***************************************************************************)
LEMMA Empties ==
  /\ NoRequest \in Request /\ NoRequest.at = "idle"
  /\ NoLimiter \in Limiter /\ Within(NoLimiter)
  /\ NoEndpoint.life = "no" /\ NoBucket \in Bucket /\ NoBucket.count = 0
BY EndpointAssumption DEF NoRequest, Request, Waiting, Credentials, NoLimiter, Limiter, NoBucket,
   Bucket, Within, NoEndpoint

LEMMA NewTyped ==
  ASSUME NEW slug \in Slugs, NEW mode \in Modes, NEW limit \in Limits
  PROVE  /\ NewEndpoint(slug, mode, limit) \in Endpoint
         /\ NewEndpoint(slug, mode, limit).life = "there"
         /\ NewEndpoint(slug, mode, limit).slug = slug
BY DEF NewEndpoint, Endpoint

LEMMA InitInv == Init => Inv
<1> SUFFICES ASSUME Init
             PROVE  Inv
  OBVIOUS
<1>1. Tables
  <2>1. PICK mode \in Modes, limit \in Limits :
           endpoints = [e \in Endpoints |->
              IF e \in DOMAIN InitialSlug THEN NewEndpoint(InitialSlug[e], mode, limit)
              ELSE NoEndpoint]
    BY DEF Init
  <2>2. \A e \in DOMAIN InitialSlug :
           /\ NewEndpoint(InitialSlug[e], mode, limit) \in Endpoint
           /\ NewEndpoint(InitialSlug[e], mode, limit).slug = InitialSlug[e]
    BY NewTyped, EndpointAssumption
  <2>3. \A e \in Endpoints : endpoints[e].life = "there" =>
           e \in DOMAIN InitialSlug /\ endpoints[e].slug = InitialSlug[e]
    BY <2>1, <2>2, Empties
  <2>4. UniqueSlugs
    BY <2>3, EndpointAssumption DEF UniqueSlugs, IsInjective
  <2>5. endpoints \in [Endpoints -> Endpoint \cup {NoEndpoint}]
    BY <2>1, <2>2
  <2> QED
    BY <2>4, <2>5 DEF Init, Tables, Referred
<1>2. Calls
  BY Empties DEF Init, Calls, Arrived, Waiting
<1>3. Limiters
  BY Empties DEF Init, Limiters
<1>4. Counts
  BY EndpointAssumption DEF Init, Counts
<1>5. Issued
  BY DEF Init, Issued
<1>6. Judged
  BY Empties DEF Init, Judged, MayPass, Waiting
<1> QED
  BY <1>1, <1>2, <1>3, <1>4, <1>5, <1>6 DEF Inv, Typed

-----------------------------------------------------------------------------
(***************************************************************************)
(* The limiter: a bucket never counts more than the limit, which is the    *)
(* one the limiter was made for, whatever it has pruned.                   *)
(***************************************************************************)
LEMMA CountedTyped ==
  ASSUME NEW bucket \in Bucket, NEW limit \in Nat \ {0}, now \in Nat, Passes(bucket, limit)
  PROVE  Counted(bucket) \in Bucket /\ Counted(bucket).count <= limit
BY EndpointAssumption DEF Counted, Passes, Bucket

LEMMA PrunedTyped ==
  ASSUME NEW buckets \in [QuotaKeys -> Bucket]
  PROVE  /\ Pruned(buckets) \in [QuotaKeys -> Bucket]
         /\ \A k \in QuotaKeys : Pruned(buckets)[k].count <= buckets[k].count
BY Empties DEF Pruned, Bucket

LEMMA CheckTyped ==
  ASSUME Typed, NEW e \in Endpoints, NEW limit \in Limits \cup {0}, NEW k \in QuotaKeys
  PROVE  Check(e, limit, k).limiter \in Limiter /\ Within(Check(e, limit, k).limiter)
<1>1. CASE limit = 0
  BY <1>1, Empties DEF Check
<1>2. CASE limit # 0
  <2> DEFINE same == limiters[e].perMinute = limit
             ops == ((IF same THEN limiters[e].ops ELSE 0) + 1) % PruneEvery
             kept == IF same THEN limiters[e].buckets ELSE NoLimiter.buckets
             buckets == IF ops = 0 THEN Pruned(kept) ELSE kept
             after == IF Passes(buckets[k], limit) THEN [buckets EXCEPT ![k] = Counted(@)] ELSE buckets
  <2>1. limiters[e] \in Limiter /\ Within(limiters[e]) /\ limit \in Nat \ {0} /\ now \in Nat
    BY <1>2, EndpointAssumption DEF Typed, Limiters, Counts
  <2>2. ops \in 0..(PruneEvery - 1)
    <3>1. PICK n \in Nat : n = (IF same THEN limiters[e].ops ELSE 0) + 1
      BY <2>1 DEF Limiter
    <3>2. n % PruneEvery \in 0..(PruneEvery - 1)
      BY EndpointAssumption
    <3> QED
      BY <3>1, <3>2
  <2>3. kept \in [QuotaKeys -> Bucket] /\ \A j \in QuotaKeys : kept[j].count <= limit
    BY <2>1, Empties DEF Limiter, Within, NoLimiter, Bucket
  <2> HIDE DEF kept, ops
  <2>4. buckets \in [QuotaKeys -> Bucket] /\ \A j \in QuotaKeys : buckets[j].count <= limit
    <3>1. \A j \in QuotaKeys : Pruned(kept)[j].count \in Nat /\ kept[j].count \in Nat
      BY <2>3, PrunedTyped DEF Bucket
    <3> QED
      BY <2>1, <2>3, <3>1, PrunedTyped
  <2> HIDE DEF buckets
  <2>5. after \in [QuotaKeys -> Bucket] /\ \A j \in QuotaKeys : after[j].count <= limit
    BY <2>1, <2>4, CountedTyped
  <2> HIDE DEF after
  <2>6. Check(e, limit, k).limiter = [perMinute |-> limit, ops |-> ops, buckets |-> after]
    BY <1>2 DEF Check, kept, ops, buckets, after
  <2> QED
    BY <2>2, <2>5, <2>6 DEF Limiter, Within
<1> QED
  BY <1>1, <1>2

-----------------------------------------------------------------------------
(***************************************************************************)
(* The steps of a request.                                                 *)
(***************************************************************************)
LEMMA StaysSteady ==
  ASSUME NEW r, Steady(r), UNCHANGED <<endpoints, keys, issuedFor, now>>
  PROVE  Steady(r)'
<1>1. Presents(r)' <=> Presents(r)
  BY DEF Presents, Opens, BySlug, AllowsKey, AllowsOauth
<1> QED
  BY <1>1 DEF Steady

\* What a step of request q has to show.
LEMMA StepInv ==
  ASSUME Inv, NEW q \in Requests, req' \in [Requests -> Request],
         ever' \in [Requests -> BOOLEAN], always' \in [Requests -> BOOLEAN],
         \A p \in Requests : p # q =>
            req'[p] = req[p] /\ ever'[p] = ever[p] /\ always'[p] = always[p],
         UNCHANGED <<tables, now, edits>>, faults' \in 0..MaxFaults,
         Limiters', metadata' \in {"none", "pending", "ok", "failed"},
         Arrived(req[q])', MayPass(req[q], ever[q])', always'[q] => Steady(req[q])'
  PROVE  Inv'
<1>1. Calls'
  <2>1. \A p \in Requests : Arrived(req'[p])
    BY DEF Inv, Typed, Calls, Arrived
  <2> QED
    BY <2>1 DEF Calls, Arrived
<1>2. Tables' /\ Issued' /\ Counts'
  BY DEF Inv, Typed, Tables, UniqueSlugs, Referred, Issued, Counts, tables
<1>3. Judged'
  <2> SUFFICES ASSUME NEW p \in Requests, p # q
               PROVE  MayPass(req[p], ever[p])' /\ (always'[p] => Steady(req[p])')
    BY DEF Judged
  <2>1. PICK u \in Request : u = req[p]
    BY DEF Inv, Typed, Calls
  <2>2. MayPass(u, ever[p]) /\ (always[p] => Steady(u))
    BY <2>1 DEF Inv, Judged
  <2>3. MayPass(u, ever[p])' /\ (always'[p] => Steady(u)')
    BY <2>2, StaysSteady DEF MayPass, AllowsOauth, Token, tables
  <2>4. req'[p] = u
    BY <2>1
  <2> QED
    BY <2>3, <2>4 DEF MayPass, AllowsOauth, Token, Steady, Presents, Opens, BySlug, AllowsKey
<1> QED
  BY <1>1, <1>2, <1>3 DEF Inv, Typed

\* What a step that makes request q another one has to show.
LEMMA RequestInv ==
  ASSUME Inv, NEW q \in Requests, NEW r \in Request, req' = [req EXCEPT ![q] = r], Arrived(r),
         UNCHANGED <<tables, now, edits>>, faults' \in 0..MaxFaults,
         Limiters', metadata' \in {"none", "pending", "ok", "failed"},
         NEW wasEver \in BOOLEAN, NEW isAlways \in BOOLEAN,
         ever' = [ever EXCEPT ![q] = wasEver], always' = [always EXCEPT ![q] = isAlways],
         MayPass(r, wasEver), isAlways => Steady(r)'
  PROVE  Inv'
<1>1. /\ req' \in [Requests -> Request] /\ req'[q] = r /\ ever'[q] = wasEver /\ always'[q] = isAlways
      /\ ever' \in [Requests -> BOOLEAN] /\ always' \in [Requests -> BOOLEAN]
      /\ \A p \in Requests : p # q =>
            req'[p] = req[p] /\ ever'[p] = ever[p] /\ always'[p] = always[p]
  BY DEF Inv, Typed, Calls
<1>2. Arrived(req[q])' /\ MayPass(req[q], ever[q])' /\ (always'[q] => Steady(req[q])')
  BY <1>1 DEF Arrived, MayPass, AllowsOauth, Token, Steady, Presents, Opens, BySlug, AllowsKey
<1> QED
  BY <1>1, <1>2, StepInv

LEMMA EndsTyped ==
  ASSUME NEW outcome \in {"served", "limited", "refused", "unverified"}
  PROVE  /\ [NoRequest EXCEPT !.at = outcome] \in Request
         /\ [NoRequest EXCEPT !.at = outcome].at = outcome
         /\ Arrived([NoRequest EXCEPT !.at = outcome])
BY Empties DEF Request, Arrived, Waiting

\* Who is refused did not present all the time what opens the endpoint.
LEMMA RejectInv ==
  ASSUME Inv, NEW q \in Requests, NEW outcome \in {"refused", "unverified"}, Reject(q, outcome),
         UNCHANGED <<tables, now, edits>>, faults' \in 0..MaxFaults,
         always[q] => outcome = "unverified"
  PROVE  Inv'
<1>1. PICK r \in Request : r = [NoRequest EXCEPT !.at = outcome]
  BY EndsTyped
<1>2. r.at = outcome /\ Arrived(r) /\ req' = [req EXCEPT ![q] = r]
  BY <1>1, EndsTyped DEF Reject, Ends
<1>3. PICK isAlways \in BOOLEAN : isAlways = always[q]
  BY DEF Inv, Typed, Calls
<1>4. always' = [always EXCEPT ![q] = isAlways] /\ ever' = [ever EXCEPT ![q] = FALSE]
  BY <1>3 DEF Reject, Inv, Typed, Calls
<1>5. MayPass(r, FALSE)
  BY <1>2 DEF MayPass, Waiting
<1>6. isAlways => Steady(r)'
  BY <1>2, <1>3 DEF Steady, Waiting, Reject
<1>7. Limiters' /\ metadata' = metadata /\ metadata \in {"none", "pending", "ok", "failed"}
  BY DEF Reject, limits, Inv, Typed, Limiters, Within, Calls
<1> QED
  BY <1>2, <1>4, <1>5, <1>6, <1>7, RequestInv

LEMMA RefuseInv ==
  ASSUME Inv, NEW q \in Requests, Refuse(q), UNCHANGED <<tables, now, edits, faults>>, ~always[q]
  PROVE  Inv'
BY RejectInv DEF Refuse, Inv, Typed, Counts

\* A request that is let in was entitled.
LEMMA AdmitInv ==
  ASSUME Inv, NEW q \in Requests, NEW r \in Request, NEW k \in QuotaKeys, Admit(q, r, k),
         r.endpoint \in Endpoints, UNCHANGED <<tables, now, edits, faults>>, ever[q]
  PROVE  Inv'
<1>1. r.limit \in Limits \cup {0}
  BY DEF Request
<1>2. PICK checked : checked = Check(r.endpoint, r.limit, k)
  OBVIOUS
<1>3. checked.limiter \in Limiter /\ Within(checked.limiter)
  BY <1>1, <1>2, CheckTyped DEF Inv
<1>4. limiters' = [limiters EXCEPT ![r.endpoint] = checked.limiter]
  BY <1>2 DEF Admit
<1>5. Limiters'
  BY <1>3, <1>4 DEF Inv, Typed, Limiters, Within
<1>6. PICK new \in Request : /\ new.at \in {"served", "limited"} /\ Arrived(new)
                             /\ req' = [req EXCEPT ![q] = new]
  BY <1>2, EndsTyped DEF Admit, Ends
<1>7. always' = [always EXCEPT ![q] = FALSE] /\ ever' = [ever EXCEPT ![q] = TRUE]
  BY DEF Admit, Inv, Typed, Calls
<1>8. MayPass(new, TRUE)
  BY <1>6 DEF MayPass, Waiting
<1>9. /\ metadata' = metadata /\ metadata \in {"none", "pending", "ok", "failed"}
      /\ faults' \in 0..MaxFaults
  BY DEF Admit, Inv, Typed, Calls, Counts
<1> QED
  BY <1>5, <1>6, <1>7, <1>8, <1>9, RequestInv

\* What q is, and what is known of it.
LEMMA Of ==
  ASSUME Inv, NEW q \in Requests
  PROVE  /\ req[q] \in Request /\ Arrived(req[q]) /\ MayPass(req[q], ever[q])
         /\ ever[q] \in BOOLEAN /\ always[q] \in BOOLEAN
         /\ (always[q] => Steady(req[q]))
BY DEF Inv, Typed, Calls, Judged

LEMMA ReadTyped ==
  ASSUME Inv, NEW slug \in Slugs, NEW cred \in Credentials, NEW e \in BySlug(slug)
  PROVE  /\ Read(slug, cred, e) \in Request /\ e \in Endpoints /\ e # Nothing
         /\ endpoints[e].life = "there" /\ endpoints[e].slug = slug
         /\ Read(slug, cred, e).slug = slug /\ Read(slug, cred, e).cred = cred
         /\ Read(slug, cred, e).endpoint = e /\ Read(slug, cred, e).mode = endpoints[e].mode
         /\ endpoints[e].mode \in Modes
<1>1. e \in Endpoints /\ endpoints[e].life = "there" /\ endpoints[e].slug = slug
  BY DEF BySlug
<1>2. endpoints[e] \in Endpoint
  BY <1>1, Empties DEF Inv, Typed, Tables
<1> QED
  BY <1>1, <1>2, Empties, EndpointAssumption DEF Read, Request, Endpoint

LEMMA ArrivesInv ==
  ASSUME Inv, NEW q \in Requests, ArriveInVain(q) \/ ArriveOpen(q) \/ Arrive(q)
  PROVE  Inv'
<1>1. req[q].at = "idle"
  BY DEF ArriveInVain, ArriveOpen, Arrive
<1>2. ever[q] /\ ~always[q]
  BY <1>1, Of DEF MayPass, Steady
<1>3. CASE ArriveInVain(q)
  BY <1>2, <1>3, RefuseInv DEF ArriveInVain
<1>4. CASE ArriveOpen(q)
  <2>1. PICK slug \in Slugs : \E e \in BySlug(slug) : Admit(q, Read(slug, Nothing, e), Address)
    BY <1>4 DEF ArriveOpen
  <2>2. PICK e \in BySlug(slug) : Admit(q, Read(slug, Nothing, e), Address)
    BY <2>1
  <2>3. /\ Read(slug, Nothing, e) \in Request /\ Read(slug, Nothing, e).endpoint \in Endpoints
        /\ Address \in QuotaKeys
    BY ReadTyped DEF Credentials, QuotaKeys
  <2> QED
    BY <1>2, <1>4, <2>2, <2>3, AdmitInv DEF ArriveOpen
<1>5. CASE Arrive(q)
  <2>1. PICK slug \in Slugs, cred \in Keys \cup Jwts :
           \E e \in BySlug(slug) :
              LET r == Read(slug, cred, e)
              IN  /\ endpoints[e].enabled /\ r.mode # "none"
                  /\ req' = [req EXCEPT ![q] =
                        IF AllowsKey(r.mode) THEN [r EXCEPT !.at = "key", !.row = RowOf(cred)]
                        ELSE [r EXCEPT !.at = "issuer"]]
                  /\ ever' = [ever EXCEPT ![q] = Entitled(r)]
                  /\ always' = [always EXCEPT ![q] = Presents(r)]
    BY <1>5 DEF Arrive
  <2>2. PICK e \in BySlug(slug) :
           LET r == Read(slug, cred, e)
           IN  /\ endpoints[e].enabled /\ r.mode # "none"
               /\ req' = [req EXCEPT ![q] =
                     IF AllowsKey(r.mode) THEN [r EXCEPT !.at = "key", !.row = RowOf(cred)]
                     ELSE [r EXCEPT !.at = "issuer"]]
               /\ ever' = [ever EXCEPT ![q] = Entitled(r)]
               /\ always' = [always EXCEPT ![q] = Presents(r)]
    BY <2>1
  <2>3. PICK r \in Request : r = Read(slug, cred, e)
    BY ReadTyped DEF Credentials
  <2>4. /\ e \in Endpoints /\ e # Nothing /\ endpoints[e].life = "there" /\ endpoints[e].slug = slug
        /\ r.slug = slug /\ r.cred = cred /\ r.endpoint = e /\ r.mode = endpoints[e].mode
        /\ endpoints[e].mode \in Modes
    BY <2>3, ReadTyped DEF Credentials
  <2>5. PICK new : new = IF AllowsKey(r.mode) THEN [r EXCEPT !.at = "key", !.row = RowOf(cred)]
                         ELSE [r EXCEPT !.at = "issuer"]
    OBVIOUS
  <2>6. RowOf(cred) \in Row \cup {Nothing}
    BY DEF RowOf, Inv, Typed, Tables
  <2>7. /\ new \in Request /\ new.at = IF AllowsKey(r.mode) THEN "key" ELSE "issuer"
        /\ new.at = "key" => new.row = RowOf(cred)
        /\ new.slug = slug /\ new.cred = cred /\ new.endpoint = e /\ new.mode = endpoints[e].mode
    BY <2>4, <2>5, <2>6 DEF Request, Waiting
  <2>8. req' = [req EXCEPT ![q] = new] /\ Arrived(new)
    BY <2>2, <2>3, <2>4, <2>5, <2>7, EndpointAssumption DEF Arrived
  <2>9. PICK wasEver \in BOOLEAN : wasEver = Entitled(r)
    BY DEF Entitled
  <2>10. PICK isAlways \in BOOLEAN : isAlways = Presents(r)
    BY DEF Presents
  <2>11. ~AllowsKey(r.mode) => AllowsOauth(r.mode)
    BY <2>2, <2>3, <2>4, EndpointAssumption DEF AllowsKey, AllowsOauth
  <2>12. e \in BySlug(r.slug) /\ (Opens(r, e) => wasEver)
    BY <2>2, <2>4, <2>9 DEF BySlug, Entitled
  <2>13. MayPass(new, wasEver)
    <3>1. ASSUME AllowsKey(r.mode), RowOf(cred) # Nothing, RowOf(cred).expires >= now,
                 RowOf(cred).endpoint \in {Nothing, e}
          PROVE  Opens(r, e)
      BY <2>4, <3>1 DEF RowOf, Opens, Inv, Issued
    <3>2. ASSUME Token(new), AllowsOauth(new.mode)
          PROVE  Opens(r, e)
      BY <2>4, <2>7, <3>2 DEF Token, Opens
    <3> QED
      BY <2>4, <2>7, <2>11, <2>12, <3>1, <3>2 DEF MayPass
  <2>14. isAlways => Steady(new)
    <3> SUFFICES ASSUME Presents(r)
                 PROVE  Steady(new)
      BY <2>10
    <3>1. Presents(new)
      BY <2>4, <2>7 DEF Presents, Opens, BySlug
    <3>2. Opens(r, e)
      <4>1. PICK f \in BySlug(r.slug) : Opens(r, f)
        BY DEF Presents
      <4>2. f = e
        BY <2>4, <4>1 DEF BySlug, Inv, Typed, Tables, UniqueSlugs
      <4> QED
        BY <4>1, <4>2
    <3>3. (~AllowsKey(r.mode) \/ RowOf(cred) = Nothing) => AllowsOauth(r.mode) /\ Token(new)
      BY <2>4, <2>7, <3>2 DEF Opens, RowOf, Token
    <3>4. RowOf(cred) # Nothing => cred \in Keys /\ keys[cred] = RowOf(cred)
      BY DEF RowOf
    <3> QED
      BY <2>4, <2>7, <3>1, <3>3, <3>4 DEF Steady
  <2>15. UNCHANGED <<tables, metadata, limits, now, edits, faults>>
    BY <1>5 DEF Arrive
  <2>16. isAlways => Steady(new)'
    BY <2>14, <2>15, StaysSteady DEF tables
  <2>17. Limiters' /\ faults' \in 0..MaxFaults /\ metadata' \in {"none", "pending", "ok", "failed"}
    BY <2>15 DEF limits, Inv, Typed, Limiters, Calls, Counts
  <2>18. ever' = [ever EXCEPT ![q] = wasEver] /\ always' = [always EXCEPT ![q] = isAlways]
    BY <2>2, <2>3, <2>9, <2>10
  <2> QED
    BY <2>7, <2>8, <2>13, <2>15, <2>16, <2>17, <2>18, RequestInv
<1> QED
  BY <1>3, <1>4, <1>5

\* A verification is suspended, or resumes, and q goes on.
LEMMA GoesOn ==
  ASSUME Inv, NEW q \in Requests, NEW at \in {"issuer", "metadata"},
         req' = [req EXCEPT ![q].at = at],
         \/ req[q].at \in {"issuer", "metadata"}
         \/ req[q].at = "key" /\ req[q].row = Nothing /\ AllowsOauth(req[q].mode),
         UNCHANGED <<tables, limits, now, edits, faults, ever, always>>,
         metadata' \in {"none", "pending", "ok", "failed"}
  PROVE  Inv'
<1>1. PICK r \in Request : r = req[q]
  BY Of
<1>2. PICK new : new = [r EXCEPT !.at = at]
  OBVIOUS
<1>3. /\ new \in Request /\ new.at = at /\ new.slug = r.slug /\ new.cred = r.cred /\ new.row = r.row
      /\ new.endpoint = r.endpoint /\ new.mode = r.mode
  BY <1>2 DEF Request, Waiting
<1>4. req' = [req EXCEPT ![q] = new]
  BY <1>1, <1>2 DEF Inv, Typed, Calls
<1>5. Arrived(new) /\ MayPass(new, ever[q])
  BY <1>1, <1>3, Of DEF Arrived, MayPass, Token, Waiting
<1>6. always[q] => Steady(new)
  <2> SUFFICES ASSUME always[q]
               PROVE  Steady(new)
    OBVIOUS
  <2>1. Steady(r)
    BY <1>1, Of
  <2>2. Presents(new) <=> Presents(r)
    BY <1>3 DEF Presents, Opens, BySlug
  <2> QED
    BY <1>1, <1>3, <2>1, <2>2 DEF Steady, Token, Waiting
<1>7. Limiters' /\ faults' \in 0..MaxFaults
  BY DEF limits, Inv, Typed, Limiters, Counts
<1>8. always[q] => Steady(new)'
  BY <1>6, StaysSteady DEF tables
<1>9. /\ req' \in [Requests -> Request] /\ req'[q] = new
      /\ \A p \in Requests : p # q => req'[p] = req[p]
  BY <1>3, <1>4 DEF Inv, Typed, Calls
<1>10. Arrived(req[q])' /\ MayPass(req[q], ever[q])' /\ (always'[q] => Steady(req[q])')
  BY <1>5, <1>8, <1>9 DEF Arrived, MayPass, AllowsOauth, Token, Steady, Presents, Opens, BySlug, AllowsKey
<1>11. ever' \in [Requests -> BOOLEAN] /\ always' \in [Requests -> BOOLEAN]
  BY DEF Inv, Typed, Calls
<1> QED
  BY <1>7, <1>9, <1>10, <1>11, StepInv

\* Who presents what opens the endpoint all the time presents the row that was read.
LEMMA SteadyKey ==
  ASSUME Inv, NEW r \in Request, Arrived(r), Steady(r), r.at = "key", r.row # Nothing
  PROVE  r.row.expires >= now /\ r.row.endpoint \in {Nothing, r.endpoint}
<1>1. PICK e \in BySlug(r.slug) : Opens(r, e)
  BY DEF Steady, Presents, Waiting
<1>2. e = r.endpoint
  <2>1. r.endpoint \in Endpoints
    BY DEF Arrived, Waiting, Request
  <2> QED
    BY <1>1, <2>1 DEF Steady, BySlug, Inv, Typed, Tables, UniqueSlugs, Waiting
<1>3. r.cred \in Keys /\ r.cred \notin Jwts /\ keys[r.cred] = r.row
  BY EndpointAssumption DEF Steady
<1> QED
  BY <1>1, <1>2, <1>3 DEF Opens, Inv, Issued

LEMMA VerifiesInv ==
  ASSUME Inv, NEW q \in Requests, KeyVerified(q) \/ AskIssuer(q) \/ TokenVerified(q) \/ IssuerFails(q)
  PROVE  Inv'
<1>1. PICK r \in Request : r = req[q]
  BY Of
<1>2. r.at \in {"key", "issuer", "metadata"}
  BY <1>1 DEF KeyVerified, AskIssuer, TokenVerified, IssuerFails
<1>3. /\ r.endpoint \in Endpoints /\ r.cred \in QuotaKeys /\ Arrived(r)
      /\ MayPass(r, ever[q]) /\ (always[q] => Steady(r))
  BY <1>1, <1>2, Of DEF Arrived, Waiting, Request, Credentials, QuotaKeys
<1>4. CASE KeyVerified(q)
  <2>1. r.at = "key" /\ UNCHANGED <<tables, now, edits, faults>>
    BY <1>1, <1>4 DEF KeyVerified
  <2>2. CASE r.row = Nothing /\ ~AllowsOauth(r.mode) /\ Refuse(q)
    BY <1>3, <2>1, <2>2, RefuseInv DEF Steady
  <2>3. CASE /\ r.row = Nothing /\ AllowsOauth(r.mode) /\ req' = [req EXCEPT ![q].at = "issuer"]
             /\ UNCHANGED <<metadata, limits, ever, always>>
    BY <1>1, <2>1, <2>3, GoesOn DEF Inv, Typed, Calls
  <2>4. CASE r.row # Nothing
    <3>1. CASE r.row.expires >= now /\ r.row.endpoint \in {Nothing, r.endpoint}
      <4>1. Admit(q, r, r.cred) /\ ever[q]
        BY <1>1, <1>3, <1>4, <2>1, <2>4, <3>1 DEF KeyVerified, MayPass
      <4> QED
        BY <1>3, <2>1, <4>1, AdmitInv
    <3>2. CASE ~(r.row.expires >= now /\ r.row.endpoint \in {Nothing, r.endpoint})
      <4>1. Refuse(q)
        BY <1>1, <1>4, <2>4, <3>2 DEF KeyVerified
      <4>2. ~always[q]
        BY <1>3, <2>1, <2>4, <3>2, SteadyKey
      <4> QED
        BY <2>1, <4>1, <4>2, RefuseInv
    <3> QED
      BY <3>1, <3>2
  <2> QED
    BY <1>1, <1>4, <2>2, <2>3, <2>4 DEF KeyVerified
<1>5. CASE AskIssuer(q)
  <2>1. /\ req[q].at = "issuer" /\ req' = [req EXCEPT ![q].at = "metadata"]
        /\ UNCHANGED <<tables, limits, now, edits, faults, ever, always>>
        /\ metadata' \in {"none", "pending", "ok", "failed"}
    BY <1>5 DEF AskIssuer, Inv, Typed, Calls
  <2> QED
    BY <2>1, GoesOn
<1>6. CASE TokenVerified(q)
  <2>1. r.at = "metadata" /\ UNCHANGED <<tables, now, edits, faults>>
    BY <1>1, <1>6 DEF TokenVerified
  <2>2. CASE Token(r)
    <3>1. Admit(q, r, r.cred)
      BY <1>1, <1>6, <2>2 DEF TokenVerified, Token
    <3>2. ever[q]
      BY <1>3, <2>1, <2>2 DEF MayPass, Waiting
    <3> QED
      BY <1>3, <2>1, <3>1, <3>2, AdmitInv
  <2>3. CASE ~Token(r)
    <3>1. Refuse(q)
      BY <1>1, <1>6, <2>3 DEF TokenVerified, Token
    <3>2. ~always[q]
      BY <1>3, <2>1, <2>3 DEF Steady
    <3> QED
      BY <2>1, <3>1, <3>2, RefuseInv
  <2> QED
    BY <2>2, <2>3
<1>7. CASE IssuerFails(q)
  <2>1. Reject(q, "unverified") /\ UNCHANGED <<tables, now, edits>> /\ faults' \in 0..MaxFaults
    BY <1>7, EndpointAssumption DEF IssuerFails, Inv, Typed, Counts
  <2> QED
    BY <2>1, RejectInv
<1> QED
  BY <1>4, <1>5, <1>6, <1>7

LEMMA IssuerInv ==
  ASSUME Inv, IssuerAnswers
  PROVE  Inv'
<1>1. /\ UNCHANGED <<tables, req, limits, now, edits, ever, always>>
      /\ metadata = "pending" /\ metadata' \in {"ok", "failed"} /\ faults' \in 0..MaxFaults
  BY EndpointAssumption DEF IssuerAnswers, Inv, Typed, Counts
<1>2. Typed' /\ Issued'
  BY <1>1 DEF Inv, Typed, Tables, UniqueSlugs, Referred, Calls, Arrived, Limiters, Counts,
     Issued, tables, limits
<1>3. Judged'
  <2> SUFFICES ASSUME NEW q \in Requests
               PROVE  MayPass(req[q], ever[q])' /\ (always'[q] => Steady(req[q])')
    BY DEF Judged
  <2>1. PICK r : r = req[q] /\ req'[q] = r
    BY <1>1
  <2>2. MayPass(r, ever[q]) /\ (always[q] => Steady(r))
    BY <2>1, Of
  <2>3. always[q] => Steady(r)'
    BY <1>1, <2>2, StaysSteady DEF tables
  <2> QED
    BY <1>1, <2>1, <2>2, <2>3 DEF MayPass, AllowsOauth, Token, Steady, Presents, Opens, BySlug, AllowsKey
<1> QED
  BY <1>2, <1>3 DEF Inv

-----------------------------------------------------------------------------
(***************************************************************************)
(* The administration, and time.  No change gives a slug to an endpoint    *)
(* while another has it, and none gives a key another row.                 *)
(***************************************************************************)
Gradual ==
    /\ \A slug \in Slugs : BySlug(slug) # {} => BySlug(slug)' \subseteq BySlug(slug)
    /\ \A k \in Keys : keys[k] # Nothing => keys'[k] \in {keys[k], Nothing}
    /\ now' >= now

LEMMA HistoryInv ==
  ASSUME Inv, Tables', Counts', Issued', Limiters', Gradual, History, UNCHANGED <<req, metadata>>
  PROVE  Inv'
<1>1. /\ ever' \in [Requests -> BOOLEAN] /\ always' \in [Requests -> BOOLEAN]
      /\ \A q \in Requests :
            /\ ever[q] => ever'[q]
            /\ always'[q] => always[q] /\ (req[q].at \in Waiting => Presents(req[q])')
  <2>1. \A q \in Requests : ever[q] \in BOOLEAN /\ always[q] \in BOOLEAN
    BY DEF Inv, Typed, Calls
  <2> QED
    BY <2>1 DEF History
<1>2. Calls'
  BY <1>1 DEF Inv, Typed, Calls, Arrived
<1>3. ASSUME NEW q \in Requests
      PROVE  MayPass(req[q], ever[q])' /\ (always'[q] => Steady(req[q])')
  <2>1. PICK r \in Request : r = req[q] /\ req'[q] = r
    BY DEF Inv, Typed, Calls
  <2>2. Arrived(r) /\ MayPass(r, ever[q]) /\ (always[q] => Steady(r))
    BY <2>1, Of
  <2>3. MayPass(r, ever[q])'
    <3>1. \A n \in Nat : n >= now' => n >= now
      BY DEF Gradual, Inv, Typed, Counts
    <3>2. r.row # Nothing => r.row.expires \in Nat
      <4>1. \A row \in Row : row.expires \in Nat
        <5>1. Never \in Nat
          BY EndpointAssumption DEF Never
        <5>2. \A row \in Row : row.expires \in Expiries \cup {Never}
          BY DEF Row
        <5> QED
          BY <5>1, <5>2, EndpointAssumption
      <4>2. r.row \in Row \cup {Nothing}
        BY DEF Request
      <4> QED
        BY <4>1, <4>2
    <3> QED
      BY <1>1, <2>2, <3>1, <3>2 DEF MayPass, Token, AllowsOauth
  <2>4. always'[q] => Steady(r)'
    <3> SUFFICES ASSUME always'[q]
                 PROVE  Steady(r)'
      OBVIOUS
    <3>1. Steady(r) /\ (r.at \in Waiting => Presents(r)')
      <4>1. Presents(req[q])' <=> Presents(r)'
        BY <2>1 DEF Presents, Opens, BySlug
      <4> QED
        BY <1>1, <2>1, <2>2, <4>1
    <3>2. CASE r.at \notin Waiting
      BY <3>1, <3>2 DEF Steady, Waiting
    <3>3. CASE r.at \in Waiting
      <4>1. PICK e \in BySlug(r.slug)' : Opens(r, e)'
        BY <3>1, <3>3 DEF Presents
      <4>2. r.endpoint \in BySlug(r.slug) /\ r.slug \in Slugs
        <5>1. r.endpoint \in Endpoints
          BY <2>2, <3>3 DEF Arrived, Request
        <5>2. endpoints[r.endpoint].life = "there" /\ endpoints[r.endpoint].slug = r.slug
          BY <3>1, <3>3 DEF Steady
        <5>3. endpoints[r.endpoint].slug \in Slugs
          BY <5>1, <5>2, Empties DEF Inv, Typed, Tables, Endpoint
        <5> QED
          BY <5>1, <5>2, <5>3 DEF BySlug
      <4>3. e = r.endpoint
        <5>1. e \in BySlug(r.slug)
          BY <4>1, <4>2 DEF Gradual
        <5> QED
          BY <4>2, <5>1 DEF BySlug, Inv, Typed, Tables, UniqueSlugs
      <4>4. endpoints'[r.endpoint].life = "there" /\ endpoints'[r.endpoint].slug = r.slug
        BY <4>1, <4>3 DEF BySlug
      <4>5. ASSUME r.at = "key", r.row # Nothing
            PROVE  r.cred \in Keys /\ keys'[r.cred] = r.row
        <5>1. r.cred \in Keys /\ r.cred \notin Jwts /\ keys[r.cred] = r.row
          BY <3>1, <4>5, EndpointAssumption DEF Steady
        <5>2. keys'[r.cred] # Nothing
          BY <4>1, <5>1 DEF Opens
        <5> QED
          BY <4>5, <5>1, <5>2 DEF Gradual
      <4> QED
        BY <3>1, <3>3, <4>4, <4>5 DEF Steady, Token, AllowsOauth
    <3> QED
      BY <3>2, <3>3
  <2> QED
    BY <2>1, <2>3, <2>4 DEF MayPass, AllowsOauth, Token, Steady, Presents, Opens, BySlug, AllowsKey
<1> QED
  BY <1>2, <1>3 DEF Inv, Typed, Judged

LEMMA EditCounts == Inv /\ Edit => edits' \in 0..MaxEdits
BY EndpointAssumption DEF Inv, Typed, Counts, Edit

LEMMA EndpointsInv ==
  ASSUME Inv, NEW e \in Endpoints, CreateEndpoint(e) \/ PatchEndpoint(e) \/ DeleteEndpoint(e), History
  PROVE  Inv'
<1>1. /\ UNCHANGED <<making, req, metadata, limits, now, faults>> /\ edits' \in 0..MaxEdits
  BY EditCounts DEF CreateEndpoint, PatchEndpoint, DeleteEndpoint, Aside
<1>2. Limiters' /\ Counts' /\ now' >= now
  BY <1>1 DEF Inv, Typed, Limiters, Counts, limits
<1>3. \A f \in Endpoints : endpoints[f].life = "there" => endpoints[f] \in Endpoint
  BY Empties DEF Inv, Typed, Tables
<1>4. CASE CreateEndpoint(e) \/ PatchEndpoint(e)
  <2>1. UNCHANGED <<keys, issuedFor>>
    BY <1>4 DEF CreateEndpoint, PatchEndpoint
  <2>2. PICK new \in Endpoint :
           /\ endpoints' = [endpoints EXCEPT ![e] = new] /\ new.life = "there"
           /\ BySlug(new.slug) = {} \/ (endpoints[e].life = "there" /\ new.slug = endpoints[e].slug)
    <3>1. CASE CreateEndpoint(e)
      <4>1. PICK slug \in Slugs, mode \in Modes, limit \in Limits :
               /\ BySlug(slug) = {}
               /\ endpoints' = [endpoints EXCEPT ![e] = NewEndpoint(slug, mode, limit)]
        BY <3>1 DEF CreateEndpoint
      <4>2. PICK new : new = NewEndpoint(slug, mode, limit)
        OBVIOUS
      <4>3. new \in Endpoint /\ new.life = "there" /\ new.slug = slug
        BY <4>2, NewTyped
      <4> QED
        BY <4>1, <4>2, <4>3
    <3>2. CASE PatchEndpoint(e)
      <4>1. PICK old \in Endpoint : old = endpoints[e] /\ old.life = "there"
        BY <1>3, <3>2 DEF PatchEndpoint
      <4>2. CASE \E slug \in Slugs : BySlug(slug) = {} /\ endpoints' = [endpoints EXCEPT ![e].slug = slug]
        <5>1. PICK slug \in Slugs : BySlug(slug) = {} /\ endpoints' = [endpoints EXCEPT ![e].slug = slug]
          BY <4>2
        <5>2. PICK new : new = [old EXCEPT !.slug = slug]
          OBVIOUS
        <5>3. new \in Endpoint /\ new.life = "there" /\ new.slug = slug
          BY <4>1, <5>2 DEF Endpoint
        <5> QED
          BY <4>1, <5>1, <5>2, <5>3
      <4>3. CASE \/ \E mode \in Modes : endpoints' = [endpoints EXCEPT ![e].mode = mode]
                 \/ \E limit \in Limits : endpoints' = [endpoints EXCEPT ![e].limit = limit]
                 \/ endpoints' = [endpoints EXCEPT ![e].enabled = ~@]
        <5>1. PICK new : /\ endpoints' = [endpoints EXCEPT ![e] = new]
                         /\ \/ \E mode \in Modes : new = [old EXCEPT !.mode = mode]
                            \/ \E limit \in Limits : new = [old EXCEPT !.limit = limit]
                            \/ new = [old EXCEPT !.enabled = ~@]
          BY <4>1, <4>3
        <5>2. new \in Endpoint /\ new.life = "there" /\ new.slug = old.slug
          BY <4>1, <5>1 DEF Endpoint
        <5> QED
          BY <4>1, <5>1, <5>2
      <4> QED
        BY <3>2, <4>2, <4>3 DEF PatchEndpoint
    <3> QED
      BY <1>4, <3>1, <3>2
  <2>3. /\ endpoints' \in [Endpoints -> Endpoint \cup {NoEndpoint}] /\ endpoints'[e] = new
        /\ \A f \in Endpoints : f # e => endpoints'[f] = endpoints[f]
    BY <2>2 DEF Inv, Typed, Tables
  <2>4. \A f \in Endpoints : endpoints[f].life = "there" => endpoints'[f].life = "there"
    BY <2>2, <2>3
  <2>5. UniqueSlugs'
    BY <2>2, <2>3 DEF Inv, Typed, Tables, UniqueSlugs, BySlug
  <2>6. Tables'
    BY <1>1, <2>1, <2>3, <2>4, <2>5 DEF Inv, Typed, Tables, Referred, Row
  <2>7. Issued'
    BY <1>1, <2>1 DEF Inv, Issued
  <2>8. Gradual
    BY <1>2, <2>1, <2>2, <2>3 DEF Gradual, BySlug
  <2> QED
    BY <1>1, <1>2, <2>6, <2>7, <2>8, HistoryInv
<1>5. CASE DeleteEndpoint(e)
  <2>1. /\ endpoints[e].life = "there" /\ endpoints' = [endpoints EXCEPT ![e].life = "gone"]
        /\ keys' = [k \in Keys |-> IF keys[k] # Nothing /\ keys[k].endpoint = e THEN Nothing ELSE keys[k]]
        /\ issuedFor' = [k \in Keys |-> IF keys'[k] # keys[k] THEN Nothing ELSE issuedFor[k]]
    BY <1>5 DEF DeleteEndpoint
  <2>2. /\ endpoints' \in [Endpoints -> Endpoint \cup {NoEndpoint}] /\ endpoints'[e].life = "gone"
        /\ \A f \in Endpoints : f # e => endpoints'[f] = endpoints[f]
    BY <1>3, <2>1 DEF Inv, Typed, Tables, Endpoint
  <2>3. \A k \in Keys : /\ keys'[k] \in {keys[k], Nothing}
                        /\ keys'[k] # Nothing => keys'[k] = keys[k] /\ keys[k].endpoint # e
                        /\ keys'[k] = keys[k] => issuedFor'[k] = issuedFor[k]
    BY <2>1
  <2>4. /\ keys' \in [Keys -> Row \cup {Nothing}] /\ issuedFor' \in [Keys -> Endpoints \cup {Nothing}]
    BY <2>1 DEF Inv, Typed, Tables
  <2>5. UniqueSlugs'
    BY <2>2 DEF Inv, Typed, Tables, UniqueSlugs
  <2>6. Referred'
    <3> SUFFICES ASSUME NEW k \in Keys, keys'[k] # Nothing, keys'[k].endpoint # Nothing
                 PROVE  endpoints'[keys'[k].endpoint].life = "there"
      BY DEF Referred
    <3>1. keys[k] # Nothing /\ keys'[k] = keys[k] /\ keys[k].endpoint # e
      BY <2>3
    <3>2. keys[k].endpoint \in Endpoints
      BY <3>1 DEF Inv, Typed, Tables, Row
    <3> QED
      BY <2>2, <3>1, <3>2 DEF Inv, Typed, Tables, Referred
  <2>7. Issued'
    BY <1>1, <2>3 DEF Inv, Issued
  <2>8. Gradual
    BY <1>2, <2>2, <2>3 DEF Gradual, BySlug
  <2>9. Tables'
    BY <1>1, <2>2, <2>4, <2>5, <2>6 DEF Inv, Typed, Tables
  <2> QED
    BY <1>1, <1>2, <2>7, <2>8, <2>9, HistoryInv
<1> QED
  BY <1>4, <1>5

LEMMA KeysInv ==
  ASSUME Inv, NEW k \in Keys, CreateKey(k) \/ InsertKey(k) \/ DeleteKey(k), History
  PROVE  Inv'
<1>1. UNCHANGED <<endpoints, req, metadata, limits, now, faults>> /\ edits' \in 0..MaxEdits
  BY EditCounts DEF CreateKey, InsertKey, DeleteKey, Aside, Inv, Typed, Counts
<1>2. Limiters' /\ Counts' /\ now' >= now /\ UniqueSlugs'
  BY <1>1 DEF Inv, Typed, Limiters, Counts, limits, Tables, UniqueSlugs
<1>3. ASSUME keys' \in [Keys -> Row \cup {Nothing}], making' \in [Keys -> Row \cup {Nothing}],
             issuedFor' \in [Keys -> Endpoints \cup {Nothing}],
             \A j \in Keys : j # k => keys'[j] = keys[j] /\ making'[j] = making[j] /\ issuedFor'[j] = issuedFor[j],
             keys[k] # Nothing => keys'[k] = Nothing,
             keys'[k] # Nothing /\ keys'[k].endpoint # Nothing => endpoints[keys'[k].endpoint].life = "there",
             keys'[k] # Nothing => issuedFor'[k] = keys'[k].endpoint,
             making'[k] # Nothing => keys'[k] = Nothing /\ issuedFor'[k] = making'[k].endpoint
      PROVE  Inv'
  <2>1. Tables'
    BY <1>1, <1>2, <1>3 DEF Inv, Typed, Tables, Referred
  <2>2. Issued'
    BY <1>3 DEF Inv, Issued
  <2>3. Gradual
    BY <1>1, <1>2, <1>3 DEF Gradual, BySlug
  <2> QED
    BY <1>1, <1>2, <2>1, <2>2, <2>3, HistoryInv
<1>4. CASE CreateKey(k)
  <2>1. PICK row \in Row : /\ making' = [making EXCEPT ![k] = row]
                           /\ issuedFor' = [issuedFor EXCEPT ![k] = row.endpoint]
    BY <1>4 DEF CreateKey
  <2>2. keys[k] = Nothing /\ keys' = keys /\ row.endpoint \in Endpoints \cup {Nothing}
    BY <1>4 DEF CreateKey, Row
  <2> QED
    BY <1>3, <2>1, <2>2 DEF Inv, Typed, Tables
<1>5. CASE InsertKey(k)
  <2>1. PICK row \in Row : row = making[k] /\ row # Nothing
    BY <1>5 DEF InsertKey, Inv, Typed, Tables
  <2>2. keys[k] = Nothing /\ issuedFor[k] = row.endpoint
    BY <2>1 DEF Inv, Issued
  <2>3. making' = [making EXCEPT ![k] = Nothing]
    BY <1>5 DEF InsertKey
  <2>4. CASE row.endpoint # Nothing => endpoints[row.endpoint].life = "there"
    <3>1. keys' = [keys EXCEPT ![k] = row] /\ issuedFor' = issuedFor
      BY <1>5, <2>1, <2>4 DEF InsertKey
    <3> QED
      BY <1>3, <2>2, <2>3, <2>4, <3>1 DEF Inv, Typed, Tables
  <2>5. CASE ~(row.endpoint # Nothing => endpoints[row.endpoint].life = "there")
    <3>1. keys' = keys /\ issuedFor' = [issuedFor EXCEPT ![k] = Nothing]
      BY <1>5, <2>1, <2>5 DEF InsertKey
    <3> QED
      BY <1>3, <2>2, <2>3, <3>1 DEF Inv, Typed, Tables
  <2> QED
    BY <2>4, <2>5
<1>6. CASE DeleteKey(k)
  <2>1. /\ keys[k] # Nothing /\ keys' = [keys EXCEPT ![k] = Nothing] /\ making' = making
        /\ issuedFor' = [issuedFor EXCEPT ![k] = Nothing]
    BY <1>6 DEF DeleteKey
  <2>2. making[k] = Nothing
    BY <2>1 DEF Inv, Issued
  <2> QED
    BY <1>3, <2>1, <2>2 DEF Inv, Typed, Tables
<1> QED
  BY <1>4, <1>5, <1>6

LEMMA TickInv ==
  ASSUME Inv, Tick, History
  PROVE  Inv'
<1>1. UNCHANGED <<tables, req, metadata, limits, edits, faults>>
  BY DEF Tick
<1>2. now' \in 0..MaxNow /\ now' >= now
  BY EndpointAssumption DEF Tick, Inv, Typed, Counts
<1>3. Tables' /\ Issued' /\ Limiters' /\ Counts'
  BY <1>1, <1>2 DEF Inv, Typed, Tables, UniqueSlugs, Referred, Issued, Limiters, Counts, tables, limits
<1>4. Gradual
  BY <1>1, <1>2 DEF Gradual, BySlug, tables
<1> QED
  BY <1>1, <1>3, <1>4, HistoryInv

LEMMA NextInv == Inv /\ [Next]_vars => Inv'
<1> SUFFICES ASSUME Inv, [Next]_vars
             PROVE  Inv'
  OBVIOUS
<1>1. CASE Next
  BY <1>1, ArrivesInv, VerifiesInv, IssuerInv, EndpointsInv, KeysInv, TickInv DEF Next, Admin
<1>2. CASE UNCHANGED vars
  <2>1. Typed' /\ Issued'
    BY <1>2 DEF vars, tables, limits, Inv, Typed, Tables, UniqueSlugs, Referred, Calls, Arrived,
       Limiters, Counts, Issued
  <2>2. Judged'
    BY <1>2 DEF vars, tables, Inv, Judged, MayPass, AllowsOauth, Token, Steady, Presents, Opens, BySlug, AllowsKey
  <2> QED
    BY <2>1, <2>2 DEF Inv
<1> QED
  BY <1>1, <1>2

-----------------------------------------------------------------------------
THEOREM InvHolds == Spec => []Inv
BY InitInv, NextInv, PTL DEF Spec

\* EntitlementDecides, for any number of endpoints, keys, requests and edits: what was
\* read before the verification lets nobody in who was never entitled, and refuses
\* nobody who presents what entitles him all the time, unless the issuer that has to
\* verify it could not be reached.
THEOREM Entitlement == Spec => []EntitlementDecides
<1>1. Inv => EntitlementDecides
  <2> SUFFICES ASSUME Inv
               PROVE  EntitlementDecides
    OBVIOUS
  <2>1. TypeOK
    BY TypedIs DEF Inv
  <2>2. \A q \in Requests : /\ req[q].at \in {"served", "limited"} => ever[q]
                            /\ req[q].at = "refused" => ~always[q]
    BY Of DEF MayPass, Steady
  <2> QED
    BY <2>1, <2>2 DEF EntitlementDecides
<1> QED
  BY <1>1, InvHolds, PTL
-----------------------------------------------------------------------------
(***************************************************************************)
(* What the limiter has let through.  counts are the requests of one key   *)
(* before each time; they rise, and nothing was let through after now.     *)
(* Either there were none, or s is the time at which the last window was   *)
(* opened, by a request.  Since then there were at most limit, all of them *)
(* within the window; the window before had ended when this one was        *)
(* opened, so fewer than limit fall to the last part of it, and none when  *)
(* it is that part which follows a quiet window.                           *)
(***************************************************************************)
Total(counts) == counts[MaxNow + 1]

Rises(counts) ==
    /\ counts \in [Times -> Nat]
    /\ \A t, u \in Times : t <= u => counts[t] <= counts[u]
    /\ \A t \in Times : t > now => counts[t] = Total(counts)

Last(counts, limit, s) ==
    /\ counts[s] < counts[s + 1] /\ Total(counts) - counts[s] <= limit
    /\ \A t \in Times : t >= s + Window => counts[t] = Total(counts)
    /\ \A t \in 0..s : s < t + Window =>
          /\ counts[s] - counts[t] < limit
          /\ t < s /\ Quiet(counts, t) => counts[s] = counts[t]
    /\ \A t \in 0..MaxNow : t + Window <= s => Bounded(counts, limit, t)

Fresh(counts, bucket) == bucket = NoBucket /\ \A t \in Times : counts[t] = 0

\* The bucket may have been pruned once the window has ended, not before.
Counting(counts, bucket, s) ==
    IF bucket = NoBucket THEN s + Window <= now
    ELSE bucket.resetAt = s + Window /\ bucket.count = Total(counts) - counts[s]

Metered(counts, limit, bucket) ==
    /\ Rises(counts)
    /\ \/ Fresh(counts, bucket)
       \/ \E s \in 0..now : Last(counts, limit, s) /\ Counting(counts, bucket, s)

Meters ==
    /\ granted \in [Endpoints -> [QuotaKeys -> [Times -> Nat]]]
    /\ \A e \in Endpoints, k \in QuotaKeys : limiters[e].perMinute > 0 =>
          Metered(granted[e][k], limiters[e].perMinute, limiters[e].buckets[k])

LEMMA LastBounds ==
  ASSUME NEW counts, NEW limit \in Nat \ {0}, now \in 0..MaxNow, Rises(counts),
         NEW s \in 0..now, Last(counts, limit, s), NEW t \in 0..MaxNow
  PROVE  Bounded(counts, limit, t)
<1> DEFINE end == IF t + Window \in Times THEN t + Window ELSE MaxNow + 1
<1>1. /\ Window \in Nat \ {0} /\ MaxNow \in Nat /\ t \in Times /\ s \in Times /\ MaxNow + 1 \in Times
      /\ end \in Times /\ \A u \in Times : counts[u] \in Nat
  BY EndpointAssumption DEF Times, Rises
<1>2. ThroughFrom(counts, t) = counts[end] - counts[t]
  BY DEF ThroughFrom, Through
<1> HIDE DEF end
<1>3. counts[end] <= Total(counts) /\ Total(counts) - counts[s] <= limit
  BY <1>1 DEF Rises, Last, Total, Times
<1>4. CASE t + Window <= s
  BY <1>4 DEF Last
<1>5. CASE t <= s /\ s < t + Window
  <2>1. counts[s] - counts[t] < limit /\ (t < s /\ Quiet(counts, t) => counts[s] = counts[t])
    BY <1>1, <1>5 DEF Last
  <2> QED
    BY <1>1, <1>2, <1>3, <1>5, <2>1 DEF Bounded, Total
<1>6. CASE s < t
  <2>1. counts[s] <= counts[t]
    BY <1>1, <1>6 DEF Rises
  <2> QED
    BY <1>1, <1>2, <1>3, <2>1 DEF Bounded, Total
<1> QED
  BY <1>1, <1>4, <1>5, <1>6

LEMMA OneMoreIs ==
  ASSUME NEW counts, now \in 0..MaxNow, Rises(counts)
  PROVE  /\ \A t \in Times : OneMore(counts)[t] = IF t > now THEN counts[t] + 1 ELSE counts[t]
         /\ Rises(OneMore(counts)) /\ Total(OneMore(counts)) = Total(counts) + 1
<1>1. MaxNow + 1 \in Times /\ MaxNow + 1 > now /\ MaxNow \in Nat
  BY EndpointAssumption DEF Times
<1>2. \A t \in Times : OneMore(counts)[t] = IF t > now THEN counts[t] + 1 ELSE counts[t]
  BY DEF OneMore
<1>3. \A t \in Times : counts[t] \in Nat /\ t \in Nat
  BY DEF Rises, Times
<1>4. OneMore(counts) \in [Times -> Nat]
  BY <1>3 DEF OneMore
<1>5. ASSUME NEW t \in Times, NEW u \in Times, t <= u
      PROVE  OneMore(counts)[t] <= OneMore(counts)[u]
  <2>1. counts[t] <= counts[u]
    BY <1>5 DEF Rises
  <2> QED
    BY <1>1, <1>2, <1>3, <1>5, <2>1
<1>6. Total(OneMore(counts)) = Total(counts) + 1
  BY <1>1, <1>2 DEF Total
<1>7. \A t \in Times : t > now => OneMore(counts)[t] = Total(OneMore(counts))
  BY <1>1, <1>2, <1>3, <1>6 DEF Rises
<1> QED
  BY <1>2, <1>4, <1>5, <1>6, <1>7 DEF Rises

\* What has been let through up to a time does not change with a request after it.
LEMMA PastStays ==
  ASSUME NEW counts, NEW limit \in Nat, now \in 0..MaxNow, Rises(counts), NEW t \in 0..MaxNow, t <= now
  PROVE  /\ Quiet(OneMore(counts), t) <=> Quiet(counts, t)
         /\ t + Window <= now => (Bounded(OneMore(counts), limit, t) <=> Bounded(counts, limit, t))
<1> DEFINE from == IF t < Window THEN 0 ELSE t - Window + 1
<1>1. /\ Window \in Nat \ {0} /\ MaxNow \in Nat /\ t \in Times /\ from \in Times /\ from <= t
  BY EndpointAssumption DEF Times
<1>2. OneMore(counts)[t] = counts[t] /\ OneMore(counts)[from] = counts[from]
  BY <1>1, OneMoreIs
<1>3. \A c : Quiet(c, t) <=> c[t] - c[from] = 0
  BY <1>1 DEF Quiet, Through
<1> HIDE DEF from
<1>4. Quiet(OneMore(counts), t) <=> Quiet(counts, t)
  BY <1>2, <1>3
<1>5. ASSUME t + Window <= now
      PROVE  Bounded(OneMore(counts), limit, t) <=> Bounded(counts, limit, t)
  <2>1. t + Window \in Times
    BY <1>1, <1>5 DEF Times
  <2>2. OneMore(counts)[t + Window] = counts[t + Window]
    BY <1>1, <1>5, <2>1, OneMoreIs
  <2>3. ThroughFrom(OneMore(counts), t) = ThroughFrom(counts, t)
    BY <1>2, <2>1, <2>2 DEF ThroughFrom, Through
  <2> QED
    BY <1>4, <2>3 DEF Bounded
<1> QED
  BY <1>4, <1>5

\* A request opens a window, when there was none or the last one has ended.
LEMMA Opening ==
  ASSUME NEW counts, NEW limit \in Nat \ {0}, now \in 0..MaxNow, Rises(counts),
         \/ \A t \in Times : counts[t] = 0
         \/ \E s \in 0..now : Last(counts, limit, s) /\ s + Window <= now
  PROVE  Last(OneMore(counts), limit, now)
<1> DEFINE more == OneMore(counts)
<1>1. /\ Window \in Nat \ {0} /\ MaxNow \in Nat /\ now \in Times /\ now + 1 \in Times
      /\ MaxNow + 1 \in Times /\ 0..now \subseteq Times /\ now \in Nat
      /\ \A t \in Times : t \in Nat /\ counts[t] \in Nat
  BY EndpointAssumption DEF Times, Rises
<1>2. /\ \A t \in Times : more[t] = IF t > now THEN counts[t] + 1 ELSE counts[t]
      /\ Total(more) = Total(counts) + 1 /\ Rises(more)
  BY OneMoreIs
<1>3. \A t \in 0..now : more[t] = counts[t]
  BY <1>1, <1>2
<1>4. \A t \in Times : t > now => more[t] = Total(more)
  BY <1>2 DEF Rises
<1>5. ASSUME NEW t \in 0..now, t + Window <= now, Bounded(counts, limit, t)
      PROVE  Bounded(more, limit, t)
  BY <1>1, <1>5, PastStays
<1> HIDE DEF more
<1>6. CASE \A t \in Times : counts[t] = 0
  <2>1. Total(counts) = 0
    BY <1>1, <1>6 DEF Total
  <2>2. \A t \in 0..now : more[t] = 0 /\ counts[t] = 0
    BY <1>1, <1>3, <1>6
  <2>3. more[now + 1] = 1 /\ more[now] = 0 /\ Total(more) = 1
    BY <1>1, <1>2, <1>4, <2>1, <2>2
  <2>4. \A t \in 0..MaxNow : t + Window <= now => Bounded(counts, limit, t)
    <3> SUFFICES ASSUME NEW t \in 0..MaxNow, t + Window <= now
                 PROVE  Bounded(counts, limit, t)
      OBVIOUS
    <3>1. t \in Times /\ t + Window \in Times
      BY <1>1 DEF Times
    <3>2. ThroughFrom(counts, t) = 0
      BY <1>1, <1>6, <3>1 DEF ThroughFrom, Through
    <3> QED
      BY <3>2 DEF Bounded
  <2>5. \A t \in 0..MaxNow : t + Window <= now => t \in 0..now
    BY <1>1
  <2>6. \A t \in 0..MaxNow : t + Window <= now => Bounded(more, limit, t)
    BY <1>5, <2>4, <2>5
  <2>7. more[now] < more[now + 1] /\ Total(more) - more[now] <= limit
    BY <2>3
  <2>8. \A t \in Times : t >= now + Window => more[t] = Total(more)
    BY <1>1, <1>4
  <2>9. \A t \in 0..now : more[now] - more[t] < limit /\ more[now] = more[t]
    BY <2>2, <2>3
  <2> QED
    BY <2>6, <2>7, <2>8, <2>9 DEF Last, more
<1>7. ASSUME NEW s \in 0..now, Last(counts, limit, s), s + Window <= now
      PROVE  Last(more, limit, now)
  <2>1. /\ s \in Times /\ s + 1 \in Times /\ counts[s] < counts[s + 1] /\ Total(counts) - counts[s] <= limit
        /\ \A t \in Times : t >= s + Window => counts[t] = Total(counts)
        /\ Total(counts) \in Nat
    BY <1>1, <1>7 DEF Last, Times, Total
  <2>2. counts[now] = Total(counts)
    BY <1>1, <1>7, <2>1
  <2>3. more[now] < more[now + 1] /\ Total(more) - more[now] <= limit
    BY <1>1, <1>2, <1>3, <1>4, <2>1, <2>2
  <2>4. \A t \in Times : t >= now + Window => more[t] = Total(more)
    BY <1>1, <1>4
  <2>5. ASSUME NEW t \in 0..now, now < t + Window
        PROVE  more[now] - more[t] < limit
    <3>1. counts[s + 1] <= counts[t] /\ counts[t] \in Nat
      BY <1>1, <1>7, <2>1, <2>5 DEF Rises
    <3> QED
      BY <1>1, <1>3, <2>1, <2>2, <3>1
  <2>6. ASSUME NEW t \in 0..now, t < now, now < t + Window, Quiet(more, t)
        PROVE  more[now] = more[t]
    <3> DEFINE from == IF t < Window THEN 0 ELSE t - Window + 1
    <3>1. from \in Times /\ t \in Times /\ t \in Nat /\ from \in 0..now
      BY <1>1, <2>6 DEF Times
    <3>2. more[t] = more[from]
      BY <1>1, <1>3, <2>6, <3>1 DEF Quiet, Through
    <3>3. counts[t] = counts[from] /\ s < t
      BY <1>1, <1>3, <1>7, <2>6, <3>1, <3>2
    <3>4. ~(from <= s)
      <4> SUFFICES ASSUME from <= s
                   PROVE  FALSE
        OBVIOUS
      <4>1. counts[from] <= counts[s] /\ counts[s + 1] <= counts[t]
        BY <1>1, <2>1, <3>1, <3>3 DEF Rises
      <4> HIDE DEF from
      <4> QED
        BY <1>1, <2>1, <3>1, <3>3, <4>1
    <3>5. s + Window <= t
      BY <1>1, <2>1, <3>1, <3>4
    <3> QED
      BY <1>1, <1>3, <2>1, <2>2, <3>1, <3>5
  <2>7. \A t \in 0..MaxNow : t + Window <= now => Bounded(more, limit, t)
    <3> SUFFICES ASSUME NEW t \in 0..MaxNow, t + Window <= now
                 PROVE  Bounded(more, limit, t)
      OBVIOUS
    <3>1. Bounded(counts, limit, t) /\ t \in 0..now
      BY <1>1, <1>7, LastBounds
    <3> QED
      BY <1>5, <3>1
  <2> QED
    BY <2>3, <2>4, <2>5, <2>6, <2>7 DEF Last
<1> QED
  BY <1>6, <1>7 DEF more

\* A request is counted in the window that has been opened.
LEMMA CountingOn ==
  ASSUME NEW counts, NEW limit \in Nat \ {0}, now \in 0..MaxNow, Rises(counts),
         NEW s \in 0..now, Last(counts, limit, s), now < s + Window,
         Total(counts) - counts[s] < limit
  PROVE  Last(OneMore(counts), limit, s) /\ OneMore(counts)[s] = counts[s]
<1> DEFINE more == OneMore(counts)
<1>1. /\ Window \in Nat \ {0} /\ MaxNow \in Nat /\ now \in Nat /\ s \in Times /\ s + 1 \in Times
      /\ MaxNow + 1 \in Times /\ 0..s \subseteq 0..now /\ 0..now \subseteq Times
      /\ \A t \in Times : t \in Nat /\ counts[t] \in Nat
  <2>1. Window \in Nat \ {0} /\ MaxNow \in Nat
    BY EndpointAssumption
  <2>2. now \in Nat /\ s \in Nat /\ s <= now /\ now <= MaxNow
    BY <2>1
  <2>3. \A t \in Times : t \in Nat /\ counts[t] \in Nat
    BY DEF Times, Rises
  <2> QED
    BY <2>1, <2>2, <2>3 DEF Times
<1>2. /\ \A t \in Times : more[t] = IF t > now THEN counts[t] + 1 ELSE counts[t]
      /\ Total(more) = Total(counts) + 1 /\ Total(counts) \in Nat
  BY <1>1, OneMoreIs DEF Total
<1>3. \A t \in 0..now : more[t] = counts[t]
  BY <1>1, <1>2
<1>4. \A t \in 0..now : Quiet(more, t) <=> Quiet(counts, t)
  <2> SUFFICES ASSUME NEW t \in 0..now
               PROVE  Quiet(more, t) <=> Quiet(counts, t)
    OBVIOUS
  <2>1. t \in 0..MaxNow /\ t <= now
    BY <1>1
  <2> QED
    BY <2>1, PastStays
<1>5. ASSUME NEW t \in 0..MaxNow, t + Window <= s
      PROVE  Bounded(more, limit, t)
  <2>1. t <= now /\ t + Window <= now /\ Bounded(counts, limit, t)
    BY <1>1, <1>5 DEF Last
  <2> QED
    BY <2>1, PastStays
<1> HIDE DEF more
<1>6. more[s] < more[s + 1] /\ Total(more) - more[s] <= limit
  BY <1>1, <1>2 DEF Last
<1>7. \A t \in Times : t >= s + Window => more[t] = Total(more)
  BY <1>1, <1>2 DEF Last
<1>8. \A t \in 0..s : s < t + Window => /\ more[s] - more[t] < limit
                                        /\ t < s /\ Quiet(more, t) => more[s] = more[t]
  BY <1>1, <1>3, <1>4 DEF Last
<1> QED
  BY <1>1, <1>3, <1>5, <1>6, <1>7, <1>8 DEF Last, more

-----------------------------------------------------------------------------
(***************************************************************************)
(* The steps: of the check, of the limiters, and of time.                  *)
(***************************************************************************)
LEMMA PrunedMeters ==
  ASSUME NEW counts, NEW limit, NEW bucket \in Bucket, now \in 0..MaxNow, Metered(counts, limit, bucket)
  PROVE  Metered(counts, limit, IF bucket.resetAt <= now THEN NoBucket ELSE bucket)
<1>1. /\ \A s \in 0..now : s \in Nat /\ s + Window > 0
      /\ NoBucket.resetAt = 0 /\ 0 <= now /\ Window \in Nat
  BY EndpointAssumption DEF NoBucket
<1> QED
  BY <1>1 DEF Metered, Fresh, Counting, Bucket

LEMMA CountedMeters ==
  ASSUME NEW counts, NEW limit \in Nat \ {0}, NEW bucket \in Bucket, now \in 0..MaxNow,
         Metered(counts, limit, bucket), Passes(bucket, limit)
  PROVE  Metered(OneMore(counts), limit, Counted(bucket))
<1>1. Rises(counts) /\ Rises(OneMore(counts)) /\ Total(OneMore(counts)) = Total(counts) + 1
  BY OneMoreIs DEF Metered
<1>2. /\ Window \in Nat \ {0} /\ MaxNow \in Nat /\ now \in Nat /\ now \in Times /\ MaxNow + 1 \in Times
      /\ \A t \in Times : counts[t] \in Nat /\ OneMore(counts)[t] \in Nat
  BY <1>1, EndpointAssumption DEF Times, Rises
<1>3. CASE Open(bucket)
  <2>1. Counted(bucket).count = 1 /\ Counted(bucket).resetAt = now + Window /\ Counted(bucket) # NoBucket
    BY <1>2, <1>3 DEF Counted, NoBucket
  <2>2. \/ \A t \in Times : counts[t] = 0
        \/ \E s \in 0..now : Last(counts, limit, s) /\ s + Window <= now
    BY <1>3 DEF Metered, Fresh, Counting, Open
  <2>3. Last(OneMore(counts), limit, now)
    BY <1>1, <2>2, Opening
  <2>4. Total(counts) = counts[now]
    <3>1. CASE \A t \in Times : counts[t] = 0
      BY <1>2, <3>1 DEF Total
    <3>2. CASE \E s \in 0..now : Last(counts, limit, s) /\ s + Window <= now
      BY <1>2, <3>2 DEF Last
    <3> QED
      BY <2>2, <3>1, <3>2
  <2>5. OneMore(counts)[now] = counts[now]
    BY <1>1, <1>2, OneMoreIs
  <2>6. Counting(OneMore(counts), Counted(bucket), now)
    BY <1>1, <1>2, <2>1, <2>4, <2>5 DEF Counting
  <2>7. now \in 0..now
    BY <1>2
  <2> QED
    BY <1>1, <2>3, <2>6, <2>7 DEF Metered
<1>4. CASE ~Open(bucket)
  <2>1. bucket # NoBucket /\ now < bucket.resetAt /\ bucket.count < limit
    BY <1>2, <1>4 DEF Open, Passes, Bucket
  <2>2. PICK s \in 0..now : Last(counts, limit, s) /\ Counting(counts, bucket, s)
    BY <2>1 DEF Metered, Fresh
  <2>3. bucket.resetAt = s + Window /\ bucket.count = Total(counts) - counts[s]
    BY <2>1, <2>2 DEF Counting
  <2>4. Last(OneMore(counts), limit, s) /\ OneMore(counts)[s] = counts[s]
    BY <1>1, <2>1, <2>2, <2>3, CountingOn
  <2>5. Counted(bucket).count = bucket.count + 1 /\ Counted(bucket).resetAt = bucket.resetAt
    BY <1>4 DEF Counted, Bucket
  <2>6. Counted(bucket) # NoBucket
    BY <1>2, <2>1, <2>5 DEF NoBucket, Bucket
  <2>7. s \in Times /\ Total(counts) \in Nat
    BY <1>2 DEF Times, Total
  <2>8. Counting(OneMore(counts), Counted(bucket), s)
    BY <1>1, <1>2, <2>3, <2>4, <2>5, <2>6, <2>7 DEF Counting
  <2> QED
    BY <1>1, <2>4, <2>8 DEF Metered
<1> QED
  BY <1>3, <1>4

LEMMA FreshMeters ==
  ASSUME NEW limit, now \in 0..MaxNow, NEW k \in QuotaKeys
  PROVE  /\ NoneGranted \in [QuotaKeys -> [Times -> Nat]]
         /\ Metered(NoneGranted[k], limit, NoLimiter.buckets[k])
<1>1. NoneGranted[k] = [t \in Times |-> 0] /\ NoLimiter.buckets[k] = NoBucket
  BY DEF NoneGranted, NoLimiter
<1>2. MaxNow + 1 \in Times
  BY EndpointAssumption DEF Times
<1>3. Rises(NoneGranted[k]) /\ Fresh(NoneGranted[k], NoLimiter.buckets[k])
  BY <1>1, <1>2 DEF Rises, Fresh, Total
<1>4. NoneGranted \in [QuotaKeys -> [Times -> Nat]]
  BY DEF NoneGranted
<1> QED
  BY <1>3, <1>4 DEF Metered

LEMMA CheckMeters ==
  ASSUME Typed, Meters, NEW e \in Endpoints, NEW limit \in Limits \cup {0}, NEW k \in QuotaKeys
  PROVE  LET checked == Check(e, limit, k)
         IN  /\ checked.granted \in [QuotaKeys -> [Times -> Nat]]
             /\ checked.limiter.perMinute > 0 => \A j \in QuotaKeys :
                   Metered(checked.granted[j], checked.limiter.perMinute, checked.limiter.buckets[j])
<1>1. CASE limit = 0
  <2>1. Check(e, limit, k).granted = NoneGranted /\ Check(e, limit, k).limiter.perMinute = 0
    BY <1>1 DEF Check, NoLimiter
  <2>2. NoneGranted \in [QuotaKeys -> [Times -> Nat]]
    BY DEF NoneGranted
  <2> QED
    BY <2>1, <2>2
<1>2. CASE limit # 0
  <2> DEFINE same == limiters[e].perMinute = limit
             ops == ((IF same THEN limiters[e].ops ELSE 0) + 1) % PruneEvery
             kept == IF same THEN limiters[e].buckets ELSE NoLimiter.buckets
             buckets == IF ops = 0 THEN Pruned(kept) ELSE kept
             after == IF Passes(buckets[k], limit) THEN [buckets EXCEPT ![k] = Counted(@)] ELSE buckets
             last == IF same THEN granted[e] ELSE NoneGranted
             through == IF Passes(buckets[k], limit) THEN [last EXCEPT ![k] = OneMore(@)] ELSE last
  <2>1. limiters[e] \in Limiter /\ Within(limiters[e]) /\ limit \in Nat \ {0} /\ now \in 0..MaxNow
    BY <1>2, EndpointAssumption DEF Typed, Limiters, Counts
  <2>2. kept \in [QuotaKeys -> Bucket]
    BY <2>1, Empties DEF Limiter, NoLimiter
  <2>3. /\ last \in [QuotaKeys -> [Times -> Nat]]
        /\ \A j \in QuotaKeys : Metered(last[j], limit, kept[j])
    <3>1. CASE same
      <4>1. last = granted[e] /\ kept = limiters[e].buckets /\ limiters[e].perMinute = limit /\ limit > 0
        BY <2>1, <3>1
      <4> QED
        BY <4>1 DEF Meters
    <3>2. CASE ~same
      <4>1. last = NoneGranted /\ kept = NoLimiter.buckets
        BY <3>2
      <4> QED
        BY <2>1, <4>1, FreshMeters
    <3> QED
      BY <3>1, <3>2
  <2> HIDE DEF kept, last, ops
  <2>4. buckets \in [QuotaKeys -> Bucket]
    BY <2>2, PrunedTyped
  <2>5. \A j \in QuotaKeys : Metered(last[j], limit, buckets[j])
    <3> SUFFICES ASSUME NEW j \in QuotaKeys
                 PROVE  Metered(last[j], limit, buckets[j])
      OBVIOUS
    <3>1. Metered(last[j], limit, Pruned(kept)[j])
      BY <2>1, <2>2, <2>3, PrunedMeters DEF Pruned
    <3> QED
      BY <2>3, <3>1
  <2> HIDE DEF buckets
  <2> DEFINE Done == /\ through \in [QuotaKeys -> [Times -> Nat]]
                     /\ \A j \in QuotaKeys : Metered(through[j], limit, after[j])
  <2>6. ASSUME Passes(buckets[k], limit)
        PROVE  Done
    <3>1. after = [buckets EXCEPT ![k] = Counted(@)] /\ through = [last EXCEPT ![k] = OneMore(@)]
      BY <2>6
    <3>2. Metered(OneMore(last[k]), limit, Counted(buckets[k]))
      BY <2>1, <2>4, <2>5, <2>6, CountedMeters
    <3>3. OneMore(last[k]) \in [Times -> Nat]
      BY <3>2 DEF Metered, Rises
    <3>4. through \in [QuotaKeys -> [Times -> Nat]]
      BY <2>3, <3>1, <3>3
    <3>5. ASSUME NEW j \in QuotaKeys
          PROVE  Metered(through[j], limit, after[j])
      <4>1. CASE j = k
        <5>1. through[j] = OneMore(last[k]) /\ after[j] = Counted(buckets[k])
          BY <2>3, <2>4, <3>1, <4>1
        <5> QED
          BY <3>2, <5>1
      <4>2. CASE j # k
        <5>1. through[j] = last[j] /\ after[j] = buckets[j]
          BY <2>3, <2>4, <3>1, <4>2
        <5> QED
          BY <2>5, <5>1
      <4> QED
        BY <4>1, <4>2
    <3> QED
      BY <3>4, <3>5
  <2>7. ASSUME ~Passes(buckets[k], limit)
        PROVE  Done
    <3>1. after = buckets /\ through = last
      BY <2>7
    <3> QED
      BY <2>3, <2>5, <3>1
  <2>8. Done
    BY <2>6, <2>7
  <2> HIDE DEF after, through
  <2>9. /\ Check(e, limit, k).limiter = [perMinute |-> limit, ops |-> ops, buckets |-> after]
        /\ Check(e, limit, k).granted = through
    BY <1>2 DEF Check, kept, ops, buckets, after, last, through
  <2> QED
    BY <2>8, <2>9
<1> QED
  BY <1>1, <1>2

\* The limiters change when somebody is admitted, and then time stands still.
LEMMA LimitsSteps ==
  ASSUME Inv, [Next]_vars
  PROVE  \/ UNCHANGED limits /\ now' \in 0..MaxNow /\ now <= now'
         \/ UNCHANGED now /\ \E e \in Endpoints, limit \in Limits \cup {0}, k \in QuotaKeys :
               /\ limiters' = [limiters EXCEPT ![e] = Check(e, limit, k).limiter]
               /\ granted' = [granted EXCEPT ![e] = Check(e, limit, k).granted]
<1> DEFINE Goal == \/ UNCHANGED limits /\ now' \in 0..MaxNow /\ now <= now'
                   \/ UNCHANGED now /\ \E e \in Endpoints, limit \in Limits \cup {0}, k \in QuotaKeys :
                         /\ limiters' = [limiters EXCEPT ![e] = Check(e, limit, k).limiter]
                         /\ granted' = [granted EXCEPT ![e] = Check(e, limit, k).granted]
<1>1. now \in 0..MaxNow /\ MaxNow \in Nat
  BY EndpointAssumption DEF Inv, Typed, Counts
<1>2. ASSUME NEW q \in Requests, NEW r \in Request, NEW k \in QuotaKeys, Admit(q, r, k),
             r.endpoint \in Endpoints, UNCHANGED now
      PROVE  Goal
  BY <1>2 DEF Admit, Request
<1>3. ASSUME UNCHANGED limits, UNCHANGED now
      PROVE  Goal
  BY <1>1, <1>3
<1>4. ASSUME NEW q \in Requests, ArriveOpen(q)
      PROVE  Goal
  <2>1. PICK slug \in Slugs : \E e \in BySlug(slug) : Admit(q, Read(slug, Nothing, e), Address)
    BY <1>4 DEF ArriveOpen
  <2>2. PICK e \in BySlug(slug) : Admit(q, Read(slug, Nothing, e), Address)
    BY <2>1
  <2>3. Nothing \in Credentials /\ Address \in QuotaKeys
    BY DEF Credentials, QuotaKeys
  <2>4. /\ Read(slug, Nothing, e) \in Request
        /\ Read(slug, Nothing, e).endpoint \in Endpoints
    BY <2>3, ReadTyped
  <2> QED
    BY <1>2, <1>4, <2>2, <2>3, <2>4 DEF ArriveOpen
<1>5. ASSUME NEW q \in Requests, KeyVerified(q) \/ TokenVerified(q)
      PROVE  Goal
  <2>1. PICK r \in Request : r = req[q]
    BY Of
  <2>2. r.at \in Waiting
    BY <1>5, <2>1 DEF KeyVerified, TokenVerified, Waiting
  <2>3. r.endpoint \in Endpoints /\ r.cred \in QuotaKeys
    BY <2>1, <2>2, Of DEF Arrived, Request, Credentials, QuotaKeys
  <2>4. UNCHANGED now /\ (UNCHANGED limits \/ Admit(q, r, r.cred))
    BY <1>5, <2>1 DEF KeyVerified, TokenVerified, Refuse, Reject
  <2> QED
    BY <1>2, <1>3, <2>3, <2>4
<1>6. ASSUME NEW q \in Requests, ArriveInVain(q) \/ Arrive(q) \/ AskIssuer(q) \/ IssuerFails(q)
      PROVE  Goal
  BY <1>3, <1>6 DEF ArriveInVain, Arrive, AskIssuer, IssuerFails, Refuse, Reject
<1>7. CASE IssuerAnswers \/ UNCHANGED vars
  BY <1>3, <1>7 DEF IssuerAnswers, vars
<1>8. CASE Admin
  BY <1>3, <1>8 DEF Admin, CreateEndpoint, PatchEndpoint, DeleteEndpoint, CreateKey, InsertKey,
     DeleteKey, Aside
<1>9. CASE Tick
  BY <1>1, <1>9 DEF Tick
<1> QED
  BY <1>4, <1>5, <1>6, <1>7, <1>8, <1>9 DEF Next

LEMMA MetersInit == Init => Meters
<1> SUFFICES ASSUME Init
             PROVE  Meters
  OBVIOUS
<1>1. now \in 0..MaxNow
  BY EndpointAssumption DEF Init
<1>2. \A e \in Endpoints : granted[e] = NoneGranted /\ limiters[e].perMinute = 0
  BY DEF Init, NoLimiter
<1>3. NoneGranted \in [QuotaKeys -> [Times -> Nat]]
  BY DEF NoneGranted
<1>4. granted \in [Endpoints -> [QuotaKeys -> [Times -> Nat]]]
  BY <1>3 DEF Init
<1> QED
  BY <1>2, <1>4 DEF Meters

LEMMA MetersNext == Inv /\ Meters /\ [Next]_vars => Meters'
<1> SUFFICES ASSUME Inv, Meters, [Next]_vars
             PROVE  Meters'
  OBVIOUS
<1>1. CASE UNCHANGED limits /\ now' \in 0..MaxNow /\ now <= now'
  <2>1. ASSUME NEW counts, NEW limit, NEW bucket, Metered(counts, limit, bucket)
        PROVE  Metered(counts, limit, bucket)'
    <3>1. Rises(counts)'
      BY <1>1, <2>1 DEF Metered, Rises, Times, Inv, Typed, Counts
    <3>2. Fresh(counts, bucket) => Fresh(counts, bucket)'
      BY DEF Fresh
    <3>3. ASSUME NEW s \in 0..now, Last(counts, limit, s), Counting(counts, bucket, s)
          PROVE  s \in 0..now' /\ Last(counts, limit, s)' /\ Counting(counts, bucket, s)'
      <4>1. s \in 0..now' /\ now \in Nat /\ now' \in Nat /\ s + Window \in Nat
        BY <1>1, EndpointAssumption DEF Inv, Typed, Counts
      <4> QED
        BY <1>1, <3>3, <4>1 DEF Last, Counting
    <3> QED
      BY <2>1, <3>1, <3>2, <3>3 DEF Metered
  <2>2. limiters' = limiters /\ granted' = granted
    BY <1>1 DEF limits
  <2>3. ASSUME NEW e \in Endpoints, NEW k \in QuotaKeys, limiters'[e].perMinute > 0
        PROVE  Metered(granted[e][k], limiters[e].perMinute, limiters[e].buckets[k])'
    <3>1. PICK counts, limit, bucket : /\ counts = granted[e][k] /\ limit = limiters[e].perMinute
                                       /\ bucket = limiters[e].buckets[k]
      OBVIOUS
    <3>2. Metered(counts, limit, bucket)'
      BY <2>1, <2>2, <2>3, <3>1 DEF Meters
    <3>3. counts = granted'[e][k] /\ limit = limiters'[e].perMinute /\ bucket = limiters'[e].buckets[k]
      BY <2>2, <3>1
    <3> QED
      BY <3>2, <3>3
  <2> QED
    BY <2>2, <2>3 DEF Meters
<1>2. ASSUME UNCHANGED now, NEW e \in Endpoints, NEW limit \in Limits \cup {0}, NEW k \in QuotaKeys,
             limiters' = [limiters EXCEPT ![e] = Check(e, limit, k).limiter],
             granted' = [granted EXCEPT ![e] = Check(e, limit, k).granted]
      PROVE  Meters'
  <2>1. PICK checked : checked = Check(e, limit, k)
    OBVIOUS
  <2>2. /\ checked.granted \in [QuotaKeys -> [Times -> Nat]]
        /\ checked.limiter.perMinute > 0 => \A j \in QuotaKeys :
              Metered(checked.granted[j], checked.limiter.perMinute, checked.limiter.buckets[j])
    BY <2>1, CheckMeters DEF Inv
  <2>3. ASSUME NEW f \in Endpoints, NEW j \in QuotaKeys, limiters'[f].perMinute > 0
        PROVE  Metered(granted'[f][j], limiters'[f].perMinute, limiters'[f].buckets[j])
    <3>1. CASE f = e
      <4>1. granted'[f] = checked.granted /\ limiters'[f] = checked.limiter
        BY <1>2, <2>1, <3>1 DEF Meters, Inv, Typed, Limiters
      <4> QED
        BY <2>2, <2>3, <4>1
    <3>2. CASE f # e
      <4>1. granted'[f] = granted[f] /\ limiters'[f] = limiters[f]
        BY <1>2, <3>2 DEF Meters, Inv, Typed, Limiters
      <4> QED
        BY <2>3, <4>1 DEF Meters
    <3> QED
      BY <3>1, <3>2
  <2>4. ASSUME NEW counts, NEW upTo, NEW bucket, Metered(counts, upTo, bucket)
        PROVE  Metered(counts, upTo, bucket)'
    BY <1>2, <2>4 DEF Metered, Rises, Fresh, Last, Counting
  <2>5. ASSUME NEW f \in Endpoints, NEW j \in QuotaKeys, limiters'[f].perMinute > 0
        PROVE  Metered(granted[f][j], limiters[f].perMinute, limiters[f].buckets[j])'
    <3>1. PICK counts, upTo, bucket : /\ counts = granted'[f][j] /\ upTo = limiters'[f].perMinute
                                      /\ bucket = limiters'[f].buckets[j]
      OBVIOUS
    <3>2. Metered(counts, upTo, bucket)'
      BY <2>3, <2>4, <2>5, <3>1
    <3> QED
      BY <3>1, <3>2
  <2> QED
    BY <1>2, <2>1, <2>2, <2>5 DEF Meters
<1> QED
  BY <1>1, <1>2, LimitsSteps

\* WithinTheLimit, for any number of endpoints and keys, any window and limits, however
\* often the buckets are pruned: a limiter lets at most its limit through in the window
\* after a quiet one, and less than twice as many in any.
THEOREM RateLimit == Spec => []WithinTheLimit
<1>1. Inv /\ Meters => WithinTheLimit
  <2> SUFFICES ASSUME Inv, Meters, NEW e \in Endpoints, NEW k \in QuotaKeys, NEW t \in 0..MaxNow,
                      limiters[e].perMinute > 0
               PROVE  Bounded(granted[e][k], limiters[e].perMinute, t)
    BY DEF WithinTheLimit
  <2>1. now \in 0..MaxNow /\ limiters[e].perMinute \in Nat \ {0}
    <3>1. limiters[e].perMinute \in Limits \cup {0}
      BY DEF Inv, Typed, Limiters, Limiter
    <3>2. Limits \subseteq Nat
      BY EndpointAssumption
    <3>3. limiters[e].perMinute \in Nat
      <4>1. \A limit \in Limits \cup {0} : limit \in Nat
        BY <3>2
      <4> QED
        BY <3>1, <4>1
    <3>4. now \in 0..MaxNow
      BY DEF Inv, Typed, Counts
    <3> QED
      BY <3>3, <3>4
  <2>2. PICK counts, limit, bucket : /\ counts = granted[e][k] /\ limit = limiters[e].perMinute
                                     /\ bucket = limiters[e].buckets[k]
    OBVIOUS
  <2>3. Metered(counts, limit, bucket)
    BY <2>2 DEF Meters
  <2>4. CASE \E s \in 0..now : Last(counts, limit, s)
    BY <2>1, <2>2, <2>3, <2>4, LastBounds DEF Metered
  <2>5. CASE \A u \in Times : counts[u] = 0
    <3>1. t \in Times /\ MaxNow + 1 \in Times
      BY EndpointAssumption DEF Times
    <3> DEFINE end == IF t + Window \in Times THEN t + Window ELSE MaxNow + 1
    <3>2. counts[end] = 0 /\ counts[t] = 0
      BY <2>5, <3>1
    <3>3. ThroughFrom(counts, t) = 0
      BY <3>2 DEF ThroughFrom, Through
    <3> QED
      BY <2>1, <2>2, <3>3 DEF Bounded
  <2> QED
    BY <2>3, <2>4, <2>5 DEF Metered, Fresh
<1> QED
  BY <1>1, MetersInit, MetersNext, InitInv, NextInv, PTL DEF Spec

=================================================================================
